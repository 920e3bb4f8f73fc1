CONSTANTS
    NumCritics = 3
    Vetoing = {2}
    Settings <- MCSettings
    Limits <- MCLimits
    NoArg = NoArg
SPECIFICATION Spec
INVARIANT RetryScored
