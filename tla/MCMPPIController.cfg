CONSTANTS
    NumCritics = 3
    Vetoing = {2}
    Settings <- MCSettings
    Limits <- MCLimits
    NoArg = NoArg
SPECIFICATION FairSpec
INVARIANTS TypeOK FailedSequenceDiscarded CostsOfOwnRollouts ShapesAgree ConstraintsCurrent
PROPERTIES Serves ComputeReturns
