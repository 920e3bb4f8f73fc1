\* The stop handshake of the thread.
CONSTANTS
    Shapes = {s1}
    DynamicRegenerate = FALSE
    NoArg = NoArg
SPECIFICATION FairSpec
PROPERTY ShutdownTerminates
