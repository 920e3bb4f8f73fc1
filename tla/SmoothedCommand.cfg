CONSTANTS
    Configs <- MCConfigs
    Averages <- MCAverages
    SpeedLimits <- MCNoLimit
    MaxSteps = 21
    MaxCalls = 4
SPECIFICATION Spec
INVARIANT CommandWithinLimits
