CONSTANTS
    Configs <- MCConfigs
    Averages <- MCAverages
    SpeedLimits <- MCSpeedLimits
    MaxSteps = 21
    MaxCalls = 4
SPECIFICATION Spec
INVARIANTS Feasible OvershootBounded HistoryIsSent
