SPECIFICATION FairSpec
CONSTANTS
    N = 2
    MaxCuts = 1
    MaxLosses = 0
PROPERTY NoStageOutlivesLaunch
CHECK_DEADLOCK FALSE
