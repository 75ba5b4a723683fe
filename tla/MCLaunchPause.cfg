SPECIFICATION FairSpec
CONSTANTS
    N = 2
    MaxCuts = 0
    MaxLosses = 1
PROPERTY StageDeathIsDetected
CHECK_DEADLOCK FALSE
