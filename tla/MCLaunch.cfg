SPECIFICATION FairSpec
CONSTANTS
    N = 2
    MaxCuts = 1
    MaxLosses = 1
PROPERTIES NoStartAfterAbort LaunchSettles DeadStageEndsLaunch StagesAreReaped
CHECK_DEADLOCK FALSE
