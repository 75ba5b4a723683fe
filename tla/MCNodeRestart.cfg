SPECIFICATION FairSpec
CONSTANTS
    MaxCommands = 1
    Kinds = {"set-limits"}
    MaxFaults = 0
    KeepAlive = FALSE
PROPERTY ComesBack
CHECK_DEADLOCK FALSE
