SPECIFICATION Spec
CONSTANTS
    MaxCommands = 1
    Kinds = {"pause"}
    MaxFaults = 1
    KeepAlive = TRUE
INVARIANT ExpiredIsUnapplied
CHECK_DEADLOCK FALSE
