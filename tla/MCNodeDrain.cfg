SPECIFICATION Spec
CONSTANTS
    MaxCommands = 1
    Kinds = {"update"}
    MaxFaults = 0
    KeepAlive = TRUE
INVARIANT DrainIsRecorded
CHECK_DEADLOCK FALSE
