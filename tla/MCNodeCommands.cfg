SPECIFICATION FairSpec
CONSTANTS
    MaxCommands = 2
    Kinds = {"resume", "set-limits", "update-dev", "revoke", "uninstall"}
    MaxFaults = 1
    KeepAlive = TRUE
INVARIANTS TypeOK ReportsAreTrue
PROPERTIES IsLedger CommandsClose Settles
CHECK_DEADLOCK FALSE
