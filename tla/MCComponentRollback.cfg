SPECIFICATION Spec
CONSTANTS
    Manifests = {1, 2, 3}
    Artifacts = {1, 2}
    Artifact <- MCArtifact
    MaxInstalls = 4
    MaxCommands = 3
    MaxFaults = 1
INVARIANT
    RollbackIsAppliedOnce
CHECK_DEADLOCK FALSE
