SPECIFICATION FairSpec
CONSTANTS
    Manifests = {1, 2, 3}
    Artifacts = {1, 2}
    Artifact <- MCArtifact
    MaxInstalls = 4
    MaxCommands = 4
    MaxFaults = 2
INVARIANTS
    ReferencedRootsSurvive
    UnprovenIsGuarded
    NoBootLoop
PROPERTIES
    NodeComesUp
CHECK_DEADLOCK FALSE
