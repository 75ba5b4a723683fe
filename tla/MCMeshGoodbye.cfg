SPECIFICATION TwoClientsSpec
CONSTANTS
    w1 = w1 w2 = w2 w3 = w3
    Jobs = {j1, j2}
    Workers = {w1, w2}
    Sessions = {s1, s2}
    Keys = {}
    Tokens = {a}
    MaxTokens = 1
    MaxStandby = 1
    MaxConcurrency = 1
    Stages <- PipelineStages
    NoJob = NoJob NoKey = NoKey NoWorker = NoWorker
INVARIANTS StagesAreAttached
SYMMETRY ClientSymmetry
