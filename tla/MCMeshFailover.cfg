SPECIFICATION Spec
CONSTANTS
    w1 = w1 w2 = w2 w3 = w3
    Jobs = {j1}
    Workers = {w1, w2, w3}
    Sessions = {s1}
    Keys = {}
    Tokens = {a, b}
    MaxTokens = 2
    MaxStandby = 2
    MaxConcurrency = 1
    Stages <- NoStages
    NoJob = NoJob NoKey = NoKey NoWorker = NoWorker
INVARIANTS SplicedStream ClientSeesOneStream NoSecondOffer SilenceIsWatched
SYMMETRY FailoverSymmetry
