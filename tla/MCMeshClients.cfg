SPECIFICATION FairSpec
CONSTANTS
    w1 = w1 w2 = w2 w3 = w3
    Jobs = {j1, j2}
    Workers = {w1}
    Sessions = {s1}
    Keys = {k1}
    Tokens = {a}
    MaxTokens = 1
    MaxStandby = 1
    MaxConcurrency = 1
    Stages <- NoStages
    NoJob = NoJob NoKey = NoKey NoWorker = NoWorker
INVARIANTS RuntimesMatchRows
PROPERTIES EndingsAreFinal JobsEnd
