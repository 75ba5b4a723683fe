SPECIFICATION Spec
CONSTANTS
    N = 2
    MaxCuts = 1
    MaxLosses = 1
PROPERTY StopsInReverse
CHECK_DEADLOCK FALSE
