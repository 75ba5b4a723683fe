\* A hello that comes before the old connection is seen to close.
SPECIFICATION FairSpec
CONSTANTS
  Sizes = {1}
  MaxBytes <- OneAndNone
  MaxReplay = 2
  MaxGeneration = 1
  Faults = 1
  Supersede = TRUE
  Goodbyes = FALSE
  LossWhileOpening = FALSE
PROPERTIES
  EndsTogether
CHECK_DEADLOCK FALSE
