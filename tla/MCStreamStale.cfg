\* A second loss during a recovery.
SPECIFICATION FairSpec
CONSTANTS
  Sizes = {1}
  MaxBytes <- OneAndNone
  MaxReplay = 2
  MaxGeneration = 1
  Faults = 2
  Supersede = FALSE
  Goodbyes = FALSE
  LossWhileOpening = FALSE
PROPERTIES
  EndsTogether
CHECK_DEADLOCK FALSE
