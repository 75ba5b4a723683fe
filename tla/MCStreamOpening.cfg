\* A loss while the stream is being opened.
SPECIFICATION Spec
CONSTANTS
  Sizes = {1}
  MaxBytes <- OneAndNone
  MaxReplay = 2
  MaxGeneration = 1
  Faults = 1
  Supersede = FALSE
  Goodbyes = FALSE
  LossWhileOpening = TRUE
PROPERTIES
  IsPipe
CHECK_DEADLOCK FALSE
