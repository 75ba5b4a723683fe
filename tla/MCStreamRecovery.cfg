\* Two losses, goodbyes or early hellos once the stream is open, also during a
\* recovery; the second resumption is beyond the last generation.
SPECIFICATION Spec
CONSTANTS
  Sizes = {1}
  MaxBytes <- TwoAndNone
  MaxReplay = 2
  MaxGeneration = 1
  Faults = 2
  Supersede = TRUE
  Goodbyes = TRUE
  LossWhileOpening = FALSE
PROPERTY
  IsPipe
CHECK_DEADLOCK FALSE
