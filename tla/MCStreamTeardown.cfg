\* Three bytes in pieces of one or two, beyond what the replay buffer holds, and
\* one loss, whose close is seen before the next hello.
SPECIFICATION FairSpec
CONSTANTS
  Sizes = {1, 2}
  MaxBytes <- ThreeAndNone
  MaxReplay = 2
  MaxGeneration = 1
  Faults = 1
  Supersede = FALSE
  Goodbyes = FALSE
  LossWhileOpening = FALSE
INVARIANTS
  TypeOK
  ReplayIsExact
PROPERTIES
  EndsTogether
  BytesArrive
CHECK_DEADLOCK FALSE
