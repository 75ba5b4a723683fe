SPECIFICATION FairSpec
CONSTANTS
  MaxBytes = 1
  MaxBreaks = 1
PROPERTY NegotiationSettles
CHECK_DEADLOCK FALSE
