SPECIFICATION Spec
CONSTANTS
  MaxBytes = 1
  MaxBreaks = 0
PROPERTY RelayIsUndisturbed
CHECK_DEADLOCK FALSE
