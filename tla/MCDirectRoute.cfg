\* Two bytes, one WebSocket break at any moment.
SPECIFICATION FairSpec
CONSTANTS
  MaxBytes = 2
  MaxBreaks = 1
INVARIANTS SourceFollowsDestination BytesInOrder
PROPERTIES NegotiationIsDecided RouteIsReleased
CHECK_DEADLOCK FALSE
