SPECIFICATION ThrottleSpec
CONSTANTS
  Span = 3
  Limit = 3
  MaxRows = 2
  Horizon = 9
  NoWindow = NoWindow
CHECK_DEADLOCK FALSE
INVARIANTS
  AtMostTwice
  LockedForCause
