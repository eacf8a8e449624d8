SPECIFICATION Spec
CONSTANTS
  Scope <- MCScope
  External = {"A/1", "A-1", "B"}
  IdOf <- MCIdOf
  Request <- MCRequest
  Absent = Absent
  Idle = Idle
  MaxRequests = 3
  MaxFaults = 2
CHECK_DEADLOCK FALSE
INVARIANTS
  CountsMatch
  ImportsKept
