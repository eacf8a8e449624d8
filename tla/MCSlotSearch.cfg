SPECIFICATION SearchSpec
CONSTANTS
  Daypart <- MCDaypart
  DayLength = 6
  DaypartFrom <- MCDaypartFrom
  DaypartTo <- MCDaypartTo
  Calls <- MCCalls
  NoSlot = NoSlot
INVARIANTS
  CandidatesFree
  EarliestFit
  AgreesWithFindSlots
CHECK_DEADLOCK FALSE
