SPECIFICATION Spec
CONSTANTS
  None = None
  Daypart <- MCDaypart
  DayLength = 6
  DaypartFrom <- MCDaypartFrom
  DaypartTo <- MCDaypartTo
  DefaultMinimum = 1
  Requests <- MCRequests
  Batches <- MCBatches
INVARIANTS
  NoDoubleBooking
  WithinLimits
  UniqueBlockIds
  EveryTaskOnce
  OrderFollowsDependencies
PROPERTIES
  KeepsItsPromise
  Terminates
CHECK_DEADLOCK FALSE
