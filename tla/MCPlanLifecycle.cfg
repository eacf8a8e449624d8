SPECIFICATION Spec
CONSTANTS
  Daypart <- MCDaypart
  DayLength = 1
  DaypartFrom <- MCOffsets
  DaypartTo <- MCOffsets
  Task <- MCTask
  Pieces <- MCPieces
  PlanId <- MCPlanId
  PlanRange <- MCPlanRange
  Calendar = {"work"}
  EventId <- MCEventId
  OtherEvents <- MCOtherEvents
  MoveTargets <- MCMoveTargets
  NoPlan = NoPlan
  MaxEdits = 2
INVARIANTS
  OverlapOnlyByHand
PROPERTIES
  SettledStays
  WrittenIsClear
