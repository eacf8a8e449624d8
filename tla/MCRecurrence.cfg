SPECIFICATION Spec
CONSTANTS
  None = None
  Base <- MCBase
  Saving <- MCSaving
  Events <- MCEvents
  WorkingHours <- MCWorkingHours
  MaxOccurrences = 4
  MaxPeriods = 40
INVARIANTS
  FirstRecurrences
  WallClockKept
  AnswerIsComplete
  WindowsAreLocalHours
PROPERTY EndsUnlessBarren
CHECK_DEADLOCK FALSE
