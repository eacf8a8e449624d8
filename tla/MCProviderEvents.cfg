SPECIFICATION Spec
CONSTANTS
  Event <- MCEvent
  Account = {"calendar"}
  Task = {"task"}
  RecordDays = 1
  StateDays = 3
  Window = 0
  NoRecord = NoRecord
  NoState = NoState
  NoTask = NoTask
  Unset = Unset
  Idle = Idle
  Horizon = 1
  MaxFaults = 2
INVARIANTS
  CompletedHasEffect
  AcknowledgedSurvives
  OnlyFaultsStrand
PROPERTY
  TakesEffectOnce
