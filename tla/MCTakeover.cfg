CONSTANTS
  N = 2
  MaxSets = 1
  DayLen = 4
  WeekLen = 2
  None = None
  MaxNow = 2
  InitConfigs <- MCConfigs
  InitUsages <- MCUsages
  InitHolds <- MCInitHolds
  Clocks = {0, 2}
  Schedules <- MCSchedules
  Limits = {0}
  Holds = {0, 1}
  Graces = {0}

SPECIFICATION TakeoverSpec

VIEW TakeoverView

INVARIANTS
  OffMeansOff
  ScheduleOwnsRelays

PROPERTIES
  OnlyHaSwitchesOn
  SnapOnTakeover
  TickFollowsTargets
  DriverTruthful
