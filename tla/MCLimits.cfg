CONSTANTS
  N = 2
  MaxSets = 1
  DayLen = 3
  WeekLen = 1
  None = None
  MaxNow = 4
  InitConfigs <- MCConfigs
  InitUsages <- MCUsages
  InitHolds = {0}
  Clocks = {1}
  Schedules = {}
  Limits = {0, 2}
  Holds = {}
  Graces = {}

SPECIFICATION LimitsSpec

VIEW LimitsView

INVARIANTS
  TypeOK
  CappedOff
  TimersMatchRelays

PROPERTIES
  TripNotUndone
  TickEnforcesLimits
  CapHoldsUntilMidnight
