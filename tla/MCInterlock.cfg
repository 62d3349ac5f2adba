CONSTANTS
  N = 3
  MaxSets = 2
  DayLen = 2
  WeekLen = 1
  None = None
  MaxNow = 1
  InitConfigs <- MCConfigs
  InitUsages <- MCUsages
  InitHolds = {0}
  Clocks = {0}
  Schedules = {}
  Limits = {}
  Holds = {}
  Graces = {0, 1}

SPECIFICATION InterlockSpec

VIEW InterlockView

INVARIANTS
  ExclusiveInv
