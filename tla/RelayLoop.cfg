CONSTANTS
  N = 3
  MaxSets = 1
  None = None
  MaxRounds = 2

SPECIFICATION Spec

CHECK_DEADLOCK FALSE

INVARIANTS
  LoopIsOneStep
  PinsNeverOverlap
