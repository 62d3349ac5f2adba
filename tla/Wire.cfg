CONSTANTS
  Keys = {k1, k2}
  Clear = clear
  MaxMessages = 3
SPECIFICATION Spec
INVARIANTS HandledAsSent RefusalExplained
PROPERTIES Answered
CHECK_DEADLOCK FALSE
