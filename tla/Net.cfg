CONSTANTS
  Networks = {"home", "other"}
  TooLong = {"long"}
  NoNetwork = "none"
  None = None
  OfflineUnits = 1
  IdleUnits = 1
  MaxQueue = 2
  MaxEvents = 2

SPECIFICATION Spec

INVARIANTS
  ThreadsAgree
  BoardTells

PROPERTIES
  OutageOpensAp
  ApCloses
  TriesForever
