CONSTANTS
  Conns = {c1, c2}
  MaxClients = 2
  MaxEvents = 0
  MaxInbox = 1
  MaxUpdates = 0
  MaxFaults = 1

SPECIFICATION FairSpec

INVARIANTS
  SlotsExact
  CountExact

PROPERTIES
  OfflineNoticed
