CONSTANTS
  Conns = {c1}
  MaxClients = 1
  MaxEvents = 0
  MaxInbox = 1
  MaxUpdates = 1
  MaxFaults = 1

SPECIFICATION FairSpec

PROPERTIES
  UnreachableNoticed
