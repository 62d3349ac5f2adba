CONSTANTS
  Conns = {c1}
  MaxClients = 1
  MaxEvents = 2
  MaxInbox = 2
  MaxUpdates = 2
  MaxFaults = 2

SPECIFICATION Spec

INVARIANTS
  ViewsCatchUp
