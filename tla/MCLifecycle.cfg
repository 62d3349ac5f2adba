CONSTANTS
  Networks = {home}
  OwnerKeys = {8}
  SeededBuilds = {old}
  SeedNetwork = plant
  SeedKey = 9
  NoNetwork = nonet
  None = None
  MaxInbox = 2
  MaxKeys = 5
  Images = {old, new}
  Newer <- MCNewer
  Threads = {t1, t2}
  NoImage = noimage
  MaxMail = 2
  MaxCuts = 2
  MaxFails = 1
  MaxEvents = 3
SPECIFICATION Spec
INVARIANTS ResetForgets KeyInForce ProgressTruthful OneDownload
PROPERTIES AttemptEnds
CHECK_DEADLOCK FALSE
