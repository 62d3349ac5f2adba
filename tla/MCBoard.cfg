CONSTANTS
  Configs = {"default", "changed"}
  DefaultConfig = "default"
  Plans = {"none", "zoned", "unzoned"}
  NoPlan = "none"
  Zones = {"CET", "WET"}
  NoZone = ""
  Tz <- MCTz
  Period = 2
  MaxTicks = 5
  MaxUsage = 4
  MaxFaults = 1

SPECIFICATION Spec

INVARIANTS
  RestartKeepsSettings
  UsageLossBounded

PROPERTIES
  Durably
