CONSTANTS
  NumChannels = 2
  Refused = Refused
  Base = 4
  Modulus = 512
  MaxPayload = 70
  NoMessage = NoMessage
  FirstYear = 1999
  LastYear = 2105

SPECIFICATION Spec

CHECK_DEADLOCK FALSE

INVARIANTS
  RtcKeepsTime
  SettingsReadBack
  HeadersAgree
  EntitiesServed
