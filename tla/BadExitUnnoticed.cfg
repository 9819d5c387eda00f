SPECIFICATION FairSpec
CONSTANTS
  EventCap = 2
  PipeCap = 1
  MaxLines = 3
  Devices = {tun0, tun1}
  Dialers = {}
  None = none
  HealthMaxFails = 2
PROPERTIES
  ExitDrifts
