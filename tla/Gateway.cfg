SPECIFICATION FairSpec
CONSTANTS
  EventCap = 1
  PipeCap = 1
  MaxLines = 2
  Devices = {tun0, tun1}
  Dialers = {d1}
  None = none
  HealthMaxFails = 2
INVARIANTS
  HandshakeNotLost
  RoutedWhileReady
  ClearedBetweenTunnels
PROPERTIES
  DialLeavesOnlyTornDownTunnel
  ImplementsTunnelService
  StopReturns
  ExitHeeded
