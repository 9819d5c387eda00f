SPECIFICATION FairSpec
CONSTANTS
  MaxSpawns = 3
  Configs <- MCConfigs
  Subscriptions <- MCSubscriptions
INVARIANTS
  OneProcess
  ServesGuarded
  ResolvesAsConfigured
  EndsClean
PROPERTIES
  SignalHeeded
  StopReturns
  ExitIsNoticed
