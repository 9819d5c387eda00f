SPECIFICATION FairSpec
CONSTANTS
  a = a
  b = b
  none = none
  None = none
  Nodes <- MCNodes
  NamesOf <- MCNamesOf
  CountryOf <- MCCountryOf
  Pools <- OnePool
  Requests <- AutoAndFixed
  EnvRoute <- Auto
  Setters = {s1}
  Refreshers = {r1}
  HostMode = FALSE
  InitialProbeTries = 1
  HealthMaxFails = 2
  SaveOutcomes = {TRUE}
  MayShutdown = TRUE
  MaxRestarts = 0
INVARIANTS
  NoLostRefresh
PROPERTIES
  RouteChangeHeeded
  ShutdownCompletes
  LockedNodeRetried
