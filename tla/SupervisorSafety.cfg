SPECIFICATION Spec
CONSTANTS
  a = a
  b = b
  none = none
  None = none
  Nodes <- MCNodes
  NamesOf <- MCNamesOf
  CountryOf <- MCCountryOf
  Pools <- OnePoolOrEmpty
  Requests <- MCRequests
  EnvRoute <- Auto
  Setters = {s1, s2}
  Refreshers = {}
  HostMode = TRUE
  InitialProbeTries = 1
  HealthMaxFails = 1
  SaveOutcomes = {TRUE, FALSE}
  MayShutdown = TRUE
  MaxRestarts = 1
SYMMETRY SetterSymmetry
INVARIANTS
  NoLostRouteChange
PROPERTIES
  DiskNeverRunsAhead
  ImplementsNodeService
  ImplementsTunnelService
