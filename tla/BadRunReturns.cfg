SPECIFICATION Spec
CONSTANTS
  a = a
  b = b
  none = none
  None = none
  Nodes <- MCNodes
  NamesOf <- MCNamesOf
  CountryOf <- MCCountryOf
  Pools <- OnePool
  Requests <- AutoAndFixed
  EnvRoute <- Auto
  Setters = {}
  Refreshers = {r1}
  HostMode = TRUE
  InitialProbeTries = 1
  HealthMaxFails = 2
  SaveOutcomes = {TRUE}
  MayShutdown = FALSE
  MaxRestarts = 0
PROPERTIES
  RunBlocksUntilCancelled
