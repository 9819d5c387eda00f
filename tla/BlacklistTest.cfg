SPECIFICATION FairSpec
CONSTANTS
  h1 = h1
  h2 = h2
  s1 = s1
  s2 = s2
  Hosts <- MCHosts
  Sorted <- MCSorted
  Pools <- MCPools
  Starters = {s1, s2}
  SaveOutcomes = {TRUE, FALSE}
  MayExit = TRUE
  MaxJobs = 2
  MaxRestarts = 1
INVARIANTS
  Accounted
  ProbeCleanedUp
PROPERTIES
  NewcomersKept
  JobFinishes
