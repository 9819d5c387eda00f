SPECIFICATION Spec
CONSTANTS
  Savers = {g1, g2}
  DataFiles = {nodes}
  Passwords = {p1, p2}
  Secrets = {s1, s2}
  None = none
INVARIANTS
  NeverTorn
  ServesConfigured
PROPERTIES
  AccessKept
