SPECIFICATION FairSpec
CONSTANTS
  Conns = {c1, c2}
  MaxConns = 1
  AuthOn = TRUE
  MaxChunks = 2
CHECK_DEADLOCK FALSE
INVARIANTS
  SlotsMatchHandlers
  EndFollowsData
  ResponseComplete
PROPERTIES
  NothingStuck
