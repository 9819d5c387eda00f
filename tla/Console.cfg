SPECIFICATION FairSpec
CONSTANTS
  Handlers = {h1, h2}
  Remotes = {r1}
  Tokens = {t1, t2}
  MaxSessions = 1
  MaxStreams = 1
  MaxLoginFailures = 5
  SubCap = 2
  MaxLines = 4
INVARIANTS
  StreamsAccounted
  GapsOnlyWhenFull
PROPERTIES
  RefusedOnlyWhenFull
  StreamEnds
