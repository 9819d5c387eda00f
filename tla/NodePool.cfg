SPECIFICATION FairSpec
CONSTANTS
  Answers <- MCAnswers
  Workers = {w1, w2}
  MaxScanRows = 2
  MaxProfile = 11
INVARIANTS
  UsableAgain
  Measured
PROPERTIES
  FetchReturns
