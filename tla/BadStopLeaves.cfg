SPECIFICATION Spec
CONSTANTS
  MaxSpawns = 3
  Configs <- MCConfigs
  Subscriptions <- MCSubscriptions
INVARIANTS
  StoppedIsDown
