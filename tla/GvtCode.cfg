SPECIFICATION FairSpec
CONSTANTS
  e1 = e1
  e2 = e2
  N = 2
  Inf = 2
  EpochMod = 8
  Events <- TwoEvents
  Initial <- OneInitial
  MinDelay = 1
  MaxSends = 1
INVARIANTS
  TagInWindow
  GvtSafe
PROPERTY
  ReachesEnd
CHECK_DEADLOCK FALSE
