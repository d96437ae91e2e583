SPECIFICATION Spec
CONSTANTS
  e1 = e1
  e2 = e2
  N = 4
  Inf = 2
  EpochMod = 16
  Events <- OneInitial
  Initial <- OneInitial
  MinDelay = 1
  MaxSends = 1
INVARIANTS
  ReduciblesExact
  DownOnce
CHECK_DEADLOCK FALSE
