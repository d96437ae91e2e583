SPECIFICATION Spec
CONSTANTS
  r0 = r0
  r1 = r1
  Ranks = {r0, r1}
  Root = r0
  Inf = 1
  Gvt0 = 0
  MaxEpoch = 3
  MaxSends = 2
INVARIANTS
  IInv
  QuiescedMeansReceived
PROPERTIES
  GvtMonotone
  ImplementsService
CHECK_DEADLOCK FALSE
