SPECIFICATION RSpec
CONSTANTS
  e1 = e1
  e2 = e2
  e3 = e3
  N = 2
  Inf = 2
  EpochMod = 16
  Events <- ThreeEvents
  Initial <- OneInitial
  MinDelay = 1
  MaxSends = 2
  MaxEpoch = 3
  MaxCalls = 1
PROPERTIES
  ImplementsEpochs
CHECK_DEADLOCK FALSE
