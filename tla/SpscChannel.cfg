SPECIFICATION FairSpec
CONSTANTS
  CounterBits = 5
  Builds <- EveryBuild
  MaxAhead = 5
INVARIANTS
  NeverLapped
  CreditsEarned
  NoStaleMessage
PROPERTIES
  Delivered
  ProgressReturns
CHECK_DEADLOCK FALSE
