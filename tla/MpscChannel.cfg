SPECIFICATION FairSpec
CONSTANTS
  Threads <- Both
  Builds <- EveryBuild
  MsgEpochs = 5
  KeepMax = 4
  MaxLive = 3
INVARIANTS
  InOrder
  NoFreedMessage
PROPERTIES
  Delivered
CHECK_DEADLOCK FALSE
