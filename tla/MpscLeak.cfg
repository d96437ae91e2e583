SPECIFICATION Spec
CONSTANTS
  Threads <- Both
  Builds <- OneWriter
  MsgEpochs = 5
  KeepMax = 4
  MaxLive = 6
INVARIANTS
  NoneForgotten
CHECK_DEADLOCK FALSE
