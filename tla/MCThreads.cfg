SPECIFICATION MCFairSpec
CONSTANTS
  N = 3
  Log = 2
  EpochMod = 4
  Procs = {p1, p2}
  WorkerN = 2
  Mod = 4
  Barriers = 1
  Runs = 2
  SpuriousMax = 1
  Epochs = 3
  Capacity = 6
  Sizes = {1, 2}
  Aligns = {1, 2}
INVARIANTS
  OrExact
  OncePerRun
  NoOverlap
PROPERTIES
  ImplementsBarrier
  EndsEvery
  ImplementsRankBarrier
  AllExit
CHECK_DEADLOCK FALSE
