SPECIFICATION FairSpec
CONSTANTS
  CdN = 3
  RankN = 2
  RankOf <- TwoAndOne
  Inf = 5
  Jobs <- EveryJob
  Handler <- Send
  LookMax = 5
  Objects = 8
INVARIANTS
  CommittedIsSequential
  StateIsReplay
  NoDangling
  NothingToRemove
  ExitClean
  DrainComplete
  NoLeak
  AnnihilatesWhole
PROPERTIES
  KeepsGvtContract
  Terminates
