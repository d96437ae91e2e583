SPECIFICATION Spec
CONSTANTS
  RankN = 5
  Scripts <- SomeScripts
  ProcN = 2
  ThreadN = 2
  HeaderSize = 1
  PartSize = 2
  TailRoom = 2
  MiddleMax = 3
  AmLimits = {5, 8}
  Traffics <- SomeTraffic
  Names = 18
  MaxLen = 17
  KeysOf <- SomeKeys
  Hash <- SomeHash
  Bits = 2
  Versions = {1, 2}
  Base = 1
  PageN = 7
  MaxPn = 3
  ArenaN = 5
  HoleMax = 4
  LargestPn = 2
  Pools = {1, 2, 3, 4, 5, 6, 7}
  HeapThreads = {0, 1}
  PlaceN = 2
  BinN = 2
  PooledBins = {0}
  PoolPopn = 2
  RemoteBins = 1
  RemotePopn = 1
INVARIANTS
  CollectivesExact
  DeliveredWhole
  ContainersHold
  ArenasExact
  ObjectsOnce
CHECK_DEADLOCK FALSE
