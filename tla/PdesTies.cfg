SPECIFICATION Spec
CONSTANTS
  CdN = 3
  RankN = 2
  RankOf <- TwoAndOne
  Inf = 5
  Jobs <- TiedJobs
  Handler <- Send
  LookMax = 5
  Objects = 8
INVARIANTS
  NothingToRemove
