SPECIFICATION FairSpec
CONSTANTS
  Ids = {"a"}
  Versions = {1, 2}
  Requests <- RequestsTwo
  Producers = {p1, p2}
  Callers = {c1}
  Readers = {}
  Worker = w
  NoThread = none
  MaxBuffered = 1
  MaxFrozen = 1
  AutoMerge = 2
  MergeWidth = 2
  Reclaim = TRUE
  WalLimit = 9
  Operations = {"refresh", "merge_all", "close"}
  FaultPoints = {"append", "segment"}
  MaxFaults = 1
  MaxSegmentId = 6
INVARIANTS
  ManifestMatchesDisk
  DurableUnlessOvertaken
  RefreshedVisible
PROPERTIES
  EveryPutReturns
  EveryRefreshReturns
  FrozenDrains
