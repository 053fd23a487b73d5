SPECIFICATION Spec
CONSTANTS
  Ids = {"a", "b"}
  Versions = {1, 2}
  Requests <- RequestsAB
  Producers = {p1}
  Callers = {c1}
  Readers = {}
  Worker = w
  NoThread = none
  MaxBuffered = 1
  MaxFrozen = 1
  AutoMerge = 0
  MergeWidth = 2
  Reclaim = TRUE
  WalLimit = 2
  Operations = {"refresh"}
  FaultPoints = {}
  MaxFaults = 0
  MaxSegmentId = 9
INVARIANTS
  Recoverable
