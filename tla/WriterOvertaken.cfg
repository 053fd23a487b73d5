SPECIFICATION Spec
CONSTANTS
  Ids = {"a"}
  Versions = {1, 2, 3, 4, 5}
  Requests <- RequestsFive
  Producers = {p1, p2}
  Callers = {c1}
  Readers = {}
  Worker = w
  NoThread = none
  MaxBuffered = 2
  MaxFrozen = 1
  AutoMerge = 0
  MergeWidth = 2
  Reclaim = TRUE
  WalLimit = 9
  Operations = {"refresh"}
  FaultPoints = {}
  MaxFaults = 0
  MaxSegmentId = 9
INVARIANTS
  AckedDurable
SYMMETRY Symmetry
