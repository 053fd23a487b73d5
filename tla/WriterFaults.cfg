SPECIFICATION Spec
CONSTANTS
  Ids = {"a"}
  Versions = {1, 2, 3}
  Requests <- RequestsA
  Producers = {p1}
  Callers = {c1, c2}
  Readers = {r1}
  Worker = w
  NoThread = none
  MaxBuffered = 1
  MaxFrozen = 1
  AutoMerge = 2
  MergeWidth = 2
  Reclaim = TRUE
  WalLimit = 9
  Operations = {"merge_all"}
  FaultPoints = {"append", "reset", "segment", "manifest", "current", "remove"}
  MaxFaults = 1
  MaxSegmentId = 3
INVARIANTS
  NoFailedView
  ViewShowsRefreshed
  Recoverable
  AckedDurable
PROPERTIES
  PublishedMonotone
SYMMETRY Symmetry
