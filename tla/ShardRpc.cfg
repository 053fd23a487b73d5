SPECIFICATION FairSpec
CONSTANTS
  Requests <- SomeRequests
  Hits <- SomeHits
  Complaints <- SomeComplaints
  InvalidText <- SomeInvalid
  Limits <- SomeLimits
  Addresses = 2
  Base = 4
  Buffer = 3
INVARIANTS
  AnswerFaithful
PROPERTIES
  DeadlineKept
CHECK_DEADLOCK FALSE
