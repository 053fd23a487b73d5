SPECIFICATION FairSpec
CONSTANTS
  Requests <- OneRequest
  Hits <- SomeHits
  Complaints <- SomeComplaints
  InvalidText <- SomeInvalid
  Limits <- SomeLimits
  Addresses = 2
  Base = 4
  Buffer = 3
PROPERTIES
  TransfersGoverned
CHECK_DEADLOCK FALSE
