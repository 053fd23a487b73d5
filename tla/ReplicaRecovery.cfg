SPECIFICATION FairSpec
CONSTANTS
  Shard = 1
  Epoch = 1
  Mutations <- SomeMutations
  OperationNames <- SomeOperations
  MaxLogRecords = 2
  LogCreated = TRUE
  Prudent = TRUE
  MaxCrashes = 2
  MaxPowerLosses = 1
  MaxFaults = 1
INVARIANTS
  ReplicaFaithful
  NextAccepted
  AckedKept
  Restartable
PROPERTIES
  ComesBack
CHECK_DEADLOCK FALSE
