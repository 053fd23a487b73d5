SPECIFICATION Spec
CONSTANTS
  Shard = 1
  Epoch = 1
  Mutations <- SomeMutations
  OperationNames <- SomeOperations
  MaxLogRecords = 3
  LogCreated = TRUE
  Prudent = FALSE
  MaxCrashes = 1
  MaxPowerLosses = 0
  MaxFaults = 0
INVARIANTS
  AckedKept
CHECK_DEADLOCK FALSE
