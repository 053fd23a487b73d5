SPECIFICATION Spec
CONSTANTS
  Nodes = {1, 2, 3}
  Primary = 2
  Shard = 1
  Epoch = 7
  Operations = {"", "x", "y", "z"}
  Documents <- SomeDocuments
  LogLimit = 2
  Readers = {r1}
  Lags = {0, 1}
  NoNode = none
INVARIANTS
  Converged
  ServingCaughtUp
  AllReplicasHold
  RetrySucceeds
  ReadsFresh
PROPERTIES
  ImplementsLog
