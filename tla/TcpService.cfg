SPECIFICATION FairSpec
CONSTANTS
  Connections = {c1, c2, c3}
  NoConnection = none
  Silent = {c3}
  Workers = {w1, w2}
  Acceptor = acceptor
  Stoppers = {s1, s2}
  MaxQueued = 1
  MaxErrors = 1
INVARIANTS
  DescriptorsBounded
  StopDrains
  GaugesBalanced
PROPERTIES
  AdmittedIsServed
  StopWaitsForHeld
CHECK_DEADLOCK FALSE
