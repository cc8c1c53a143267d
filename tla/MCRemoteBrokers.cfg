CONSTANTS
  Packages = {p1, p2}
  Clusters = {c1, c2}
  RETRY = 2
  BULK = 2
  MaxTime = 3
SPECIFICATION Spec
INVARIANTS OneLiveLease KeptUntilConcluded
PROPERTY ImplementsLease
CHECK_DEADLOCK FALSE
