CONSTANTS
  Packages = {p1, p2}
  Clusters = {c1, c2}
  RETRY = 2
  BULK = 2
  MaxTime = 5
SPECIFICATION Spec
INVARIANTS OneLiveLease
PROPERTY ImplementsLease
CHECK_DEADLOCK FALSE
