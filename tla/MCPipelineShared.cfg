CONSTANTS
  Packages = {p1, p2, p3}
  Clusters = {c1, c2}
  Workers = {w1}
  BULK = 2
  QUEUE_LIMIT = 1
  MAX_ATTEMPTS = 3
  AckFailures = {}
  Unsaved = {}
  Tampered = {p3}
  PatientRetry = TRUE
  MaxDeliveries = 4
  MaxFaults = 1
SYMMETRY Symmetry
SPECIFICATION Spec
INVARIANTS InHandOnce RemovedIsAccountedFor FailuresLimited
PROPERTY SuccessIsFinal
CHECK_DEADLOCK FALSE
