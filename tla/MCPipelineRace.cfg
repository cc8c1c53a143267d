CONSTANTS
  Packages = {p1}
  Clusters = {c1, c2}
  Workers = {w1, w2}
  BULK = 1
  QUEUE_LIMIT = 1
  MAX_ATTEMPTS = 2
  AckFailures = {}
  Unsaved = {}
  Tampered = {}
  PatientRetry = FALSE
  MaxDeliveries = 4
  MaxFaults = 2
SYMMETRY Symmetry
SPECIFICATION Spec
INVARIANTS TypeOK RemovedForCause GivenUpLate AttemptsWereRun
CHECK_DEADLOCK FALSE
