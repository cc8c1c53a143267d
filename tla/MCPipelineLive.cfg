CONSTANTS
  Packages = {p1, p2}
  Clusters = {c1}
  Workers = {w1}
  BULK = 2
  QUEUE_LIMIT = 1
  MAX_ATTEMPTS = 2
  AckFailures = {p2}
  Unsaved = {p2}
  Tampered = {}
  PatientRetry = TRUE
  MaxDeliveries = 5
  MaxFaults = 2
SPECIFICATION FairSpec
PROPERTY EventuallySettled
CHECK_DEADLOCK FALSE
