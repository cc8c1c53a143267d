CONSTANTS
  Clusters = {c1, c2}
  Signalled = {c1}
  Busy = {c1}
  Workers = {w1}
  Late = {c1}
  MaxPuts = 1
  MaxDeaths = 1
SPECIFICATION FairSpec
INVARIANT IdleHasNoBacklog
PROPERTIES ListedAgain Forgotten CallsEnd
CHECK_DEADLOCK FALSE
