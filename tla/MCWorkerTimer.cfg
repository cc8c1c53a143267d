CONSTANTS
  BUFFER = 3
  Timeouts <- LimitAndNone
  RECYCLE = 2
  SLACK = 2
  CYCLE = 1
  DeathInLock = FALSE
  MaxDeaths = 2
SPECIFICATION FairSpec
PROPERTIES KillsOnlyOverdue HungIsReplaced LeftIsReplaced
