CONSTANTS
  WORKERS = 2
  QUEUE_LIMIT = 2
  BULK = 2
  CYCLE = 1
  SCHEDULE_AFTER = 2
  SCHEDULER = TRUE
  Backlog = 3
  MaxDeaths = 1
  Leaving = TRUE
  Hanging = TRUE
  CalmStop = TRUE
  SlowMonitor = FALSE
SPECIFICATION FairSpec
INVARIANTS PoolIsWhole TaskQueueEmptied ResultsSaved
PROPERTIES StopCompletes LostReplaced
