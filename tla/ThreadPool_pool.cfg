\* Three workers, three tasks, a pool destroyed at any moment or never.
SPECIFICATION FairSpec
CONSTANTS
  MaxThreadNum = 3
  NumTasks = 3
INVARIANTS
  TakerFindsTask
  TaskConserved
  NotAllAsleep
  FreedAfterExit
PROPERTIES
  EveryTaskRuns
  DestroyReturnsUnlessMissed
\* A worker that misses the broadcast leaves pool_destroy in pthread_join for good.
CHECK_DEADLOCK FALSE
