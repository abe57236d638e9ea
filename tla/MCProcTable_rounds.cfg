\* Three tasks of two processes.
SPECIFICATION ProcSpec
CONSTANTS
  Tids = {1, 2, 3}
  PidOf <- MCPidOf
  InitProcs = 1
  Options <- MCOptions
  Iterations = 2
  ULong = 4
  Garbage = {3}
  Null = Null
  MaxLife = 2
  MaxTime = 1
  MaxEvents = 2
INVARIANTS
  RecordsAccounted
  DeltaIsOwn
  LongLivedShown
\* The program returns.
CHECK_DEADLOCK FALSE
