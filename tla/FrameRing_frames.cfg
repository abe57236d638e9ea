\* Several laps of a small buffer and the wrap of its counters.
SPECIFICATION FairSpec
CONSTANTS
  FrameCount = 8
  Laps = 4
  FramesReq = 3
  FramesReqS = 5
INVARIANTS
  WithinCapacity
  ChunksInBuffer
  NoFrameShared
PROPERTIES
  FramesFlow
  EndsUnlessMissed
\* The program ends; it may also hang in pthread_join.
CHECK_DEADLOCK FALSE
