\* One reader, one writer and a poller under fair scheduling.
SPECIFICATION FairSpec
CONSTANTS
  r1 = r1
  w1 = w1
  c1 = c1
  Procs = {r1, w1, c1}
  Role <- PairRole
  Byte = {0}
  Size = 3
  MaxReq = 2
INVARIANTS
  WriterNotStranded
  PollSleepsOnlyAtEnds
PROPERTIES
  SoleCallReturns
