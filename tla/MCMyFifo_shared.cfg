\* A process reads and writes at will while another also clears and polls.
SPECIFICATION Spec
CONSTANTS
  r1 = r1
  w1 = w1
  c1 = c1
  Procs = {r1, c1}
  Role <- SharedRole
  Byte = {0, 1}
  Size = 3
  MaxReq = 2
INVARIANTS
  SemCountsHolder
  RingConsistent
  ReaderNotStranded
PROPERTIES
  ImplementsFifo
