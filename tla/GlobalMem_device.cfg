\* A reader and a writer, two cells, and a driver that may be bound twice.
SPECIFICATION FairSpec
CONSTANTS
  p1 = p1
  p2 = p2
  Procs = {p1, p2}
  Readers = {p1}
  Writers = {p2}
  Size = 2
  Value = {0, 1}
  MaxBinds = 2
  MaxLeaks = 1
INVARIANTS
  SemCountsHolder
  CountsOpeners
  ReadsWhole
PROPERTIES
  WaiterServed
\* The driver may stay unbound, and undefined behaviour ends the model.
CHECK_DEADLOCK FALSE
