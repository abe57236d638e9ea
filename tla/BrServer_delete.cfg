\* Deleting a client that has another behind it in the list.
SPECIFICATION BrSpec
CONSTANTS
  Conns = {c1, c2, c3, c4}
  Null = Null
INVARIANTS
  DeletesOnlyTheFailed
\* Once undefined behaviour is reached the model stops.
CHECK_DEADLOCK FALSE
