\* Four clients that come, and go at any moment.
SPECIFICATION BrSpec
CONSTANTS
  Conns = {c1, c2, c3, c4}
  Null = Null
INVARIANTS
  ListIsOpenClients
  CountsClients
  EveryClientServed
\* Once undefined behaviour is reached the model stops.
CHECK_DEADLOCK FALSE
