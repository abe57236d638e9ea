\* Six items of two values, pushed, popped, erased and adjusted in any order.
SPECIFICATION Spec
CONSTANTS
  Items = {i1, i2, i3, i4, i5, i6}
  Values = {0, 1}
  FirstAlloc = 2
  Null = Null
INVARIANTS
  HeapOrdered
  BackPointers
PROPERTIES
  ImplementsQueue
SYMMETRY Symmetry
