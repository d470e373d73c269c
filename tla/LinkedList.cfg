SPECIFICATION Spec
CONSTANTS
  Nodes = {n1, n2, n3}
  HeadGuard = HeadGuard
  TailGuard = TailGuard
  Data = {d1, d2}
  Iterators = {i1, i2}
  NULL = NULL
SYMMETRY Symmetry
INVARIANTS TypeOK WellLinked Ownership IteratorsLive
PROPERTIES ImplementsIteratedList
\* The list may be freed.
CHECK_DEADLOCK FALSE
