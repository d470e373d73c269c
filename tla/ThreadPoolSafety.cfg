SPECIFICATION Spec
CONSTANTS
  Dispatchers = {d1, d2}
  Clients = {owner, c1}
  Owner = owner
  Tasks = {t1, t2}
  NoThread = NoThread
  NULL = NULL
  MaxWaits = 1
  MaxSpurious = 1
SYMMETRY Symmetry
INVARIANTS TypeOK NoLostWakeup Conservation InFlightCounts WaiterHasCause
PROPERTIES WaitMissesOnlyUncounted ImplementsTaskPool
\* The clients make finitely many calls and the pool may be freed.
CHECK_DEADLOCK FALSE
