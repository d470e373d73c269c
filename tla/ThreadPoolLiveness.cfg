SPECIFICATION FairSpec
CONSTANTS
  Dispatchers = {d1, d2}
  Clients = {owner, c1}
  Owner = owner
  Tasks = {t1}
  NoThread = NoThread
  NULL = NULL
  MaxWaits = 1
  MaxSpurious = 1
PROPERTIES AcceptedTasksRun StopTerminates WaitTerminates
\* The clients make finitely many calls and the pool may be freed.
CHECK_DEADLOCK FALSE
