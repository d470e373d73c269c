SPECIFICATION Spec
CONSTANTS
  Dispatchers = {d1}
  Clients = {owner}
  Owner = owner
  Tasks = {t1}
  NoThread = NoThread
  NULL = NULL
  MaxWaits = 1
  MaxSpurious = 0
PROPERTIES WaitMeansDone
CHECK_DEADLOCK FALSE
