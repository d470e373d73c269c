SPECIFICATION FairSpec
CONSTANTS
  Threads = {t1, t2}
  Elements = {e1, e2}
  NoThread = NoThread
  NULL = NULL
  MaxCalls = 4
  MaxFaults = 1
INVARIANTS ElementsConserved
PROPERTIES ImplementsAtomicQueue CallsReturn
\* The threads make finitely many calls and the queue may be freed.
CHECK_DEADLOCK FALSE
