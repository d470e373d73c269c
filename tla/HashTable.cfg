SPECIFICATION FairSpec
CONSTANTS
  k1 = k1
  k2 = k2
  k3 = k3
  Threads = {t1, t2}
  Keys = {k1, k2, k3}
  Pairs = {p1, p2}
  Capacity = 2
  Hash <- TwoShareABucket
  NoThread = NoThread
  NULL = NULL
  MaxCalls = 3
  MaxFaults = 1
INVARIANTS PairsConserved
PROPERTIES ImplementsConcurrentMap CallsReturn
\* The threads make finitely many calls and the table may be freed.
CHECK_DEADLOCK FALSE
