SPECIFICATION Spec
CONSTANTS
  s1 = s1
  s2 = s2
  r1 = r1
  r2 = r2
  Publishers = {p1}
  Workers = {w1, w2}
  Subs = {s1, s2}
  Receivers = {r1}
  SubOf <- AllOnFirst
  Names = {orders}
  BucketOf <- OneBucket
  NoThread = NoThread
  NULL = NULL
  MaxMessages = 2
  MaxFaults = 0
  MaxSpurious = 0
  ConcurrentUnsubscribe = TRUE
SYMMETRY Symmetry
INVARIANTS WorkerTouchesLive DeliveredToAll SameOrder NoReceiverStranded
PROPERTIES ImplementsChannelLog
\* Every thread may stop calling, and the broker may be freed.
CHECK_DEADLOCK FALSE
