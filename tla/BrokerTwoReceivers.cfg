SPECIFICATION Spec
CONSTANTS
  s1 = s1
  s2 = s2
  r1 = r1
  r2 = r2
  Publishers = {p1}
  Workers = {w1}
  Subs = {s1}
  Receivers = {r1, r2}
  SubOf <- AllOnFirst
  Names = {orders}
  BucketOf <- OneBucket
  NoThread = NoThread
  NULL = NULL
  MaxMessages = 1
  MaxFaults = 0
  MaxSpurious = 0
  ConcurrentUnsubscribe = FALSE
INVARIANTS ReceiveYieldsMessage
\* Every thread may stop calling, and the broker may be freed.
CHECK_DEADLOCK FALSE
