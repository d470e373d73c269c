SPECIFICATION Spec
CONSTANTS
  s1 = s1
  s2 = s2
  r1 = r1
  r2 = r2
  Publishers = {p1}
  Workers = {w1}
  Subs = {s1, s2}
  Receivers = {r1}
  SubOf <- AllOnFirst
  Names = {orders}
  BucketOf <- OneBucket
  NoThread = NoThread
  NULL = NULL
  MaxMessages = 1
  MaxFaults = 2
  MaxSpurious = 1
  ConcurrentUnsubscribe = FALSE
INVARIANTS TypeOK NoUseAfterFree OneChannelPerName ProxiesOwned ReceiveYieldsMessage
\* Every thread may stop calling, and the broker may be freed.
CHECK_DEADLOCK FALSE
