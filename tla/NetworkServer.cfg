SPECIFICATION FairSpec
CONSTANTS
  Clients = {c1, c2}
  Subs = {s1}
  Messages = {m1}
  Channel = Channel
  NULL = NULL
  MaxFaults = 1
INVARIANTS OneReader SubscriptionOwned JoinsOnce NothingLostByDetach
PROPERTIES DeliveredIsWritten ThreadsEnd
\* The server may be stopped and freed.
CHECK_DEADLOCK FALSE
