------------------------ MODULE MessageBrokerProofs ------------------------
(***************************************************************************)
(* Safety of the message broker for every number of publishers, workers,   *)
(* subscriptions, receivers, names and messages.                           *)
(***************************************************************************)
EXTENDS MessageBroker, SequenceLemmas, FiniteSetTheorems

(***************************************************************************)
(* TypeOK, by groups of variables.                                         *)
(***************************************************************************)
PoolT ==
  /\ pending \in Seq(Messages)
  /\ running \in [Workers -> Messages \cup {NULL}]
  /\ completed \subseteq Messages /\ discarded \subseteq Messages
  /\ closed \in BOOLEAN

PubT ==
  /\ nextId \in 1..(MaxMessages + 1)
  /\ ppc \in [Publishers -> {"idle", "submit"}]
  /\ parg \in [Publishers -> Messages \cup {NULL}]
  /\ name \in [Messages -> Names \cup {NULL}]
  /\ due \in [Messages -> SUBSET Subs]

TableT ==
  /\ nextChannel \in 0..Cardinality(Channels)
  /\ table \in [Names -> Seq(Channels)]
  /\ proxies \in [Channels -> Seq(Subs)]
  /\ stuck \subseteq Names

ChannelLockT ==
  /\ channelsMutex \in Threads \cup {NoThread}
  /\ channelMutex \in [Channels -> Threads \cup {NoThread}]

InboxLockT ==
  /\ inboxMutex \in [Subs -> Receivers \cup {NoThread}]
  /\ inboxWait \in [Subs -> SUBSET Receivers]

ProxyT ==
  /\ inbox \in [Subs -> Seq(Messages)]
  /\ active \in [Subs -> BOOLEAN] /\ freed \subseteq Subs

WorkT ==
  /\ wpc \in [Workers -> WorkerPC]
  /\ wchan \in [Workers -> Channels \cup {NULL}]
  /\ todo \in [Workers -> Seq(Subs)]

SubT ==
  /\ spc \in [Subs -> SubPC]
  /\ sname \in [Subs -> Names \cup {NULL}]
  /\ schan \in [Subs -> Channels \cup {NULL}]

RecvT == rpc \in [Receivers -> ReceiverPC]

SeenT ==
  /\ log \in [Channels -> Seq(Messages)]
  /\ joinAt \in [Subs -> Nat]
  /\ delivered \in [Subs -> Seq(Messages)]
  /\ received \in [Subs -> Seq(Messages)] /\ gotNull \subseteq Subs

BoundT == faults \in 0..MaxFaults /\ spurious \in 0..MaxSpurious

TypeInv ==
  /\ PoolT /\ PubT /\ TableT /\ ChannelLockT /\ InboxLockT
  /\ ProxyT /\ WorkT /\ SubT /\ RecvT /\ SeenT /\ BoundT

LEMMA TypeInvIsTypeOK == TypeInv <=> TypeOK
  BY DEF TypeInv, TypeOK, PoolT, PubT, TableT, ChannelLockT, InboxLockT, ProxyT,
         WorkT, SubT, RecvT, SeenT, BoundT

(***************************************************************************)
(* What the program counters say about the local variables.                *)
(***************************************************************************)
Published(m) == m \in Messages /\ m < nextId

IdInv ==
  /\ \A m \in Messages : m < nextId => name[m] \in Names
  /\ \A i \in 1..Len(pending) : Published(pending[i])
  /\ \A w \in Workers : running[w] # NULL => Published(running[w])
  /\ \A p \in Publishers : ppc[p] = "submit" => Published(parg[p])

Walking == {"each", "enqueue", "append", "signal"}

WorkOK(w) ==
  /\ wpc[w] = "idle" <=> running[w] = NULL
  /\ wpc[w] \in {"lock"} \cup Walking => wchan[w] \in Channels
  /\ wpc[w] \in {"enqueue", "append", "signal"} => todo[w] # << >>

HasChannel == {"insert", "wrap", "subscribed"} \cup Unsubscribing

SubOK(s) ==
  /\ spc[s] # "new" => sname[s] \in Names
  /\ spc[s] \in HasChannel => schan[s] \in Channels /\ table[sname[s]] # << >>

LocalInv ==
  /\ IdInv
  /\ \A w \in Workers : WorkOK(w)
  /\ \A s \in Subs : SubOK(s)

IInv == TypeInv /\ LocalInv

-----------------------------------------------------------------------------
(* Types *)

LEMMA ChannelNumbers ==
  /\ Cardinality(Channels) \in Nat
  /\ Channels = 1..Cardinality(Channels)
  /\ NULL \notin Channels /\ NULL \notin Messages /\ MaxMessages \in Nat
  <1>1. Cardinality(Names) \in Nat
    BY BrokerAssumption, FS_CardinalityType
  <1>2. PICK n \in Nat : Channels = 1..n
    BY <1>1, BrokerAssumption DEF Channels
  <1>3. Cardinality(1..n) = n
    BY <1>2, FS_Interval
  <1> QED
    BY <1>2, <1>3, BrokerAssumption DEF Messages

\* A group of variables that a step leaves alone keeps its type.
LEMMA TypeFrames ==
  ASSUME TypeInv
  PROVE  /\ UNCHANGED poolVars => PoolT'
         /\ UNCHANGED pubVars => PubT'
         /\ UNCHANGED tableVars => TableT'
         /\ UNCHANGED << channelsMutex, channelMutex >> => ChannelLockT'
         /\ UNCHANGED << inboxMutex, inboxWait >> => InboxLockT'
         /\ UNCHANGED proxyVars => ProxyT'
         /\ UNCHANGED workVars => WorkT'
         /\ UNCHANGED subVars => SubT'
         /\ UNCHANGED rpc => RecvT'
         /\ UNCHANGED seenVars => SeenT'
         /\ UNCHANGED << faults, spurious >> => BoundT'
  <1>1. UNCHANGED poolVars => PoolT'
    BY DEF TypeInv, PoolT, poolVars
  <1>2. UNCHANGED pubVars => PubT'
    BY DEF TypeInv, PubT, pubVars
  <1>3. UNCHANGED tableVars => TableT'
    BY DEF TypeInv, TableT, tableVars
  <1>4. /\ UNCHANGED << channelsMutex, channelMutex >> => ChannelLockT'
        /\ UNCHANGED << inboxMutex, inboxWait >> => InboxLockT'
    BY DEF TypeInv, ChannelLockT, InboxLockT
  <1>5. UNCHANGED proxyVars => ProxyT'
    BY DEF TypeInv, ProxyT, proxyVars
  <1>6. UNCHANGED workVars => WorkT'
    BY DEF TypeInv, WorkT, workVars
  <1>7. UNCHANGED subVars => SubT'
    BY DEF TypeInv, SubT, subVars
  <1>8. UNCHANGED rpc => RecvT'
    BY DEF TypeInv, RecvT
  <1>9. UNCHANGED seenVars => SeenT'
    BY DEF TypeInv, SeenT, seenVars, receipts
  <1>10. UNCHANGED << faults, spurious >> => BoundT'
    BY DEF TypeInv, BoundT
  <1> QED
    BY <1>1, <1>2, <1>3, <1>4, <1>5, <1>6, <1>7, <1>8, <1>9, <1>10

LEMMA FaultTypes ==
  ASSUME TypeInv, NEW k \in Nat, Fault(k) \/ UNCHANGED faults, UNCHANGED spurious
  PROVE  BoundT'
  BY BrokerAssumption DEF TypeInv, BoundT, Fault

\* The channel a lookup finds, and the one that Create makes.
LEMMA FoundChannel ==
  ASSUME TypeInv, NEW n \in Names, table[n] # << >>
  PROVE  Head(table[n]) \in Channels
  BY HeadAndTail DEF TypeInv, TableT

LEMMA CreateTypes ==
  ASSUME TypeInv, NEW n \in Names, Create(n), UNCHANGED << proxies, stuck >>
  PROVE  /\ TableT' /\ nextChannel' \in Channels /\ nextChannel' = nextChannel + 1
         /\ channelsMutex' = NoThread
         /\ table' = [table EXCEPT ![n] = << nextChannel' >> \o @]
         /\ table[n] \in Seq(Channels)
  <1>1. /\ nextChannel' = nextChannel + 1 /\ channelsMutex' = NoThread
        /\ table' = [table EXCEPT ![n] = << nextChannel' >> \o @]
        /\ nextChannel < Cardinality(Channels)
    BY DEF Create
  <1>2. nextChannel' \in 1..Cardinality(Channels)
    BY <1>1, ChannelNumbers DEF TypeInv, TableT
  <1>3. nextChannel' \in Channels /\ nextChannel' \in 0..Cardinality(Channels)
    BY <1>2, ChannelNumbers
  <1>4. << nextChannel' >> \o table[n] \in Seq(Channels) /\ table[n] \in Seq(Channels)
    BY <1>3, PrependProperties DEF TypeInv, TableT
  <1> QED
    BY <1>1, <1>3, <1>4 DEF TypeInv, TableT

LEMMA LinkFailsTypes ==
  ASSUME TypeInv, NEW n, LinkFails(n), UNCHANGED spurious
  PROVE  TableT' /\ BoundT'
  <1>1. BoundT'
    BY FaultTypes DEF LinkFails
  <1> QED
    BY <1>1 DEF TypeInv, TableT, LinkFails

LEMMA PublisherTypes ==
  ASSUME IInv, NEW p \in Publishers,
         PublishSubmit(p) \/ PublishFails(p) \/ \E n \in Names : PublishBegin(p, n)
  PROVE  TypeInv'
  <1>0. TypeInv /\ PubT /\ PoolT
    BY DEF IInv, TypeInv
  <1>1. ASSUME NEW n \in Names, PublishBegin(p, n) PROVE TypeInv'
    <2>1. PubT'
      <3>1. nextId \in Messages /\ nextId' = nextId + 1 /\ nextId' \in 1..(MaxMessages + 1)
        BY <1>0, <1>1, ChannelNumbers DEF PublishBegin, PubT, Messages
      <3> QED
        BY <1>0, <1>1, <3>1 DEF PublishBegin, PubT
    <2> QED
      BY <1>0, <1>1, <2>1, TypeFrames DEF TypeInv, PublishBegin, lockVars
  <1>2. CASE PublishSubmit(p)
    <2>1. PubT'
      BY <1>0, <1>2 DEF PublishSubmit, PubT
    <2>2. PoolT'
      <3>1. parg[p] \in Messages
        BY <1>2 DEF IInv, LocalInv, IdInv, Published, PublishSubmit
      <3> QED
        BY <1>0, <1>2, <3>1 DEF PublishSubmit, PoolT, Pool!Accept
    <2> QED
      BY <1>0, <1>2, <2>1, <2>2, TypeFrames DEF TypeInv, PublishSubmit, lockVars
  <1>3. CASE PublishFails(p)
    <2>1. PubT'
      BY <1>0, <1>3 DEF PublishFails, PubT
    <2>2. BoundT'
      BY <1>0, <1>3, FaultTypes DEF PublishFails
    <2> QED
      BY <1>0, <1>3, <2>1, <2>2, TypeFrames DEF TypeInv, PublishFails, lockVars
  <1> QED
    BY <1>1, <1>2, <1>3

LEMMA WorkerTypes ==
  ASSUME IInv, NEW w \in Workers, _publisher_task(w)
  PROVE  TypeInv'
  <1>0. TypeInv /\ PoolT /\ WorkT /\ ChannelLockT /\ WorkOK(w)
    BY DEF IInv, TypeInv, LocalInv
  <1>a. wpc[w] # "idle" => running[w] \in Messages /\ name[running[w]] \in Names
    BY <1>0 DEF IInv, LocalInv, IdInv, WorkOK, Published
  <1>b. w \in Threads /\ {"idle", "get", "create", "lock", "each", "enqueue", "append",
          "signal", "undefined"} = WorkerPC
    BY DEF Threads, WorkerPC
  <1>c. wpc[w] \in {"enqueue", "append", "signal"} =>
          Head(todo[w]) \in Subs /\ Tail(todo[w]) \in Seq(Subs)
    BY <1>0, HeadAndTail DEF WorkT, WorkOK
  <1>1. CASE WorkerStart(w)
    <2>1. PoolT'
      <3>1. Head(pending) \in Messages /\ Tail(pending) \in Seq(Messages)
        BY <1>0, <1>1, HeadAndTail DEF WorkerStart, Pool!Start, PoolT
      <3> QED
        BY <1>0, <1>1, <3>1 DEF WorkerStart, Pool!Start, PoolT
    <2>2. WorkT'
      BY <1>0, <1>b, <1>1 DEF WorkerStart, WGoto, WorkT
    <2> QED
      BY <1>0, <1>1, <2>1, <2>2, TypeFrames DEF TypeInv, WorkerStart, lockVars
  <1>2. CASE WorkerGet(w)
    <2>1. PICK n \in Names : n = name[running[w]]
      BY <1>a, <1>2 DEF WorkerGet
    <2>2. \/ /\ Found(n) /\ WGoto(w, "lock")
             /\ wchan' = [wchan EXCEPT ![w] = Head(table[n])]
          \/ NotFound(w, n) /\ WGoto(w, "create") /\ UNCHANGED wchan
          \/ LookupBlocks(w, n) /\ UNCHANGED << wpc, wchan >>
      BY <1>2, <2>1 DEF WorkerGet
    <2>3. WorkT'
      <3>1. Found(n) => Head(table[n]) \in Channels
        BY <1>0, FoundChannel DEF Found
      <3> QED
        BY <1>0, <1>b, <1>2, <2>2, <3>1 DEF WorkerGet, WGoto, WorkT
    <2>4. ChannelLockT'
      BY <1>0, <1>b, <1>2, <2>2 DEF WorkerGet, Found, NotFound, LookupBlocks, ChannelLockT
    <2>5. BoundT'
      <3>1. Fault(1) \/ UNCHANGED faults
        BY <2>2 DEF Found, NotFound, LookupBlocks
      <3> QED
        BY <1>0, <1>2, <3>1, FaultTypes DEF WorkerGet
    <2> QED
      BY <1>0, <1>2, <2>3, <2>4, <2>5, TypeFrames DEF TypeInv, WorkerGet
  <1>3. CASE WorkerCreate(w)
    <2>1. /\ TableT' /\ nextChannel' \in Channels /\ channelsMutex' = NoThread
      BY <1>0, <1>a, <1>3, CreateTypes DEF WorkerCreate
    <2>2. WorkT'
      BY <1>0, <1>b, <1>3, <2>1 DEF WorkerCreate, WGoto, WorkT
    <2>3. ChannelLockT'
      BY <1>0, <1>3, <2>1 DEF WorkerCreate, ChannelLockT
    <2> QED
      BY <1>0, <1>3, <2>1, <2>2, <2>3, TypeFrames DEF TypeInv, WorkerCreate
  <1>4. CASE WorkerCreateFails(w)
    <2>1. PoolT'
      BY <1>0, <1>a, <1>4 DEF WorkerCreateFails, Pool!Complete, PoolT
    <2>2. WorkT'
      BY <1>0, <1>b, <1>4 DEF WorkerCreateFails, WGoto, WorkT
    <2>3. ChannelLockT'
      BY <1>0, <1>4 DEF WorkerCreateFails, CreateFails, ChannelLockT
    <2>4. BoundT'
      BY <1>0, <1>4, FaultTypes DEF WorkerCreateFails, CreateFails
    <2> QED
      BY <1>0, <1>4, <2>1, <2>2, <2>3, <2>4, TypeFrames DEF TypeInv, WorkerCreateFails
  <1>5. CASE WorkerLock(w)
    <2>1. wchan[w] \in Channels /\ running[w] \in Messages
      BY <1>0, <1>a, <1>5 DEF WorkerLock, WorkOK
    <2>2. proxies[wchan[w]] \in Seq(Subs) /\ << >> \in Seq(Subs)
      BY <1>0, <2>1 DEF TypeInv, TableT
    <2>3. WorkT'
      BY <1>0, <1>b, <1>5, <2>2 DEF WorkerLock, WGoto, WorkT
    <2>4. ChannelLockT'
      BY <1>0, <1>b, <1>5 DEF WorkerLock, ChannelLockT
    <2>5. BoundT'
      BY <1>0, <1>5, FaultTypes DEF WorkerLock
    <2>6. SeenT'
      <3>1. log[wchan[w]] \in Seq(Messages) /\ Append(log[wchan[w]], running[w]) \in Seq(Messages)
        BY <1>0, <2>1 DEF TypeInv, SeenT
      <3> QED
        BY <1>0, <1>5, <3>1 DEF WorkerLock, TypeInv, SeenT, receipts
    <2> QED
      BY <1>0, <1>5, <2>3, <2>4, <2>5, <2>6, TypeFrames DEF TypeInv, WorkerLock
  <1>6. CASE WorkerVisit(w)
    <2>1. Tail(todo[w]) \in Seq(Subs)
      BY <1>0, <1>6, HeadAndTail DEF WorkerVisit, WorkT
    <2>2. WorkT'
      BY <1>0, <1>b, <1>6, <2>1 DEF WorkerVisit, NextProxy, WGoto, WorkT
    <2>3. BoundT'
      BY <1>0, <1>6, FaultTypes DEF WorkerVisit
    <2> QED
      BY <1>0, <1>6, <2>2, <2>3, TypeFrames DEF TypeInv, WorkerVisit, lockVars
  <1>7. CASE WorkerEnqueue(w)
    <2>1. WorkT'
      BY <1>0, <1>b, <1>c, <1>7 DEF WorkerEnqueue, NextProxy, WGoto, WorkT
    <2> QED
      BY <1>0, <1>7, <2>1, TypeFrames DEF TypeInv, WorkerEnqueue, lockVars
  <1>8. CASE WorkerAppend(w)
    <2>1. PICK s \in Subs : s = Head(todo[w])
      BY <1>c, <1>8 DEF WorkerAppend
    <2>2. \/ /\ inbox' = [inbox EXCEPT ![s] = Append(@, running[w])]
             /\ delivered' = [delivered EXCEPT ![s] = Append(@, running[w])]
             /\ WGoto(w, "signal")
             /\ UNCHANGED << todo, faults >>
          \/ /\ Fault(1)
             /\ NextProxy(w)
             /\ UNCHANGED << inbox, delivered >>
      BY <1>8, <2>1 DEF WorkerAppend, generic_queue_syn_enqueue
    <2>3. running[w] \in Messages
      BY <1>a, <1>8 DEF WorkerAppend
    <2>a. /\ inbox \in [Subs -> Seq(Messages)] /\ Append(inbox[s], running[w]) \in Seq(Messages)
          /\ delivered \in [Subs -> Seq(Messages)]
          /\ Append(delivered[s], running[w]) \in Seq(Messages)
      BY <1>0, <2>3 DEF TypeInv, ProxyT, SeenT
    <2>b. inbox' \in [Subs -> Seq(Messages)] /\ delivered' \in [Subs -> Seq(Messages)]
      BY <2>2, <2>a
    <2>c. UNCHANGED << active, freed, log, joinAt, received, gotNull >>
      BY <1>8 DEF WorkerAppend, receipts
    <2>4. ProxyT'
      BY <1>0, <2>b, <2>c DEF TypeInv, ProxyT
    <2>5. SeenT'
      BY <1>0, <2>b, <2>c DEF TypeInv, SeenT
    <2>6. WorkT'
      BY <1>0, <1>b, <1>c, <1>8, <2>2 DEF WorkerAppend, NextProxy, WGoto, WorkT
    <2>7. BoundT'
      BY <1>0, <1>8, FaultTypes DEF WorkerAppend
    <2> QED
      BY <1>0, <1>8, <2>4, <2>5, <2>6, <2>7, TypeFrames DEF TypeInv, WorkerAppend, lockVars
  <1>9. CASE WorkerSignal(w)
    <2>1. WorkT'
      BY <1>0, <1>b, <1>c, <1>9 DEF WorkerSignal, NextProxy, WGoto, WorkT
    <2>2. InboxLockT'
      BY <1>0, <1>9 DEF WorkerSignal, SignalInbox, TypeInv, InboxLockT
    <2> QED
      BY <1>0, <1>9, <2>1, <2>2, TypeFrames DEF TypeInv, WorkerSignal
  <1>10. CASE WorkerUnlock(w)
    <2>1. PoolT'
      BY <1>0, <1>a, <1>10 DEF WorkerUnlock, Pool!Complete, PoolT
    <2>2. WorkT'
      BY <1>0, <1>b, <1>10 DEF WorkerUnlock, WGoto, WorkT
    <2>3. ChannelLockT'
      BY <1>0, <1>10 DEF WorkerUnlock, ChannelLockT
    <2> QED
      BY <1>0, <1>10, <2>1, <2>2, <2>3, TypeFrames DEF TypeInv, WorkerUnlock
  <1>11. CASE WorkerLinkFails(w)
    <2>1. PoolT'
      BY <1>0, <1>a, <1>11 DEF WorkerLinkFails, Pool!Complete, PoolT, poolVars
    <2>2. WorkT'
      BY <1>0, <1>b, <1>11 DEF WorkerLinkFails, WGoto, WorkT
    <2>3. ChannelLockT'
      BY <1>0, <1>11 DEF WorkerLinkFails, ChannelLockT
    <2>4. TableT' /\ BoundT'
      BY <1>0, <1>11, LinkFailsTypes DEF WorkerLinkFails
    <2> QED
      BY <1>0, <1>11, <2>1, <2>2, <2>3, <2>4, TypeFrames DEF TypeInv, WorkerLinkFails
  <1> QED
    BY <1>1, <1>2, <1>3, <1>4, <1>5, <1>6, <1>7, <1>8, <1>9, <1>10, <1>11
       DEF _publisher_task

LEMMA SubscriptionTypes ==
  ASSUME IInv, NEW s \in Subs,
         \/ SubscriptionContinues(s) \/ UnsubscribeBegin(s) \/ subscription_free(s)
         \/ \E n \in Names : SubscribeGet(s, n)
  PROVE  TypeInv'
  <1>0. TypeInv /\ SubT /\ ChannelLockT /\ SubOK(s) /\ s \in Threads
    BY DEF IInv, TypeInv, LocalInv, Threads
  <1>a. \A l \in {"new", "create", "insert", "wrap", "subscribed", "unsubscribed", "gone",
                  "failed", "hung", "broadcast", "lockChannels", "lockChannel",
                  "remove", "unlock", "clear"} : SGoto(s, l) => spc' \in [Subs -> SubPC]
    BY <1>0 DEF SubT, SGoto, SubPC, Unsubscribing
  <1>b. /\ spc[s] # "new" => sname[s] \in Names
        /\ spc[s] \in {"insert", "lockChannels", "lockChannel", "remove", "unlock"} =>
             schan[s] \in Channels /\ table[sname[s]] # << >>
    BY <1>0 DEF SubOK, HasChannel, Unsubscribing
  <1>1. ASSUME NEW n \in Names, SubscribeGet(s, n) PROVE TypeInv'
    <2>1. Found(n) => Head(table[n]) \in Channels
      BY <1>0, FoundChannel DEF Found
    <2>2. SubT'
      BY <1>0, <1>a, <1>1, <2>1 DEF SubscribeGet, SubT
    <2>3. ChannelLockT'
      BY <1>0, <1>1 DEF SubscribeGet, Found, NotFound, LookupBlocks, ChannelLockT
    <2>4. BoundT'
      <3>1. Fault(1) \/ UNCHANGED faults
        BY <1>1 DEF SubscribeGet, Found, NotFound, LookupBlocks
      <3> QED
        BY <1>0, <1>1, <3>1, FaultTypes DEF SubscribeGet
    <2> QED
      BY <1>0, <1>1, <2>2, <2>3, <2>4, TypeFrames DEF TypeInv, SubscribeGet
  <1>2. CASE SubscribeCreate(s)
    <2>1. TableT' /\ nextChannel' \in Channels /\ channelsMutex' = NoThread
      BY <1>0, <1>b, <1>2, CreateTypes DEF SubscribeCreate
    <2>2. SubT'
      BY <1>0, <1>a, <1>2, <2>1 DEF SubscribeCreate, SubT
    <2>3. ChannelLockT'
      BY <1>0, <1>2, <2>1 DEF SubscribeCreate, ChannelLockT
    <2> QED
      BY <1>0, <1>2, <2>1, <2>2, <2>3, TypeFrames DEF TypeInv, SubscribeCreate
  <1>3. CASE SubscribeCreateFails(s)
    <2>1. SubT'
      BY <1>0, <1>a, <1>3 DEF SubscribeCreateFails, SubT
    <2>2. ChannelLockT'
      BY <1>0, <1>3 DEF SubscribeCreateFails, CreateFails, ChannelLockT
    <2>3. BoundT'
      BY <1>0, <1>3, FaultTypes DEF SubscribeCreateFails, CreateFails
    <2> QED
      BY <1>0, <1>3, <2>1, <2>2, <2>3, TypeFrames DEF TypeInv, SubscribeCreateFails
  <1>4. CASE SubscribeInsert(s)
    <2>1. SubT'
      BY <1>0, <1>a, <1>4 DEF SubscribeInsert, SubT
    <2>2. PICK c \in Channels : c = schan[s]
      BY <1>b, <1>4 DEF SubscribeInsert
    <2>3. /\ proxies \in [Channels -> Seq(Subs)] /\ Append(proxies[c], s) \in Seq(Subs)
          /\ log[c] \in Seq(Messages) /\ Len(log[c]) \in Nat
      BY <1>0, <2>2 DEF TypeInv, TableT, SeenT
    <2>4. TableT'
      BY <1>0, <1>4, <2>2, <2>3 DEF SubscribeInsert, TypeInv, TableT
    <2>5. ProxyT'
      BY <1>0, <1>4 DEF SubscribeInsert, TypeInv, ProxyT
    <2>6. SeenT'
      BY <1>0, <1>4, <2>2, <2>3 DEF SubscribeInsert, TypeInv, SeenT, receipts
    <2> QED
      BY <1>0, <1>4, <2>1, <2>4, <2>5, <2>6, TypeFrames DEF TypeInv, SubscribeInsert, lockVars
  <1>5. CASE SubscribeInsertFails(s) \/ SubscribeWrap(s)
    <2>1. SubT'
      BY <1>0, <1>a, <1>5 DEF SubscribeInsertFails, SubscribeWrap, SubT
    <2>2. BoundT'
      BY <1>0, <1>5, FaultTypes DEF SubscribeInsertFails, SubscribeWrap
    <2> QED
      BY <1>0, <1>5, <2>1, <2>2, TypeFrames
      DEF TypeInv, SubscribeInsertFails, SubscribeWrap, lockVars
  <1>6. CASE UnsubscribeBegin(s)
    <2>1. SubT'
      BY <1>0, <1>a, <1>6 DEF UnsubscribeBegin, SubT
    <2>2. ProxyT'
      BY <1>0, <1>6 DEF UnsubscribeBegin, TypeInv, ProxyT
    <2> QED
      BY <1>0, <1>6, <2>1, <2>2, TypeFrames DEF TypeInv, UnsubscribeBegin, lockVars
  <1>7. CASE UnsubscribeBroadcast(s)
    <2>1. SubT'
      BY <1>0, <1>a, <1>7 DEF UnsubscribeBroadcast, SubT
    <2>2. InboxLockT'
      BY <1>0, <1>7 DEF UnsubscribeBroadcast, BroadcastInbox, TypeInv, InboxLockT
    <2> QED
      BY <1>0, <1>7, <2>1, <2>2, TypeFrames DEF TypeInv, UnsubscribeBroadcast
  <1>8. CASE UnsubscribeLockChannels(s)
    <2>1. Head(table[sname[s]]) \in Channels
      BY <1>0, <1>b, <1>8, FoundChannel DEF UnsubscribeLockChannels
    <2>2. SubT'
      BY <1>0, <1>a, <1>8, <2>1 DEF UnsubscribeLockChannels, SubT
    <2>3. ChannelLockT'
      BY <1>0, <1>8 DEF UnsubscribeLockChannels, ChannelLockT
    <2> QED
      BY <1>0, <1>8, <2>2, <2>3, TypeFrames DEF TypeInv, UnsubscribeLockChannels
  <1>9. CASE UnsubscribeLookupFails(s) \/ UnsubscribeRemovesNothing(s)
    <2>1. SubT'
      BY <1>0, <1>a, <1>9 DEF UnsubscribeLookupFails, UnsubscribeRemovesNothing, SubT
    <2>2. BoundT'
      BY <1>0, <1>9, FaultTypes DEF UnsubscribeLookupFails, UnsubscribeRemovesNothing
    <2> QED
      BY <1>0, <1>9, <2>1, <2>2, TypeFrames
      DEF TypeInv, UnsubscribeLookupFails, UnsubscribeRemovesNothing, lockVars
  <1>10. CASE UnsubscribeLockChannel(s) \/ UnsubscribeUnlock(s)
    <2>1. SubT'
      BY <1>0, <1>a, <1>10 DEF UnsubscribeLockChannel, UnsubscribeUnlock, SubT
    <2>2. ChannelLockT'
      BY <1>0, <1>10 DEF UnsubscribeLockChannel, UnsubscribeUnlock, ChannelLockT
    <2> QED
      BY <1>0, <1>10, <2>1, <2>2, TypeFrames
      DEF TypeInv, UnsubscribeLockChannel, UnsubscribeUnlock
  <1>11. CASE UnsubscribeRemove(s)
    <2>1. SubT'
      BY <1>0, <1>a, <1>11 DEF UnsubscribeRemove, SubT
    <2>2. PICK c \in Channels : c = schan[s] /\ proxies[c] \in Seq(Subs) /\ s \in Range(proxies[c])
      BY <1>0, <1>b, <1>11 DEF UnsubscribeRemove, TypeInv, TableT
    <2>3. PICK i \in 1..Len(proxies[c]) : i = CHOOSE j \in 1..Len(proxies[c]) : proxies[c][j] = s
      BY <2>2 DEF Range
    <2>4. RemoveAt(proxies[c], i) \in Seq(Subs)
      BY <2>2, RemoveAtProperties
    <2>5. proxies' = [proxies EXCEPT ![c] = RemoveAt(proxies[c], i)]
      BY <1>11, <2>2, <2>3 DEF UnsubscribeRemove
    <2>6. TableT'
      BY <1>0, <1>11, <2>4, <2>5 DEF UnsubscribeRemove, TypeInv, TableT
    <2>7. ProxyT' /\ InboxLockT'
      BY <1>0, <1>11 DEF UnsubscribeRemove, BroadcastInbox, TypeInv, ProxyT, InboxLockT
    <2> QED
      BY <1>0, <1>11, <2>1, <2>6, <2>7, TypeFrames DEF TypeInv, UnsubscribeRemove
  <1>12. CASE UnsubscribeClear(s) \/ subscription_free(s)
    <2>1. SubT'
      BY <1>0, <1>a, <1>12 DEF UnsubscribeClear, subscription_free, SubT
    <2> QED
      BY <1>0, <1>12, <2>1, TypeFrames DEF TypeInv, UnsubscribeClear, subscription_free, lockVars
  <1>13. CASE SubscribeLinkFails(s)
    <2>1. SubT'
      BY <1>0, <1>a, <1>13 DEF SubscribeLinkFails, SubT
    <2>2. ChannelLockT'
      BY <1>0, <1>13 DEF SubscribeLinkFails, ChannelLockT
    <2>3. TableT' /\ BoundT'
      BY <1>0, <1>13, LinkFailsTypes DEF SubscribeLinkFails
    <2> QED
      BY <1>0, <1>13, <2>1, <2>2, <2>3, TypeFrames DEF TypeInv, SubscribeLinkFails
  <1>14. CASE UnsubscribeGetBlocks(s)
    <2>1. ChannelLockT'
      BY <1>0, <1>14 DEF UnsubscribeGetBlocks, LookupBlocks, ChannelLockT
    <2> QED
      BY <1>0, <1>14, <2>1, TypeFrames DEF TypeInv, UnsubscribeGetBlocks, LookupBlocks
  <1> QED
    BY <1>1, <1>2, <1>3, <1>4, <1>5, <1>6, <1>7, <1>8, <1>9, <1>10, <1>11, <1>12, <1>13,
       <1>14
    DEF SubscriptionContinues

\* What a receiver's step leaves alone.
LEMMA ReceiverFrame ==
  ASSUME TypeInv, UNCHANGED receiverFrame
  PROVE  /\ PoolT' /\ PubT' /\ TableT' /\ ChannelLockT' /\ WorkT' /\ SubT' /\ BoundT'
         /\ UNCHANGED << active, freed, log, joinAt, delivered >>
  BY TypeFrames DEF receiverFrame

\* What dequeue takes from an inbox.
LEMMA DequeueTypes ==
  ASSUME NEW q \in Seq(Messages)
  PROVE  /\ dequeued_queue(q) \in Seq(Messages)
         /\ generic_queue_syn_dequeue(q) = NULL <=> q = << >>
         /\ generic_queue_syn_dequeue(q) # NULL => generic_queue_syn_dequeue(q) \in Messages
  <1>1. CASE q = << >>
    BY <1>1 DEF dequeued_queue, generic_queue_syn_dequeue
  <1>2. CASE q # << >>
    <2>1. Head(q) \in Messages /\ Tail(q) \in Seq(Messages)
      BY <1>2, HeadAndTail
    <2> QED
      BY <1>2, <2>1, ChannelNumbers DEF dequeued_queue, generic_queue_syn_dequeue
  <1> QED
    BY <1>1, <1>2

LEMMA ReceiverTypes ==
  ASSUME TypeInv, NEW r \in Receivers,
         \/ ReceiveBegin(r) \/ ReceiverContinues(r) \/ TouchesFreedProxy(r)
         \/ SpuriousWakeup(r)
  PROVE  TypeInv'
  <1>0. RecvT /\ InboxLockT /\ ProxyT /\ SeenT /\ SubOf[r] \in Subs
    BY BrokerAssumption DEF TypeInv
  <1>a. \A l \in {"idle", "lock", "test", "active", "sleep", "blocked", "check",
                  "dequeue", "tryEmpty", "tryDequeue", "undefined"} :
          RGoto(r, l) => RecvT'
    BY <1>0 DEF RecvT, RGoto, ReceiverPC
  <1>1. CASE \/ ReceiveBegin(r) \/ ReceiveTest(r) \/ ReceiveTestActive(r)
             \/ TryReceiveTest(r) \/ TouchesFreedProxy(r)
    <2>1. UNCHANGED << receiverFrame, inboxMutex, inboxWait, inbox, receipts >>
      BY <1>1 DEF ReceiveBegin, ReceiveTest, ReceiveTestActive, TryReceiveTest,
                  TouchesFreedProxy
    <2>2. RecvT'
      BY <1>a, <1>1 DEF ReceiveBegin, ReceiveTest, ReceiveTestActive, TryReceiveTest,
                        TouchesFreedProxy
    <2>3. InboxLockT' /\ ProxyT' /\ SeenT'
      BY <1>0, <2>1, ReceiverFrame DEF InboxLockT, ProxyT, SeenT, receipts
    <2> QED
      BY <2>1, <2>2, <2>3, ReceiverFrame DEF TypeInv
  <1>2. CASE ReceiveLock(r) \/ ReceiveCheck(r) \/ ReceiveSleep(r)
    <2>1. UNCHANGED << receiverFrame, inbox, receipts >>
      BY <1>2 DEF ReceiveLock, ReceiveCheck, ReceiveSleep
    <2>2. RecvT'
      BY <1>a, <1>2 DEF ReceiveLock, ReceiveCheck, ReceiveSleep
    <2>3. InboxLockT'
      BY <1>0, <1>2 DEF ReceiveLock, ReceiveCheck, ReceiveSleep, InboxLockT
    <2>4. ProxyT' /\ SeenT'
      BY <1>0, <2>1, ReceiverFrame DEF ProxyT, SeenT, receipts
    <2> QED
      BY <2>1, <2>2, <2>3, <2>4, ReceiverFrame DEF TypeInv
  <1>3. CASE ReceiveDequeue(r)
    <2>1. UNCHANGED << receiverFrame, inboxMutex, inboxWait >>
      BY <1>3 DEF ReceiveDequeue
    <2>2. RecvT'
      BY <1>a, <1>3 DEF ReceiveDequeue
    <2>3. PICK s \in Subs : s = SubOf[r] /\ inbox[s] \in Seq(Messages) /\ received[s] \in Seq(Messages)
      BY <1>0 DEF ProxyT, SeenT
    <2>4. PICK m : m = generic_queue_syn_dequeue(inbox[s])
      OBVIOUS
    <2>5. /\ inbox' = [inbox EXCEPT ![s] = dequeued_queue(@)]
          /\ \/ gotNull' = gotNull \cup {s} /\ UNCHANGED received
             \/ /\ m # NULL /\ UNCHANGED gotNull
                /\ received' = [received EXCEPT ![s] = Append(@, m)]
      BY <1>3, <2>3, <2>4 DEF ReceiveDequeue
    <2>6. dequeued_queue(inbox[s]) \in Seq(Messages) /\ (m # NULL => m \in Messages)
      BY <2>3, <2>4, DequeueTypes
    <2>7. ProxyT'
      BY <1>0, <2>1, <2>5, <2>6, ReceiverFrame DEF ProxyT
    <2>8. received' \in [Subs -> Seq(Messages)] /\ gotNull' \subseteq Subs
      <3>1. m # NULL => Append(received[s], m) \in Seq(Messages)
        BY <2>3, <2>6
      <3> QED
        BY <1>0, <2>3, <2>5, <3>1 DEF SeenT
    <2>9. SeenT'
      BY <1>0, <2>1, <2>8, ReceiverFrame DEF SeenT
    <2>10. InboxLockT'
      BY <1>0, <2>1 DEF InboxLockT
    <2> QED
      BY <2>1, <2>2, <2>7, <2>9, <2>10, ReceiverFrame DEF TypeInv
  <1>4. CASE SpuriousWakeup(r)
    <2>1. InboxLockT'
      BY <1>0, <1>4 DEF SpuriousWakeup, InboxLockT
    <2>2. BoundT'
      BY <1>4, BrokerAssumption DEF SpuriousWakeup, TypeInv, BoundT
    <2> QED
      BY <1>4, <2>1, <2>2, TypeFrames DEF TypeInv, SpuriousWakeup
  <1> QED
    BY <1>1, <1>2, <1>3, <1>4 DEF ReceiverContinues

\* message_broker_free empties some entries of the table and some lists; what
\* it takes out of the lists it frees, unless an allocation fails.
Emptied(c) == proxies[c] # << >> /\ proxies'[c] = << >>

LEMMA FreeChanges ==
  ASSUME TypeInv, message_broker_free
  PROVE  /\ \A n \in Names : table'[n] = table[n] \/ table'[n] = << >>
         /\ \A c \in Channels : proxies'[c] = proxies[c] \/ proxies'[c] = << >>
         /\ table' \in [Names -> Seq(Channels)] /\ proxies' \in [Channels -> Seq(Subs)]
         /\ freed \subseteq freed'
         /\ \A s \in freed' \ freed : \E c \in Channels : Emptied(c) /\ s \in Range(proxies[c])
         /\ \A c \in Channels : Emptied(c) => Range(proxies[c]) \subseteq freed' \/ faults' > 0
         /\ (\E k \in Nat : Fault(k)) /\ faults' >= faults /\ faults' \in Nat
  <1>0. /\ table \in [Names -> Seq(Channels)] /\ proxies \in [Channels -> Seq(Subs)]
        /\ faults \in Nat
    BY BrokerAssumption DEF TypeInv, TableT, BoundT
  <1>1. /\ table' = [n \in Names |-> IF BucketOf[n] \in Reached THEN << >> ELSE table[n]]
        /\ proxies' = [c \in Channels |->
                         IF c \in ChannelsIn(Reached) THEN << >> ELSE proxies[c]]
    BY DEF message_broker_free
  <1>2. PICK lost \in SUBSET Reached :
          /\ Fault(Cardinality(lost))
          /\ freed' = freed \cup UNION { Range(proxies[c]) : c \in ChannelsIn(Reached \ lost) }
    BY DEF message_broker_free
  <1>3. IsFiniteSet(lost) /\ Cardinality(lost) \in Nat
    <2>1. IsFiniteSet({ BucketOf[n] : n \in Names })
      <3>1. BucketOf \in Surjection(Names, { BucketOf[n] : n \in Names })
        BY BrokerAssumption DEF Surjection
      <3> QED
        BY <3>1, BrokerAssumption, FS_Surjection
    <2>2. lost \subseteq { BucketOf[n] : n \in Names }
      BY <1>2 DEF Reached
    <2> QED
      BY <2>1, <2>2, FS_Subset, FS_CardinalityType
  <1>4. \A B : ChannelsIn(B) \subseteq Channels
    BY <1>0 DEF ChannelsIn, Range
  <1>5. \A c \in ChannelsIn(Reached \ lost) : c \in ChannelsIn(Reached)
    BY DEF ChannelsIn
  <1>6. \A s \in freed' \ freed : \E c \in Channels : Emptied(c) /\ s \in Range(proxies[c])
    <2> SUFFICES ASSUME NEW s \in freed' \ freed
                 PROVE  \E c \in Channels : Emptied(c) /\ s \in Range(proxies[c])
      OBVIOUS
    <2>1. PICK c \in ChannelsIn(Reached \ lost) : s \in Range(proxies[c])
      BY <1>2
    <2>2. c \in Channels /\ c \in ChannelsIn(Reached)
      BY <1>4, <1>5
    <2>3. proxies'[c] = << >>
      BY <1>1, <2>2
    <2>4. proxies[c] # << >>
      BY <2>1 DEF Range
    <2> QED
      BY <2>1, <2>2, <2>3, <2>4 DEF Emptied
  <1>7. faults' = faults + Cardinality(lost)
    BY <1>2 DEF Fault
  <1>8. ASSUME NEW c \in Channels, Emptied(c)
        PROVE  Range(proxies[c]) \subseteq freed' \/ faults' > 0
    <2>1. c \in ChannelsIn(Reached)
      BY <1>1, <1>8 DEF Emptied
    <2>2. CASE lost = {}
      <3>1. Reached \ lost = Reached
        BY <2>2
      <3> QED
        BY <1>2, <2>1, <3>1
    <2>3. CASE lost # {}
      <3>1. Cardinality(lost) # 0
        BY <1>3, <2>3, FS_EmptySet
      <3> QED
        BY <1>0, <1>3, <1>7, <3>1
    <2> QED
      BY <2>2, <2>3
  <1>9. faults' \in Nat /\ faults' >= faults /\ \E k \in Nat : Fault(k)
    BY <1>0, <1>2, <1>3, <1>7
  <1>10. << >> \in Seq(Channels) /\ << >> \in Seq(Subs)
    OBVIOUS
  <1> QED
    BY <1>0, <1>1, <1>2, <1>6, <1>8, <1>9, <1>10

LEMMA FreeTypes ==
  ASSUME TypeInv, message_broker_free
  PROVE  TypeInv'
  <1>1. PoolT'
    <2>1. Pool!Pending \subseteq Messages
      BY DEF Pool!Pending, TypeInv, PoolT
    <2> QED
      BY <2>1 DEF message_broker_free, Pool!Destroy, TypeInv, PoolT
  <1>2. TableT'
    BY FreeChanges DEF message_broker_free, TypeInv, TableT
  <1>3. ProxyT'
    <2>1. \A c \in Channels : Range(proxies[c]) \subseteq Subs
      BY DEF TypeInv, TableT, Range
    <2>2. freed' \subseteq Subs
      BY <2>1, FreeChanges DEF TypeInv, ProxyT
    <2> QED
      BY <2>2 DEF message_broker_free, TypeInv, ProxyT
  <1>4. BoundT'
    BY FreeChanges, FaultTypes DEF message_broker_free
  <1> QED
    BY <1>1, <1>2, <1>3, <1>4, TypeFrames DEF message_broker_free, TypeInv, lockVars

LEMMA TypeInvStep ==
  ASSUME IInv, [Next]_vars
  PROVE  TypeInv'
  <1>0. TypeInv
    BY DEF IInv
  <1>1. CASE UNCHANGED vars
    BY <1>0, <1>1, TypeFrames DEF vars, lockVars, TypeInv
  <1> QED
    BY <1>0, <1>1, PublisherTypes, WorkerTypes, SubscriptionTypes, ReceiverTypes,
       FreeTypes DEF Next

-----------------------------------------------------------------------------
(* Who changes what.  A step of Next is a step of one kind of thread. *)

PublisherStep == \E p \in Publishers :
  PublishSubmit(p) \/ PublishFails(p) \/ \E n \in Names : PublishBegin(p, n)

WorkerStep == \E w \in Workers : _publisher_task(w)

SubscriptionStep == \E s \in Subs :
  \/ SubscriptionContinues(s) \/ UnsubscribeBegin(s) \/ subscription_free(s)
  \/ \E n \in Names : SubscribeGet(s, n)

ReceiverStep == \E r \in Receivers :
  ReceiveBegin(r) \/ ReceiverContinues(r) \/ TouchesFreedProxy(r) \/ SpuriousWakeup(r)

LEMMA NextCases ==
  ASSUME [Next]_vars
  PROVE  \/ PublisherStep \/ WorkerStep \/ SubscriptionStep \/ ReceiverStep
         \/ message_broker_free \/ UNCHANGED vars
  BY DEF Next, PublisherStep, WorkerStep, SubscriptionStep, ReceiverStep

LEMMA PublisherFrame ==
  ASSUME PublisherStep
  PROVE  UNCHANGED << running, completed, discarded, closed, tableVars, lockVars,
                      proxyVars, workVars, subVars, rpc, seenVars, spurious >>
  BY DEF PublisherStep, PublishSubmit, PublishFails, PublishBegin, Pool!Accept, poolVars

LEMMA WorkerFrame ==
  ASSUME NEW w \in Workers, _publisher_task(w)
  PROVE  /\ UNCHANGED << discarded, closed, proxies, inboxMutex, active, freed, pubVars,
                         subVars, rpc, joinAt, receipts, spurious >>
         /\ TypeInv => \A v \in Workers \ {w} :
              /\ wpc'[v] = wpc[v] /\ wchan'[v] = wchan[v] /\ todo'[v] = todo[v]
              /\ running'[v] = running[v]
  <1>1. CASE WorkerStart(w)
    BY <1>1 DEF WorkerStart, Pool!Start, WGoto, tableVars, lockVars, proxyVars, seenVars,
                TypeInv, WorkT, PoolT
  <1>2. CASE WorkerGet(w)
    <2>1. PICK n : n = name[running[w]]
      OBVIOUS
    <2>2. \/ wchan' = [wchan EXCEPT ![w] = Head(table[n])] /\ WGoto(w, "lock")
          \/ WGoto(w, "create") /\ UNCHANGED wchan
          \/ UNCHANGED << wpc, wchan >>
      BY <1>2, <2>1 DEF WorkerGet
    <2> QED
      BY <1>2, <2>2 DEF WorkerGet, WGoto, poolVars, tableVars, lockVars, proxyVars,
                        seenVars, TypeInv, WorkT, PoolT
  <1>3. CASE WorkerCreate(w)
    BY <1>3 DEF WorkerCreate, Create, WGoto, poolVars, tableVars, lockVars, proxyVars,
                seenVars, TypeInv, WorkT, PoolT
  <1>4. CASE WorkerCreateFails(w)
    BY <1>4 DEF WorkerCreateFails, Pool!Complete, WGoto, tableVars, lockVars, proxyVars,
                seenVars, TypeInv, WorkT, PoolT
  <1>5. CASE WorkerLock(w)
    BY <1>5 DEF WorkerLock, WGoto, poolVars, tableVars, lockVars, proxyVars, seenVars,
                TypeInv, WorkT, PoolT
  <1>6. CASE WorkerVisit(w)
    BY <1>6 DEF WorkerVisit, NextProxy, WGoto, poolVars, tableVars, lockVars, proxyVars,
                seenVars, TypeInv, WorkT, PoolT
  <1>7. CASE WorkerEnqueue(w)
    BY <1>7 DEF WorkerEnqueue, NextProxy, WGoto, poolVars, tableVars, lockVars, proxyVars,
                seenVars, TypeInv, WorkT, PoolT
  <1>8. CASE WorkerAppend(w)
    <2>1. \/ WGoto(w, "signal") /\ UNCHANGED todo
          \/ NextProxy(w)
      BY <1>8 DEF WorkerAppend
    <2> QED
      BY <1>8, <2>1 DEF WorkerAppend, NextProxy, WGoto, poolVars, tableVars, lockVars,
                        proxyVars, seenVars, TypeInv, WorkT, PoolT
  <1>9. CASE WorkerSignal(w)
    BY <1>9 DEF WorkerSignal, NextProxy, WGoto, poolVars, tableVars, lockVars, proxyVars,
                seenVars, TypeInv, WorkT, PoolT
  <1>10. CASE WorkerUnlock(w)
    BY <1>10 DEF WorkerUnlock, Pool!Complete, WGoto, tableVars, lockVars, proxyVars,
                 seenVars, TypeInv, WorkT, PoolT
  <1>11. CASE WorkerLinkFails(w)
    BY <1>11 DEF WorkerLinkFails, LinkFails, Pool!Complete, WGoto, poolVars, lockVars,
                 proxyVars, seenVars, TypeInv, WorkT, PoolT
  <1> QED
    BY <1>1, <1>2, <1>3, <1>4, <1>5, <1>6, <1>7, <1>8, <1>9, <1>10, <1>11
       DEF _publisher_task

LEMMA SubscriptionFrame ==
  ASSUME NEW s \in Subs,
         \/ SubscriptionContinues(s) \/ UnsubscribeBegin(s) \/ subscription_free(s)
         \/ \E n \in Names : SubscribeGet(s, n)
  PROVE  /\ UNCHANGED << poolVars, pubVars, workVars, inboxMutex, rpc, log, delivered,
                         receipts, spurious >>
         /\ TypeInv => \A u \in Subs \ {s} :
              /\ spc'[u] = spc[u] /\ sname'[u] = sname[u] /\ schan'[u] = schan[u]
              /\ inbox'[u] = inbox[u] /\ active'[u] = active[u] /\ joinAt'[u] = joinAt[u]
              /\ inboxWait'[u] = inboxWait[u] /\ (u \in freed' <=> u \in freed)
  <1>1. ASSUME NEW n \in Names, SubscribeGet(s, n)
        PROVE  /\ UNCHANGED << poolVars, pubVars, workVars, inboxMutex, inboxWait, rpc,
                               seenVars, spurious, proxyVars >>
               /\ sname' = [sname EXCEPT ![s] = n]
               /\ \E c : schan' = schan \/ schan' = [schan EXCEPT ![s] = c]
               /\ \E l : spc' = [spc EXCEPT ![s] = l]
    BY <1>1 DEF SubscribeGet, SGoto
  <1>2. CASE \/ SubscribeCreate(s) \/ SubscribeCreateFails(s) \/ SubscribeLinkFails(s)
             \/ UnsubscribeGetBlocks(s)
    BY <1>2 DEF SubscribeCreate, SubscribeCreateFails, SubscribeLinkFails,
                UnsubscribeGetBlocks, SGoto, lockVars, seenVars,
                proxyVars, subVars, TypeInv, SubT
  <1>3. CASE SubscribeInsert(s) \/ SubscribeInsertFails(s) \/ SubscribeWrap(s)
    BY <1>3 DEF SubscribeInsert, SubscribeInsertFails, SubscribeWrap, SGoto, lockVars,
                seenVars, proxyVars, TypeInv, SubT, ProxyT, SeenT
  <1>4. CASE UnsubscribeBegin(s) \/ UnsubscribeBroadcast(s)
    BY <1>4 DEF UnsubscribeBegin, UnsubscribeBroadcast, BroadcastInbox, SGoto, lockVars,
                seenVars, proxyVars, TypeInv, SubT, ProxyT, InboxLockT
  <1>5. CASE \/ UnsubscribeLockChannels(s) \/ UnsubscribeLookupFails(s)
             \/ UnsubscribeLockChannel(s)
    BY <1>5 DEF UnsubscribeLockChannels, UnsubscribeLookupFails, UnsubscribeLockChannel,
                SGoto, lockVars, seenVars, proxyVars, TypeInv, SubT
  <1>6. CASE UnsubscribeRemove(s)
    <2>1. /\ UNCHANGED << poolVars, pubVars, workVars, inboxMutex, rpc, seenVars,
                          spurious, sname, schan, active >>
          /\ SGoto(s, "unlock") /\ freed' = freed \cup {s}
          /\ inbox' = [inbox EXCEPT ![s] = << >>]
          /\ inboxWait' = [inboxWait EXCEPT ![s] = {}]
      BY <1>6 DEF UnsubscribeRemove, BroadcastInbox
    <2> QED
      BY <2>1 DEF SGoto, seenVars, TypeInv, SubT, ProxyT, InboxLockT
  <1>7. CASE \/ UnsubscribeRemovesNothing(s) \/ UnsubscribeUnlock(s) \/ UnsubscribeClear(s)
             \/ subscription_free(s)
    BY <1>7 DEF UnsubscribeRemovesNothing, UnsubscribeUnlock, UnsubscribeClear,
                subscription_free, SGoto, lockVars, seenVars, proxyVars, TypeInv, SubT
  <1>8. ASSUME NEW n \in Names, SubscribeGet(s, n), TypeInv, NEW u \in Subs \ {s}
        PROVE  spc'[u] = spc[u] /\ sname'[u] = sname[u] /\ schan'[u] = schan[u]
    BY <1>1, <1>8 DEF TypeInv, SubT
  <1> QED
    BY <1>1, <1>2, <1>3, <1>4, <1>5, <1>6, <1>7, <1>8
    DEF SubscriptionContinues, seenVars, proxyVars

LEMMA ReceiverChanges ==
  ASSUME NEW r \in Receivers,
         \/ ReceiveBegin(r) \/ ReceiverContinues(r) \/ TouchesFreedProxy(r)
         \/ SpuriousWakeup(r)
  PROVE  /\ UNCHANGED << poolVars, tableVars, channelsMutex, channelMutex, active, freed,
                         pubVars, workVars, subVars, log, joinAt, delivered, faults >>
         /\ TypeInv => \A u \in Receivers \ {r} : rpc'[u] = rpc[u]
  <1>1. CASE SpuriousWakeup(r)
    BY <1>1 DEF SpuriousWakeup, proxyVars, seenVars
  <1>2. CASE ReceiveBegin(r) \/ ReceiverContinues(r) \/ TouchesFreedProxy(r)
    <2>1. UNCHANGED receiverFrame /\ \E l : RGoto(r, l)
      BY <1>2 DEF ReceiveBegin, ReceiverContinues, ReceiveLock, ReceiveTest,
                  ReceiveTestActive, ReceiveSleep, ReceiveCheck, TryReceiveTest,
                  ReceiveDequeue, TouchesFreedProxy
    <2> QED
      BY <2>1 DEF receiverFrame, RGoto, TypeInv, RecvT
  <1> QED
    BY <1>1, <1>2

-----------------------------------------------------------------------------
(* The local variables *)

LEMMA IdInvStep ==
  ASSUME IInv, [Next]_vars
  PROVE  IdInv'
  <1>0. IdInv /\ PubT /\ PoolT
    BY DEF IInv, LocalInv, TypeInv
  <1>1. CASE UNCHANGED << nextId, name, pending, running, ppc, parg >>
    BY <1>0, <1>1 DEF IdInv, Published
  <1>2. ASSUME NEW p \in Publishers, NEW n \in Names, PublishBegin(p, n) PROVE IdInv'
    <2>1. /\ nextId \in Messages /\ nextId' = nextId + 1 /\ nextId \in Nat
          /\ name' = [name EXCEPT ![nextId] = n] /\ parg' = [parg EXCEPT ![p] = nextId]
          /\ ppc' = [ppc EXCEPT ![p] = "submit"] /\ UNCHANGED << pending, running >>
      BY <1>0, <1>2, ChannelNumbers DEF PublishBegin, PubT, Messages, poolVars
    <2>2. \A m : Published(m) => Published(m)'
      BY <2>1 DEF Published, Messages
    <2>3. nextId \in Messages /\ nextId < nextId'
      BY <2>1
    <2>4. \A m \in Messages : m < nextId' => name'[m] \in Names
      <3>1. \A m \in Messages : m < nextId' => m < nextId \/ m = nextId
        BY <2>1 DEF Messages
      <3> QED
        BY <1>0, <2>1, <3>1 DEF IdInv, PubT
    <2>5. \A q \in Publishers : ppc'[q] = "submit" =>
            parg'[q] \in Messages /\ parg'[q] < nextId'
      BY <1>0, <2>1, <2>2, <2>3 DEF IdInv, PubT, Published
    <2> QED
      BY <1>0, <2>1, <2>2, <2>4, <2>5 DEF IdInv, Published
  <1>3. ASSUME NEW p \in Publishers, PublishFails(p) PROVE IdInv'
    BY <1>0, <1>3 DEF PublishFails, IdInv, Published, PubT, poolVars
  <1>4. ASSUME NEW p \in Publishers, PublishSubmit(p) PROVE IdInv'
    <2>1. /\ Published(parg[p]) /\ pending' = Append(pending, parg[p])
          /\ UNCHANGED << nextId, name, running, parg >>
          /\ ppc' = [ppc EXCEPT ![p] = "idle"]
      BY <1>0, <1>4 DEF PublishSubmit, Pool!Accept, IdInv
    <2>2. pending \in Seq(Messages) /\ parg[p] \in Messages
      BY <1>0, <2>1 DEF PoolT, Published
    <2>3. \A i \in 1..Len(pending') : Published(pending'[i])
      BY <1>0, <2>1, <2>2 DEF IdInv
    <2> QED
      BY <1>0, <2>1, <2>3 DEF IdInv, Published, PubT
  <1>5. ASSUME NEW w \in Workers, WorkerStart(w) PROVE IdInv'
    <2>1. /\ pending \in Seq(Messages) /\ pending # << >> /\ pending' = Tail(pending)
          /\ running' = [running EXCEPT ![w] = Head(pending)]
          /\ UNCHANGED << nextId, name, ppc, parg >>
      BY <1>0, <1>5 DEF WorkerStart, Pool!Start, PoolT, pubVars
    <2>2. Published(Head(pending)) /\ \A i \in 1..Len(Tail(pending)) : Published(Tail(pending)[i])
      <3>1. /\ Head(pending) = pending[1] /\ Len(pending) \in Nat \ {0}
            /\ Len(Tail(pending)) = Len(pending) - 1
            /\ \A i \in 1..(Len(pending) - 1) : Tail(pending)[i] = pending[i + 1]
        BY <2>1, HeadAndTail
      <3>2. \A i \in 1..(Len(pending) - 1) : i + 1 \in 1..Len(pending)
        BY <3>1
      <3>3. 1 \in 1..Len(pending)
        BY <3>1
      <3> QED
        BY <1>0, <3>1, <3>2, <3>3 DEF IdInv
    <2> QED
      BY <1>0, <2>1, <2>2 DEF IdInv, Published, PoolT
  <1>6. ASSUME NEW w \in Workers,
               WorkerCreateFails(w) \/ WorkerUnlock(w) \/ (WorkerLinkFails(w) /\ Pool!Complete(w))
        PROVE  IdInv'
    <2>1. /\ running' = [running EXCEPT ![w] = NULL]
          /\ UNCHANGED << pending, nextId, name, ppc, parg >>
      BY <1>6 DEF WorkerCreateFails, WorkerUnlock, WorkerLinkFails, Pool!Complete, pubVars
    <2> QED
      BY <1>0, <2>1 DEF IdInv, Published, PoolT
  <1>7. CASE message_broker_free
    BY <1>0, <1>7 DEF message_broker_free, Pool!Destroy, IdInv, Published, pubVars
  <1>8. ASSUME NEW w \in Workers, _publisher_task(w) PROVE IdInv'
    <2>1. CASE \/ WorkerGet(w) \/ WorkerCreate(w) \/ WorkerLock(w) \/ WorkerVisit(w)
               \/ WorkerEnqueue(w) \/ WorkerAppend(w) \/ WorkerSignal(w)
      BY <1>1, <2>1 DEF WorkerGet, WorkerCreate, WorkerLock, WorkerVisit, WorkerEnqueue,
                        WorkerAppend, WorkerSignal, poolVars, pubVars
    <2>2. CASE WorkerLinkFails(w) /\ ~Pool!Complete(w)
      BY <1>1, <2>2 DEF WorkerLinkFails, poolVars, pubVars
    <2> QED
      BY <1>5, <1>6, <1>8, <2>1, <2>2 DEF _publisher_task
  <1>9. CASE SubscriptionStep \/ ReceiverStep \/ UNCHANGED vars
    BY <1>1, <1>9, SubscriptionFrame, ReceiverChanges
    DEF SubscriptionStep, ReceiverStep, vars, poolVars, pubVars
  <1> QED
    BY <1>2, <1>3, <1>4, <1>7, <1>8, <1>9, NextCases DEF PublisherStep, WorkerStep

LEMMA WorkInvStep ==
  ASSUME IInv, [Next]_vars
  PROVE  \A w \in Workers : WorkOK(w)'
  <1>0. TypeInv /\ WorkT /\ PoolT /\ \A v \in Workers : WorkOK(v)
    BY DEF IInv, LocalInv, TypeInv
  <1>1. CASE UNCHANGED << workVars, running >>
    BY <1>0, <1>1 DEF WorkOK, workVars
  <1>2. ASSUME NEW w \in Workers, _publisher_task(w) PROVE \A v \in Workers : WorkOK(v)'
    <2>1. \A v \in Workers \ {w} : WorkOK(v)'
      BY <1>0, <1>2, WorkerFrame DEF WorkOK
    <2>2. WorkOK(w)
      BY <1>0
    <2>a. wpc[w] # "idle" => running[w] \in Messages /\ name[running[w]] \in Names
      BY <2>2 DEF IInv, LocalInv, IdInv, WorkOK, Published
    <2>3. WorkOK(w)'
      <3>1. CASE WorkerStart(w)
        <4>1. running'[w] \in Messages /\ wpc'[w] = "get"
          BY <1>0, <3>1, HeadAndTail DEF WorkerStart, Pool!Start, WGoto, WorkT, PoolT
        <4> QED
          BY <4>1, ChannelNumbers DEF WorkOK, Walking
      <3>2. CASE WorkerGet(w)
        <4>1. PICK n \in Names : n = name[running[w]]
          BY <2>a, <3>2 DEF WorkerGet
        <4>2. \/ /\ Found(n) /\ wpc'[w] = "lock" /\ wchan'[w] = Head(table[n])
              \/ wpc'[w] \in {"create", "get"}
          BY <1>0, <3>2, <4>1 DEF WorkerGet, WGoto, WorkT
        <4>3. Found(n) => Head(table[n]) \in Channels
          BY <1>0, FoundChannel DEF Found
        <4>4. running'[w] # NULL
          BY <2>2, <3>2 DEF WorkerGet, WorkOK, poolVars
        <4> QED
          BY <4>2, <4>3, <4>4 DEF WorkOK, Walking
      <3>3. CASE WorkerCreate(w)
        <4>1. nextChannel' \in Channels
          BY <1>0, <2>a, <3>3, CreateTypes DEF WorkerCreate
        <4> QED
          BY <1>0, <2>2, <3>3, <4>1 DEF WorkerCreate, WGoto, WorkT, WorkOK, Walking, poolVars
      <3>4. CASE WorkerCreateFails(w) \/ WorkerUnlock(w)
        <4>1. running'[w] = NULL /\ wpc'[w] = "idle"
          BY <1>0, <3>4
          DEF WorkerCreateFails, WorkerUnlock, Pool!Complete, WGoto, WorkT, PoolT
        <4> QED
          BY <4>1 DEF WorkOK, Walking
      <3>5. CASE \/ WorkerLock(w) \/ WorkerVisit(w) \/ WorkerEnqueue(w) \/ WorkerAppend(w)
                 \/ WorkerSignal(w)
        <4>1. /\ UNCHANGED << wchan, running >> /\ wpc[w] \in {"lock"} \cup Walking
          BY <3>5 DEF WorkerLock, WorkerVisit, WorkerEnqueue, WorkerAppend, WorkerSignal,
                      NextProxy, Walking, poolVars
        <4>2. /\ wpc'[w] \in Walking
              /\ wpc'[w] # "each" => todo[w] # << >> /\ todo'[w] = todo[w]
          <5>1. CASE WorkerLock(w)
            BY <1>0, <5>1 DEF WorkerLock, WGoto, WorkT, Walking
          <5>2. CASE WorkerVisit(w)
            BY <1>0, <5>2 DEF WorkerVisit, NextProxy, WGoto, WorkT, Walking
          <5>3. CASE WorkerEnqueue(w)
            BY <1>0, <2>2, <5>3 DEF WorkerEnqueue, NextProxy, WGoto, WorkT, WorkOK, Walking
          <5>4. CASE WorkerAppend(w)
            <6>1. (WGoto(w, "signal") /\ UNCHANGED todo) \/ NextProxy(w)
              BY <5>4 DEF WorkerAppend
            <6> QED
              BY <1>0, <2>2, <5>4, <6>1 DEF WorkerAppend, NextProxy, WGoto, WorkT, WorkOK, Walking
          <5>5. CASE WorkerSignal(w)
            BY <1>0, <5>5 DEF WorkerSignal, NextProxy, WGoto, WorkT, Walking
          <5> QED
            BY <3>5, <5>1, <5>2, <5>3, <5>4, <5>5
        <4> QED
          BY <2>2, <4>1, <4>2 DEF WorkOK, Walking
      <3>6. CASE WorkerLinkFails(w)
        <4>1. running[w] # NULL
          BY <2>2, <3>6 DEF WorkerLinkFails, WorkOK
        <4>2. \/ running'[w] = NULL /\ wpc'[w] = "idle"
              \/ running'[w] = running[w] /\ wpc'[w] = "undefined"
          BY <1>0, <3>6 DEF WorkerLinkFails, Pool!Complete, WGoto, WorkT, PoolT, poolVars
        <4> QED
          BY <4>1, <4>2 DEF WorkOK, Walking
      <3> QED
        BY <1>2, <3>1, <3>2, <3>3, <3>4, <3>5, <3>6 DEF _publisher_task
    <2> QED
      BY <2>1, <2>3
  <1>3. CASE PublisherStep \/ SubscriptionStep \/ ReceiverStep \/ message_broker_free \/ UNCHANGED vars
    <2>1. UNCHANGED << workVars, running >>
      BY <1>3, PublisherFrame, SubscriptionFrame, ReceiverChanges
      DEF SubscriptionStep, ReceiverStep, message_broker_free, Pool!Destroy, vars, poolVars
    <2> QED
      BY <1>1, <2>1
  <1> QED
    BY <1>2, <1>3, NextCases DEF WorkerStep

LEMMA TableGrows ==
  ASSUME IInv, NEW n \in Names, Create(n), UNCHANGED << proxies, stuck >>
  PROVE  table'[n] # << >> /\ \A k \in Names \ {n} : table'[k] = table[k]
  <1>1. /\ nextChannel' \in Channels /\ table[n] \in Seq(Channels)
        /\ table' = [table EXCEPT ![n] = << nextChannel' >> \o @]
        /\ DOMAIN table = Names
    BY CreateTypes DEF IInv, TypeInv, TableT
  <1>2. PICK c \in Channels : c = nextChannel'
    BY <1>1
  <1>3. << c >> \o table[n] # << >>
    BY <1>1, <1>2, PrependProperties
  <1> QED
    BY <1>1, <1>2, <1>3

\* Whoever creates a channel does it under a name.
LEMMA CreateHasName ==
  ASSUME IInv
  PROVE  /\ \A w \in Workers : WorkerCreate(w) =>
              name[running[w]] \in Names /\ Create(name[running[w]]) /\ UNCHANGED << proxies, stuck >>
         /\ \A s \in Subs : SubscribeCreate(s) =>
              sname[s] \in Names /\ Create(sname[s]) /\ UNCHANGED << proxies, stuck >>
  <1>1. ASSUME NEW w \in Workers, WorkerCreate(w)
        PROVE  name[running[w]] \in Names /\ Create(name[running[w]]) /\ UNCHANGED << proxies, stuck >>
    <2>1. WorkOK(w) /\ wpc[w] = "create"
      BY <1>1 DEF IInv, LocalInv, WorkerCreate
    <2> QED
      BY <1>1, <2>1 DEF WorkerCreate, IInv, LocalInv, IdInv, WorkOK, Published
  <1>2. ASSUME NEW s \in Subs, SubscribeCreate(s)
        PROVE  sname[s] \in Names /\ Create(sname[s]) /\ UNCHANGED << proxies, stuck >>
    BY <1>2 DEF SubscribeCreate, IInv, LocalInv, SubOK
  <1> QED
    BY <1>1, <1>2

\* The table changes when a channel is created and when the broker is freed.
LEMMA WhoChangesTable ==
  ASSUME IInv, [Next]_vars
  PROVE  \/ UNCHANGED << table, nextChannel >>
         \/ \E n \in Names : Create(n) /\ UNCHANGED << proxies, stuck >>
         \/ message_broker_free
  <1>1. ASSUME NEW w \in Workers, _publisher_task(w), ~WorkerCreate(w)
        PROVE  UNCHANGED << table, nextChannel >>
    BY <1>1 DEF _publisher_task, WorkerStart, WorkerGet, WorkerCreateFails, WorkerLinkFails,
                LinkFails, WorkerLock, WorkerVisit, WorkerEnqueue, WorkerAppend, WorkerSignal,
                WorkerUnlock, tableVars
  <1>2. ASSUME NEW s \in Subs, ~SubscribeCreate(s),
               \/ SubscriptionContinues(s) \/ UnsubscribeBegin(s) \/ subscription_free(s)
               \/ \E n \in Names : SubscribeGet(s, n)
        PROVE  UNCHANGED << table, nextChannel >>
    BY <1>2 DEF SubscriptionContinues, UnsubscribeBegin, subscription_free, SubscribeGet,
                SubscribeCreateFails, SubscribeLinkFails, LinkFails, SubscribeInsert,
                SubscribeInsertFails, SubscribeWrap,
                UnsubscribeBroadcast, UnsubscribeLockChannels, UnsubscribeLookupFails,
                UnsubscribeGetBlocks, UnsubscribeLockChannel, UnsubscribeRemove,
                UnsubscribeRemovesNothing, UnsubscribeUnlock, UnsubscribeClear, tableVars
  <1>3. CASE PublisherStep \/ ReceiverStep \/ UNCHANGED vars
    BY <1>3, PublisherFrame, ReceiverChanges DEF ReceiverStep, vars, tableVars
  <1> QED
    BY <1>1, <1>2, <1>3, NextCases, CreateHasName DEF WorkerStep, SubscriptionStep

LEMMA SubInvStep ==
  ASSUME IInv, [Next]_vars
  PROVE  \A s \in Subs : SubOK(s)'
  <1>0. TypeInv /\ SubT /\ \A u \in Subs : SubOK(u)
    BY DEF IInv, LocalInv, TypeInv
  <1>1. CASE message_broker_free
    <2>1. UNCHANGED subVars /\ \A s \in Subs : spc[s] \in {"new", "unsubscribed", "gone", "failed"}
      BY <1>1 DEF message_broker_free
    <2> QED
      BY <1>0, <2>1 DEF SubOK, subVars, HasChannel, Unsubscribing
  <1>2. ASSUME ~message_broker_free, NEW n \in Names, table[n] # << >>
        PROVE  table'[n] # << >>
    BY <1>2, WhoChangesTable, TableGrows
  <1>3. ASSUME ~message_broker_free, UNCHANGED subVars PROVE \A s \in Subs : SubOK(s)'
    BY <1>0, <1>2, <1>3 DEF SubOK, subVars, HasChannel, Unsubscribing
  <1>4. CASE SubscriptionStep /\ ~message_broker_free
    <2>1. PICK s \in Subs :
            \/ SubscriptionContinues(s) \/ UnsubscribeBegin(s) \/ subscription_free(s)
            \/ \E n \in Names : SubscribeGet(s, n)
      BY <1>4 DEF SubscriptionStep
    <2>2. ASSUME NEW u \in Subs \ {s} PROVE SubOK(u)'
      <3>1. /\ spc'[u] = spc[u] /\ sname'[u] = sname[u] /\ schan'[u] = schan[u]
        BY <1>0, <2>1, SubscriptionFrame
      <3> QED
        BY <1>0, <1>2, <1>4, <3>1 DEF SubOK, HasChannel, Unsubscribing
    <2>3. SubOK(s) /\ DOMAIN spc = Subs /\ DOMAIN sname = Subs /\ DOMAIN schan = Subs
      BY <1>0 DEF SubT
    <2>4. SubOK(s)'
      <3>1. ASSUME NEW n \in Names, SubscribeGet(s, n) PROVE SubOK(s)'
        <4>1. sname'[s] = n /\ UNCHANGED table
          BY <2>3, <3>1 DEF SubscribeGet, tableVars
        <4>2. \/ Found(n) /\ schan'[s] = Head(table[n]) /\ spc'[s] = "insert"
              \/ spc'[s] \in {"create", "hung"}
          BY <2>3, <3>1 DEF SubscribeGet, SGoto
        <4>3. Found(n) => Head(table[n]) \in Channels /\ table[n] # << >>
          BY <1>0, FoundChannel DEF Found
        <4> QED
          BY <3>1, <4>1, <4>2, <4>3 DEF SubOK, HasChannel, Unsubscribing
      <3>2. CASE SubscribeCreate(s)
        <4>1. sname[s] \in Names /\ Create(sname[s]) /\ UNCHANGED << proxies, stuck >>
          BY <3>2, CreateHasName
        <4>2. nextChannel' \in Channels /\ table'[sname[s]] # << >>
          BY <1>0, <4>1, CreateTypes, TableGrows
        <4>3. schan'[s] = nextChannel' /\ UNCHANGED sname
          BY <2>3, <3>2 DEF SubscribeCreate
        <4> QED
          BY <4>1, <4>2, <4>3 DEF SubOK
      <3>3. CASE UnsubscribeLockChannels(s)
        <4>1. sname[s] \in Names /\ table[sname[s]] # << >>
          BY <2>3, <3>3 DEF UnsubscribeLockChannels, SubOK, HasChannel, Unsubscribing
        <4>2. /\ Head(table[sname[s]]) \in Channels /\ schan'[s] = Head(table[sname[s]])
              /\ UNCHANGED << sname, table >>
          BY <1>0, <2>3, <3>3, <4>1, FoundChannel DEF UnsubscribeLockChannels, tableVars
        <4> QED
          BY <4>1, <4>2 DEF SubOK
      <3>4. CASE \/ SubscribeInsert(s) \/ SubscribeWrap(s) \/ UnsubscribeBegin(s)
                 \/ UnsubscribeBroadcast(s) \/ UnsubscribeLookupFails(s)
                 \/ UnsubscribeLockChannel(s) \/ UnsubscribeRemove(s)
                 \/ UnsubscribeRemovesNothing(s) \/ UnsubscribeUnlock(s)
                 \/ UnsubscribeGetBlocks(s)
        <4>1. spc[s] \in HasChannel /\ UNCHANGED << sname, schan >>
          BY <3>4 DEF UnsubscribeGetBlocks, subVars, SubscribeInsert, SubscribeWrap, UnsubscribeBegin,
             UnsubscribeBroadcast, UnsubscribeLookupFails, UnsubscribeLockChannel,
             UnsubscribeRemove, UnsubscribeRemovesNothing, UnsubscribeUnlock, HasChannel,
             Unsubscribing
        <4>2. spc[s] # "new"
          BY <4>1 DEF HasChannel, Unsubscribing
        <4> QED
          BY <1>2, <1>4, <2>3, <4>1, <4>2 DEF SubOK
      <3>5. CASE \/ SubscribeCreateFails(s) \/ SubscribeLinkFails(s) \/ SubscribeInsertFails(s)
                 \/ UnsubscribeClear(s) \/ subscription_free(s)
        <4>1. /\ spc[s] # "new" /\ UNCHANGED << sname, schan >>
              /\ spc'[s] \in {"failed", "hung", "unsubscribed", "gone"}
          BY <2>3, <3>5 DEF SubscribeCreateFails, SubscribeLinkFails, SubscribeInsertFails,
             UnsubscribeClear, subscription_free, SGoto
        <4> QED
          BY <2>3, <4>1 DEF SubOK, HasChannel, Unsubscribing
      <3> QED
        BY <2>1, <3>1, <3>2, <3>3, <3>4, <3>5 DEF SubscriptionContinues
    <2> QED
      BY <2>2, <2>4
  <1>5. CASE (PublisherStep \/ WorkerStep \/ ReceiverStep \/ UNCHANGED vars) /\ ~message_broker_free
    <2>1. UNCHANGED subVars
      BY <1>5, PublisherFrame, WorkerFrame, ReceiverChanges DEF WorkerStep, ReceiverStep, vars
    <2> QED
      BY <1>3, <1>5, <2>1
  <1> QED
    BY <1>1, <1>4, <1>5, NextCases

LEMMA InitLocal == Init => IInv
  <1> SUFFICES ASSUME Init PROVE IInv
    OBVIOUS
  <1>0. 1 \in 1..(MaxMessages + 1)
    BY ChannelNumbers
  <1>a. PubT
    BY <1>0 DEF Init, PubT
  <1>b. PoolT
    <2>1. /\ pending = << >> /\ running = [w \in Workers |-> NULL]
          /\ completed = {} /\ discarded = {} /\ closed = FALSE
      BY DEF Init, Pool!Init
    <2>2. << >> \in Seq(Messages)
      OBVIOUS
    <2> QED
      BY <2>1, <2>2 DEF PoolT
  <1>1. ProxyT
    BY DEF Init, ProxyT
  <1>2. TableT /\ ChannelLockT /\ InboxLockT
    BY ChannelNumbers DEF Init, TableT, ChannelLockT, InboxLockT
  <1>3. WorkT /\ SubT /\ RecvT
    BY DEF Init, WorkT, SubT, RecvT, WorkerPC, SubPC, ReceiverPC
  <1>4. SeenT /\ BoundT
    BY BrokerAssumption DEF Init, SeenT, BoundT
  <1>5. LocalInv
    BY ChannelNumbers DEF Init, Pool!Init, LocalInv, IdInv, Published, Messages, WorkOK, Walking, SubOK,
       HasChannel, Unsubscribing
  <1> QED
    BY <1>a, <1>b, <1>1, <1>2, <1>3, <1>4, <1>5 DEF IInv, TypeInv

LEMMA Locals == Spec => []IInv
  <1>1. IInv /\ [Next]_vars => IInv'
    BY TypeInvStep, IdInvStep, WorkInvStep, SubInvStep DEF IInv, LocalInv
  <1> QED
    BY <1>1, InitLocal, PTL DEF Spec

\* Every variable of the broker keeps its type: an inbox holds messages and
\* never the NULL of a copy that could not be allocated, a lookup hands out a
\* channel that exists, and the counters of ids and channels stay in bounds.
THEOREM TypeCorrect == Spec => []TypeOK
  <1>1. IInv => TypeOK
    BY TypeInvIsTypeOK DEF IInv
  <1> QED
    BY <1>1, Locals, PTL

-----------------------------------------------------------------------------
(* Locks *)

HasChannels == {"create", "hung", "lockChannel", "remove", "unlock"}

\* A thread that waits for a locked bucket holds _channels_mutex too.
WorkerLocks(w) ==
  /\ wpc[w] = "create" => channelsMutex = w
  /\ channelsMutex = w => wpc[w] \in {"create", "get"}
  /\ wpc[w] \in Walking => channelMutex[wchan[w]] = w

SubLocks(s) ==
  /\ spc[s] \in HasChannels => channelsMutex = s
  /\ channelsMutex = s => spc[s] \in HasChannels \cup {"lockChannels"}
  /\ spc[s] \in {"remove", "unlock"} => channelMutex[schan[s]] = s

LockInv ==
  /\ \A w \in Workers : WorkerLocks(w)
  /\ \A s \in Subs : SubLocks(s)

\* A mutex that only this thread takes or releases.
LEMMA LockFrame ==
  ASSUME IInv, LockInv, NEW t \in Threads,
         \A v \in Workers \ {t} : wpc'[v] = wpc[v] /\ wchan'[v] = wchan[v],
         \A u \in Subs \ {t} : spc'[u] = spc[u] /\ schan'[u] = schan[u],
         \/ channelsMutex' = channelsMutex
         \/ channelsMutex = NoThread /\ channelsMutex' = t
         \/ channelsMutex = t /\ channelsMutex' = NoThread,
         \A c \in Channels : \/ channelMutex'[c] = channelMutex[c]
                             \/ channelMutex[c] \in {NoThread, t},
         t \in Workers => WorkerLocks(t)',
         t \in Subs => SubLocks(t)'
  PROVE  LockInv'
  <1>0. NoThread \notin Workers \cup Subs
    BY BrokerAssumption DEF Threads
  <1>1. ASSUME NEW v \in Workers \ {t} PROVE WorkerLocks(v)'
    <2>1. WorkerLocks(v) /\ WorkOK(v) /\ wpc'[v] = wpc[v] /\ wchan'[v] = wchan[v]
      BY DEF LockInv, IInv, LocalInv
    <2>2. channelsMutex' = v <=> channelsMutex = v
      BY <1>0
    <2>3. wpc[v] \in Walking => channelMutex'[wchan[v]] = v
      BY <1>0, <2>1 DEF WorkerLocks, WorkOK
    <2> QED
      BY <2>1, <2>2, <2>3 DEF WorkerLocks
  <1>2. ASSUME NEW u \in Subs \ {t} PROVE SubLocks(u)'
    <2>1. SubLocks(u) /\ SubOK(u) /\ spc'[u] = spc[u] /\ schan'[u] = schan[u]
      BY DEF LockInv, IInv, LocalInv
    <2>2. channelsMutex' = u <=> channelsMutex = u
      BY <1>0
    <2>3. spc[u] \in {"remove", "unlock"} => channelMutex'[schan[u]] = u
      BY <1>0, <2>1 DEF SubLocks, SubOK, HasChannel, Unsubscribing
    <2> QED
      BY <2>1, <2>2, <2>3 DEF SubLocks
  <1> QED
    BY <1>1, <1>2 DEF LockInv

LEMMA WorkerLockStep ==
  ASSUME IInv, LockInv, NEW w \in Workers, _publisher_task(w)
  PROVE  LockInv'
  <1>0. /\ WorkT /\ ChannelLockT /\ WorkOK(w) /\ WorkerLocks(w)
        /\ w \in Threads /\ w \notin Subs /\ w # NoThread
        /\ DOMAIN wpc = Workers /\ DOMAIN wchan = Workers /\ DOMAIN channelMutex = Channels
    BY BrokerAssumption DEF IInv, LocalInv, LockInv, TypeInv, Threads, WorkT, ChannelLockT
  <1>1. /\ \A v \in Workers \ {w} : wpc'[v] = wpc[v] /\ wchan'[v] = wchan[v]
        /\ UNCHANGED subVars
    BY WorkerFrame DEF IInv
  <1> DEFINE L == /\ \/ channelsMutex' = channelsMutex
                     \/ channelsMutex = NoThread /\ channelsMutex' = w
                     \/ channelsMutex = w /\ channelsMutex' = NoThread
                  /\ \A c \in Channels : \/ channelMutex'[c] = channelMutex[c]
                                         \/ channelMutex[c] \in {NoThread, w}
                  /\ WorkerLocks(w)'
  <1>2. CASE WorkerStart(w)
    <2>1. wpc[w] = "idle" /\ wpc'[w] = "get" /\ UNCHANGED << channelsMutex, channelMutex >>
      BY <1>0, <1>2 DEF WorkerStart, WGoto, lockVars
    <2> QED
      BY <1>0, <1>1, <2>1, LockFrame DEF WorkerLocks, Walking, subVars
  <1>3. CASE WorkerGet(w)
    <2>1. /\ wpc[w] = "get" /\ UNCHANGED channelMutex
          /\ \/ wpc'[w] = "lock" /\ UNCHANGED channelsMutex
             \/ wpc'[w] \in {"create", "get"} /\ channelsMutex = NoThread /\ channelsMutex' = w
          /\ channelsMutex = NoThread
      BY <1>0, <1>3 DEF WorkerGet, WGoto, Found, NotFound, LookupBlocks
    <2>2. L
      BY <1>0, <2>1 DEF WorkerLocks, Walking
    <2> QED
      BY <1>0, <1>1, <2>2, LockFrame DEF subVars
  <1>4. CASE WorkerCreate(w) \/ WorkerCreateFails(w) \/ WorkerLinkFails(w)
    <2>1. /\ wpc[w] = "create" /\ UNCHANGED channelMutex /\ channelsMutex' = NoThread
          /\ wpc'[w] \in {"lock", "idle", "undefined"}
      BY <1>0, <1>4 DEF WorkerCreate, Create, WorkerCreateFails, CreateFails,
                        WorkerLinkFails, WGoto
    <2>2. L
      BY <1>0, <2>1 DEF WorkerLocks, Walking
    <2> QED
      BY <1>0, <1>1, <2>2, LockFrame DEF subVars
  <1>5. CASE WorkerLock(w)
    <2>1. /\ wpc[w] = "lock" /\ UNCHANGED << channelsMutex, wchan >> /\ wpc'[w] = "each"
          /\ wchan[w] \in Channels /\ channelMutex[wchan[w]] = NoThread
          /\ channelMutex' = [channelMutex EXCEPT ![wchan[w]] = w]
      BY <1>0, <1>5 DEF WorkerLock, WGoto, WorkOK
    <2>2. L
      BY <1>0, <2>1 DEF WorkerLocks, Walking
    <2> QED
      BY <1>0, <1>1, <2>2, LockFrame DEF subVars
  <1>6. CASE \/ WorkerVisit(w) \/ WorkerEnqueue(w) \/ WorkerAppend(w) \/ WorkerSignal(w)
    <2>1. /\ wpc[w] \in Walking /\ UNCHANGED << channelsMutex, channelMutex, wchan >>
      BY <1>6 DEF WorkerVisit, WorkerEnqueue, WorkerAppend, WorkerSignal, Walking, lockVars
    <2>2. wpc'[w] \in Walking
      BY <1>0, <1>6
      DEF WorkerVisit, WorkerEnqueue, WorkerAppend, WorkerSignal, NextProxy, WGoto, Walking
    <2>3. L
      BY <1>0, <2>1, <2>2 DEF WorkerLocks, Walking
    <2> QED
      BY <1>0, <1>1, <2>3, LockFrame DEF subVars
  <1>7. CASE WorkerUnlock(w)
    <2>1. /\ wpc[w] = "each" /\ UNCHANGED channelsMutex /\ wpc'[w] = "idle"
          /\ channelMutex[wchan[w]] = w /\ wchan[w] \in Channels
          /\ channelMutex' = [channelMutex EXCEPT ![wchan[w]] = NoThread]
      BY <1>0, <1>7 DEF WorkerUnlock, WGoto, WorkOK, WorkerLocks, Walking
    <2>2. L
      BY <1>0, <2>1 DEF WorkerLocks, Walking
    <2> QED
      BY <1>0, <1>1, <2>2, LockFrame DEF subVars
  <1> QED
    BY <1>2, <1>3, <1>4, <1>5, <1>6, <1>7 DEF _publisher_task

LEMMA SubscriptionLockStep ==
  ASSUME IInv, LockInv, NEW s \in Subs,
         \/ SubscriptionContinues(s) \/ UnsubscribeBegin(s) \/ subscription_free(s)
         \/ \E n \in Names : SubscribeGet(s, n)
  PROVE  LockInv'
  <1>0. /\ SubT /\ ChannelLockT /\ SubOK(s) /\ SubLocks(s)
        /\ s \in Threads /\ s \notin Workers /\ s # NoThread
        /\ DOMAIN spc = Subs /\ DOMAIN schan = Subs /\ DOMAIN channelMutex = Channels
    BY BrokerAssumption DEF IInv, LocalInv, LockInv, TypeInv, Threads, SubT, ChannelLockT
  <1>1. /\ \A u \in Subs \ {s} : spc'[u] = spc[u] /\ schan'[u] = schan[u]
        /\ UNCHANGED workVars
    BY SubscriptionFrame DEF IInv
  <1> DEFINE L == /\ \/ channelsMutex' = channelsMutex
                     \/ channelsMutex = NoThread /\ channelsMutex' = s
                     \/ channelsMutex = s /\ channelsMutex' = NoThread
                  /\ \A c \in Channels : \/ channelMutex'[c] = channelMutex[c]
                                         \/ channelMutex[c] \in {NoThread, s}
                  /\ SubLocks(s)'
  <1>a. ASSUME L PROVE LockInv'
    BY <1>0, <1>1, <1>a, LockFrame DEF workVars
  <1>2. ASSUME NEW n \in Names, SubscribeGet(s, n) PROVE L
    <2>1. /\ spc[s] = "new" /\ UNCHANGED channelMutex
          /\ \/ spc'[s] = "insert" /\ UNCHANGED channelsMutex
             \/ spc'[s] \in {"create", "hung"} /\ channelsMutex = NoThread /\ channelsMutex' = s
      BY <1>0, <1>2 DEF SubscribeGet, SGoto, Found, NotFound, LookupBlocks
    <2> QED
      BY <1>0, <2>1 DEF SubLocks, HasChannels
  <1>3. CASE SubscribeCreate(s) \/ SubscribeCreateFails(s)
    <2>1. /\ spc[s] = "create" /\ UNCHANGED channelMutex /\ channelsMutex' = NoThread
          /\ spc'[s] \in {"insert", "failed"}
      BY <1>0, <1>3 DEF SubscribeCreate, Create, SubscribeCreateFails, CreateFails, SGoto
    <2>2. L
      BY <1>0, <2>1 DEF SubLocks, HasChannels
    <2> QED
      BY <1>a, <2>2
  <1>9. CASE SubscribeLinkFails(s)
    <2>1. /\ spc[s] = "create" /\ UNCHANGED channelMutex
          /\ \/ spc'[s] = "failed" /\ channelsMutex' = NoThread
             \/ spc'[s] = "hung" /\ UNCHANGED channelsMutex
      BY <1>0, <1>9 DEF SubscribeLinkFails, SGoto
    <2>2. L
      BY <1>0, <2>1 DEF SubLocks, HasChannels
    <2> QED
      BY <1>a, <2>2
  <1>10. CASE UnsubscribeGetBlocks(s)
    <2>1. /\ spc[s] = "lockChannels" /\ UNCHANGED << channelMutex, spc >>
          /\ channelsMutex = NoThread /\ channelsMutex' = s
      BY <1>0, <1>10 DEF UnsubscribeGetBlocks, LookupBlocks, subVars
    <2>2. L
      BY <1>0, <2>1 DEF SubLocks, HasChannels
    <2> QED
      BY <1>a, <2>2
  <1>4. CASE \/ SubscribeInsert(s) \/ SubscribeInsertFails(s) \/ SubscribeWrap(s)
             \/ UnsubscribeBegin(s) \/ UnsubscribeBroadcast(s) \/ UnsubscribeLookupFails(s)
             \/ UnsubscribeClear(s) \/ subscription_free(s)
    <2>1. /\ UNCHANGED << channelsMutex, channelMutex >>
          /\ spc[s] \notin HasChannels /\ spc'[s] \notin HasChannels
          /\ spc[s] = "lockChannels" => channelsMutex = NoThread
      BY <1>0, <1>4 DEF SubscribeInsert, SubscribeInsertFails, SubscribeWrap,
         UnsubscribeBegin, UnsubscribeBroadcast, UnsubscribeLookupFails, UnsubscribeClear,
         subscription_free, SGoto, lockVars, HasChannels
    <2>2. L
      BY <1>0, <2>1 DEF SubLocks, HasChannels
    <2> QED
      BY <1>a, <2>2
  <1>5. CASE UnsubscribeLockChannels(s)
    <2>1. /\ spc[s] = "lockChannels" /\ UNCHANGED channelMutex /\ spc'[s] = "lockChannel"
          /\ channelsMutex = NoThread /\ channelsMutex' = s
      BY <1>0, <1>5 DEF UnsubscribeLockChannels, SGoto
    <2>2. L
      BY <1>0, <2>1 DEF SubLocks, HasChannels
    <2> QED
      BY <1>a, <2>2
  <1>6. CASE UnsubscribeLockChannel(s)
    <2>1. /\ spc[s] = "lockChannel" /\ spc'[s] = "remove" /\ UNCHANGED << channelsMutex, schan >>
          /\ schan[s] \in Channels /\ channelMutex[schan[s]] = NoThread
          /\ channelMutex' = [channelMutex EXCEPT ![schan[s]] = s]
      BY <1>0, <1>6 DEF UnsubscribeLockChannel, SGoto, SubOK, HasChannel, Unsubscribing
    <2>2. L
      BY <1>0, <2>1 DEF SubLocks, HasChannels
    <2> QED
      BY <1>a, <2>2
  <1>7. CASE UnsubscribeRemove(s) \/ UnsubscribeRemovesNothing(s)
    <2>1. /\ spc[s] = "remove" /\ spc'[s] = "unlock"
          /\ UNCHANGED << channelsMutex, channelMutex, schan >>
      BY <1>0, <1>7 DEF UnsubscribeRemove, UnsubscribeRemovesNothing, SGoto, lockVars
    <2>2. L
      BY <1>0, <2>1 DEF SubLocks, HasChannels
    <2> QED
      BY <1>a, <2>2
  <1>8. CASE UnsubscribeUnlock(s)
    <2>1. /\ spc[s] = "unlock" /\ spc'[s] = "clear" /\ channelsMutex' = NoThread
          /\ schan[s] \in Channels /\ channelMutex[schan[s]] = s
          /\ channelMutex' = [channelMutex EXCEPT ![schan[s]] = NoThread]
      BY <1>0, <1>8
      DEF UnsubscribeUnlock, SGoto, SubOK, SubLocks, HasChannel, Unsubscribing
    <2>2. L
      BY <1>0, <2>1 DEF SubLocks, HasChannels
    <2> QED
      BY <1>a, <2>2
  <1> QED
    BY <1>a, <1>2, <1>3, <1>4, <1>5, <1>6, <1>7, <1>8, <1>9, <1>10 DEF SubscriptionContinues

LEMMA LockInvStep ==
  ASSUME IInv, LockInv, [Next]_vars
  PROVE  LockInv'
  <1>1. CASE PublisherStep \/ ReceiverStep \/ message_broker_free \/ UNCHANGED vars
    <2>1. UNCHANGED << workVars, subVars, channelsMutex, channelMutex >>
      BY <1>1, PublisherFrame, ReceiverChanges
      DEF ReceiverStep, message_broker_free, vars, lockVars
    <2> QED
      BY <2>1 DEF LockInv, WorkerLocks, SubLocks, workVars, subVars
  <1> QED
    BY <1>1, NextCases, WorkerLockStep, SubscriptionLockStep DEF WorkerStep, SubscriptionStep

LEMMA Locks == Spec => [](IInv /\ LockInv)
  <1>1. Init => LockInv
    BY BrokerAssumption
    DEF Init, LockInv, WorkerLocks, SubLocks, HasChannels, Walking, Threads
  <1>2. IInv /\ LockInv /\ [Next]_vars => LockInv'
    BY LockInvStep
  <1> QED
    BY <1>1, <1>2, Locals, PTL DEF Spec

-----------------------------------------------------------------------------
(* Proxies: who is in the list of a channel, and who has been freed. *)

Unregistered == {"new", "create", "insert", "hung"}

Done == {"unlock", "clear", "unsubscribed", "gone", "failed"}

ListOK(c) ==
  /\ IsInjective(proxies[c])
  /\ \A s \in Range(proxies[c]) : s \notin freed /\ spc[s] \notin Unregistered

OneList ==
  \A c, d \in Channels : \A s \in Range(proxies[c]) : s \in Range(proxies[d]) => c = d

WalkOK(w) == wpc[w] \in Walking => Range(todo[w]) \subseteq Range(proxies[wchan[w]])

ProxyInv ==
  /\ \A c \in Channels : ListOK(c)
  /\ OneList
  /\ \A s \in freed : spc[s] \in Done
  /\ \A w \in Workers : WalkOK(w)

\* A subscription that is registered stays so, and one that may be freed
\* never goes back to where it is used.
LEMMA SubscriptionProgress ==
  ASSUME TypeInv, NEW s \in Subs,
         \/ SubscriptionContinues(s) \/ UnsubscribeBegin(s) \/ subscription_free(s)
         \/ \E n \in Names : SubscribeGet(s, n)
  PROVE  \A u \in Subs : /\ spc[u] \notin Unregistered => spc'[u] \notin Unregistered
                         /\ spc[u] \in Done => spc'[u] \in Done
  <1>0. DOMAIN spc = Subs
    BY DEF TypeInv, SubT
  <1>1. spc[s] \notin Unregistered => spc'[s] \notin Unregistered
    <2>1. CASE \E n \in Names : SubscribeGet(s, n)
      BY <2>1 DEF SubscribeGet, Unregistered
    <2>2. CASE \/ SubscribeCreate(s) \/ SubscribeCreateFails(s) \/ SubscribeInsert(s)
               \/ SubscribeInsertFails(s) \/ SubscribeWrap(s) \/ UnsubscribeBegin(s)
               \/ UnsubscribeBroadcast(s) \/ SubscribeLinkFails(s) \/ UnsubscribeGetBlocks(s)
      BY <1>0, <2>2 DEF SubscribeCreate, SubscribeCreateFails, SubscribeLinkFails,
         UnsubscribeGetBlocks, subVars, SubscribeInsert,
         SubscribeInsertFails, SubscribeWrap, UnsubscribeBegin, UnsubscribeBroadcast,
         SGoto, Unregistered
    <2>3. CASE \/ UnsubscribeLockChannels(s) \/ UnsubscribeLookupFails(s)
               \/ UnsubscribeLockChannel(s) \/ UnsubscribeRemovesNothing(s)
               \/ UnsubscribeUnlock(s) \/ UnsubscribeClear(s) \/ subscription_free(s)
      BY <1>0, <2>3 DEF UnsubscribeLockChannels, UnsubscribeLookupFails,
         UnsubscribeLockChannel, UnsubscribeRemovesNothing, UnsubscribeUnlock,
         UnsubscribeClear, subscription_free, SGoto, Unregistered
    <2>4. CASE UnsubscribeRemove(s)
      <3>1. spc'[s] = "unlock"
        BY <1>0, <2>4 DEF UnsubscribeRemove, SGoto
      <3> QED
        BY <3>1 DEF Unregistered
    <2> QED
      BY <2>1, <2>2, <2>3, <2>4 DEF SubscriptionContinues
  <1>2. spc[s] \in Done => spc'[s] \in Done
    <2>1. CASE \E n \in Names : SubscribeGet(s, n)
      BY <2>1 DEF SubscribeGet, Done
    <2>2. CASE \/ SubscribeCreate(s) \/ SubscribeCreateFails(s) \/ SubscribeInsert(s)
               \/ SubscribeInsertFails(s) \/ SubscribeWrap(s) \/ UnsubscribeBegin(s)
               \/ UnsubscribeBroadcast(s) \/ UnsubscribeLockChannels(s)
               \/ UnsubscribeLookupFails(s) \/ UnsubscribeLockChannel(s)
               \/ UnsubscribeRemovesNothing(s) \/ UnsubscribeRemove(s)
               \/ SubscribeLinkFails(s) \/ UnsubscribeGetBlocks(s)
      BY <2>2 DEF SubscribeCreate, SubscribeCreateFails, SubscribeLinkFails,
         UnsubscribeGetBlocks, SubscribeInsert,
         SubscribeInsertFails, SubscribeWrap, UnsubscribeBegin, UnsubscribeBroadcast,
         UnsubscribeLockChannels, UnsubscribeLookupFails, UnsubscribeLockChannel,
         UnsubscribeRemovesNothing, UnsubscribeRemove, Done
    <2>3. CASE UnsubscribeUnlock(s) \/ UnsubscribeClear(s) \/ subscription_free(s)
      BY <1>0, <2>3 DEF UnsubscribeUnlock, UnsubscribeClear, subscription_free, SGoto, Done
    <2> QED
      BY <2>1, <2>2, <2>3 DEF SubscriptionContinues
  <1> QED
    BY <1>1, <1>2, SubscriptionFrame

LEMMA ProxyFrame ==
  ASSUME ProxyInv, TypeInv, UNCHANGED << proxies, freed >>,
         \A u \in Subs : /\ spc[u] \notin Unregistered => spc'[u] \notin Unregistered
                         /\ spc[u] \in Done => spc'[u] \in Done,
         \A w \in Workers : WalkOK(w)'
  PROVE  ProxyInv'
  <1>1. \A c \in Channels : Range(proxies[c]) \subseteq Subs
    BY DEF TypeInv, TableT, Range
  <1>2. \A c \in Channels : ListOK(c)'
    BY <1>1 DEF ProxyInv, ListOK
  <1>3. OneList'
    BY DEF ProxyInv, OneList
  <1>4. \A s \in freed' : spc'[s] \in Done
    BY DEF ProxyInv, TypeInv, ProxyT
  <1> QED
    BY <1>2, <1>3, <1>4 DEF ProxyInv

\* The insertion of a proxy that is in no list.
LEMMA AddToList ==
  ASSUME TypeInv, ProxyInv, NEW c \in Channels, NEW s \in Subs,
         s \notin Range(proxies[c]), proxies' = [proxies EXCEPT ![c] = Append(@, s)]
  PROVE  /\ IsInjective(proxies'[c]) /\ Range(proxies'[c]) = Range(proxies[c]) \cup {s}
         /\ \A d \in Channels \ {c} : proxies'[d] = proxies[d]
  <1>1. PICK q \in Seq(Subs) : q = proxies[c]
    BY DEF TypeInv, TableT
  <1>2. IsInjective(q) /\ DOMAIN proxies = Channels
    BY <1>1 DEF ProxyInv, ListOK, TypeInv, TableT
  <1>3. IsInjective(Append(q, s)) /\ Range(Append(q, s)) = Range(q) \cup {s}
    BY <1>1, <1>2, AppendKeepsInjective, RangeOfAppend
  <1>4. proxies' = [proxies EXCEPT ![c] = Append(q, s)]
    BY <1>1
  <1> QED
    BY <1>1, <1>2, <1>3, <1>4

\* The removal of a proxy from the list that holds it.
LEMMA RemoveFromList ==
  ASSUME TypeInv, ProxyInv, NEW c \in Channels, NEW s \in Range(proxies[c]),
         proxies' = [proxies EXCEPT ![c] =
                       RemoveAt(@, CHOOSE i \in 1..Len(@) : @[i] = s)]
  PROVE  /\ IsInjective(proxies'[c]) /\ Range(proxies'[c]) = Range(proxies[c]) \ {s}
         /\ \A d \in Channels \ {c} : proxies'[d] = proxies[d]
  <1>1. PICK q \in Seq(Subs) : q = proxies[c]
    BY DEF TypeInv, TableT
  <1>2. IsInjective(q) /\ DOMAIN proxies = Channels
    BY <1>1 DEF ProxyInv, ListOK, TypeInv, TableT
  <1>3. \E i \in 1..Len(q) : q[i] = s
    BY <1>1 DEF Range
  <1>4. PICK k \in 1..Len(q) : k = (CHOOSE i \in 1..Len(q) : q[i] = s) /\ q[k] = s
    BY <1>3
  <1>5. proxies' = [proxies EXCEPT ![c] = RemoveAt(q, k)]
    BY <1>1, <1>4
  <1>6. IsInjective(RemoveAt(q, k)) /\ Range(RemoveAt(q, k)) = Range(q) \ {s}
    <2>1. q \in Seq(Subs) /\ k \in 1..Len(q) /\ q[k] = s /\ IsInjective(q)
      BY <1>1, <1>2, <1>4
    <2>2. Range(RemoveAt(q, k)) = Range(q) \ {q[k]} /\ IsInjective(RemoveAt(q, k))
      BY <2>1, RemoveAtProperties
    <2> QED
      BY <2>1, <2>2
  <1> QED
    BY <1>1, <1>2, <1>5, <1>6

LEMMA WorkerProxyStep ==
  ASSUME IInv, LockInv, ProxyInv, NEW w \in Workers, _publisher_task(w)
  PROVE  ProxyInv'
  <1>0. /\ TypeInv /\ WorkOK(w) /\ WalkOK(w) /\ todo[w] \in Seq(Subs)
        /\ DOMAIN wpc = Workers /\ DOMAIN wchan = Workers /\ DOMAIN todo = Workers
    BY DEF IInv, LocalInv, TypeInv, WorkT, ProxyInv
  <1>1. /\ UNCHANGED << proxies, freed, subVars >>
        /\ \A v \in Workers \ {w} :
             wpc'[v] = wpc[v] /\ wchan'[v] = wchan[v] /\ todo'[v] = todo[v]
    BY <1>0, WorkerFrame
  <1>2. ASSUME NEW v \in Workers \ {w} PROVE WalkOK(v)'
    BY <1>1, <1>2 DEF WalkOK, ProxyInv
  <1>a. ASSUME WalkOK(w)' PROVE ProxyInv'
    BY <1>0, <1>1, <1>2, <1>a, ProxyFrame DEF subVars
  <1>3. CASE \/ WorkerStart(w) \/ WorkerGet(w) \/ WorkerCreate(w) \/ WorkerCreateFails(w)
             \/ WorkerUnlock(w) \/ WorkerLinkFails(w)
    <2>1. wpc'[w] \in {"get", "lock", "create", "idle", "undefined"}
      BY <1>0, <1>3 DEF WorkerStart, WorkerGet, WorkerCreate, WorkerCreateFails,
         WorkerLinkFails, WorkerUnlock, WGoto
    <2>2. WalkOK(w)'
      BY <2>1 DEF WalkOK, Walking
    <2> QED
      BY <1>a, <2>2
  <1>4. CASE WorkerLock(w)
    <2>1. /\ UNCHANGED << wchan, proxies >>
          /\ todo'[w] = proxies[wchan[w]] \/ todo'[w] = << >>
      BY <1>0, <1>1, <1>4 DEF WorkerLock
    <2>2. WalkOK(w)'
      BY <2>1 DEF WalkOK, Range
    <2> QED
      BY <1>a, <2>2
  <1>5. CASE WorkerVisit(w) \/ WorkerEnqueue(w) \/ WorkerAppend(w) \/ WorkerSignal(w)
    <2>1. /\ wpc[w] \in Walking /\ todo[w] # << >> /\ UNCHANGED << wchan, proxies >>
      BY <1>0, <1>1, <1>5
      DEF WorkerVisit, WorkerEnqueue, WorkerAppend, WorkerSignal, WorkOK, Walking
    <2>2. todo'[w] = todo[w] \/ todo'[w] = Tail(todo[w])
      BY <1>0, <1>5 DEF WorkerVisit, WorkerEnqueue, WorkerAppend, WorkerSignal, NextProxy
    <2>3. Range(Tail(todo[w])) \subseteq Range(todo[w])
      BY <1>0, <2>1, HeadAndTail
    <2>4. WalkOK(w)'
      BY <1>0, <2>1, <2>2, <2>3 DEF WalkOK
    <2> QED
      BY <1>a, <2>4
  <1> QED
    BY <1>3, <1>4, <1>5 DEF _publisher_task

LEMMA WhoChangesLists ==
  ASSUME NEW s \in Subs,
         \/ SubscriptionContinues(s) \/ UnsubscribeBegin(s) \/ subscription_free(s)
         \/ \E n \in Names : SubscribeGet(s, n)
  PROVE  SubscribeInsert(s) \/ UnsubscribeRemove(s) \/ UNCHANGED << proxies, freed >>
  <1>1. ASSUME NEW n \in Names, SubscribeGet(s, n) PROVE UNCHANGED << proxies, freed >>
    BY <1>1 DEF SubscribeGet, tableVars, proxyVars
  <1>2. CASE \/ SubscribeCreate(s) \/ SubscribeCreateFails(s) \/ SubscribeInsertFails(s)
             \/ SubscribeWrap(s) \/ UnsubscribeBegin(s) \/ UnsubscribeBroadcast(s)
             \/ UnsubscribeLockChannels(s) \/ UnsubscribeLookupFails(s)
             \/ SubscribeLinkFails(s) \/ UnsubscribeGetBlocks(s)
    BY <1>2 DEF SubscribeCreate, SubscribeCreateFails, SubscribeLinkFails, LinkFails,
       UnsubscribeGetBlocks, SubscribeInsertFails,
       SubscribeWrap, UnsubscribeBegin, UnsubscribeBroadcast, UnsubscribeLockChannels,
       UnsubscribeLookupFails, tableVars, proxyVars
  <1>3. CASE \/ UnsubscribeLockChannel(s) \/ UnsubscribeRemovesNothing(s)
             \/ UnsubscribeUnlock(s) \/ UnsubscribeClear(s) \/ subscription_free(s)
    BY <1>3 DEF UnsubscribeLockChannel, UnsubscribeRemovesNothing, UnsubscribeUnlock,
       UnsubscribeClear, subscription_free, tableVars, proxyVars
  <1> QED
    BY <1>1, <1>2, <1>3 DEF SubscriptionContinues

LEMMA SubscriptionProxyStep ==
  ASSUME IInv, LockInv, ProxyInv, NEW s \in Subs,
         \/ SubscriptionContinues(s) \/ UnsubscribeBegin(s) \/ subscription_free(s)
         \/ \E n \in Names : SubscribeGet(s, n)
  PROVE  ProxyInv'
  <1>0. /\ TypeInv /\ SubOK(s) /\ SubLocks(s) /\ DOMAIN spc = Subs
        /\ DOMAIN proxies = Channels /\ freed \subseteq Subs
        /\ \A c \in Channels : proxies[c] \in Seq(Subs) /\ Range(proxies[c]) \subseteq Subs
    BY DEF IInv, LocalInv, LockInv, TypeInv, SubT, TableT, ProxyT, Range
  <1>1. UNCHANGED workVars /\ \A u \in Subs \ {s} : spc'[u] = spc[u]
    BY <1>0, SubscriptionFrame
  <1>2. \A u \in Subs : /\ spc[u] \notin Unregistered => spc'[u] \notin Unregistered
                        /\ spc[u] \in Done => spc'[u] \in Done
    BY <1>0, SubscriptionProgress
  <1>3. CASE UNCHANGED << proxies, freed >>
    <2>1. \A w \in Workers : WalkOK(w)'
      BY <1>1, <1>3 DEF ProxyInv, WalkOK, workVars
    <2> QED
      BY <1>0, <1>2, <1>3, <2>1, ProxyFrame
  <1>4. CASE SubscribeInsert(s)
    <2>1. /\ spc[s] = "insert" /\ spc'[s] = "wrap" /\ UNCHANGED freed
          /\ proxies' = [proxies EXCEPT ![schan[s]] = Append(@, s)]
      BY <1>0, <1>4 DEF SubscribeInsert, SGoto
    <2>2. PICK c \in Channels : c = schan[s]
      BY <1>0, <2>1 DEF SubOK, HasChannel
    <2>3. s \notin freed /\ \A d \in Channels : s \notin Range(proxies[d])
      BY <2>1 DEF ProxyInv, ListOK, Unregistered, Done
    <2>4. /\ IsInjective(proxies'[c]) /\ Range(proxies'[c]) = Range(proxies[c]) \cup {s}
          /\ \A d \in Channels \ {c} : proxies'[d] = proxies[d]
      BY <1>0, <2>1, <2>2, <2>3, AddToList
    <2>5. ASSUME NEW d \in Channels PROVE ListOK(d)'
      <3>1. IsInjective(proxies'[d])
        BY <2>4, <2>5 DEF ProxyInv, ListOK
      <3>2. \A u \in Range(proxies'[d]) : u \in Range(proxies[d]) \/ u = s
        BY <2>4, <2>5
      <3>3. \A u \in Range(proxies'[d]) : u \notin freed' /\ spc'[u] \notin Unregistered
        BY <1>0, <1>2, <2>1, <2>3, <2>5, <3>2 DEF ProxyInv, ListOK, Unregistered
      <3> QED
        BY <3>1, <3>3 DEF ListOK
    <2>6. OneList'
      BY <2>3, <2>4 DEF ProxyInv, OneList
    <2>7. \A w \in Workers : WalkOK(w)'
      <3>1. \A d \in Channels : Range(proxies[d]) \subseteq Range(proxies'[d])
        BY <2>4
      <3> QED
        BY <1>1, <3>1 DEF ProxyInv, WalkOK, workVars, IInv, LocalInv, WorkOK
    <2>8. \A u \in freed' : spc'[u] \in Done
      BY <1>0, <1>2, <2>1 DEF ProxyInv
    <2> QED
      BY <2>5, <2>6, <2>7, <2>8 DEF ProxyInv
  <1>5. CASE UnsubscribeRemove(s)
    <2>1. /\ spc[s] = "remove" /\ spc'[s] = "unlock" /\ freed' = freed \cup {s}
          /\ s \in Range(proxies[schan[s]])
          /\ proxies' = [proxies EXCEPT ![schan[s]] =
                           RemoveAt(@, CHOOSE i \in 1..Len(@) : @[i] = s)]
      BY <1>0, <1>5 DEF UnsubscribeRemove, SGoto
    <2>2. PICK c \in Channels : c = schan[s] /\ channelMutex[c] = s
      BY <1>0, <2>1 DEF SubOK, SubLocks, HasChannel, Unsubscribing
    <2>3. /\ IsInjective(proxies'[c]) /\ Range(proxies'[c]) = Range(proxies[c]) \ {s}
          /\ \A d \in Channels \ {c} : proxies'[d] = proxies[d]
      <3>1. /\ s \in Range(proxies[c])
            /\ proxies' = [proxies EXCEPT ![c] =
                             RemoveAt(@, CHOOSE i \in 1..Len(@) : @[i] = s)]
        BY <2>1, <2>2
      <3> QED
        BY <1>0, <2>2, <3>1, RemoveFromList
    <2>4. \A d \in Channels : s \notin Range(proxies'[d])
      BY <2>1, <2>2, <2>3 DEF ProxyInv, OneList
    <2>5. ASSUME NEW d \in Channels PROVE ListOK(d)'
      <3>1. IsInjective(proxies'[d])
        BY <2>3, <2>5 DEF ProxyInv, ListOK
      <3>2. \A u \in Range(proxies'[d]) : u \in Range(proxies[d]) /\ u # s
        BY <2>3, <2>4, <2>5
      <3>3. \A u \in Range(proxies'[d]) : u \notin freed' /\ spc'[u] \notin Unregistered
        BY <1>0, <1>2, <2>1, <2>5, <3>2 DEF ProxyInv, ListOK
      <3> QED
        BY <3>1, <3>3 DEF ListOK
    <2>6. OneList'
      BY <2>3, <2>4 DEF ProxyInv, OneList
    <2>7. ASSUME NEW w \in Workers PROVE WalkOK(w)'
      <3>1. wpc[w] \in Walking => wchan[w] \in Channels \ {c}
        BY <2>2, <2>7, BrokerAssumption DEF IInv, LocalInv, WorkOK, LockInv, WorkerLocks
      <3> QED
        BY <1>1, <2>3, <2>7, <3>1 DEF ProxyInv, WalkOK, workVars
    <2>8. \A u \in freed' : spc'[u] \in Done
      BY <1>0, <1>2, <2>1 DEF ProxyInv, Done
    <2> QED
      BY <2>5, <2>6, <2>7, <2>8 DEF ProxyInv
  <1> QED
    BY <1>3, <1>4, <1>5, WhoChangesLists

LEMMA FreeProxyStep ==
  ASSUME IInv, ProxyInv, message_broker_free
  PROVE  ProxyInv'
  <1>0. TypeInv /\ \A c \in Channels : Range(proxies[c]) \subseteq Subs
    BY DEF IInv, TypeInv, TableT, Range
  <1>1. /\ UNCHANGED << workVars, subVars >>
        /\ \A w \in Workers : running[w] = NULL
        /\ \A s \in Subs : spc[s] \in {"new", "unsubscribed", "gone", "failed"}
    BY DEF message_broker_free, Pool!Destroy
  <1>2. \A c \in Channels : proxies'[c] = proxies[c] \/ proxies'[c] = << >>
    BY <1>0, FreeChanges
  <1>a. \A s \in freed' \ freed : \E c \in Channels : Emptied(c) /\ s \in Range(proxies[c])
    BY <1>0, FreeChanges
  <1>b. \A c \in Channels : \A s : s \in Range(proxies'[c]) =>
          s \in Range(proxies[c]) /\ proxies'[c] = proxies[c] /\ proxies[c] # << >>
    BY <1>2 DEF Range
  <1>3. ASSUME NEW c \in Channels PROVE ListOK(c)'
    <2>1. IsInjective(proxies'[c])
      <3>1. IsInjective(<< >>)
        BY DEF IsInjective
      <3> QED
        BY <1>2, <3>1 DEF ProxyInv, ListOK
    <2>2. ASSUME NEW s \in Range(proxies'[c]) PROVE s \notin freed' /\ spc'[s] \notin Unregistered
      <3>1. s \in Range(proxies[c]) /\ ~Emptied(c)
        BY <1>b DEF Emptied
      <3>2. s \notin freed /\ spc[s] \notin Unregistered
        BY <3>1 DEF ProxyInv, ListOK
      <3>3. s \notin freed'
        BY <1>a, <3>1, <3>2 DEF ProxyInv, OneList
      <3> QED
        BY <1>1, <3>2, <3>3 DEF subVars
    <2> QED
      BY <2>1, <2>2 DEF ListOK
  <1>4. OneList'
    BY <1>b DEF ProxyInv, OneList
  <1>5. \A w \in Workers : WalkOK(w)'
    BY <1>1 DEF WalkOK, IInv, LocalInv, WorkOK, Walking, workVars
  <1>6. ASSUME NEW u \in freed' PROVE spc'[u] \in Done
    <2>1. CASE u \in freed
      BY <1>1, <2>1 DEF ProxyInv, subVars
    <2>2. CASE u \notin freed
      <3>1. PICK c \in Channels : u \in Range(proxies[c])
        BY <1>a, <1>6, <2>2
      <3>2. u \in Subs /\ spc[u] \notin Unregistered
        BY <1>0, <3>1 DEF ProxyInv, ListOK
      <3> QED
        BY <1>1, <3>2 DEF Unregistered, Done, subVars
    <2> QED
      BY <2>1, <2>2
  <1> QED
    BY <1>3, <1>4, <1>5, <1>6 DEF ProxyInv

LEMMA ProxyInvStep ==
  ASSUME IInv, LockInv, ProxyInv, [Next]_vars
  PROVE  ProxyInv'
  <1>1. CASE PublisherStep \/ ReceiverStep \/ UNCHANGED vars
    <2>1. UNCHANGED << proxies, freed, workVars, subVars >>
      BY <1>1, PublisherFrame, ReceiverChanges
      DEF ReceiverStep, vars, tableVars, proxyVars
    <2>2. \A w \in Workers : WalkOK(w)'
      BY <2>1 DEF ProxyInv, WalkOK, workVars
    <2> QED
      BY <2>1, <2>2, ProxyFrame DEF IInv, subVars
  <1> QED
    BY <1>1, NextCases, WorkerProxyStep, SubscriptionProxyStep, FreeProxyStep
    DEF WorkerStep, SubscriptionStep

LEMMA Proxies == Spec => [](IInv /\ LockInv /\ ProxyInv)
  <1>1. Init => ProxyInv
    <2> SUFFICES ASSUME Init PROVE ProxyInv
      OBVIOUS
    <2>1. \A c \in Channels : proxies[c] = << >> /\ Range(proxies[c]) = {}
      BY DEF Init, Range
    <2> QED
      BY <2>1 DEF Init, ProxyInv, ListOK, OneList, WalkOK, Walking, IsInjective
  <1>2. IInv /\ LockInv /\ ProxyInv /\ [Next]_vars => ProxyInv'
    BY ProxyInvStep
  <1> QED
    BY <1>1, <1>2, Locks, PTL DEF Spec

\* A worker in the middle of the list of a channel never reaches a proxy that
\* was freed, whatever subscriptions come and go: what it has yet to visit is
\* in the list, a proxy leaves the list under the mutex that the worker holds
\* before it is freed, and message_broker_free joins the workers first.
THEOREM WorkersTouchLiveProxies == Spec => []WorkerTouchesLive
  <1>1. IInv /\ ProxyInv => WorkerTouchesLive
    BY DEF ProxyInv, WalkOK, ListOK, WorkerTouchesLive, Walking, IInv, LocalInv, WorkOK
  <1> QED
    BY <1>1, Proxies, PTL

-----------------------------------------------------------------------------
(* Receivers, when unsubscribe waits for them. *)

\* Only unsubscribe takes a thread out of "subscribed".
LEMMA LeavesSubscribed ==
  ASSUME NEW s \in Subs, spc[s] = "subscribed",
         \/ SubscriptionContinues(s) \/ UnsubscribeBegin(s) \/ subscription_free(s)
         \/ \E n \in Names : SubscribeGet(s, n)
  PROVE  UnsubscribeBegin(s)
  BY DEF SubscriptionContinues, SubscribeGet, SubscribeCreate, SubscribeCreateFails,
     SubscribeLinkFails, UnsubscribeGetBlocks, SubscribeInsert, SubscribeInsertFails, SubscribeWrap, UnsubscribeBroadcast,
     UnsubscribeLockChannels, UnsubscribeLookupFails, UnsubscribeLockChannel,
     UnsubscribeRemove, UnsubscribeRemovesNothing, UnsubscribeUnlock, UnsubscribeClear,
     subscription_free

InsideOK(r) == rpc[r] # "undefined" /\ (rpc[r] # "idle" => spc[SubOf[r]] = "subscribed")

InsideInv == \A r \in Receivers : InsideOK(r)

LEMMA InsideInvStep ==
  ASSUME ConcurrentUnsubscribe = FALSE, IInv, ProxyInv, InsideInv, [Next]_vars
  PROVE  InsideInv'
  <1>0. /\ TypeInv /\ DOMAIN rpc = Receivers /\ DOMAIN spc = Subs
        /\ \A r \in Receivers : SubOf[r] \in Subs
    BY BrokerAssumption DEF IInv, TypeInv, RecvT, SubT
  <1>1. CASE UNCHANGED << rpc, spc >>
    BY <1>1 DEF InsideInv, InsideOK
  <1>2. ASSUME NEW r \in Receivers,
               \/ ReceiveBegin(r) \/ ReceiverContinues(r) \/ TouchesFreedProxy(r)
               \/ SpuriousWakeup(r)
        PROVE  InsideInv'
    <2>1. UNCHANGED spc /\ \A u \in Receivers \ {r} : rpc'[u] = rpc[u]
      BY <1>0, <1>2, ReceiverChanges DEF subVars
    <2>2. CASE ReceiveBegin(r)
      BY <1>0, <2>1, <2>2 DEF ReceiveBegin, CanCall, RGoto, InsideInv, InsideOK
    <2>3. CASE ReceiverContinues(r)
      <3>1. rpc[r] # "idle" /\ rpc'[r] # "undefined"
        BY <1>0, <2>3 DEF ReceiverContinues, ReceiveLock, ReceiveTest, ReceiveTestActive,
           ReceiveSleep, ReceiveCheck, TryReceiveTest, ReceiveDequeue, RGoto
      <3> QED
        BY <2>1, <3>1 DEF InsideInv, InsideOK
    <2>4. ~TouchesFreedProxy(r)
      <3>1. SubOf[r] \in freed => spc[SubOf[r]] # "subscribed"
        BY DEF ProxyInv, Done
      <3> QED
        BY <3>1 DEF TouchesFreedProxy, CanCall, InsideInv, InsideOK
    <2>5. CASE SpuriousWakeup(r)
      BY <1>1, <2>1, <2>5 DEF SpuriousWakeup
    <2> QED
      BY <1>2, <2>2, <2>3, <2>4, <2>5
  <1>3. ASSUME NEW s \in Subs,
               \/ SubscriptionContinues(s) \/ UnsubscribeBegin(s) \/ subscription_free(s)
               \/ \E n \in Names : SubscribeGet(s, n)
        PROVE  InsideInv'
    <2>1. UNCHANGED rpc /\ \A u \in Subs \ {s} : spc'[u] = spc[u]
      BY <1>0, <1>3, SubscriptionFrame
    <2>2. CASE spc[s] = "subscribed"
      <3>1. ReceiversIdle(s)
        BY <1>3, <2>2, LeavesSubscribed DEF UnsubscribeBegin
      <3> QED
        BY <1>0, <2>1, <3>1 DEF ReceiversIdle, InsideInv, InsideOK
    <2>3. CASE spc[s] # "subscribed"
      BY <1>0, <2>1, <2>3 DEF InsideInv, InsideOK
    <2> QED
      BY <2>2, <2>3
  <1>4. CASE PublisherStep \/ WorkerStep \/ message_broker_free \/ UNCHANGED vars
    <2>1. UNCHANGED << rpc, spc >>
      BY <1>4, PublisherFrame, WorkerFrame DEF WorkerStep, message_broker_free, vars, subVars
    <2> QED
      BY <1>1, <2>1
  <1> QED
    BY <1>2, <1>3, <1>4, NextCases DEF ReceiverStep, SubscriptionStep

\* No receive call reaches a freed proxy when subscription_unsubscribe is
\* called with nobody inside the subscription.  Without that rule the property
\* is false.
THEOREM ReceiversTouchLiveProxies ==
  ASSUME ConcurrentUnsubscribe = FALSE
  PROVE  Spec => []NoUseAfterFree
  <1>1. Init => InsideInv
    BY DEF Init, InsideInv, InsideOK
  <1>2. IInv /\ ProxyInv /\ InsideInv /\ [Next]_vars => InsideInv'
    BY InsideInvStep
  <1>3. InsideInv => NoUseAfterFree
    BY DEF InsideInv, InsideOK, NoUseAfterFree
  <1> QED
    BY <1>1, <1>2, <1>3, Proxies, PTL DEF Spec

-----------------------------------------------------------------------------
(* While no allocation has failed: one channel for each name. *)

LEMMA FaultsGrow ==
  ASSUME IInv, [Next]_vars
  PROVE  faults \in Nat /\ faults' \in Nat /\ faults' >= faults
  <1>0. faults \in Nat /\ TypeInv /\ (Fault(1) => faults' = faults + 1)
    BY BrokerAssumption DEF IInv, TypeInv, BoundT, Fault
  <1>1. Fault(1) \/ UNCHANGED faults \/ message_broker_free
    <2>1. CASE PublisherStep
      BY <2>1 DEF PublisherStep, PublishSubmit, PublishFails, PublishBegin
    <2>2. ASSUME NEW w \in Workers, _publisher_task(w) PROVE Fault(1) \/ UNCHANGED faults
      BY <2>2 DEF _publisher_task, WorkerStart, WorkerGet, Found, NotFound, LookupBlocks,
         WorkerCreate, WorkerCreateFails, CreateFails, WorkerLinkFails, LinkFails, WorkerLock, WorkerVisit, WorkerEnqueue,
         WorkerAppend, WorkerSignal, WorkerUnlock
    <2>3. ASSUME NEW s \in Subs,
                 \/ SubscriptionContinues(s) \/ UnsubscribeBegin(s) \/ subscription_free(s)
                 \/ \E n \in Names : SubscribeGet(s, n)
          PROVE  Fault(1) \/ UNCHANGED faults
      BY <2>3 DEF SubscriptionContinues, UnsubscribeBegin, subscription_free, SubscribeGet,
         Found, NotFound, LookupBlocks, SubscribeCreate, SubscribeCreateFails, CreateFails,
         SubscribeLinkFails, LinkFails, UnsubscribeGetBlocks, SubscribeInsert, SubscribeInsertFails, SubscribeWrap, UnsubscribeBroadcast,
         UnsubscribeLockChannels, UnsubscribeLookupFails, UnsubscribeLockChannel,
         UnsubscribeRemove, UnsubscribeRemovesNothing, UnsubscribeUnlock, UnsubscribeClear
    <2>4. CASE ReceiverStep \/ UNCHANGED vars
      BY <2>4, ReceiverChanges DEF ReceiverStep, vars
    <2> QED
      BY <2>1, <2>2, <2>3, <2>4, NextCases DEF WorkerStep, SubscriptionStep
  <1>2. CASE message_broker_free
    BY <1>0, <1>2, FreeChanges
  <1>3. CASE Fault(1) \/ UNCHANGED faults
    BY <1>0, <1>3
  <1> QED
    BY <1>1, <1>2, <1>3

LEMMA NoFaultYet ==
  ASSUME IInv, [Next]_vars, faults' = 0
  PROVE  faults = 0
  BY FaultsGrow

WorkerName(w) ==
  /\ wpc[w] = "create" => table[name[running[w]]] = << >>
  /\ wpc[w] \in {"lock"} \cup Walking => table[name[running[w]]] = << wchan[w] >>

SubName(s) ==
  /\ spc[s] = "create" => table[sname[s]] = << >>
  /\ spc[s] \in HasChannel => table[sname[s]] = << schan[s] >>

NameInv ==
  /\ \A n \in Names : Len(table[n]) <= 1
  /\ \A w \in Workers : WorkerName(w)
  /\ \A s \in Subs : SubName(s)

\* The first channel of a name.
LEMMA FirstChannel ==
  ASSUME IInv, NEW n \in Names, Create(n), UNCHANGED << proxies, stuck >>, table[n] = << >>
  PROVE  /\ table' = [table EXCEPT ![n] = << nextChannel' >>]
         /\ table'[n] = << nextChannel' >>
         /\ \A k \in Names \ {n} : table'[k] = table[k]
  <1>1. /\ nextChannel' \in Channels /\ DOMAIN table = Names
        /\ table' = [table EXCEPT ![n] = << nextChannel' >> \o @]
    BY CreateTypes DEF IInv, TypeInv, TableT
  <1>2. PICK c \in Channels : c = nextChannel'
    BY <1>1
  <1>3. << c >> \o << >> = << c >>
    BY <1>2
  <1> QED
    BY <1>1, <1>2, <1>3

\* A lookup that finds something finds the one channel of the name.
LEMMA FoundName ==
  ASSUME IInv, NameInv, NEW n \in Names, table[n] # << >>
  PROVE  table[n] = << Head(table[n]) >>
  <1>1. PICK q \in Seq(Channels) : q = table[n]
    BY DEF IInv, TypeInv, TableT
  <1>2. Len(q) = 1
    <2>1. PICK k \in Nat \ {0} : k = Len(q)
      BY <1>1, HeadAndTail
    <2>2. k <= 1
      BY <1>1, <2>1 DEF NameInv
    <2> QED
      BY <2>1, <2>2
  <1> QED
    BY <1>1, <1>2

\* Threads other than t keep their channels when t creates one.
LEMMA NameFrame ==
  ASSUME IInv, LockInv, NameInv, NEW t \in Threads,
         \/ UNCHANGED table
         \/ \E n \in Names : /\ channelsMutex = t /\ table[n] = << >>
                             /\ Create(n) /\ UNCHANGED << proxies, stuck >>,
         UNCHANGED name,
         \A v \in Workers \ {t} :
           wpc'[v] = wpc[v] /\ wchan'[v] = wchan[v] /\ running'[v] = running[v],
         \A u \in Subs \ {t} :
           spc'[u] = spc[u] /\ schan'[u] = schan[u] /\ sname'[u] = sname[u],
         t \in Workers => WorkerName(t)',
         t \in Subs => SubName(t)'
  PROVE  NameInv'
  <1>0. \A n \in Names : Len(table[n]) <= 1
    BY DEF NameInv
  <1>1. CASE UNCHANGED table
    <2>1. \A v \in Workers \ {t} : WorkerName(v)'
      BY <1>1 DEF NameInv, WorkerName
    <2>2. \A u \in Subs \ {t} : SubName(u)'
      BY <1>1 DEF NameInv, SubName
    <2> QED
      BY <1>0, <1>1, <2>1, <2>2 DEF NameInv
  <1>2. ASSUME NEW n \in Names, channelsMutex = t, table[n] = << >>, Create(n),
               UNCHANGED << proxies, stuck >>
        PROVE  NameInv'
    <2>1. /\ table'[n] = << nextChannel' >> /\ table[n] = << >>
          /\ \A k \in Names \ {n} : table'[k] = table[k]
      BY <1>2, FirstChannel
    <2>2. \A k \in Names : Len(table'[k]) <= 1
      <3>1. PICK c : c = nextChannel'
        OBVIOUS
      <3>2. Len(<< c >>) = 1
        OBVIOUS
      <3>3. Len(table'[n]) <= 1
        BY <2>1, <3>1, <3>2
      <3> QED
        BY <1>0, <2>1, <3>3
    <2>3. ASSUME NEW v \in Workers \ {t} PROVE WorkerName(v)'
      <3>1. /\ WorkerName(v) /\ wpc[v] # "create"
            /\ wpc[v] # "idle" => name[running[v]] \in Names
        BY <1>2, <2>3 DEF NameInv, LockInv, WorkerLocks, IInv, LocalInv, IdInv, WorkOK,
           Published
      <3>2. wpc[v] \in {"lock"} \cup Walking =>
              table[name[running[v]]] = << wchan[v] >> /\ name[running[v]] \in Names \ {n}
        BY <2>1, <3>1 DEF WorkerName, Walking
      <3> QED
        BY <2>1, <2>3, <3>1, <3>2 DEF WorkerName
    <2>4. ASSUME NEW u \in Subs \ {t} PROVE SubName(u)'
      <3>1. SubName(u) /\ spc[u] # "create" /\ SubOK(u)
        BY <1>2, <2>4 DEF NameInv, LockInv, SubLocks, HasChannels, IInv, LocalInv
      <3>2. spc[u] \in HasChannel =>
              table[sname[u]] = << schan[u] >> /\ sname[u] \in Names \ {n}
        BY <2>1, <3>1 DEF SubName, SubOK, HasChannel, Unsubscribing
      <3> QED
        BY <2>1, <2>4, <3>1, <3>2 DEF SubName
    <2> QED
      BY <2>2, <2>3, <2>4 DEF NameInv
  <1> QED
    BY <1>1, <1>2

LEMMA WorkerNameStep ==
  ASSUME IInv, LockInv, NameInv, faults = 0, faults' = 0, NEW w \in Workers,
         _publisher_task(w)
  PROVE  NameInv'
  <1>0. /\ TypeInv /\ WorkOK(w) /\ WorkerName(w) /\ w \in Threads /\ w \notin Subs
        /\ DOMAIN wpc = Workers /\ DOMAIN wchan = Workers /\ DOMAIN running = Workers
        /\ ~Fault(1)
    BY BrokerAssumption DEF IInv, LocalInv, TypeInv, WorkT, PoolT, NameInv, Threads, Fault
  <1>1. /\ UNCHANGED << name, subVars >>
        /\ \A v \in Workers \ {w} :
             wpc'[v] = wpc[v] /\ wchan'[v] = wchan[v] /\ running'[v] = running[v]
    BY <1>0, WorkerFrame DEF pubVars
  <1>a. ASSUME WorkerName(w)',
               \/ UNCHANGED table
               \/ \E n \in Names : /\ channelsMutex = w /\ table[n] = << >>
                                   /\ Create(n) /\ UNCHANGED << proxies, stuck >>
        PROVE  NameInv'
    BY <1>0, <1>1, <1>a, NameFrame DEF subVars
  <1>2. CASE \/ WorkerStart(w) \/ WorkerCreateFails(w) \/ WorkerUnlock(w)
             \/ WorkerLinkFails(w)
    <2>1. UNCHANGED table /\ wpc'[w] \in {"get", "idle", "undefined"}
      BY <1>0, <1>2 DEF WorkerStart, WorkerCreateFails, WorkerLinkFails, LinkFails,
         WorkerUnlock, WGoto, tableVars
    <2>2. WorkerName(w)'
      BY <2>1 DEF WorkerName, Walking
    <2> QED
      BY <1>a, <2>1, <2>2
  <1>3. CASE WorkerGet(w)
    <2>1. PICK n \in Names : n = name[running[w]]
      BY <1>0, <1>3 DEF WorkerGet, IInv, LocalInv, IdInv, WorkOK, Published
    <2>2. /\ UNCHANGED << table, running >>
          /\ \/ /\ wpc'[w] = "lock" /\ table[n] # << >> /\ wchan'[w] = Head(table[n])
             \/ /\ wpc'[w] = "create" /\ table[n] = << >>
             \/ wpc'[w] = "get"
      BY <1>0, <1>3, <2>1 DEF WorkerGet, Found, NotFound, WGoto, tableVars, poolVars
    <2>3. table[n] # << >> => table[n] = << Head(table[n]) >>
      BY <2>1, FoundName
    <2>4. WorkerName(w)'
      BY <1>1, <2>1, <2>2, <2>3 DEF WorkerName, Walking
    <2> QED
      BY <1>a, <2>2, <2>4
  <1>4. CASE WorkerCreate(w)
    <2>1. PICK n \in Names : n = name[running[w]] /\ Create(n) /\ UNCHANGED << proxies, stuck >>
      BY <1>4, CreateHasName
    <2>2. wpc[w] = "create" /\ table[n] = << >> /\ channelsMutex = w
      BY <1>0, <1>4, <2>1 DEF WorkerCreate, WorkerName, LockInv, WorkerLocks
    <2>3. wpc'[w] = "lock" /\ wchan'[w] = nextChannel' /\ UNCHANGED running
      BY <1>0, <1>4 DEF WorkerCreate, WGoto, poolVars
    <2>4. table'[n] = << nextChannel' >>
      BY <2>1, <2>2, FirstChannel
    <2>5. WorkerName(w)'
      BY <1>1, <2>1, <2>3, <2>4 DEF WorkerName, Walking
    <2> QED
      BY <1>a, <2>1, <2>2, <2>5
  <1>5. CASE \/ WorkerLock(w) \/ WorkerVisit(w) \/ WorkerEnqueue(w) \/ WorkerAppend(w)
             \/ WorkerSignal(w)
    <2>1. /\ wpc[w] \in {"lock"} \cup Walking /\ UNCHANGED << table, wchan, running >>
      BY <1>5 DEF WorkerLock, WorkerVisit, WorkerEnqueue, WorkerAppend, WorkerSignal,
         Walking, tableVars, poolVars
    <2>2. wpc'[w] # "create"
      BY <1>0, <1>5 DEF WorkerLock, WorkerVisit, WorkerEnqueue, WorkerAppend, WorkerSignal,
         NextProxy, WGoto
    <2>3. WorkerName(w)'
      BY <1>0, <1>1, <2>1, <2>2 DEF WorkerName
    <2> QED
      BY <1>a, <2>1, <2>3
  <1> QED
    BY <1>2, <1>3, <1>4, <1>5 DEF _publisher_task

LEMMA SubscriptionNameStep ==
  ASSUME IInv, LockInv, NameInv, faults = 0, faults' = 0, NEW s \in Subs,
         \/ SubscriptionContinues(s) \/ UnsubscribeBegin(s) \/ subscription_free(s)
         \/ \E n \in Names : SubscribeGet(s, n)
  PROVE  NameInv'
  <1>0. /\ TypeInv /\ SubOK(s) /\ SubName(s) /\ s \in Threads /\ s \notin Workers
        /\ DOMAIN spc = Subs /\ DOMAIN schan = Subs /\ DOMAIN sname = Subs
        /\ ~Fault(1)
    BY BrokerAssumption DEF IInv, LocalInv, TypeInv, SubT, NameInv, Threads, Fault
  <1>1. /\ UNCHANGED << name, wpc, wchan, running >>
        /\ \A u \in Subs \ {s} :
             spc'[u] = spc[u] /\ schan'[u] = schan[u] /\ sname'[u] = sname[u]
    BY <1>0, SubscriptionFrame DEF pubVars, workVars, poolVars
  <1>a. ASSUME SubName(s)',
               \/ UNCHANGED table
               \/ \E n \in Names : /\ channelsMutex = s /\ table[n] = << >>
                                   /\ Create(n) /\ UNCHANGED << proxies, stuck >>
        PROVE  NameInv'
    BY <1>0, <1>1, <1>a, NameFrame
  <1>2. ASSUME NEW n \in Names, SubscribeGet(s, n) PROVE NameInv'
    <2>1. /\ UNCHANGED table /\ sname'[s] = n
          /\ \/ /\ spc'[s] = "insert" /\ table[n] # << >> /\ schan'[s] = Head(table[n])
             \/ /\ spc'[s] = "create" /\ table[n] = << >>
             \/ spc'[s] = "hung"
      BY <1>0, <1>2 DEF SubscribeGet, Found, NotFound, SGoto, tableVars
    <2>2. table[n] # << >> => table[n] = << Head(table[n]) >>
      BY <1>2, FoundName
    <2>3. SubName(s)'
      BY <2>1, <2>2 DEF SubName, HasChannel, Unsubscribing
    <2> QED
      BY <1>a, <2>1, <2>3
  <1>3. CASE SubscribeCreate(s)
    <2>1. PICK n \in Names : n = sname[s] /\ Create(n) /\ UNCHANGED << proxies, stuck >>
      BY <1>3, CreateHasName
    <2>2. spc[s] = "create" /\ table[n] = << >> /\ channelsMutex = s
      BY <1>0, <1>3, <2>1 DEF SubscribeCreate, SubName, LockInv, SubLocks, HasChannels
    <2>3. spc'[s] = "insert" /\ schan'[s] = nextChannel' /\ UNCHANGED sname
      BY <1>0, <1>3 DEF SubscribeCreate, SGoto
    <2>4. table'[n] = << nextChannel' >>
      BY <2>1, <2>2, FirstChannel
    <2>5. SubName(s)'
      BY <2>1, <2>3, <2>4 DEF SubName
    <2> QED
      BY <1>a, <2>1, <2>2, <2>5
  <1>4. CASE UnsubscribeLockChannels(s)
    <2>1. /\ spc[s] = "lockChannels" /\ UNCHANGED << table, sname >>
          /\ spc'[s] = "lockChannel" /\ schan'[s] = Head(table[sname[s]])
      BY <1>0, <1>4 DEF UnsubscribeLockChannels, SGoto, tableVars
    <2>2. sname[s] \in Names /\ table[sname[s]] # << >>
      BY <1>0, <2>1 DEF SubOK, HasChannel, Unsubscribing
    <2>3. table[sname[s]] = << Head(table[sname[s]]) >>
      BY <2>2, FoundName
    <2>4. SubName(s)'
      BY <2>1, <2>3 DEF SubName
    <2> QED
      BY <1>a, <2>1, <2>4
  <1>5. CASE \/ SubscribeInsert(s) \/ SubscribeWrap(s) \/ UnsubscribeBegin(s)
             \/ UnsubscribeBroadcast(s) \/ UnsubscribeLockChannel(s)
             \/ UnsubscribeRemovesNothing(s) \/ UnsubscribeUnlock(s)
             \/ UnsubscribeGetBlocks(s)
    <2>1. /\ spc[s] \in HasChannel /\ UNCHANGED << table, sname, schan >>
      BY <1>5 DEF UnsubscribeGetBlocks, subVars, SubscribeInsert, SubscribeWrap, UnsubscribeBegin, UnsubscribeBroadcast,
         UnsubscribeLockChannel, UnsubscribeRemovesNothing, UnsubscribeUnlock, tableVars,
         HasChannel, Unsubscribing
    <2>2. spc'[s] # "create"
      BY <1>0, <1>5 DEF UnsubscribeGetBlocks, subVars, SubscribeInsert, SubscribeWrap,
         UnsubscribeBegin, UnsubscribeBroadcast, UnsubscribeLockChannel,
         UnsubscribeRemovesNothing, UnsubscribeUnlock, SGoto
    <2>3. SubName(s)'
      BY <1>0, <2>1, <2>2 DEF SubName
    <2> QED
      BY <1>a, <2>1, <2>3
  <1>6. CASE UnsubscribeRemove(s)
    <2>1. /\ spc[s] = "remove" /\ spc'[s] = "unlock" /\ UNCHANGED << table, sname, schan >>
      BY <1>0, <1>6 DEF UnsubscribeRemove, SGoto
    <2>2. SubName(s)'
      BY <1>0, <2>1 DEF SubName, HasChannel, Unsubscribing
    <2> QED
      BY <1>a, <2>1, <2>2
  <1>7. CASE UnsubscribeClear(s) \/ subscription_free(s)
    <2>1. UNCHANGED table /\ spc'[s] \in {"unsubscribed", "gone"}
      BY <1>0, <1>7 DEF UnsubscribeClear, subscription_free, SGoto, tableVars
    <2>2. SubName(s)'
      BY <2>1 DEF SubName, HasChannel, Unsubscribing
    <2> QED
      BY <1>a, <2>1, <2>2
  <1>8. /\ ~SubscribeCreateFails(s) /\ ~SubscribeInsertFails(s)
        /\ ~UnsubscribeLookupFails(s) /\ ~SubscribeLinkFails(s)
    BY <1>0 DEF SubscribeCreateFails, CreateFails, SubscribeInsertFails,
       UnsubscribeLookupFails, SubscribeLinkFails, LinkFails
  <1> QED
    BY <1>2, <1>3, <1>4, <1>5, <1>6, <1>7, <1>8 DEF SubscriptionContinues

LEMMA NameInvStep ==
  ASSUME IInv, LockInv, NameInv, faults = 0, faults' = 0, [Next]_vars
  PROVE  NameInv'
  <1>1. CASE UNCHANGED << table, name, workVars, running, subVars >>
    BY <1>1 DEF NameInv, WorkerName, SubName, workVars, subVars
  <1>2. CASE ReceiverStep \/ UNCHANGED vars
    <2>1. UNCHANGED << table, name, workVars, running, subVars >>
      BY <1>2, ReceiverChanges DEF ReceiverStep, vars, tableVars, pubVars, poolVars
    <2> QED
      BY <1>1, <2>1
  <1>3. CASE PublisherStep
    <2>1. UNCHANGED << table, workVars, running, subVars >>
      BY <1>3, PublisherFrame DEF tableVars
    <2>2. ASSUME NEW w \in Workers, wpc[w] # "idle" PROVE name'[running[w]] = name[running[w]]
      <3>1. running[w] \in Messages /\ running[w] < nextId
        BY <2>2 DEF IInv, LocalInv, WorkOK, IdInv, Published
      <3>2. nextId \in Nat /\ running[w] # nextId /\ DOMAIN name = Messages
        BY <3>1 DEF IInv, TypeInv, PubT, Messages
      <3>3. UNCHANGED name \/ \E n \in Names : name' = [name EXCEPT ![nextId] = n]
        BY <1>3 DEF PublisherStep, PublishBegin, PublishSubmit, PublishFails
      <3> QED
        BY <3>1, <3>2, <3>3
    <2>3. \A w \in Workers : WorkerName(w)'
      BY <2>1, <2>2 DEF NameInv, WorkerName, workVars, Walking
    <2> QED
      BY <2>1, <2>3 DEF NameInv, SubName, subVars
  <1>4. CASE message_broker_free
    <2>0. \A n \in Names : table'[n] = table[n] \/ table'[n] = << >>
      BY <1>4, FreeChanges DEF IInv
    <2>1. /\ UNCHANGED << workVars, subVars, running >>
          /\ \A w \in Workers : running[w] = NULL
          /\ \A s \in Subs : spc[s] \in {"new", "unsubscribed", "gone", "failed"}
      BY <1>4 DEF message_broker_free, Pool!Destroy
    <2>2. \A w \in Workers : WorkerName(w)'
      BY <2>1 DEF WorkerName, IInv, LocalInv, WorkOK, Walking, workVars
    <2>3. \A s \in Subs : SubName(s)'
      BY <2>1 DEF SubName, HasChannel, Unsubscribing, subVars
    <2>4. \A n \in Names : Len(table'[n]) <= 1
      BY <2>0 DEF NameInv
    <2> QED
      BY <2>2, <2>3, <2>4 DEF NameInv
  <1> QED
    BY <1>2, <1>3, <1>4, NextCases, WorkerNameStep, SubscriptionNameStep
    DEF WorkerStep, SubscriptionStep

NamesInv == faults = 0 => NameInv

LEMMA OneName == Spec => [](IInv /\ LockInv /\ ProxyInv /\ NamesInv)
  <1>1. Init => NamesInv
    BY DEF Init, NamesInv, NameInv, WorkerName, SubName, Walking, HasChannel, Unsubscribing
  <1>2. IInv /\ LockInv /\ NamesInv /\ [Next]_vars => NamesInv'
    BY NameInvStep, NoFaultYet DEF NamesInv
  <1> QED
    BY <1>1, <1>2, Proxies, PTL DEF Spec

\* While no allocation has failed a name has at most one channel object,
\* however many publishers and subscribers race to create it: who finds no
\* channel keeps _channels_mutex until its own is in the table.
THEOREM NamesHaveOneChannel == Spec => []OneChannelPerName
  <1>1. NamesInv => OneChannelPerName
    BY DEF NamesInv, NameInv, OneChannelPerName
  <1> QED
    BY <1>1, OneName, PTL

-----------------------------------------------------------------------------
(* While no allocation has failed: a proxy is in the list of the channel   *)
(* of its subscription, and nowhere else, from subscribe to unsubscribe.   *)

Listed == {"wrap", "subscribed", "broadcast", "lockChannels", "lockChannel", "remove"}

MemberOK(s) ==
  /\ \A c \in Channels : s \in Range(proxies[c]) => c = schan[s] /\ spc[s] \in Listed
  /\ active[s] => spc[s] \in {"wrap", "subscribed"}
  /\ spc[s] \in {"wrap", "subscribed"} => s \in Range(proxies[schan[s]])

MemberInv == \A s \in Subs : MemberOK(s)

\* What a step of a subscription does to the lists.
LEMMA Membership ==
  ASSUME IInv, ProxyInv, NEW s \in Subs,
         \/ SubscriptionContinues(s) \/ UnsubscribeBegin(s) \/ subscription_free(s)
         \/ \E n \in Names : SubscribeGet(s, n)
  PROVE  /\ \A u \in Subs \ {s}, c \in Channels :
              u \in Range(proxies'[c]) <=> u \in Range(proxies[c])
         /\ SubscribeInsert(s) => /\ schan[s] \in Channels
                                  /\ \A c \in Channels :
                                       s \in Range(proxies'[c]) <=> c = schan[s]
         /\ UnsubscribeRemove(s) => \A c \in Channels : s \notin Range(proxies'[c])
  <1>0. TypeInv /\ SubOK(s)
    BY DEF IInv, LocalInv
  <1>1. CASE SubscribeInsert(s)
    <2>1. /\ spc[s] = "insert" /\ proxies' = [proxies EXCEPT ![schan[s]] = Append(@, s)]
      BY <1>1 DEF SubscribeInsert
    <2>2. PICK c \in Channels : c = schan[s]
      BY <1>0, <2>1 DEF SubOK, HasChannel
    <2>3. \A d \in Channels : s \notin Range(proxies[d])
      BY <2>1 DEF ProxyInv, ListOK, Unregistered
    <2>4. /\ Range(proxies'[c]) = Range(proxies[c]) \cup {s}
          /\ \A d \in Channels \ {c} : proxies'[d] = proxies[d]
      BY <1>0, <2>1, <2>2, <2>3, AddToList
    <2>5. ~UnsubscribeRemove(s)
      BY <2>1 DEF UnsubscribeRemove
    <2> QED
      BY <2>2, <2>3, <2>4, <2>5
  <1>2. CASE UnsubscribeRemove(s)
    <2>1. /\ spc[s] = "remove" /\ s \in Range(proxies[schan[s]])
          /\ proxies' = [proxies EXCEPT ![schan[s]] =
                           RemoveAt(@, CHOOSE i \in 1..Len(@) : @[i] = s)]
      BY <1>2 DEF UnsubscribeRemove
    <2>2. PICK c \in Channels : c = schan[s]
      BY <1>0, <2>1 DEF SubOK, HasChannel, Unsubscribing
    <2>3. /\ Range(proxies'[c]) = Range(proxies[c]) \ {s}
          /\ \A d \in Channels \ {c} : proxies'[d] = proxies[d]
      <3>1. /\ s \in Range(proxies[c])
            /\ proxies' = [proxies EXCEPT ![c] =
                             RemoveAt(@, CHOOSE i \in 1..Len(@) : @[i] = s)]
        BY <2>1, <2>2
      <3> QED
        BY <1>0, <2>2, <3>1, RemoveFromList
    <2>4. \A d \in Channels \ {c} : s \notin Range(proxies[d])
      BY <2>1, <2>2 DEF ProxyInv, OneList
    <2>5. ~SubscribeInsert(s)
      BY <2>1 DEF SubscribeInsert
    <2> QED
      BY <2>2, <2>3, <2>4, <2>5
  <1>3. CASE ~SubscribeInsert(s) /\ ~UnsubscribeRemove(s)
    BY <1>3, WhoChangesLists
  <1> QED
    BY <1>1, <1>2, <1>3

LEMMA SubscriptionMemberStep ==
  ASSUME IInv, ProxyInv, NameInv, MemberInv, faults = 0, faults' = 0, NEW s \in Subs,
         \/ SubscriptionContinues(s) \/ UnsubscribeBegin(s) \/ subscription_free(s)
         \/ \E n \in Names : SubscribeGet(s, n)
  PROVE  MemberInv'
  <1>0. /\ TypeInv /\ SubOK(s) /\ SubName(s) /\ MemberOK(s) /\ ~Fault(1)
        /\ DOMAIN spc = Subs /\ DOMAIN schan = Subs /\ DOMAIN active = Subs
        /\ \A u \in Subs : spc[u] \in {"wrap", "subscribed"} => schan[u] \in Channels
    BY DEF IInv, LocalInv, TypeInv, SubT, ProxyT, NameInv, MemberInv, Fault, SubOK,
       HasChannel
  <1>1. \A u \in Subs \ {s} :
          spc'[u] = spc[u] /\ schan'[u] = schan[u] /\ active'[u] = active[u]
    BY <1>0, SubscriptionFrame
  <1>2. ASSUME NEW u \in Subs \ {s} PROVE MemberOK(u)'
    <2>1. MemberOK(u)
      BY DEF MemberInv
    <2> QED
      BY <1>0, <1>1, <2>1, Membership DEF MemberOK
  <1>3. MemberOK(s)'
    <2>1. ASSUME UNCHANGED << proxies, active >>, schan'[s] = schan[s],
                 /\ spc[s] \in Listed => spc'[s] \in Listed
                 /\ active[s] /\ spc[s] \in {"wrap", "subscribed"} =>
                      spc'[s] \in {"wrap", "subscribed"}
                 /\ spc'[s] \in {"wrap", "subscribed"} => spc[s] \in {"wrap", "subscribed"}
          PROVE  MemberOK(s)'
      BY <1>0, <2>1 DEF MemberOK
    <2>2. ASSUME NEW n \in Names, SubscribeGet(s, n) PROVE MemberOK(s)'
      <3>1. /\ spc[s] = "new" /\ UNCHANGED << proxies, active >>
            /\ spc'[s] \in {"insert", "create", "hung"}
        BY <1>0, <2>2 DEF SubscribeGet, SGoto, tableVars, proxyVars
      <3> QED
        BY <1>0, <3>1 DEF MemberOK, Listed
    <2>3. CASE SubscribeCreate(s)
      <3>1. spc[s] = "create" /\ UNCHANGED << proxies, active >> /\ spc'[s] = "insert"
        BY <1>0, <2>3 DEF SubscribeCreate, SGoto, tableVars, proxyVars
      <3> QED
        BY <1>0, <3>1 DEF MemberOK, Listed
    <2>4. CASE SubscribeInsert(s)
      <3>1. /\ spc'[s] = "wrap" /\ UNCHANGED schan /\ schan[s] \in Channels
            /\ \A c \in Channels : s \in Range(proxies'[c]) <=> c = schan[s]
        BY <1>0, <2>4, Membership DEF SubscribeInsert, SGoto
      <3> QED
        BY <3>1 DEF MemberOK, Listed
    <2>5. CASE SubscribeWrap(s)
      <3>1. /\ UNCHANGED << proxies, active, schan >> /\ spc[s] = "wrap"
            /\ spc'[s] = "subscribed"
        BY <1>0, <2>5 DEF SubscribeWrap, SGoto, tableVars, proxyVars
      <3> QED
        BY <2>1, <3>1 DEF Listed
    <2>6. CASE UnsubscribeBegin(s)
      <3>1. /\ UNCHANGED << proxies, schan >> /\ spc[s] = "subscribed"
            /\ spc'[s] = "broadcast" /\ ~active'[s]
        BY <1>0, <2>6 DEF UnsubscribeBegin, SGoto, tableVars
      <3> QED
        BY <1>0, <3>1 DEF MemberOK, Listed
    <2>7. CASE UnsubscribeBroadcast(s) \/ UnsubscribeLockChannel(s)
      <3>1. /\ UNCHANGED << proxies, active, schan >>
            /\ spc[s] \in {"broadcast", "lockChannel"} /\ spc'[s] \in {"lockChannels", "remove"}
        BY <1>0, <2>7 DEF UnsubscribeBroadcast, UnsubscribeLockChannel, SGoto, tableVars,
           proxyVars
      <3> QED
        BY <2>1, <3>1 DEF Listed
    <2>8. CASE UnsubscribeLockChannels(s)
      <3>1. /\ UNCHANGED << proxies, active >> /\ schan'[s] = Head(table[sname[s]])
            /\ spc[s] = "lockChannels" /\ spc'[s] = "lockChannel"
        BY <1>0, <2>8 DEF UnsubscribeLockChannels, SGoto, tableVars, proxyVars
      <3>2. table[sname[s]] = << schan[s] >>
        BY <1>0, <3>1 DEF SubName, HasChannel, Unsubscribing
      <3>3. schan'[s] = schan[s]
        BY <3>1, <3>2
      <3> QED
        BY <2>1, <3>1, <3>3 DEF Listed
    <2>9. CASE UnsubscribeRemove(s)
      <3>1. /\ spc'[s] = "unlock" /\ spc[s] = "remove" /\ UNCHANGED active
            /\ \A c \in Channels : s \notin Range(proxies'[c])
        BY <1>0, <2>9, Membership DEF UnsubscribeRemove, SGoto
      <3> QED
        BY <1>0, <3>1 DEF MemberOK
    <2>10. CASE UnsubscribeRemovesNothing(s)
      <3>1. /\ UNCHANGED << proxies, active, schan >> /\ spc[s] = "remove"
            /\ spc'[s] = "unlock" /\ s \notin Range(proxies[schan[s]])
        BY <1>0, <2>10 DEF UnsubscribeRemovesNothing, SGoto, tableVars, proxyVars
      <3> QED
        BY <1>0, <3>1 DEF MemberOK
    <2>11. CASE UnsubscribeUnlock(s) \/ UnsubscribeClear(s) \/ subscription_free(s)
      <3>1. /\ UNCHANGED << proxies, active, schan >>
            /\ spc[s] \in {"unlock", "clear", "unsubscribed"}
            /\ spc'[s] \in {"clear", "unsubscribed", "gone"}
        BY <1>0, <2>11 DEF UnsubscribeUnlock, UnsubscribeClear, subscription_free, SGoto,
           tableVars, proxyVars
      <3> QED
        BY <2>1, <3>1 DEF Listed
    <2>12. /\ ~SubscribeCreateFails(s) /\ ~SubscribeInsertFails(s)
           /\ ~UnsubscribeLookupFails(s) /\ ~SubscribeLinkFails(s)
      BY <1>0 DEF SubscribeCreateFails, CreateFails, SubscribeInsertFails,
         UnsubscribeLookupFails, SubscribeLinkFails, LinkFails
    <2>13. CASE UnsubscribeGetBlocks(s)
      BY <2>1, <2>13 DEF UnsubscribeGetBlocks, tableVars, proxyVars, subVars
    <2> QED
      BY <2>2, <2>3, <2>4, <2>5, <2>6, <2>7, <2>8, <2>9, <2>10, <2>11, <2>12, <2>13
      DEF SubscriptionContinues
  <1> QED
    BY <1>2, <1>3 DEF MemberInv

LEMMA MemberInvStep ==
  ASSUME IInv, ProxyInv, NameInv, MemberInv, faults = 0, faults' = 0, [Next]_vars
  PROVE  MemberInv'
  <1>1. CASE PublisherStep \/ WorkerStep \/ ReceiverStep \/ UNCHANGED vars
    <2>1. UNCHANGED << proxies, active, subVars >>
      BY <1>1, PublisherFrame, WorkerFrame, ReceiverChanges
      DEF WorkerStep, ReceiverStep, vars, tableVars, proxyVars
    <2> QED
      BY <2>1 DEF MemberInv, MemberOK, subVars
  <1>2. CASE message_broker_free
    <2>1. /\ UNCHANGED << active, subVars >>
          /\ \A s \in Subs : spc[s] \in {"new", "unsubscribed", "gone", "failed"}
      BY <1>2 DEF message_broker_free
    <2>2. \A c \in Channels : Range(proxies'[c]) \subseteq Range(proxies[c])
      <3>1. \A c \in Channels : proxies'[c] = proxies[c] \/ proxies'[c] = << >>
        BY <1>2, FreeChanges DEF IInv
      <3> QED
        BY <3>1 DEF Range
    <2> QED
      BY <2>1, <2>2 DEF MemberInv, MemberOK, subVars
  <1> QED
    BY <1>1, <1>2, NextCases, SubscriptionMemberStep DEF SubscriptionStep

MembersInv == faults = 0 => MemberInv

LEMMA Members ==
  Spec => [](IInv /\ LockInv /\ ProxyInv /\ NamesInv /\ MembersInv)
  <1>1. Init => MembersInv
    <2> SUFFICES ASSUME Init PROVE MemberInv
      BY DEF MembersInv
    <2>1. \A c \in Channels : Range(proxies[c]) = {}
      BY DEF Init, Range
    <2> QED
      BY <2>1 DEF Init, MemberInv, MemberOK
  <1>2. IInv /\ ProxyInv /\ NamesInv /\ MembersInv /\ [Next]_vars => MembersInv'
    BY MemberInvStep, NoFaultYet DEF NamesInv, MembersInv
  <1> QED
    BY <1>1, <1>2, OneName, PTL DEF Spec

-----------------------------------------------------------------------------
(* Whichever allocations fail: a registered proxy is listed or freed. *)

Registered == {"wrap", "subscribed", "unsubscribed", "gone"} \cup Unsubscribing

InSomeList(s) == \E c \in Channels : s \in Range(proxies[c])

OwnedOK(s) ==
  spc[s] \in Registered => InSomeList(s) \/ s \in freed \/ (closed /\ faults > 0)

OwnedInv == \A s \in Subs : OwnedOK(s)

LEMMA SubscriptionOwnedStep ==
  ASSUME IInv, ProxyInv, OwnedInv, [Next]_vars, NEW s \in Subs,
         \/ SubscriptionContinues(s) \/ UnsubscribeBegin(s) \/ subscription_free(s)
         \/ \E n \in Names : SubscribeGet(s, n)
  PROVE  OwnedInv'
  <1>0. TypeInv /\ DOMAIN spc = Subs
    BY DEF IInv, TypeInv, SubT
  <1>1. /\ UNCHANGED closed /\ (faults > 0 => faults' > 0)
        /\ \A u \in Subs \ {s} : spc'[u] = spc[u] /\ (u \in freed' <=> u \in freed)
    BY <1>0, SubscriptionFrame, FaultsGrow DEF poolVars
  <1>2. ASSUME NEW u \in Subs \ {s} PROVE OwnedOK(u)'
    <2>1. InSomeList(u)' <=> InSomeList(u)
      BY Membership DEF InSomeList
    <2> QED
      BY <1>1, <2>1 DEF OwnedInv, OwnedOK
  <1>3. OwnedOK(s)'
    <2>1. CASE SubscribeInsert(s)
      BY <2>1, Membership DEF OwnedOK, InSomeList
    <2>2. CASE UnsubscribeRemove(s)
      BY <2>2 DEF UnsubscribeRemove, OwnedOK
    <2>3. ASSUME UNCHANGED << proxies, freed >>, spc'[s] \in Registered => spc[s] \in Registered
          PROVE  OwnedOK(s)'
      BY <1>1, <2>3 DEF OwnedInv, OwnedOK, InSomeList
    <2>4. ASSUME ~SubscribeInsert(s), ~UnsubscribeRemove(s)
          PROVE  spc'[s] \in Registered => spc[s] \in Registered
      <3>1. ASSUME NEW n \in Names, SubscribeGet(s, n) PROVE spc'[s] \notin Registered
        <4>1. spc'[s] \in {"insert", "create", "hung"}
          BY <1>0, <3>1 DEF SubscribeGet, SGoto
        <4> QED
          BY <4>1 DEF Registered, Unsubscribing
      <3>2. CASE \/ SubscribeCreate(s) \/ SubscribeCreateFails(s) \/ SubscribeLinkFails(s)
                 \/ SubscribeInsertFails(s)
        <4>1. spc'[s] \in {"insert", "failed", "hung"}
          BY <1>0, <3>2 DEF SubscribeCreate, SubscribeCreateFails, SubscribeLinkFails,
             SubscribeInsertFails, SGoto
        <4> QED
          BY <4>1 DEF Registered, Unsubscribing
      <3>3. CASE \/ SubscribeWrap(s) \/ UnsubscribeBegin(s) \/ UnsubscribeBroadcast(s)
                 \/ UnsubscribeLockChannels(s) \/ UnsubscribeLookupFails(s)
                 \/ UnsubscribeGetBlocks(s) \/ UnsubscribeLockChannel(s)
                 \/ UnsubscribeRemovesNothing(s) \/ UnsubscribeUnlock(s)
                 \/ UnsubscribeClear(s) \/ subscription_free(s)
        BY <3>3 DEF SubscribeWrap, UnsubscribeBegin, UnsubscribeBroadcast,
           UnsubscribeLockChannels, UnsubscribeLookupFails, UnsubscribeGetBlocks,
           UnsubscribeLockChannel, UnsubscribeRemovesNothing, UnsubscribeUnlock,
           UnsubscribeClear, subscription_free, Registered, Unsubscribing
      <3> QED
        BY <2>4, <3>1, <3>2, <3>3 DEF SubscriptionContinues
    <2> QED
      BY <2>1, <2>2, <2>3, <2>4, WhoChangesLists
  <1> QED
    BY <1>2, <1>3 DEF OwnedInv

LEMMA OwnedInvStep ==
  ASSUME IInv, ProxyInv, OwnedInv, [Next]_vars
  PROVE  OwnedInv'
  <1>0. faults > 0 => faults' > 0
    BY FaultsGrow
  <1>1. CASE PublisherStep \/ WorkerStep \/ ReceiverStep \/ UNCHANGED vars
    <2>1. UNCHANGED << proxies, freed, closed, subVars >>
      BY <1>1, PublisherFrame, WorkerFrame, ReceiverChanges
      DEF WorkerStep, ReceiverStep, vars, tableVars, proxyVars, poolVars
    <2> QED
      BY <1>0, <2>1 DEF OwnedInv, OwnedOK, InSomeList, subVars
  <1>2. CASE message_broker_free
    <2>1. UNCHANGED spc /\ closed' = TRUE
      BY <1>2 DEF message_broker_free, Pool!Destroy, subVars
    <2>2. /\ freed \subseteq freed'
          /\ \A c \in Channels : proxies'[c] = proxies[c] \/ proxies'[c] = << >>
          /\ \A c \in Channels : Emptied(c) => Range(proxies[c]) \subseteq freed' \/ faults' > 0
      BY <1>2, FreeChanges DEF IInv
    <2>3. ASSUME NEW s \in Subs, InSomeList(s)
          PROVE  InSomeList(s)' \/ s \in freed' \/ faults' > 0
      <3>1. PICK c \in Channels : s \in Range(proxies[c])
        BY <2>3 DEF InSomeList
      <3>2. proxies[c] # << >>
        BY <3>1 DEF Range
      <3>3. CASE proxies'[c] = proxies[c]
        BY <3>1, <3>3 DEF InSomeList
      <3>4. CASE proxies'[c] = << >>
        BY <2>2, <3>1, <3>2, <3>4 DEF Emptied
      <3> QED
        BY <2>2, <3>3, <3>4
    <2> QED
      BY <1>0, <2>1, <2>2, <2>3 DEF OwnedInv, OwnedOK
  <1> QED
    BY <1>1, <1>2, NextCases, SubscriptionOwnedStep DEF SubscriptionStep

\* Every proxy has one owner at a time, whichever allocations fail.  It is in
\* one list, once, or freed, and never both: message_broker_free frees what is
\* still in the lists without freeing a proxy twice.  A registered proxy is in
\* a list or freed, unless the broker was freed short of memory, and one that
\* subscribe or unsubscribe has given up is listed only if memory ran out.
THEOREM ProxiesHaveOneOwner == Spec => []ProxiesOwned
  <1>1. Init => OwnedInv
    BY DEF Init, OwnedInv, OwnedOK, Registered, Unsubscribing
  <1>2. IInv /\ ProxyInv /\ OwnedInv /\ [Next]_vars => OwnedInv'
    BY OwnedInvStep
  <1>3. IInv /\ ProxyInv /\ MembersInv /\ OwnedInv => ProxiesOwned
    <2> SUFFICES ASSUME IInv, ProxyInv, MembersInv, OwnedInv PROVE ProxiesOwned
      OBVIOUS
    <2>1. ASSUME NEW c \in Channels, NEW d \in Channels,
                 NEW i \in 1..Len(proxies[c]), NEW j \in 1..Len(proxies[d]),
                 proxies[c][i] = proxies[d][j]
          PROVE  c = d /\ i = j
      <3>1. /\ proxies[c] \in Seq(Subs) /\ proxies[d] \in Seq(Subs)
            /\ IsInjective(proxies[c])
        BY DEF ProxyInv, ListOK, IInv, TypeInv, TableT
      <3>2. proxies[c][i] \in Range(proxies[c]) /\ proxies[c][i] \in Range(proxies[d])
        BY <2>1, <3>1 DEF Range
      <3>3. c = d
        BY <3>2 DEF ProxyInv, OneList
      <3> QED
        BY <2>1, <3>1, <3>3 DEF IsInjective
    <2>2. ASSUME NEW s \in Subs
          PROVE  /\ ~(InSomeList(s) /\ s \in freed)
                 /\ spc[s] \in Registered => InSomeList(s) \/ s \in freed \/ (closed /\ faults > 0)
                 /\ InSomeList(s) /\ spc[s] \in {"failed", "clear", "unsubscribed", "gone"}
                      => faults > 0
      <3>1. ~(InSomeList(s) /\ s \in freed)
        BY DEF InSomeList, ProxyInv, ListOK
      <3>2. faults \in Nat
        BY BrokerAssumption DEF IInv, TypeInv, BoundT
      <3>3. faults = 0 /\ InSomeList(s) => spc[s] \notin {"failed", "clear", "unsubscribed", "gone"}
        BY DEF MembersInv, MemberInv, MemberOK, InSomeList, Listed
      <3> QED
        BY <3>1, <3>2, <3>3 DEF OwnedInv, OwnedOK
    <2> QED
      BY <2>1, <2>2 DEF ProxiesOwned, InSomeList, Registered
  <1> QED
    BY <1>1, <1>2, <1>3, Members, PTL DEF Spec

=============================================================================
