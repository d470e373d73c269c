---------------------------- MODULE MessageBroker ----------------------------
(***************************************************************************)
(* message_broker.c: publishers hand messages to the publisher pool, whose *)
(* workers deliver each message to the inbox of every subscriber of its    *)
(* channel; receivers take messages from an inbox while the thread that    *)
(* made the subscription may cancel it.                                    *)
(*                                                                         *)
(* The publisher pool is the abstract TaskPool, which ThreadPool           *)
(* implements; an inbox is a GenericQueue.  A critical section in which    *)
(* nothing blocks is one step.  Locks are taken in the order               *)
(* _channels_mutex, channel _mutex, _inbox_mutex.                          *)
(*                                                                         *)
(* A failing allocation is a fault; faults counts them.  Touching a proxy  *)
(* that was freed is undefined behaviour: the thread goes to "undefined"   *)
(* and the model says nothing about what it does then.  The flag _active   *)
(* of a proxy is a plain int read and written without a common lock; a     *)
(* reader sees the old or the new value until its next synchronisation     *)
(* with the writer, which is what reading and writing in separate steps    *)
(* gives.                                                                  *)
(*                                                                         *)
(* When an insertion into the table runs out of memory at its last         *)
(* allocation, generic_hash_table_insert returns with the bucket locked,   *)
(* having freed the channel that its caller then frees again.  stuck holds *)
(* the names of such buckets.  A process that dies of the second free is a *)
(* behaviour that ends.                                                    *)
(***************************************************************************)
EXTENDS Naturals, FiniteSets, SequencesExt, GenericQueue

CONSTANTS
  Publishers,     \* threads that call message_broker_publish
  Workers,        \* threads of _publisher_pool
  Subs,           \* subscriptions; s also names the thread that makes and
                  \* cancels it, and its proxy
  Receivers,      \* threads that receive from a subscription
  SubOf,          \* SubOf[r]: the subscription r receives from
  Names,          \* channel names
  BucketOf,       \* BucketOf[n]: index of the bucket of name n in _channels
  NoThread,       \* the owner of a free mutex
  MaxMessages,    \* bound on the message ids given out
  MaxFaults,      \* bound on the failing allocations
  MaxSpurious,    \* bound on the spurious wakeups of receivers
  ConcurrentUnsubscribe  \* unsubscribe may run while a receiver is inside

Threads == Workers \cup Subs \cup Receivers

Messages == 1..MaxMessages

\* Channel objects: one per name, and one more for every lookup that fails
\* for want of memory and makes the caller insert a second object.
Channels == 1..(Cardinality(Names) + MaxFaults)

ASSUME BrokerAssumption ==
  /\ IsFiniteSet(Names) /\ IsFiniteSet(Receivers)
  /\ MaxMessages \in Nat /\ MaxFaults \in Nat /\ MaxSpurious \in Nat
  /\ SubOf \in [Receivers -> Subs]
  /\ BucketOf \in [Names -> Nat]
  /\ NoThread \notin Threads
  /\ Workers \cap Subs = {} /\ Workers \cap Receivers = {}
  /\ Subs \cap Receivers = {}
  /\ NULL \notin Nat
  /\ ConcurrentUnsubscribe \in BOOLEAN

VARIABLES
  pending, running, completed, discarded, closed,  \* the publisher pool
  nextId,         \* _next_message_id
  nextChannel,    \* channel objects allocated so far
  table,          \* table[n]: objects of name n in _channels, newest first
  proxies,        \* proxies[c]: _subscriber_proxies of channel object c
  stuck,          \* names whose bucket stays locked for ever
  channelsMutex,  \* holder of _channels_mutex
  channelMutex,   \* channelMutex[c]: holder of the _mutex of c
  inboxMutex,     \* inboxMutex[s]: holder of the _inbox_mutex of proxy s
  inboxWait,      \* inboxWait[s]: receivers blocked on its _inbox_cond
  inbox,          \* inbox[s]: its _inbox
  active,         \* active[s]: its _active
  freed,          \* proxies that have been freed
  ppc, parg,      \* publisher: program counter and message being published
  wpc, wchan, todo,  \* worker: program counter, channel, proxies to visit
  spc, sname, schan,  \* subscription: program counter, channel name, channel
  rpc,            \* receiver: program counter
  name,           \* name[m]: the channel message m was published to
  log,            \* history: messages in the order their delivery began
  joinAt,         \* history: length of the log when s was registered
  delivered,      \* history: messages put into the inbox of s
  received,       \* history: messages the receive calls on s handed out
  gotNull,        \* history: subscriptions on which a receive call
                  \* returned 0 and handed out NULL
  due,            \* history: subscriptions registered when m was published
  faults,         \* failed allocations so far
  spurious        \* spurious wakeups so far

poolVars  == << pending, running, completed, discarded, closed >>
tableVars == << nextChannel, table, proxies, stuck >>
lockVars  == << channelsMutex, channelMutex, inboxMutex, inboxWait >>
proxyVars == << inbox, active, freed >>
pubVars   == << ppc, parg, nextId, name, due >>
workVars  == << wpc, wchan, todo >>
subVars   == << spc, sname, schan >>
receipts  == << received, gotNull >>
seenVars  == << log, joinAt, delivered, receipts >>

vars == << poolVars, tableVars, lockVars, proxyVars, pubVars, workVars,
           subVars, rpc, seenVars, faults, spurious >>

Pool == INSTANCE TaskPool WITH Tasks <- Messages

\* States of the thread of a subscription.  Between "subscribed" and "clear"
\* the fields _active and _proxy of the subscription are set.
Unsubscribing == {"broadcast", "lockChannels", "lockChannel", "remove",
                  "unlock", "clear"}

\* A call that is "hung" will not return from inside _channels_mutex.
SubPC == {"new", "create", "insert", "wrap", "subscribed", "unsubscribed",
          "gone", "failed", "hung"} \cup Unsubscribing

WorkerPC == {"idle", "get", "create", "lock", "each", "enqueue", "append",
             "signal", "undefined"}

ReceiverPC == {"idle", "lock", "test", "active", "sleep", "blocked", "check",
               "dequeue", "tryEmpty", "tryDequeue", "undefined"}

TypeOK ==
  /\ pending \in Seq(Messages)
  /\ running \in [Workers -> Messages \cup {NULL}]
  /\ completed \subseteq Messages /\ discarded \subseteq Messages
  /\ closed \in BOOLEAN
  /\ nextId \in 1..(MaxMessages + 1)
  /\ nextChannel \in 0..Cardinality(Channels)
  /\ table \in [Names -> Seq(Channels)]
  /\ proxies \in [Channels -> Seq(Subs)]
  /\ stuck \subseteq Names
  /\ channelsMutex \in Threads \cup {NoThread}
  /\ channelMutex \in [Channels -> Threads \cup {NoThread}]
  /\ inboxMutex \in [Subs -> Receivers \cup {NoThread}]
  /\ inboxWait \in [Subs -> SUBSET Receivers]
  /\ inbox \in [Subs -> Seq(Messages)]
  /\ active \in [Subs -> BOOLEAN] /\ freed \subseteq Subs
  /\ ppc \in [Publishers -> {"idle", "submit"}]
  /\ parg \in [Publishers -> Messages \cup {NULL}]
  /\ wpc \in [Workers -> WorkerPC]
  /\ wchan \in [Workers -> Channels \cup {NULL}]
  /\ todo \in [Workers -> Seq(Subs)]
  /\ spc \in [Subs -> SubPC]
  /\ sname \in [Subs -> Names \cup {NULL}]
  /\ schan \in [Subs -> Channels \cup {NULL}]
  /\ rpc \in [Receivers -> ReceiverPC]
  /\ name \in [Messages -> Names \cup {NULL}]
  /\ log \in [Channels -> Seq(Messages)]
  /\ joinAt \in [Subs -> Nat]
  /\ delivered \in [Subs -> Seq(Messages)]
  /\ received \in [Subs -> Seq(Messages)] /\ gotNull \subseteq Subs
  /\ due \in [Messages -> SUBSET Subs]
  /\ faults \in 0..MaxFaults /\ spurious \in 0..MaxSpurious

-----------------------------------------------------------------------------
WGoto(w, l) == wpc' = [wpc EXCEPT ![w] = l]
SGoto(s, l) == spc' = [spc EXCEPT ![s] = l]
RGoto(r, l) == rpc' = [rpc EXCEPT ![r] = l]

\* k allocations fail.
Fault(k) == faults + k <= MaxFaults /\ faults' = faults + k

\* generic_hash_table_get under _channels_mutex.  A lookup that cannot
\* allocate its iterator fails like one that finds nothing.
Found(n) ==
  /\ channelsMutex = NoThread /\ n \notin stuck
  /\ table[n] # << >>
  /\ UNCHANGED << channelsMutex, faults >>

\* Wrong variant: the mutex is released between the lookup and the insertion.
NotFoundUnlocks(t, n) ==
  /\ channelsMutex = NoThread /\ n \notin stuck
  /\ \/ table[n] = << >> /\ UNCHANGED faults
     \/ table[n] # << >> /\ Fault(1)
  /\ UNCHANGED channelsMutex

\* Nothing was found: thread t keeps _channels_mutex.
NotFound(t, n) ==
  /\ channelsMutex = NoThread /\ n \notin stuck
  /\ \/ table[n] = << >> /\ UNCHANGED faults
     \/ table[n] # << >> /\ Fault(1)
  /\ channelsMutex' = t

\* The bucket is locked for ever: thread t takes _channels_mutex, waits for
\* the bucket and keeps everybody else out of the table.
LookupBlocks(t, n) ==
  /\ channelsMutex = NoThread /\ n \in stuck
  /\ channelsMutex' = t
  /\ UNCHANGED faults

\* _channel_new and generic_hash_table_insert, which puts the new object
\* before those of the same name; then _channels_mutex is released.
Create(n) ==
  /\ nextChannel < Cardinality(Channels)
  /\ nextChannel' = nextChannel + 1
  /\ table' = [table EXCEPT ![n] = << nextChannel' >> \o @]
  /\ channelsMutex' = NoThread

\* _channel_new, or a copy that the insertion makes, fails; _channels_mutex
\* is released.
CreateFails == Fault(1) /\ channelsMutex' = NoThread

\* The insertion cannot allocate the list node of the bucket.
LinkFails(n) ==
  /\ Fault(1)
  /\ stuck' = stuck \cup { k \in Names : BucketOf[k] = BucketOf[n] }
  /\ UNCHANGED << nextChannel, table, proxies >>

-----------------------------------------------------------------------------
(* message_broker_publish *)

PublishBegin(p, n) ==
  /\ ppc[p] = "idle" /\ ~closed
  /\ nextId <= MaxMessages
  /\ nextId' = nextId + 1
  /\ name' = [name EXCEPT ![nextId] = n]
  /\ due' = [due EXCEPT ![nextId] = { s \in Subs :
               table[n] # << >> /\ s \in Range(proxies[Head(table[n])]) }]
  /\ parg' = [parg EXCEPT ![p] = nextId]
  /\ ppc' = [ppc EXCEPT ![p] = "submit"]
  /\ UNCHANGED << poolVars, tableVars, lockVars, proxyVars, workVars, subVars,
                  rpc, seenVars, faults, spurious >>

PublishSubmit(p) ==
  /\ ppc[p] = "submit"
  /\ Pool!Accept(parg[p])
  /\ ppc' = [ppc EXCEPT ![p] = "idle"]
  /\ UNCHANGED << tableVars, lockVars, proxyVars, parg, nextId, name, due,
                  workVars, subVars, rpc, seenVars, faults, spurious >>

\* The copies of the strings, the task or its list node cannot be allocated.
PublishFails(p) ==
  /\ ppc[p] = "submit"
  /\ Fault(1)
  /\ ppc' = [ppc EXCEPT ![p] = "idle"]
  /\ UNCHANGED << poolVars, tableVars, lockVars, proxyVars, parg, nextId, name,
                  due, workVars, subVars, rpc, seenVars, spurious >>

-----------------------------------------------------------------------------
(* _publisher_task *)

WorkerStart(w) ==
  /\ wpc[w] = "idle"
  /\ Pool!Start(w)
  /\ WGoto(w, "get")
  /\ UNCHANGED << tableVars, lockVars, proxyVars, pubVars, wchan, todo,
                  subVars, rpc, seenVars, faults, spurious >>

WorkerGet(w) ==
  /\ wpc[w] = "get"
  /\ LET n == name[running[w]] IN
     \/ /\ Found(n)
        /\ wchan' = [wchan EXCEPT ![w] = Head(table[n])]
        /\ WGoto(w, "lock")
     \/ /\ NotFound(w, n)
        /\ WGoto(w, "create")
        /\ UNCHANGED wchan
     \/ /\ LookupBlocks(w, n)      \* and stays where it is
        /\ UNCHANGED << wpc, wchan >>
  /\ UNCHANGED << poolVars, tableVars, channelMutex, inboxMutex, inboxWait,
                  proxyVars, pubVars, todo, subVars, rpc, seenVars, spurious >>

WorkerCreate(w) ==
  /\ wpc[w] = "create"
  /\ Create(name[running[w]])
  /\ wchan' = [wchan EXCEPT ![w] = nextChannel']
  /\ WGoto(w, "lock")
  /\ UNCHANGED << poolVars, proxies, stuck, channelMutex, inboxMutex, inboxWait,
                  proxyVars, pubVars, todo, subVars, rpc, seenVars, faults,
                  spurious >>

\* The message is dropped.
WorkerCreateFails(w) ==
  /\ wpc[w] = "create"
  /\ CreateFails
  /\ Pool!Complete(w)
  /\ WGoto(w, "idle")
  /\ UNCHANGED << tableVars, channelMutex, inboxMutex, inboxWait, proxyVars,
                  pubVars, wchan, todo, subVars, rpc, seenVars, spurious >>

\* _channels_mutex is released before the channel is freed again: the task
\* ends, or does not get past it.
WorkerLinkFails(w) ==
  /\ wpc[w] = "create"
  /\ LinkFails(name[running[w]])
  /\ channelsMutex' = NoThread
  /\ \/ Pool!Complete(w) /\ WGoto(w, "idle")
     \/ WGoto(w, "undefined") /\ UNCHANGED poolVars
  /\ UNCHANGED << channelMutex, inboxMutex, inboxWait, proxyVars, pubVars,
                  wchan, todo, subVars, rpc, seenVars, spurious >>

\* Wrong variant: the list is walked without the channel's mutex.
WorkerLockForgotten(w) ==
  /\ wpc[w] = "lock"
  /\ todo' = [todo EXCEPT ![w] = proxies[wchan[w]]]
  /\ log' = [log EXCEPT ![wchan[w]] = Append(@, running[w])]
  /\ WGoto(w, "each")
  /\ UNCHANGED << poolVars, tableVars, lockVars, proxyVars, pubVars, wchan,
                  subVars, rpc, joinAt, delivered, receipts, faults,
                  spurious >>

\* The list only changes under the channel's mutex, so the iterator visits
\* the proxies that are in it now.
WorkerLock(w) ==
  /\ wpc[w] = "lock"
  /\ channelMutex[wchan[w]] = NoThread
  /\ channelMutex' = [channelMutex EXCEPT ![wchan[w]] = w]
  /\ \/ /\ todo' = [todo EXCEPT ![w] = proxies[wchan[w]]]
        /\ UNCHANGED faults
     \/ /\ proxies[wchan[w]] # << >>
        /\ Fault(1)       \* generic_linked_list_iterator_begin
        /\ todo' = [todo EXCEPT ![w] = << >>]
  /\ log' = [log EXCEPT ![wchan[w]] = Append(@, running[w])]
  /\ WGoto(w, "each")
  /\ UNCHANGED << poolVars, tableVars, channelsMutex, inboxMutex, inboxWait,
                  proxyVars, pubVars, wchan, subVars, rpc, joinAt, delivered,
                  receipts, spurious >>

NextProxy(w) ==
  /\ todo' = [todo EXCEPT ![w] = Tail(@)]
  /\ WGoto(w, "each")

\* Wrong variant: the walk ends at the first inactive proxy.
WorkerVisitBreaks(w) ==
  /\ wpc[w] = "each" /\ todo[w] # << >>
  /\ \/ /\ active[Head(todo[w])]
        /\ WGoto(w, "enqueue")
        /\ UNCHANGED todo
     \/ /\ ~active[Head(todo[w])]
        /\ todo' = [todo EXCEPT ![w] = << >>]
        /\ UNCHANGED wpc
  /\ UNCHANGED << poolVars, tableVars, lockVars, proxyVars, pubVars, wchan,
                  subVars, rpc, seenVars, faults, spurious >>

\* if (proxy->_active), and _message_new
WorkerVisit(w) ==
  /\ wpc[w] = "each" /\ todo[w] # << >>
  /\ \/ /\ active[Head(todo[w])]
        /\ WGoto(w, "enqueue")
        /\ UNCHANGED << todo, faults >>
     \/ /\ active[Head(todo[w])]
        /\ Fault(1)
        /\ NextProxy(w)
     \/ /\ ~active[Head(todo[w])]
        /\ NextProxy(w)
        /\ UNCHANGED faults
  /\ UNCHANGED << poolVars, tableVars, lockVars, proxyVars, pubVars, wchan,
                  subVars, rpc, seenVars, spurious >>

\* _subscriber_proxy_enqueue tests _active once more ...
WorkerEnqueue(w) ==
  /\ wpc[w] = "enqueue"
  /\ IF active[Head(todo[w])] THEN WGoto(w, "append") /\ UNCHANGED todo
                              ELSE NextProxy(w)
  /\ UNCHANGED << poolVars, tableVars, lockVars, proxyVars, pubVars, wchan,
                  subVars, rpc, seenVars, faults, spurious >>

\* Wrong variant: the copy that could not be made is enqueued all the same.
WorkerAppendUnchecked(w) ==
  /\ wpc[w] = "append"
  /\ LET s == Head(todo[w]) IN
     \/ /\ inbox' = [inbox EXCEPT ![s] =
                       generic_queue_syn_enqueue(@, running[w])]
        /\ delivered' = [delivered EXCEPT ![s] = Append(@, running[w])]
        /\ UNCHANGED faults
     \/ /\ Fault(1)
        /\ inbox' = [inbox EXCEPT ![s] = generic_queue_syn_enqueue(@, NULL)]
        /\ UNCHANGED delivered
  /\ WGoto(w, "signal")
  /\ UNCHANGED << poolVars, tableVars, lockVars, active, freed, pubVars, wchan,
                  todo, subVars, rpc, log, joinAt, receipts, spurious >>

\* ... appends the copy of the message to the inbox ...
WorkerAppend(w) ==
  /\ wpc[w] = "append"
  /\ LET s == Head(todo[w]) IN
     \/ /\ inbox' = [inbox EXCEPT ![s] =
                       generic_queue_syn_enqueue(@, running[w])]
        /\ delivered' = [delivered EXCEPT ![s] = Append(@, running[w])]
        /\ WGoto(w, "signal")
        /\ UNCHANGED << todo, faults >>
     \/ /\ Fault(1)
        /\ NextProxy(w)
        /\ UNCHANGED << inbox, delivered >>
  /\ UNCHANGED << poolVars, tableVars, lockVars, active, freed, pubVars, wchan,
                  subVars, rpc, log, joinAt, receipts, spurious >>

\* Wrong variants: the signal without _inbox_mutex, and none at all.
SignalInboxUnlocked(s) ==
  IF inboxWait[s] = {} THEN UNCHANGED inboxWait
  ELSE \E r \in inboxWait[s] :
         inboxWait' = [inboxWait EXCEPT ![s] = @ \ {r}]

SignalInboxForgotten(s) == inboxMutex[s] = NoThread /\ UNCHANGED inboxWait

\* ... and signals _inbox_cond.
SignalInbox(s) ==
  /\ inboxMutex[s] = NoThread
  /\ IF inboxWait[s] = {} THEN UNCHANGED inboxWait
     ELSE \E r \in inboxWait[s] :
            inboxWait' = [inboxWait EXCEPT ![s] = @ \ {r}]

WorkerSignal(w) ==
  /\ wpc[w] = "signal"
  /\ SignalInbox(Head(todo[w]))
  /\ NextProxy(w)
  /\ UNCHANGED << poolVars, tableVars, channelsMutex, channelMutex, inboxMutex,
                  proxyVars, pubVars, wchan, subVars, rpc, seenVars, faults,
                  spurious >>

WorkerUnlock(w) ==
  /\ wpc[w] = "each" /\ todo[w] = << >>
  /\ channelMutex' = [channelMutex EXCEPT ![wchan[w]] = NoThread]
  /\ Pool!Complete(w)
  /\ WGoto(w, "idle")
  /\ UNCHANGED << tableVars, channelsMutex, inboxMutex, inboxWait, proxyVars,
                  pubVars, wchan, todo, subVars, rpc, seenVars, faults,
                  spurious >>

_publisher_task(w) ==
  \/ WorkerStart(w) \/ WorkerGet(w) \/ WorkerCreate(w)
  \/ WorkerCreateFails(w) \/ WorkerLinkFails(w)
  \/ WorkerLock(w) \/ WorkerVisit(w) \/ WorkerEnqueue(w) \/ WorkerAppend(w)
  \/ WorkerSignal(w) \/ WorkerUnlock(w)

-----------------------------------------------------------------------------
(* message_broker_subscribe *)

SubscribeGet(s, n) ==
  /\ spc[s] = "new" /\ ~closed
  /\ sname' = [sname EXCEPT ![s] = n]
  /\ \/ /\ Found(n)
        /\ schan' = [schan EXCEPT ![s] = Head(table[n])]
        /\ SGoto(s, "insert")
     \/ /\ NotFound(s, n)
        /\ SGoto(s, "create")
        /\ UNCHANGED schan
     \/ /\ LookupBlocks(s, n)
        /\ SGoto(s, "hung")
        /\ UNCHANGED schan
  /\ UNCHANGED << poolVars, tableVars, channelMutex, inboxMutex, inboxWait,
                  proxyVars, pubVars, workVars, rpc, seenVars, spurious >>

SubscribeCreate(s) ==
  /\ spc[s] = "create"
  /\ Create(sname[s])
  /\ schan' = [schan EXCEPT ![s] = nextChannel']
  /\ SGoto(s, "insert")
  /\ UNCHANGED << poolVars, proxies, stuck, channelMutex, inboxMutex, inboxWait,
                  proxyVars, pubVars, workVars, sname, rpc, seenVars, faults,
                  spurious >>

\* Wrong variant: the early return leaves _channels_mutex locked.
SubscribeCreateFailsLocked(s) ==
  /\ spc[s] = "create"
  /\ Fault(1)
  /\ SGoto(s, "failed")
  /\ UNCHANGED << poolVars, tableVars, lockVars, proxyVars, pubVars, workVars,
                  sname, schan, rpc, seenVars, spurious >>

SubscribeCreateFails(s) ==
  /\ spc[s] = "create"
  /\ CreateFails
  /\ SGoto(s, "failed")
  /\ UNCHANGED << poolVars, tableVars, channelMutex, inboxMutex, inboxWait,
                  proxyVars, pubVars, workVars, sname, schan, rpc, seenVars,
                  spurious >>

\* Here the channel is freed again before _channels_mutex is released.
SubscribeLinkFails(s) ==
  /\ spc[s] = "create"
  /\ LinkFails(sname[s])
  /\ \/ SGoto(s, "failed") /\ channelsMutex' = NoThread
     \/ SGoto(s, "hung") /\ UNCHANGED channelsMutex
  /\ UNCHANGED << poolVars, channelMutex, inboxMutex, inboxWait, proxyVars,
                  pubVars, workVars, sname, schan, rpc, seenVars, spurious >>

\* _subscriber_proxy_new, and the insertion under the channel's mutex.
SubscribeInsert(s) ==
  /\ spc[s] = "insert"
  /\ channelMutex[schan[s]] = NoThread
  /\ proxies' = [proxies EXCEPT ![schan[s]] = Append(@, s)]
  /\ active' = [active EXCEPT ![s] = TRUE]
  /\ joinAt' = [joinAt EXCEPT ![s] = Len(log[schan[s]])]
  /\ SGoto(s, "wrap")
  /\ UNCHANGED << poolVars, nextChannel, table, stuck, lockVars, inbox, freed,
                  pubVars, workVars, sname, schan, rpc, log, delivered,
                  receipts, faults, spurious >>

\* Wrong variant: the failure is not returned once the proxy is freed.
SubscribeInsertFailsGoesOn(s) ==
  /\ spc[s] = "insert"
  /\ Fault(1)
  /\ freed' = freed \cup {s}
  /\ active' = [active EXCEPT ![s] = TRUE]
  /\ SGoto(s, "wrap")
  /\ UNCHANGED << poolVars, tableVars, lockVars, inbox, pubVars, workVars,
                  sname, schan, rpc, seenVars, spurious >>

\* The proxy, or its list node, cannot be allocated: nobody has seen it.
SubscribeInsertFails(s) ==
  /\ spc[s] = "insert"
  /\ Fault(1)
  /\ SGoto(s, "failed")
  /\ UNCHANGED << poolVars, tableVars, lockVars, proxyVars, pubVars, workVars,
                  sname, schan, rpc, seenVars, spurious >>

\* malloc of the subscription.  When it fails, the call fails and the proxy
\* stays in the list of the channel, active and out of anybody's reach.
SubscribeWrap(s) ==
  /\ spc[s] = "wrap"
  /\ \/ SGoto(s, "subscribed") /\ UNCHANGED faults
     \/ SGoto(s, "failed") /\ Fault(1)
  /\ UNCHANGED << poolVars, tableVars, lockVars, proxyVars, pubVars, workVars,
                  sname, schan, rpc, seenVars, spurious >>

-----------------------------------------------------------------------------
(* subscription_unsubscribe and subscription_free *)

ReceiversIdle(s) ==
  \A r \in Receivers : SubOf[r] = s => rpc[r] \in {"idle", "undefined"}

UnsubscribeBegin(s) ==
  /\ spc[s] = "subscribed" /\ ~closed
  /\ ConcurrentUnsubscribe \/ ReceiversIdle(s)
  /\ active' = [active EXCEPT ![s] = FALSE]
  /\ SGoto(s, "broadcast")
  /\ UNCHANGED << poolVars, tableVars, lockVars, inbox, freed, pubVars,
                  workVars, sname, schan, rpc, seenVars, faults, spurious >>

BroadcastInbox(s) ==
  /\ inboxMutex[s] = NoThread
  /\ inboxWait' = [inboxWait EXCEPT ![s] = {}]

UnsubscribeBroadcast(s) ==
  /\ spc[s] = "broadcast"
  /\ BroadcastInbox(s)
  /\ SGoto(s, "lockChannels")
  /\ UNCHANGED << poolVars, tableVars, channelsMutex, channelMutex, inboxMutex,
                  proxyVars, pubVars, workVars, sname, schan, rpc, seenVars,
                  faults, spurious >>

\* Takes _channels_mutex and looks the channel up by its name: what is found
\* is the newest object of that name.
UnsubscribeLockChannels(s) ==
  /\ spc[s] = "lockChannels"
  /\ channelsMutex = NoThread /\ sname[s] \notin stuck
  /\ channelsMutex' = s
  /\ schan' = [schan EXCEPT ![s] = Head(table[sname[s]])]
  /\ SGoto(s, "lockChannel")
  /\ UNCHANGED << poolVars, tableVars, channelMutex, inboxMutex, inboxWait,
                  proxyVars, pubVars, workVars, sname, rpc, seenVars, faults,
                  spurious >>

\* The lookup fails: the proxy is not removed.
UnsubscribeLookupFails(s) ==
  /\ spc[s] = "lockChannels"
  /\ channelsMutex = NoThread /\ sname[s] \notin stuck
  /\ Fault(1)
  /\ SGoto(s, "clear")
  /\ UNCHANGED << poolVars, tableVars, lockVars, proxyVars, pubVars, workVars,
                  sname, schan, rpc, seenVars, spurious >>

\* The call waits for a locked bucket and stays where it is.
UnsubscribeGetBlocks(s) ==
  /\ spc[s] = "lockChannels"
  /\ LookupBlocks(s, sname[s])
  /\ UNCHANGED << poolVars, tableVars, channelMutex, inboxMutex, inboxWait,
                  proxyVars, pubVars, workVars, subVars, rpc, seenVars,
                  spurious >>

\* Wrong variant: the list is changed under _channels_mutex only.
UnsubscribeLockChannelForgotten(s) ==
  /\ spc[s] = "lockChannel"
  /\ SGoto(s, "remove")
  /\ UNCHANGED << poolVars, tableVars, lockVars, proxyVars, pubVars, workVars,
                  sname, schan, rpc, seenVars, faults, spurious >>

UnsubscribeLockChannel(s) ==
  /\ spc[s] = "lockChannel"
  /\ channelMutex[schan[s]] = NoThread
  /\ channelMutex' = [channelMutex EXCEPT ![schan[s]] = s]
  /\ SGoto(s, "remove")
  /\ UNCHANGED << poolVars, tableVars, channelsMutex, inboxMutex, inboxWait,
                  proxyVars, pubVars, workVars, sname, schan, rpc, seenVars,
                  faults, spurious >>

\* generic_linked_list_iterator_remove frees the proxy, which takes its
\* _inbox_mutex once more for a second broadcast.
UnsubscribeRemove(s) ==
  /\ spc[s] = "remove"
  /\ s \in Range(proxies[schan[s]])
  /\ BroadcastInbox(s)
  /\ proxies' = [proxies EXCEPT ![schan[s]] =
                  RemoveAt(@, CHOOSE i \in 1..Len(@) : @[i] = s)]
  /\ freed' = freed \cup {s}
  /\ inbox' = [inbox EXCEPT ![s] = << >>]
  /\ SGoto(s, "unlock")
  /\ UNCHANGED << poolVars, nextChannel, table, stuck, channelsMutex,
                  channelMutex, inboxMutex, active, pubVars, workVars, sname, schan, rpc,
                  seenVars, faults, spurious >>

\* No iterator, or the proxy is in the list of an older object.
UnsubscribeRemovesNothing(s) ==
  /\ spc[s] = "remove"
  /\ IF s \in Range(proxies[schan[s]]) THEN Fault(1) ELSE UNCHANGED faults
  /\ SGoto(s, "unlock")
  /\ UNCHANGED << poolVars, tableVars, lockVars, proxyVars, pubVars, workVars,
                  sname, schan, rpc, seenVars, spurious >>

UnsubscribeUnlock(s) ==
  /\ spc[s] = "unlock"
  /\ channelMutex' = [channelMutex EXCEPT ![schan[s]] = NoThread]
  /\ channelsMutex' = NoThread
  /\ SGoto(s, "clear")
  /\ UNCHANGED << poolVars, tableVars, inboxMutex, inboxWait, proxyVars,
                  pubVars, workVars, sname, schan, rpc, seenVars, faults,
                  spurious >>

\* self->_active = 0; self->_proxy = NULL
UnsubscribeClear(s) ==
  /\ spc[s] = "clear"
  /\ SGoto(s, "unsubscribed")
  /\ UNCHANGED << poolVars, tableVars, lockVars, proxyVars, pubVars, workVars,
                  sname, schan, rpc, seenVars, faults, spurious >>

\* Called on an active subscription, subscription_free unsubscribes first.
\* Nobody may be inside the subscription when it is freed.
subscription_free(s) ==
  /\ spc[s] = "unsubscribed" /\ ReceiversIdle(s)
  /\ SGoto(s, "gone")
  /\ UNCHANGED << poolVars, tableVars, lockVars, proxyVars, pubVars, workVars,
                  sname, schan, rpc, seenVars, faults, spurious >>

SubscriptionContinues(s) ==
  \/ SubscribeCreate(s) \/ SubscribeCreateFails(s) \/ SubscribeLinkFails(s)
  \/ SubscribeInsert(s) \/ SubscribeInsertFails(s) \/ SubscribeWrap(s)
  \/ UnsubscribeBroadcast(s) \/ UnsubscribeLockChannels(s)
  \/ UnsubscribeLookupFails(s) \/ UnsubscribeGetBlocks(s)
  \/ UnsubscribeLockChannel(s)
  \/ UnsubscribeRemove(s) \/ UnsubscribeRemovesNothing(s)
  \/ UnsubscribeUnlock(s) \/ UnsubscribeClear(s)

-----------------------------------------------------------------------------
(* subscription_receive, subscription_try_receive and                      *)
(* subscription_get_pending_count                                          *)

receiverFrame == << poolVars, tableVars, channelsMutex, channelMutex, active,
                    freed, pubVars, workVars, subVars, log, joinAt, delivered,
                    faults, spurious >>

\* The subscription has its proxy set.
Attached(s) == spc[s] \in {"subscribed"} \cup Unsubscribing

CanCall(r) ==
  /\ rpc[r] = "idle" /\ ~closed
  /\ IF ConcurrentUnsubscribe THEN Attached(SubOf[r])
                              ELSE spc[SubOf[r]] = "subscribed"

\* A call that finds the subscription or its proxy inactive returns 1.
ReceiveBegin(r) ==
  /\ CanCall(r)
  /\ SubOf[r] \notin freed /\ active[SubOf[r]]
  /\ RGoto(r, "lock") \/ RGoto(r, "tryEmpty")
  /\ UNCHANGED << receiverFrame, inboxMutex, inboxWait, inbox, receipts >>

\* Wrong variant: an if in place of the while around pthread_cond_wait.
ReceiveLockOnce(r) ==
  /\ \/ rpc[r] = "lock" /\ RGoto(r, "test")
     \/ rpc[r] = "blocked" /\ r \notin inboxWait[SubOf[r]] /\ RGoto(r, "check")
  /\ SubOf[r] \notin freed
  /\ inboxMutex[SubOf[r]] = NoThread
  /\ inboxMutex' = [inboxMutex EXCEPT ![SubOf[r]] = r]
  /\ UNCHANGED << receiverFrame, inboxWait, inbox, receipts >>

ReceiveLock(r) ==
  /\ \/ rpc[r] = "lock"
     \/ rpc[r] = "blocked" /\ r \notin inboxWait[SubOf[r]]
  /\ SubOf[r] \notin freed
  /\ inboxMutex[SubOf[r]] = NoThread
  /\ inboxMutex' = [inboxMutex EXCEPT ![SubOf[r]] = r]
  /\ RGoto(r, "test")
  /\ UNCHANGED << receiverFrame, inboxWait, inbox, receipts >>

ReceiveTest(r) ==
  /\ rpc[r] = "test"
  /\ RGoto(r, IF generic_queue_syn_is_empty(inbox[SubOf[r]]) THEN "active"
                                                            ELSE "check")
  /\ UNCHANGED << receiverFrame, inboxMutex, inboxWait, inbox, receipts >>

ReceiveTestActive(r) ==
  /\ rpc[r] = "active"
  /\ RGoto(r, IF active[SubOf[r]] THEN "sleep" ELSE "check")
  /\ UNCHANGED << receiverFrame, inboxMutex, inboxWait, inbox, receipts >>

ReceiveSleep(r) ==
  /\ rpc[r] = "sleep"
  /\ inboxMutex' = [inboxMutex EXCEPT ![SubOf[r]] = NoThread]
  /\ inboxWait' = [inboxWait EXCEPT ![SubOf[r]] = @ \cup {r}]
  /\ RGoto(r, "blocked")
  /\ UNCHANGED << receiverFrame, inbox, receipts >>

\* Wrong variant: the call on a cancelled subscription returns with
\* _inbox_mutex locked.
ReceiveCheckLocked(r) ==
  /\ rpc[r] = "check"
  /\ inboxMutex' = [inboxMutex EXCEPT ![SubOf[r]] =
                      IF active[SubOf[r]] THEN NoThread ELSE r]
  /\ RGoto(r, IF active[SubOf[r]] THEN "dequeue" ELSE "idle")
  /\ UNCHANGED << receiverFrame, inboxWait, inbox, receipts >>

ReceiveCheck(r) ==
  /\ rpc[r] = "check"
  /\ inboxMutex' = [inboxMutex EXCEPT ![SubOf[r]] = NoThread]
  /\ RGoto(r, IF active[SubOf[r]] THEN "dequeue" ELSE "idle")
  /\ UNCHANGED << receiverFrame, inboxWait, inbox, receipts >>

TryReceiveTest(r) ==
  /\ rpc[r] = "tryEmpty"
  /\ SubOf[r] \notin freed
  /\ RGoto(r, IF generic_queue_syn_is_empty(inbox[SubOf[r]]) THEN "idle"
                                                            ELSE "tryDequeue")
  /\ UNCHANGED << receiverFrame, inboxMutex, inboxWait, inbox, receipts >>

\* The last step of both calls: return 0 with what dequeue yields.
ReceiveDequeue(r) ==
  /\ rpc[r] \in {"dequeue", "tryDequeue"}
  /\ SubOf[r] \notin freed
  /\ LET m == generic_queue_syn_dequeue(inbox[SubOf[r]]) IN
     IF m = NULL
     THEN gotNull' = gotNull \cup {SubOf[r]} /\ UNCHANGED received
     ELSE received' = [received EXCEPT ![SubOf[r]] = Append(@, m)] /\ UNCHANGED gotNull
  /\ inbox' = [inbox EXCEPT ![SubOf[r]] = dequeued_queue(@)]
  /\ RGoto(r, "idle")
  /\ UNCHANGED << receiverFrame, inboxMutex, inboxWait >>

\* A call, a lock or a dequeue that reaches a freed proxy: the subscription
\* still points to it when a call begins or counts the pending messages, or
\* it was freed during the call.
TouchesFreedProxy(r) ==
  /\ SubOf[r] \in freed
  /\ \/ CanCall(r)
     \/ rpc[r] \in {"lock", "blocked", "tryEmpty", "dequeue", "tryDequeue"}
  /\ RGoto(r, "undefined")
  /\ UNCHANGED << receiverFrame, inboxMutex, inboxWait, inbox, receipts >>

\* pthread_cond_wait may return without a signal.
SpuriousWakeup(r) ==
  /\ r \in inboxWait[SubOf[r]]
  /\ spurious < MaxSpurious
  /\ spurious' = spurious + 1
  /\ inboxWait' = [inboxWait EXCEPT ![SubOf[r]] = @ \ {r}]
  /\ UNCHANGED << poolVars, tableVars, channelsMutex, channelMutex, inboxMutex,
                  proxyVars, pubVars, workVars, subVars, rpc, seenVars,
                  faults >>

ReceiverContinues(r) ==
  \/ ReceiveLock(r) \/ ReceiveTest(r) \/ ReceiveTestActive(r)
  \/ ReceiveSleep(r) \/ ReceiveCheck(r) \/ TryReceiveTest(r)
  \/ ReceiveDequeue(r)

-----------------------------------------------------------------------------
\* generic_hash_table_free locks one bucket after the other, and does not get
\* past the first that is locked for ever.
Reached ==
  { b \in { BucketOf[n] : n \in Names } : \A k \in stuck : b < BucketOf[k] }

ChannelsIn(buckets) ==
  UNION { Range(table[n]) : n \in { k \in Names : BucketOf[k] \in buckets } }

\* message_broker_free: thread_pool_free joins the workers and discards the
\* messages nobody has started on, then the channels and the proxies left
\* in them are freed, except those of the buckets for which no iterator can
\* be allocated.  It is called when nobody else uses the broker.
message_broker_free ==
  /\ \A p \in Publishers : ppc[p] = "idle"
  /\ \A s \in Subs : spc[s] \in {"new", "unsubscribed", "gone", "failed"}
  /\ \A s \in Subs : ReceiversIdle(s)
  /\ Pool!Destroy
  /\ \E lost \in SUBSET Reached :
       /\ Fault(Cardinality(lost))
       /\ freed' = freed \cup
            UNION { Range(proxies[c]) : c \in ChannelsIn(Reached \ lost) }
  /\ table' = [n \in Names |->
                 IF BucketOf[n] \in Reached THEN << >> ELSE table[n]]
  /\ proxies' = [c \in Channels |->
                   IF c \in ChannelsIn(Reached) THEN << >> ELSE proxies[c]]
  /\ UNCHANGED << nextChannel, stuck, lockVars, inbox, active, pubVars,
                  workVars, subVars, rpc, seenVars, spurious >>

Init ==
  /\ Pool!Init
  /\ nextId = 1 /\ nextChannel = 0 /\ faults = 0 /\ spurious = 0
  /\ table = [n \in Names |-> << >>]
  /\ proxies = [c \in Channels |-> << >>] /\ stuck = {}
  /\ channelsMutex = NoThread
  /\ channelMutex = [c \in Channels |-> NoThread]
  /\ inboxMutex = [s \in Subs |-> NoThread]
  /\ inboxWait = [s \in Subs |-> {}]
  /\ inbox = [s \in Subs |-> << >>]
  /\ active = [s \in Subs |-> FALSE] /\ freed = {}
  /\ ppc = [p \in Publishers |-> "idle"]
  /\ parg = [p \in Publishers |-> NULL]
  /\ wpc = [w \in Workers |-> "idle"]
  /\ wchan = [w \in Workers |-> NULL]
  /\ todo = [w \in Workers |-> << >>]
  /\ spc = [s \in Subs |-> "new"]
  /\ sname = [s \in Subs |-> NULL]
  /\ schan = [s \in Subs |-> NULL]
  /\ rpc = [r \in Receivers |-> "idle"]
  /\ name = [m \in Messages |-> NULL]
  /\ log = [c \in Channels |-> << >>]
  /\ joinAt = [s \in Subs |-> 0]
  /\ delivered = [s \in Subs |-> << >>]
  /\ received = [s \in Subs |-> << >>] /\ gotNull = {}
  /\ due = [m \in Messages |-> {}]

Next ==
  \/ \E p \in Publishers :
       \/ \E n \in Names : PublishBegin(p, n)
       \/ PublishSubmit(p) \/ PublishFails(p)
  \/ \E w \in Workers : _publisher_task(w)
  \/ \E s \in Subs :
       \/ \E n \in Names : SubscribeGet(s, n)
       \/ UnsubscribeBegin(s)
       \/ SubscriptionContinues(s)
       \/ subscription_free(s)
  \/ \E r \in Receivers :
       \/ ReceiveBegin(r) \/ ReceiverContinues(r) \/ TouchesFreedProxy(r)
       \/ SpuriousWakeup(r)
  \/ message_broker_free

Spec == Init /\ [][Next]_vars

\* Threads inside a call or a task keep running; nobody is made to call.
Fairness ==
  /\ \A p \in Publishers : WF_vars(PublishSubmit(p))
  /\ \A w \in Workers : WF_vars(_publisher_task(w))
  /\ \A s \in Subs : WF_vars(SubscriptionContinues(s))
  /\ \A r \in Receivers : WF_vars(ReceiverContinues(r))

FairSpec == Spec /\ Fairness

-----------------------------------------------------------------------------
(* Properties *)

\* A worker that walks the list of a channel never reaches a proxy that was
\* freed: unsubscribe frees a proxy only under the mutex of the channel
\* whose list the worker is walking.
WorkerTouchesLive ==
  \A w \in Workers :
    wpc[w] \in {"each", "enqueue", "append", "signal"} =>
      Range(todo[w]) \cap freed = {}

\* No receiver reaches a freed proxy.
NoUseAfterFree == \A r \in Receivers : rpc[r] # "undefined"

\* A name has one channel object, however many publishers and subscribers
\* race to create it, unless a lookup ran out of memory.
OneChannelPerName == faults = 0 => \A n \in Names : Len(table[n]) <= 1

\* Every proxy has one owner, whichever allocations fail: from its registration
\* until it is freed it is in the list of one channel, once, and afterwards in
\* none.  One that subscribe or unsubscribe has given up is in no list unless
\* memory ran out; then it collects messages until the broker is freed, and is
\* lost only if memory is short once more.
ProxiesOwned ==
  /\ \A c, d \in Channels :
       \A i \in 1..Len(proxies[c]), j \in 1..Len(proxies[d]) :
         proxies[c][i] = proxies[d][j] => c = d /\ i = j
  /\ \A s \in Subs :
       LET listed == \E c \in Channels : s \in Range(proxies[c]) IN
       /\ ~(listed /\ s \in freed)
       /\ spc[s] \in {"wrap", "subscribed", "unsubscribed", "gone"}
                     \cup Unsubscribing
            => listed \/ s \in freed \/ (closed /\ faults > 0)
       /\ listed /\ spc[s] \in {"failed", "clear", "unsubscribed", "gone"}
            => faults > 0

\* A message whose delivery is over is in, or has been taken from, the inbox
\* of every subscription that was registered when it was published and has
\* not been cancelled, unless memory ran out.
DeliveredToAll ==
  faults = 0 =>
    \A m \in completed, s \in Subs :
      s \in due[m] /\ active[s] => m \in Range(delivered[s])

\* What a subscription has got: what its receive calls handed out, followed
\* by what is in its inbox.
Got(s) == received[s] \o inbox[s]

\* No two subscriptions get two messages in different orders, and none gets a
\* message twice: two workers that deliver at once, or an allocation that
\* fails in the middle of a walk, may make messages miss an inbox but never
\* overtake each other.
SameOrder ==
  \A s, t \in Subs :
    \A i, j \in 1..Len(Got(s)), k, l \in 1..Len(Got(t)) :
      Got(s)[i] = Got(t)[k] /\ Got(s)[j] = Got(t)[l] /\ i < j => k < l

\* The receivers of s that are awake inside subscription_receive and will
\* test the inbox, or take from it, before they sleep.
Awake(s) ==
  { r \in Receivers : SubOf[r] = s /\ r \notin inboxWait[s]
      /\ rpc[r] \in {"lock", "test", "check", "dequeue", "blocked"} }

\* A receiver never sleeps next to a message: if a receiver is blocked and
\* the inbox is not empty, then a worker has yet to signal, the subscription
\* is cancelled and its broadcast is to come, or as many other receivers are
\* awake inside the call as there are messages.
NoReceiverStranded ==
  \A s \in Subs \ freed :
    inbox[s] # << >> /\ inboxWait[s] # {} =>
      \/ \E w \in Workers : wpc[w] = "signal" /\ Head(todo[w]) = s
      \/ spc[s] = "broadcast"
      \/ Len(inbox[s]) <= Cardinality(Awake(s))

\* What "Receive (blocking)" suggests: a receive that succeeds hands out a
\* message.  It holds for one receiver on each subscription.
ReceiveYieldsMessage == gotNull = {}

\* The channel each subscription has joined, and the subscriptions that have
\* left: their proxies are inactive, and no worker is past the test of _active.
Joined ==
  [s \in Subs |-> IF spc[s] \in {"new", "create", "insert", "failed", "hung"}
                  THEN NULL ELSE schan[s]]

Left == { s \in Subs :
            /\ spc[s] \notin {"new", "create", "insert", "hung"} /\ ~active[s]
            /\ \A w \in Workers :
                 ~(wpc[w] \in {"append", "signal"} /\ Head(todo[w]) = s) }

\* Without faults the broker implements the log of each channel: subscribers
\* see contiguous parts of it.
Log == INSTANCE ChannelLog WITH
  member <- Joined, start <- joinAt, view <- delivered, left <- Left

ImplementsChannelLog == Log!Spec

\* Every accepted message is worked off, also when one of the allocations on
\* its way fails; only an insertion that keeps its bucket locked ends this.
MessagesAreWorkedOff ==
  \A m \in Messages :
    m \in Range(pending) ~> m \in completed \cup discarded \/ stuck # {}

\* subscription_unsubscribe returns: the three kinds of mutex it takes, two
\* of them nested, are taken by everybody in the same order and released, also
\* when an allocation fails, unless that leaves a bucket of the table locked.
UnsubscribeReturns ==
  \A s \in Subs :
    spc[s] = "broadcast" ~> spc[s] \in {"unsubscribed", "gone"} \/ stuck # {}

\* A receiver blocked on its inbox wakes up when a message arrives and when
\* the subscription is cancelled.
BlockedReceiverWakes ==
  \A r \in Receivers :
    rpc[r] = "blocked" /\ (inbox[SubOf[r]] # << >> \/ ~active[SubOf[r]])
      ~> rpc[r] # "blocked" \/ SubOf[r] \in freed

=============================================================================
