-------------------- MODULE MessageBrokerDeliveryProofs --------------------
(***************************************************************************)
(* What reaches the inboxes of the message broker and what leaves them,    *)
(* for every number of threads, subscriptions, names and messages.         *)
(***************************************************************************)
EXTENDS MessageBrokerProofs

(***************************************************************************)
(* Who changes an inbox: a worker appends, unsubscribe empties the inbox   *)
(* it frees, a receiver takes the first message.                           *)
(***************************************************************************)

LEMMA InboxByWorker ==
  ASSUME IInv, NEW w \in Workers, _publisher_task(w)
  PROVE  \/ UNCHANGED << inbox, delivered >>
         \/ \E s \in Subs :
              /\ wpc[w] = "append" /\ wpc'[w] = "signal" /\ UNCHANGED todo
              /\ todo[w] # << >> /\ s = Head(todo[w]) /\ running[w] \in Messages
              /\ inbox' = [inbox EXCEPT ![s] = Append(@, running[w])]
              /\ delivered' = [delivered EXCEPT ![s] = Append(@, running[w])]
              /\ UNCHANGED << running, wchan, inboxWait >>
  <1>1. CASE WorkerAppend(w)
    <2>0. /\ WorkOK(w) /\ wpc[w] = "append" /\ todo[w] \in Seq(Subs) /\ DOMAIN wpc = Workers
      BY <1>1 DEF IInv, LocalInv, TypeInv, WorkT, WorkerAppend
    <2>1. todo[w] # << >> /\ running[w] \in Messages
      BY <2>0 DEF WorkOK, IInv, LocalInv, IdInv, Published
    <2>2. PICK s \in Subs : s = Head(todo[w])
      BY <2>0, <2>1, HeadAndTail
    <2>3. /\ UNCHANGED << running, wchan, inboxWait >>
          /\ \/ /\ inbox' = [inbox EXCEPT ![s] = Append(@, running[w])]
                /\ delivered' = [delivered EXCEPT ![s] = Append(@, running[w])]
                /\ WGoto(w, "signal") /\ UNCHANGED todo
             \/ UNCHANGED << inbox, delivered >>
      BY <1>1, <2>2 DEF WorkerAppend, generic_queue_syn_enqueue, poolVars, lockVars
    <2> QED
      BY <2>0, <2>1, <2>2, <2>3 DEF WGoto
  <1>2. CASE ~WorkerAppend(w)
    BY <1>2 DEF _publisher_task, WorkerStart, WorkerGet, WorkerCreate,
       WorkerCreateFails, WorkerLinkFails, LinkFails, WorkerLock, WorkerVisit, WorkerEnqueue, WorkerSignal, WorkerUnlock, proxyVars, seenVars
  <1> QED
    BY <1>1, <1>2

LEMMA InboxBySubscription ==
  ASSUME IInv, NEW s \in Subs,
         \/ SubscriptionContinues(s) \/ UnsubscribeBegin(s) \/ subscription_free(s)
         \/ \E n \in Names : SubscribeGet(s, n)
  PROVE  /\ freed \subseteq freed' /\ UNCHANGED << delivered, receipts >>
         /\ \A u \in Subs : u \notin freed' => u \notin freed /\ inbox'[u] = inbox[u]
         /\ \A u \in Subs : inbox'[u] = inbox[u] \/ inbox'[u] = << >>
  <1>0. /\ UNCHANGED << delivered, receipts >>
        /\ \A u \in Subs \ {s} : inbox'[u] = inbox[u] /\ (u \in freed' <=> u \in freed)
    BY SubscriptionFrame DEF IInv
  <1>1. CASE UnsubscribeRemove(s)
    <2>1. freed' = freed \cup {s} /\ inbox' = [inbox EXCEPT ![s] = << >>]
      BY <1>1 DEF UnsubscribeRemove
    <2>2. DOMAIN inbox = Subs
      BY DEF IInv, TypeInv, ProxyT
    <2> QED
      BY <1>0, <2>1, <2>2
  <1>2. CASE ~UnsubscribeRemove(s)
    <2>1. UNCHANGED << inbox, freed >>
      BY <1>2 DEF SubscriptionContinues, UnsubscribeBegin, subscription_free, SubscribeGet,
         SubscribeCreate, SubscribeCreateFails, SubscribeLinkFails, LinkFails,
         UnsubscribeGetBlocks, SubscribeInsert, SubscribeInsertFails,
         SubscribeWrap, UnsubscribeBroadcast, UnsubscribeLockChannels,
         UnsubscribeLookupFails, UnsubscribeLockChannel, UnsubscribeRemovesNothing,
         UnsubscribeUnlock, UnsubscribeClear, proxyVars
    <2> QED
      BY <1>0, <2>1
  <1> QED
    BY <1>1, <1>2

Takes(r, s) ==
  /\ s = SubOf[r] /\ s \notin freed /\ inbox[s] # << >>
  /\ rpc[r] \in {"dequeue", "tryDequeue"}
  /\ inbox' = [inbox EXCEPT ![s] = Tail(@)]
  /\ received' = [received EXCEPT ![s] = Append(@, Head(inbox[s]))]
  /\ UNCHANGED gotNull

LEMMA InboxByReceiver ==
  ASSUME IInv, NEW r \in Receivers,
         \/ ReceiveBegin(r) \/ ReceiverContinues(r) \/ TouchesFreedProxy(r)
         \/ SpuriousWakeup(r)
  PROVE  \/ UNCHANGED << inbox, received, gotNull >>
         \/ /\ rpc[r] \in {"dequeue", "tryDequeue"} /\ SubOf[r] \notin freed
            /\ inbox[SubOf[r]] = << >> /\ UNCHANGED << inbox, received >>
         \/ \E s \in Subs : Takes(r, s)
  <1>1. CASE ReceiveDequeue(r)
    <2>1. PICK s \in Subs : s = SubOf[r]
      BY BrokerAssumption
    <2>2. inbox[s] \in Seq(Messages) /\ inbox \in [Subs -> Seq(Messages)]
      BY DEF IInv, TypeInv, ProxyT
    <2>3. /\ rpc[r] \in {"dequeue", "tryDequeue"} /\ s \notin freed
          /\ inbox' = [inbox EXCEPT ![s] = dequeued_queue(@)]
      BY <1>1, <2>1 DEF ReceiveDequeue
    <2>4. CASE inbox[s] = << >>
      <3>1. generic_queue_syn_dequeue(inbox[s]) = NULL /\ dequeued_queue(inbox[s]) = inbox[s]
        BY <2>4 DEF generic_queue_syn_dequeue, dequeued_queue
      <3>2. UNCHANGED received
        BY <1>1, <2>1, <3>1 DEF ReceiveDequeue
      <3>3. inbox' = inbox
        BY <2>2, <2>3, <3>1
      <3> QED
        BY <2>1, <2>3, <2>4, <3>2, <3>3
    <2>5. CASE inbox[s] # << >>
      <3>1. Head(inbox[s]) \in Messages
        BY <2>2, <2>5, HeadAndTail
      <3>2. /\ generic_queue_syn_dequeue(inbox[s]) = Head(inbox[s])
            /\ dequeued_queue(inbox[s]) = Tail(inbox[s])
        BY <2>5 DEF generic_queue_syn_dequeue, dequeued_queue
      <3>3. /\ received' = [received EXCEPT ![s] = Append(@, Head(inbox[s]))]
            /\ UNCHANGED gotNull
        BY <1>1, <2>1, <3>1, <3>2, ChannelNumbers DEF ReceiveDequeue
      <3>4. inbox' = [inbox EXCEPT ![s] = Tail(@)]
        BY <2>2, <2>3, <3>2
      <3> QED
        BY <2>1, <2>3, <2>5, <3>3, <3>4 DEF Takes
    <2> QED
      BY <2>4, <2>5
  <1>2. CASE ~ReceiveDequeue(r)
    BY <1>2 DEF ReceiveBegin, ReceiverContinues, TouchesFreedProxy, SpuriousWakeup,
       ReceiveLock, ReceiveTest, ReceiveTestActive, ReceiveSleep, ReceiveCheck,
       TryReceiveTest, receipts, proxyVars, seenVars
  <1> QED
    BY <1>1, <1>2

-----------------------------------------------------------------------------
(* The mailbox: until its proxy is freed, what workers put into an inbox   *)
(* is what the receivers were given, followed by what is in the inbox.     *)

Mailbox == \A s \in Subs \ freed : Got(s) = delivered[s]

LEMMA MailboxStep ==
  ASSUME IInv, Mailbox, [Next]_vars
  PROVE  Mailbox'
  <1>0. /\ inbox \in [Subs -> Seq(Messages)] /\ delivered \in [Subs -> Seq(Messages)]
        /\ received \in [Subs -> Seq(Messages)]
    BY DEF IInv, TypeInv, ProxyT, SeenT
  <1>1. CASE PublisherStep \/ message_broker_free \/ UNCHANGED vars
    <2>1. UNCHANGED << inbox, delivered, received >> /\ freed \subseteq freed'
      BY <1>1, PublisherFrame, FreeChanges DEF IInv, message_broker_free, vars, proxyVars, seenVars, receipts
    <2> QED
      BY <2>1 DEF Mailbox, Got
  <1>2. ASSUME NEW w \in Workers, _publisher_task(w) PROVE Mailbox'
    <2>1. UNCHANGED << freed, received >>
      BY <1>2, WorkerFrame DEF receipts
    <2>2. CASE UNCHANGED << inbox, delivered >>
      BY <2>1, <2>2 DEF Mailbox, Got
    <2>3. ASSUME NEW s \in Subs, running[w] \in Messages,
                 inbox' = [inbox EXCEPT ![s] = Append(@, running[w])],
                 delivered' = [delivered EXCEPT ![s] = Append(@, running[w])]
          PROVE  Mailbox'
      <3>1. received[s] \o Append(inbox[s], running[w])
              = Append(received[s] \o inbox[s], running[w])
        BY <1>0, <2>3, ConcatAppend
      <3>2. ASSUME NEW u \in Subs \ freed' PROVE received'[u] \o inbox'[u] = delivered'[u]
        <4>1. received[u] \o inbox[u] = delivered[u]
          BY <2>1, <3>2 DEF Mailbox, Got
        <4>2. CASE u = s
          BY <1>0, <2>1, <2>3, <3>1, <4>1, <4>2
        <4>3. CASE u # s
          BY <1>0, <2>1, <2>3, <4>1, <4>3
        <4> QED
          BY <4>2, <4>3
      <3> QED
        BY <3>2 DEF Mailbox, Got
    <2> QED
      BY <1>2, <2>2, <2>3, InboxByWorker
  <1>3. ASSUME NEW s \in Subs,
               \/ SubscriptionContinues(s) \/ UnsubscribeBegin(s) \/ subscription_free(s)
               \/ \E n \in Names : SubscribeGet(s, n)
        PROVE  Mailbox'
    BY <1>3, InboxBySubscription DEF Mailbox, Got, receipts
  <1>4. ASSUME NEW r \in Receivers,
               \/ ReceiveBegin(r) \/ ReceiverContinues(r) \/ TouchesFreedProxy(r)
               \/ SpuriousWakeup(r)
        PROVE  Mailbox'
    <2>1. UNCHANGED << freed, delivered >>
      BY <1>4, ReceiverChanges
    <2>2. CASE UNCHANGED << inbox, received >>
      BY <2>1, <2>2 DEF Mailbox, Got
    <2>3. ASSUME NEW s \in Subs, Takes(r, s) PROVE Mailbox'
      <3>1. Append(received[s], Head(inbox[s])) \o Tail(inbox[s]) = received[s] \o inbox[s]
        <4>1. /\ received[s] \in Seq(Messages) /\ inbox[s] \in Seq(Messages)
              /\ inbox[s] # << >>
          BY <1>0, <2>3 DEF Takes
        <4> QED
          BY <4>1, MoveHead
      <3>2. ASSUME NEW u \in Subs \ freed' PROVE received'[u] \o inbox'[u] = delivered'[u]
        <4>1. received[u] \o inbox[u] = delivered[u]
          BY <2>1, <3>2 DEF Mailbox, Got
        <4>2. CASE u = s
          BY <1>0, <2>1, <2>3, <3>1, <4>1, <4>2 DEF Takes
        <4>3. CASE u # s
          BY <1>0, <2>1, <2>3, <4>1, <4>3 DEF Takes
        <4> QED
          BY <4>2, <4>3
      <3> QED
        BY <3>2 DEF Mailbox, Got
    <2> QED
      BY <1>4, <2>2, <2>3, InboxByReceiver
  <1> QED
    BY <1>1, <1>2, <1>3, <1>4, NextCases DEF WorkerStep, SubscriptionStep, ReceiverStep

-----------------------------------------------------------------------------
(* One receiver on each subscription. *)

YieldOK(r) ==
  /\ rpc[r] \notin {"idle", "undefined"} => spc[SubOf[r]] \notin Unregistered
  /\ SubOf[r] \notin freed =>
       \/ inbox[SubOf[r]] # << >>
       \/ /\ rpc[r] \notin {"dequeue", "tryDequeue"}
          /\ rpc[r] = "check" => ~active[SubOf[r]]

YieldInv == \A r \in Receivers : YieldOK(r)

\* A proxy becomes active when it is inserted.
LEMMA WhoActivates ==
  ASSUME TypeInv, NEW s \in Subs,
         \/ SubscriptionContinues(s) \/ UnsubscribeBegin(s) \/ subscription_free(s)
         \/ \E n \in Names : SubscribeGet(s, n)
  PROVE  \A u \in Subs : active'[u] => active[u] \/ spc[u] \in Unregistered
  <1>0. DOMAIN active = Subs
    BY DEF TypeInv, ProxyT
  <1>1. CASE SubscribeInsert(s) \/ UnsubscribeBegin(s)
    BY <1>0, <1>1 DEF SubscribeInsert, UnsubscribeBegin, Unregistered
  <1>2. CASE ~SubscribeInsert(s) /\ ~UnsubscribeBegin(s)
    <2>1. UNCHANGED active
      BY <1>2 DEF SubscriptionContinues, subscription_free, SubscribeGet, SubscribeCreate,
         SubscribeCreateFails, SubscribeLinkFails, LinkFails,
         UnsubscribeGetBlocks, SubscribeInsertFails, SubscribeWrap, UnsubscribeBroadcast,
         UnsubscribeLockChannels, UnsubscribeLookupFails, UnsubscribeLockChannel,
         UnsubscribeRemove, UnsubscribeRemovesNothing, UnsubscribeUnlock,
         UnsubscribeClear, proxyVars
    <2> QED
      BY <2>1
  <1> QED
    BY <1>1, <1>2

\* The steps of a receiver on its own subscription.
LEMMA ReceiverYields ==
  ASSUME IInv, NEW r \in Receivers, YieldOK(r),
         \/ ReceiveBegin(r) \/ ReceiverContinues(r) \/ TouchesFreedProxy(r)
         \/ SpuriousWakeup(r)
  PROVE  YieldOK(r)'
  <1>0. DOMAIN rpc = Receivers /\ UNCHANGED << spc, active, freed >>
    BY ReceiverChanges DEF IInv, TypeInv, RecvT, subVars
  <1>1. CASE ReceiveBegin(r)
    <2>1. /\ spc[SubOf[r]] \notin Unregistered /\ UNCHANGED inbox
          /\ rpc'[r] \in {"lock", "tryEmpty"}
      BY <1>0, <1>1 DEF ReceiveBegin, CanCall, Attached, Unsubscribing, Unregistered, RGoto
    <2> QED
      BY <1>0, <2>1 DEF YieldOK
  <1>2. CASE ReceiveLock(r) \/ ReceiveSleep(r) \/ TouchesFreedProxy(r)
    <2>1. /\ UNCHANGED inbox /\ rpc'[r] \in {"test", "blocked", "undefined"}
          /\ rpc'[r] # "undefined" => rpc[r] \notin {"idle", "undefined"}
      BY <1>0, <1>2 DEF ReceiveLock, ReceiveSleep, TouchesFreedProxy, RGoto
    <2> QED
      BY <1>0, <2>1 DEF YieldOK
  <1>3. CASE ReceiveTest(r) \/ TryReceiveTest(r)
    <2>1. /\ UNCHANGED inbox /\ rpc[r] \in {"test", "tryEmpty"}
          /\ rpc'[r] \in {"active", "idle"} \/ inbox[SubOf[r]] # << >>
      BY <1>0, <1>3 DEF ReceiveTest, TryReceiveTest, RGoto, generic_queue_syn_is_empty
    <2> QED
      BY <1>0, <2>1 DEF YieldOK
  <1>4. CASE ReceiveTestActive(r)
    <2>1. /\ UNCHANGED inbox /\ rpc[r] = "active"
          /\ rpc'[r] = "sleep" \/ (rpc'[r] = "check" /\ ~active[SubOf[r]])
      BY <1>0, <1>4 DEF ReceiveTestActive, RGoto
    <2> QED
      BY <1>0, <2>1 DEF YieldOK
  <1>5. CASE ReceiveCheck(r)
    <2>1. /\ UNCHANGED inbox /\ rpc[r] = "check"
          /\ rpc'[r] = "idle" \/ (rpc'[r] = "dequeue" /\ active[SubOf[r]])
      BY <1>0, <1>5 DEF ReceiveCheck, RGoto
    <2> QED
      BY <1>0, <2>1 DEF YieldOK
  <1>6. CASE ReceiveDequeue(r)
    <2>1. rpc'[r] = "idle"
      BY <1>0, <1>6 DEF ReceiveDequeue, RGoto
    <2> QED
      BY <2>1 DEF YieldOK
  <1>7. CASE SpuriousWakeup(r)
    BY <1>7 DEF SpuriousWakeup, proxyVars, subVars, YieldOK
  <1> QED
    BY <1>1, <1>2, <1>3, <1>4, <1>5, <1>6, <1>7 DEF ReceiverContinues

LEMMA YieldInvStep ==
  ASSUME \A q, r \in Receivers : SubOf[q] = SubOf[r] => q = r,
         IInv, YieldInv, [Next]_vars
  PROVE  YieldInv'
  <1>0. /\ TypeInv /\ \A r \in Receivers : SubOf[r] \in Subs
        /\ inbox \in [Subs -> Seq(Messages)]
    BY BrokerAssumption DEF IInv, TypeInv, ProxyT
  <1>1. CASE PublisherStep \/ message_broker_free \/ UNCHANGED vars
    <2>1. UNCHANGED << rpc, spc, inbox, active >> /\ freed \subseteq freed'
      BY <1>1, PublisherFrame DEF message_broker_free, vars, proxyVars, subVars
    <2> QED
      BY <2>1 DEF YieldInv, YieldOK
  <1>2. ASSUME NEW w \in Workers, _publisher_task(w) PROVE YieldInv'
    <2>1. UNCHANGED << rpc, spc, freed, active >>
      BY <1>2, WorkerFrame DEF subVars
    <2>2. \A u \in Subs : inbox[u] # << >> => inbox'[u] # << >>
      <3>1. ASSUME NEW s \in Subs, running[w] \in Messages,
                   inbox' = [inbox EXCEPT ![s] = Append(@, running[w])]
            PROVE  \A u \in Subs : inbox[u] # << >> => inbox'[u] # << >>
        <4>1. Append(inbox[s], running[w]) # << >>
          BY <1>0, <3>1
        <4> QED
          BY <1>0, <3>1, <4>1
      <3> QED
        BY <1>2, <3>1, InboxByWorker
    <2> QED
      BY <1>0, <2>1, <2>2 DEF YieldInv, YieldOK
  <1>3. ASSUME NEW s \in Subs,
               \/ SubscriptionContinues(s) \/ UnsubscribeBegin(s) \/ subscription_free(s)
               \/ \E n \in Names : SubscribeGet(s, n)
        PROVE  YieldInv'
    <2>1. UNCHANGED rpc
      BY <1>3, SubscriptionFrame
    <2>2. \A u \in Subs : u \notin freed' => u \notin freed /\ inbox'[u] = inbox[u]
      BY <1>3, InboxBySubscription
    <2>3. \A u \in Subs : /\ spc[u] \notin Unregistered => spc'[u] \notin Unregistered
                          /\ active'[u] => active[u] \/ spc[u] \in Unregistered
      BY <1>0, <1>3, SubscriptionProgress, WhoActivates
    <2>4. ASSUME NEW r \in Receivers PROVE YieldOK(r)'
      <3>1. PICK u \in Subs : u = SubOf[r]
        BY <1>0
      <3>2. YieldOK(r)
        BY DEF YieldInv
      <3> QED
        BY <2>1, <2>2, <2>3, <3>1, <3>2 DEF YieldOK
    <2> QED
      BY <2>4 DEF YieldInv
  <1>4. ASSUME NEW r \in Receivers,
               \/ ReceiveBegin(r) \/ ReceiverContinues(r) \/ TouchesFreedProxy(r)
               \/ SpuriousWakeup(r)
        PROVE  YieldInv'
    <2>1. YieldOK(r)'
      BY <1>4, ReceiverYields DEF YieldInv
    <2>2. /\ UNCHANGED << spc, active, freed >>
          /\ \A q \in Receivers \ {r} : rpc'[q] = rpc[q]
      BY <1>0, <1>4, ReceiverChanges DEF subVars
    <2>3. \A u \in Subs : u # SubOf[r] => inbox'[u] = inbox[u]
      BY <1>0, <1>4, InboxByReceiver DEF Takes
    <2>4. ASSUME NEW q \in Receivers \ {r} PROVE YieldOK(q)'
      <3>1. SubOf[q] \in Subs /\ SubOf[q] # SubOf[r] /\ YieldOK(q)
        BY <1>0 DEF YieldInv
      <3> QED
        BY <2>2, <2>3, <3>1 DEF YieldOK
    <2> QED
      BY <2>1, <2>4 DEF YieldInv
  <1> QED
    BY <1>1, <1>2, <1>3, <1>4, NextCases DEF WorkerStep, SubscriptionStep, ReceiverStep

\* A receive call that returns 0 hands out a message when each subscription
\* has one receiver: what its test of the inbox saw is still there when it
\* dequeues, although the mutex was released in between.  With two receivers
\* the property is false.
THEOREM ReceiversGetMessages ==
  ASSUME \A q, r \in Receivers : SubOf[q] = SubOf[r] => q = r
  PROVE  Spec => []ReceiveYieldsMessage
  <1>1. Init => YieldInv /\ ReceiveYieldsMessage
    BY DEF Init, YieldInv, YieldOK, ReceiveYieldsMessage
  <1>2. IInv /\ YieldInv /\ [Next]_vars => YieldInv'
    BY YieldInvStep
  <1>3. IInv /\ YieldInv /\ ReceiveYieldsMessage /\ [Next]_vars => ReceiveYieldsMessage'
    <2> SUFFICES ASSUME IInv, YieldInv, [Next]_vars PROVE UNCHANGED gotNull
      BY DEF ReceiveYieldsMessage
    <2>1. ASSUME NEW r \in Receivers,
                 \/ ReceiveBegin(r) \/ ReceiverContinues(r) \/ TouchesFreedProxy(r)
                 \/ SpuriousWakeup(r)
          PROVE  UNCHANGED gotNull
      BY <2>1, InboxByReceiver DEF YieldInv, YieldOK, Takes
    <2>2. CASE ~ReceiverStep
      BY <2>2, NextCases, PublisherFrame, WorkerFrame, SubscriptionFrame
      DEF WorkerStep, SubscriptionStep, message_broker_free, vars, seenVars, receipts
    <2> QED
      BY <2>1, <2>2 DEF ReceiverStep
  <1> QED
    BY <1>1, <1>2, <1>3, Locals, PTL DEF Spec

-----------------------------------------------------------------------------
(* Delivery to everybody, while no allocation has failed. *)

\* The newest channels of two names are different objects.
HeadsInv ==
  /\ \A n \in Names : table[n] # << >> => Head(table[n]) <= nextChannel
  /\ \A n, k \in Names :
       table[n] # << >> /\ table[k] # << >> /\ Head(table[n]) = Head(table[k]) => n = k

LEMMA HeadsInvStep ==
  ASSUME IInv, HeadsInv, [Next]_vars
  PROVE  HeadsInv'
  <1>1. CASE UNCHANGED << table, nextChannel >>
    BY <1>1 DEF HeadsInv
  <1>2. CASE message_broker_free
    <2>1. /\ \A n \in Names : table'[n] = table[n] \/ table'[n] = << >>
          /\ UNCHANGED nextChannel
      BY <1>2, FreeChanges DEF message_broker_free, IInv
    <2> QED
      BY <2>1 DEF HeadsInv
  <1>3. ASSUME NEW n \in Names, Create(n), UNCHANGED << proxies, stuck >>
        PROVE  HeadsInv'
    <2>1. /\ nextChannel' = nextChannel + 1 /\ nextChannel' \in Channels
          /\ table[n] \in Seq(Channels) /\ nextChannel \in Nat
          /\ table' = [table EXCEPT ![n] = << nextChannel' >> \o @]
      BY <1>3, CreateTypes, ChannelNumbers DEF IInv, TypeInv, TableT
    <2>2. PICK c \in Channels : c = nextChannel'
      BY <2>1
    <2>3. Head(<< c >> \o table[n]) = c
      <3>1. /\ << c >> \o table[n] \in Seq(Channels) /\ << c >> \o table[n] # << >>
            /\ (<< c >> \o table[n])[1] = c
        BY <2>1, <2>2, PrependProperties
      <3> QED
        BY <3>1, HeadAndTail
    <2>4. /\ Head(table'[n]) = nextChannel + 1
          /\ \A k \in Names \ {n} : table'[k] = table[k]
      BY <2>1, <2>2, <2>3 DEF IInv, TypeInv, TableT
    <2>5. \A k \in Names : table[k] # << >> => Head(table[k]) \in Nat
      BY FoundChannel, ChannelNumbers DEF IInv
    <2> QED
      BY <2>1, <2>4, <2>5 DEF HeadsInv
  <1> QED
    BY <1>1, <1>2, <1>3, WhoChangesTable

DueOK(m) ==
  \A s \in due[m] : m < nextId /\ sname[s] = name[m] /\ spc[s] \notin Unregistered

CompletedOK(m) ==
  m < nextId /\ \A s \in due[m] : active[s] => m \in Range(delivered[s])

\* What the worker has not delivered is to come.
WalkDue(w) ==
  wpc[w] \in Walking =>
    \A s \in due[running[w]] : active[s] =>
      \/ running[w] \in Range(delivered[s])
      \/ s \in Range(todo[w]) /\ ~(wpc[w] = "signal" /\ s = Head(todo[w]))

DueInv ==
  /\ \A m \in Messages : DueOK(m)
  /\ \A m \in completed : CompletedOK(m)
  /\ \A w \in Workers : WalkDue(w)

\* Subscriptions that a message is due for, and that are still active, are in
\* the list that the worker takes.
LEMMA DueAreListed ==
  ASSUME IInv, NameInv, MemberInv, DueInv, NEW w \in Workers, wpc[w] = "lock",
         NEW s \in due[running[w]], active[s]
  PROVE  s \in Range(proxies[wchan[w]])
  <1>1. running[w] \in Messages
    BY DEF IInv, LocalInv, WorkOK, IdInv, Published
  <1>2. s \in Subs /\ sname[s] = name[running[w]]
    BY <1>1 DEF DueInv, DueOK, IInv, TypeInv, PubT
  <1>3. spc[s] \in {"wrap", "subscribed"} /\ s \in Range(proxies[schan[s]])
    BY <1>2 DEF MemberInv, MemberOK
  <1>4. /\ table[sname[s]] = << schan[s] >>
        /\ table[name[running[w]]] = << wchan[w] >>
    BY <1>2, <1>3 DEF NameInv, SubName, WorkerName, HasChannel
  <1>5. << schan[s] >> = << wchan[w] >>
    BY <1>2, <1>4
  <1>6. schan[s] = wchan[w]
    BY <1>5
  <1> QED
    BY <1>3, <1>6

LEMMA PublisherDueStep ==
  ASSUME IInv, NameInv, MemberInv, HeadsInv, DueInv, PublisherStep
  PROVE  DueInv'
  <1>0. /\ UNCHANGED << completed, running, wpc, todo, active, delivered, sname, spc >>
        /\ DOMAIN due = Messages /\ DOMAIN name = Messages /\ nextId \in Nat
        /\ completed \subseteq Messages
    BY PublisherFrame
    DEF workVars, proxyVars, seenVars, subVars, IInv, TypeInv, PubT, PoolT
  <1>1. CASE UNCHANGED << nextId, name, due >>
    BY <1>0, <1>1 DEF DueInv, DueOK, CompletedOK, WalkDue
  <1>2. ASSUME NEW p \in Publishers, NEW n \in Names, PublishBegin(p, n) PROVE DueInv'
    <2>1. /\ nextId' = nextId + 1 /\ name' = [name EXCEPT ![nextId] = n]
          /\ due' = [due EXCEPT ![nextId] = { s \in Subs :
               table[n] # << >> /\ s \in Range(proxies[Head(table[n])]) }]
          /\ nextId \in Messages
      BY <1>0, <1>2, ChannelNumbers DEF PublishBegin, IInv, TypeInv, PubT, Messages
    <2>2. /\ name'[nextId] = n
          /\ \A m \in Messages \ {nextId} : name'[m] = name[m] /\ due'[m] = due[m]
          /\ due'[nextId] = { s \in Subs :
               table[n] # << >> /\ s \in Range(proxies[Head(table[n])]) }
      BY <1>0, <2>1
    <2>3. ASSUME NEW s \in due'[nextId] PROVE sname[s] = n /\ spc[s] \notin Unregistered
      <3>1. /\ s \in Subs /\ table[n] # << >> /\ s \in Range(proxies[Head(table[n])])
            /\ Head(table[n]) \in Channels
        BY <2>2, <2>3, <1>2, FoundChannel DEF IInv
      <3>2. /\ Head(table[n]) = schan[s] /\ spc[s] \in Listed
        BY <3>1 DEF MemberInv, MemberOK
      <3>3. table[sname[s]] = << schan[s] >> /\ sname[s] \in Names
        BY <3>1, <3>2 DEF NameInv, SubName, HasChannel, Listed, Unsubscribing, IInv, LocalInv,
           SubOK
      <3>4. table[sname[s]] # << >> /\ Head(table[sname[s]]) = Head(table[n])
        BY <3>2, <3>3
      <3>5. sname[s] = n
        BY <1>2, <3>1, <3>3, <3>4 DEF HeadsInv
      <3> QED
        BY <3>2, <3>5 DEF Listed, Unregistered
    <2>4. ASSUME NEW m \in Messages PROVE DueOK(m)'
      <3>0. m \in Nat /\ nextId < nextId' /\ (m < nextId => m < nextId')
        BY <1>0, <2>1, ChannelNumbers DEF Messages
      <3>1. CASE m = nextId
        BY <1>0, <2>2, <2>3, <3>0, <3>1 DEF DueOK
      <3>2. CASE m # nextId
        BY <1>0, <2>2, <3>0, <3>2 DEF DueInv, DueOK
      <3> QED
        BY <3>1, <3>2
    <2>5. ASSUME NEW m \in completed PROVE CompletedOK(m)'
      <3>1. CompletedOK(m) /\ m \in Messages
        BY <1>0 DEF DueInv
      <3>2. m < nextId' /\ m # nextId
        BY <1>0, <2>1, <3>1, ChannelNumbers DEF CompletedOK, Messages
      <3> QED
        BY <1>0, <2>2, <3>1, <3>2 DEF CompletedOK
    <2>6. ASSUME NEW w \in Workers PROVE WalkDue(w)'
      <3>1. CASE wpc[w] \in Walking
        <4>1. running[w] \in Messages /\ running[w] < nextId
          BY <3>1 DEF IInv, LocalInv, WorkOK, IdInv, Published, Walking
        <4>2. running[w] # nextId
          BY <1>0, <4>1 DEF Messages
        <4> QED
          BY <1>0, <2>2, <4>1, <4>2 DEF DueInv, WalkDue
      <3>2. CASE wpc[w] \notin Walking
        BY <1>0, <3>2 DEF WalkDue
      <3> QED
        BY <3>1, <3>2
    <2> QED
      BY <1>0, <2>4, <2>5, <2>6 DEF DueInv
  <1> QED
    BY <1>1, <1>2 DEF PublisherStep, PublishSubmit, PublishFails

LEMMA DeliveredGrows ==
  ASSUME IInv, NEW w \in Workers, _publisher_task(w)
  PROVE  \A s \in Subs : Range(delivered[s]) \subseteq Range(delivered'[s])
  <1>0. delivered \in [Subs -> Seq(Messages)]
    BY DEF IInv, TypeInv, SeenT
  <1>1. CASE UNCHANGED delivered
    BY <1>1
  <1>2. ASSUME NEW s \in Subs, running[w] \in Messages,
               delivered' = [delivered EXCEPT ![s] = Append(@, running[w])]
        PROVE  \A u \in Subs : Range(delivered[u]) \subseteq Range(delivered'[u])
    <2>1. Range(Append(delivered[s], running[w])) = Range(delivered[s]) \cup {running[w]}
      BY <1>0, <1>2, RangeOfAppend
    <2> QED
      BY <1>0, <1>2, <2>1
  <1> QED
    BY <1>1, <1>2, InboxByWorker

LEMMA WorkerDueStep ==
  ASSUME IInv, NameInv, MemberInv, DueInv, faults = 0, faults' = 0, NEW w \in Workers,
         _publisher_task(w)
  PROVE  DueInv'
  <1>0. /\ WorkOK(w) /\ WalkDue(w) /\ ~Fault(1) /\ todo[w] \in Seq(Subs)
        /\ DOMAIN wpc = Workers /\ DOMAIN todo = Workers
        /\ wpc[w] # "idle" => running[w] \in Messages /\ running[w] < nextId
        /\ \A m \in Messages : due[m] \subseteq Subs
        /\ completed \subseteq Messages
    BY DEF IInv, LocalInv, TypeInv, WorkT, DueInv, Fault, WorkOK, IdInv, Published, PubT, PoolT
  <1>1. /\ UNCHANGED << due, name, nextId, active, sname, spc >>
        /\ \A v \in Workers \ {w} :
             wpc'[v] = wpc[v] /\ todo'[v] = todo[v] /\ running'[v] = running[v]
    BY WorkerFrame DEF IInv, pubVars, subVars
  <1>2. \A m \in Messages : DueOK(m)'
    BY <1>1 DEF DueInv, DueOK
  <1>3. ASSUME NEW v \in Workers \ {w} PROVE WalkDue(v)'
    <2>1. CASE wpc[v] \in Walking
      <3>1. running[v] \in Messages
        BY <2>1 DEF IInv, LocalInv, WorkOK, IdInv, Published, Walking
      <3>2. \A s \in due[running[v]] : s \in Subs
        BY <1>0, <3>1
      <3>3. WalkDue(v)
        BY DEF DueInv
      <3> QED
        BY <1>1, <3>2, <3>3, DeliveredGrows DEF WalkDue
    <2>2. CASE wpc[v] \notin Walking
      BY <1>1, <2>2 DEF WalkDue
    <2> QED
      BY <2>1, <2>2
  <1>4. ASSUME NEW m \in completed PROVE CompletedOK(m)'
    <2>1. CompletedOK(m) /\ due[m] \subseteq Subs
      BY <1>0 DEF DueInv
    <2> QED
      BY <1>1, <2>1, DeliveredGrows DEF CompletedOK
  <1>a. ASSUME WalkDue(w)', UNCHANGED completed PROVE DueInv'
    BY <1>2, <1>3, <1>4, <1>a DEF DueInv
  <1>5. CASE WorkerStart(w) \/ WorkerGet(w) \/ WorkerCreate(w)
    <2>1. wpc'[w] \in {"get", "lock", "create"} /\ UNCHANGED completed
      BY <1>0, <1>5
      DEF WorkerStart, WorkerGet, WorkerCreate, WGoto, Pool!Start, poolVars
    <2>2. WalkDue(w)'
      BY <2>1 DEF WalkDue, Walking
    <2> QED
      BY <1>a, <2>1, <2>2
  <1>6. CASE WorkerLock(w)
    <2>1. /\ wpc[w] = "lock" /\ wpc'[w] = "each" /\ todo'[w] = proxies[wchan[w]]
          /\ UNCHANGED << completed, running >>
      BY <1>0, <1>6 DEF WorkerLock, WGoto, poolVars
    <2>2. WalkDue(w)'
      BY <1>1, <2>1, DueAreListed DEF WalkDue
    <2> QED
      BY <1>a, <2>1, <2>2
  <1>b. todo[w] # << >> => Range(todo[w]) = {Head(todo[w])} \cup Range(Tail(todo[w]))
    BY <1>0, HeadAndTail
  <1>7. CASE WorkerVisit(w) \/ WorkerEnqueue(w)
    <2>1. /\ wpc[w] \in {"each", "enqueue"} /\ todo[w] # << >>
          /\ UNCHANGED << completed, running, delivered >>
          /\ \/ todo'[w] = todo[w] /\ wpc'[w] \in {"enqueue", "append"}
             \/ /\ todo'[w] = Tail(todo[w]) /\ wpc'[w] = "each"
                /\ ~active[Head(todo[w])]
      BY <1>0, <1>7 DEF WorkerVisit, WorkerEnqueue, NextProxy, WGoto, WorkOK, poolVars, seenVars
    <2>2. WalkDue(w)'
      BY <1>0, <1>1, <1>b, <2>1 DEF WalkDue, Walking
    <2> QED
      BY <1>a, <2>1, <2>2
  <1>8. CASE WorkerAppend(w)
    <2>1. wpc[w] = "append" /\ UNCHANGED completed
      BY <1>8 DEF WorkerAppend, poolVars
    <2>2. CASE UNCHANGED delivered
      <3>1. PICK s \in Subs : s = Head(todo[w]) /\ delivered[s] \in Seq(Messages)
        BY <1>0, <2>1, HeadAndTail DEF WorkOK, IInv, TypeInv, SeenT
      <3>2. delivered' = [delivered EXCEPT ![s] = Append(@, running[w])]
        BY <1>0, <1>8, <3>1 DEF WorkerAppend
      <3>3. delivered'[s] = Append(delivered[s], running[w])
        BY <3>1, <3>2 DEF IInv, TypeInv, SeenT
      <3>4. Len(delivered'[s]) = Len(delivered[s]) + 1 /\ Len(delivered[s]) \in Nat
        BY <1>0, <2>1, <3>1, <3>3
      <3> QED
        BY <2>2, <3>4
    <2>3. ASSUME NEW s \in Subs, wpc'[w] = "signal", UNCHANGED << todo, running >>,
                 todo[w] # << >>, s = Head(todo[w]), running[w] \in Messages,
                 delivered' = [delivered EXCEPT ![s] = Append(@, running[w])]
          PROVE  WalkDue(w)'
      <3>1. running[w] \in Range(delivered'[s])
        <4>1. delivered[s] \in Seq(Messages) /\ delivered'[s] = Append(delivered[s], running[w])
          BY <2>3 DEF IInv, TypeInv, SeenT
        <4> QED
          BY <2>3, <4>1, RangeOfAppend
      <3>2. due[running[w]] \subseteq Subs
        BY <1>0, <2>3
      <3> QED
        BY <1>0, <1>1, <2>1, <2>3, <3>1, <3>2, DeliveredGrows DEF WalkDue, Walking
    <2> QED
      BY <1>a, <2>1, <2>2, <2>3, InboxByWorker
  <1>9. CASE WorkerSignal(w)
    <2>1. /\ wpc[w] = "signal" /\ wpc'[w] = "each" /\ todo[w] # << >>
          /\ todo'[w] = Tail(todo[w]) /\ UNCHANGED << completed, running, delivered >>
      BY <1>0, <1>9 DEF WorkerSignal, NextProxy, WGoto, WorkOK, poolVars, seenVars
    <2>2. WalkDue(w)'
      BY <1>0, <1>1, <1>b, <2>1 DEF WalkDue, Walking
    <2> QED
      BY <1>a, <2>1, <2>2
  <1>10. CASE WorkerUnlock(w)
    <2>1. /\ wpc[w] = "each" /\ wpc'[w] = "idle" /\ todo[w] = << >>
          /\ completed' = completed \cup {running[w]} /\ UNCHANGED delivered
      BY <1>0, <1>10 DEF WorkerUnlock, WGoto, Pool!Complete, seenVars
    <2>2. WalkDue(w)'
      BY <2>1 DEF WalkDue, Walking
    <2>3. CompletedOK(running[w]) /\ UNCHANGED << due, nextId, active, delivered >>
      <3>1. Range(todo[w]) = {}
        BY <2>1 DEF Range
      <3> QED
        BY <1>0, <1>1, <2>1, <3>1 DEF WalkDue, CompletedOK, Walking
    <2>4. \A m \in completed' : CompletedOK(m)'
      BY <2>1, <2>3 DEF DueInv, CompletedOK
    <2> QED
      BY <1>2, <1>3, <2>2, <2>4 DEF DueInv
  <1>11. ~WorkerCreateFails(w) /\ ~WorkerLinkFails(w)
    BY <1>0 DEF WorkerCreateFails, WorkerLinkFails, LinkFails, CreateFails
  <1> QED
    BY <1>5, <1>6, <1>7, <1>8, <1>9, <1>10, <1>11 DEF _publisher_task

LEMMA SubscriptionDueStep ==
  ASSUME IInv, DueInv, NEW s \in Subs,
         \/ SubscriptionContinues(s) \/ UnsubscribeBegin(s) \/ subscription_free(s)
         \/ \E n \in Names : SubscribeGet(s, n)
  PROVE  DueInv'
  <1>0. /\ TypeInv /\ \A m \in Messages : due[m] \subseteq Subs
        /\ completed \subseteq Messages
    BY DEF IInv, TypeInv, PubT, PoolT
  <1>1. UNCHANGED << due, name, nextId, completed, running, wpc, todo, delivered >>
    BY SubscriptionFrame DEF pubVars, poolVars, workVars
  <1>2. \A u \in Subs : /\ spc[u] \notin Unregistered => spc'[u] \notin Unregistered
                        /\ active'[u] => active[u] \/ spc[u] \in Unregistered
    BY <1>0, SubscriptionProgress, WhoActivates
  <1>3. \A u \in Subs : spc[u] \notin Unregistered => sname'[u] = sname[u]
    <2>1. ASSUME NEW n \in Names, SubscribeGet(s, n) PROVE spc[s] \in Unregistered
      BY <2>1 DEF SubscribeGet, Unregistered
    <2>2. CASE ~ \E n \in Names : SubscribeGet(s, n)
      BY <2>2 DEF SubscriptionContinues, UnsubscribeBegin, subscription_free,
         SubscribeCreate, SubscribeCreateFails, SubscribeLinkFails, LinkFails,
         UnsubscribeGetBlocks, SubscribeInsert, SubscribeInsertFails,
         SubscribeWrap, UnsubscribeBroadcast, UnsubscribeLockChannels,
         UnsubscribeLookupFails, UnsubscribeLockChannel, UnsubscribeRemove,
         UnsubscribeRemovesNothing, UnsubscribeUnlock, UnsubscribeClear, subVars
    <2> QED
      BY <1>0, <2>1, <2>2, SubscriptionFrame
  <1>4. ASSUME NEW m \in Messages, NEW u \in due[m]
        PROVE  u \in Subs /\ spc[u] \notin Unregistered /\ sname'[u] = sname[u] /\ (active'[u] => active[u])
    BY <1>0, <1>2, <1>3, <1>4 DEF DueInv, DueOK
  <1>5. \A m \in Messages : DueOK(m)'
    BY <1>1, <1>2, <1>4 DEF DueInv, DueOK
  <1>6. \A m \in completed' : CompletedOK(m)'
    BY <1>0, <1>1, <1>4 DEF DueInv, CompletedOK
  <1>7. ASSUME NEW w \in Workers PROVE WalkDue(w)'
    <2>1. wpc[w] \in Walking => running[w] \in Messages
      BY DEF IInv, LocalInv, WorkOK, IdInv, Published, Walking
    <2> QED
      BY <1>1, <1>4, <2>1 DEF DueInv, WalkDue
  <1> QED
    BY <1>5, <1>6, <1>7 DEF DueInv

DuesInv == HeadsInv /\ (faults = 0 => DueInv)

\* A message whose delivery is over has been put into the inbox of every
\* subscription that was registered when it was published and is not cancelled,
\* unless memory ran out: publishing finds the channel that subscribing made,
\* and the worker walks the whole list under the channel's mutex.
THEOREM EverybodyGetsTheMessage == Spec => []DeliveredToAll
  <1>1. Init => DuesInv
    BY DEF Init, Pool!Init, DuesInv, HeadsInv, DueInv, DueOK, WalkDue, Walking
  <1>2. IInv /\ NamesInv /\ MembersInv /\ DuesInv /\ [Next]_vars => DuesInv'
    <2> SUFFICES ASSUME IInv, NamesInv, MembersInv, DuesInv, [Next]_vars
                 PROVE  HeadsInv' /\ (faults' = 0 => DueInv')
      BY DEF DuesInv
    <2>1. HeadsInv'
      BY HeadsInvStep DEF DuesInv
    <2>2. ASSUME faults' = 0 PROVE DueInv'
      <3>1. faults = 0 /\ NameInv /\ MemberInv /\ DueInv /\ HeadsInv
        BY <2>2, NoFaultYet DEF NamesInv, MembersInv, DuesInv
      <3>2. CASE ReceiverStep \/ message_broker_free \/ UNCHANGED vars
        <4>1. UNCHANGED << due, name, nextId, completed, running, wpc, todo, delivered,
                           active, sname, spc >>
          BY <3>2, ReceiverChanges DEF ReceiverStep, message_broker_free, Pool!Destroy, vars,
             pubVars, poolVars, workVars, seenVars, proxyVars, subVars
        <4> QED
          BY <3>1, <4>1 DEF DueInv, DueOK, CompletedOK, WalkDue
      <3> QED
        BY <2>2, <3>1, <3>2, NextCases, PublisherDueStep, WorkerDueStep, SubscriptionDueStep
        DEF WorkerStep, SubscriptionStep
    <2> QED
      BY <2>1, <2>2
  <1>3. DuesInv => DeliveredToAll
    BY DEF DuesInv, DueInv, CompletedOK, DeliveredToAll
  <1> QED
    BY <1>1, <1>2, <1>3, Members, PTL DEF Spec

-----------------------------------------------------------------------------
(* The condition variable of an inbox. *)

InMutex == {"test", "active", "sleep", "check"}

CallOK(r) ==
  /\ rpc[r] \notin {"idle", "undefined"} => spc[SubOf[r]] \notin Unregistered
  /\ SubOf[r] \notin freed => (rpc[r] \in InMutex <=> inboxMutex[SubOf[r]] = r)

WaitOK(s) ==
  s \notin freed => \A r \in inboxWait[s] : SubOf[r] = s /\ rpc[r] = "blocked"

CallInv == (\A r \in Receivers : CallOK(r)) /\ (\A s \in Subs : WaitOK(s))

\* Workers and subscriptions only wake receivers up.
LEMMA WorkersWake ==
  ASSUME IInv, NEW w \in Workers, _publisher_task(w)
  PROVE  \A u \in Subs : inboxWait'[u] \subseteq inboxWait[u]
  <1>0. DOMAIN inboxWait = Subs
    BY DEF IInv, TypeInv, InboxLockT
  <1>1. CASE WorkerSignal(w)
    <2>1. PICK s : s = Head(todo[w])
      OBVIOUS
    <2>2. \/ UNCHANGED inboxWait
          \/ \E r \in inboxWait[s] : inboxWait' = [inboxWait EXCEPT ![s] = @ \ {r}]
      BY <1>1, <2>1 DEF WorkerSignal, SignalInbox
    <2> QED
      BY <1>0, <2>2
  <1>2. CASE ~WorkerSignal(w)
    <2>1. UNCHANGED inboxWait
      BY <1>2 DEF _publisher_task, WorkerStart, WorkerGet, WorkerCreate,
         WorkerCreateFails, WorkerLinkFails, LinkFails, WorkerLock, WorkerVisit,
         WorkerEnqueue, WorkerAppend,
         WorkerUnlock, lockVars
    <2> QED
      BY <2>1
  <1> QED
    BY <1>1, <1>2

LEMMA SubscriptionsWake ==
  ASSUME IInv, NEW s \in Subs,
         \/ SubscriptionContinues(s) \/ UnsubscribeBegin(s) \/ subscription_free(s)
         \/ \E n \in Names : SubscribeGet(s, n)
  PROVE  /\ \A u \in Subs : inboxWait'[u] \subseteq inboxWait[u]
         /\ \/ UnsubscribeBroadcast(s) \/ UnsubscribeRemove(s) \/ UNCHANGED inboxWait
  <1>0. DOMAIN inboxWait = Subs
    BY DEF IInv, TypeInv, InboxLockT
  <1>1. CASE UnsubscribeBroadcast(s) \/ UnsubscribeRemove(s)
    <2>1. inboxWait' = [inboxWait EXCEPT ![s] = {}]
      BY <1>1 DEF UnsubscribeBroadcast, UnsubscribeRemove, BroadcastInbox
    <2> QED
      BY <1>0, <1>1, <2>1
  <1>2. CASE ~UnsubscribeBroadcast(s) /\ ~UnsubscribeRemove(s)
    <2>1. UNCHANGED inboxWait
      BY <1>2 DEF SubscriptionContinues, UnsubscribeBegin, subscription_free, SubscribeGet,
         SubscribeCreate, SubscribeCreateFails, SubscribeLinkFails, LinkFails,
         UnsubscribeGetBlocks, SubscribeInsert, SubscribeInsertFails,
         SubscribeWrap, UnsubscribeLockChannels, UnsubscribeLookupFails,
         UnsubscribeLockChannel, UnsubscribeRemovesNothing, UnsubscribeUnlock,
         UnsubscribeClear, lockVars
    <2> QED
      BY <2>1
  <1> QED
    BY <1>1, <1>2

LEMMA CallFrame ==
  ASSUME IInv, CallInv, UNCHANGED << rpc, inboxMutex >>, freed \subseteq freed',
         \A u \in Subs : /\ inboxWait'[u] \subseteq inboxWait[u]
                         /\ spc[u] \notin Unregistered => spc'[u] \notin Unregistered
  PROVE  CallInv'
  <1>1. \A r \in Receivers : SubOf[r] \in Subs
    BY BrokerAssumption
  <1>2. \A r \in Receivers : CallOK(r)'
    BY <1>1 DEF CallInv, CallOK
  <1>3. \A s \in Subs : WaitOK(s)'
    BY DEF CallInv, WaitOK
  <1> QED
    BY <1>2, <1>3 DEF CallInv

\* A step of receiver r on its subscription s.
LEMMA ReceiverCallStep ==
  ASSUME IInv, CallInv, NEW r \in Receivers,
         \/ ReceiveBegin(r) \/ ReceiverContinues(r) \/ TouchesFreedProxy(r)
         \/ SpuriousWakeup(r)
  PROVE  CallInv'
  <1>0. PICK s \in Subs : s = SubOf[r]
    BY BrokerAssumption
  <1>1. /\ DOMAIN rpc = Receivers /\ DOMAIN inboxMutex = Subs /\ DOMAIN inboxWait = Subs
        /\ UNCHANGED << spc, freed >> /\ r # NoThread
        /\ \A q \in Receivers \ {r} : rpc'[q] = rpc[q]
        /\ CallOK(r) /\ WaitOK(s)
    BY ReceiverChanges, BrokerAssumption
    DEF IInv, TypeInv, RecvT, InboxLockT, subVars, Threads, CallInv
  <1> DEFINE Mutex == /\ \A u \in Subs \ {s} : inboxMutex'[u] = inboxMutex[u]
                      /\ \/ inboxMutex'[s] = inboxMutex[s]
                         \/ inboxMutex[s] = NoThread /\ inboxMutex'[s] = r
                         \/ s \notin freed => inboxMutex[s] = r /\ inboxMutex'[s] = NoThread
             Wait == /\ \A u \in Subs \ {s} : inboxWait'[u] = inboxWait[u]
                     /\ inboxWait'[s] \subseteq inboxWait[s] \cup {r}
                     /\ r \in inboxWait'[s] /\ s \notin freed => rpc'[r] = "blocked"
  <1>2. ASSUME CallOK(r)', Mutex, Wait PROVE CallInv'
    <2>1. ASSUME NEW q \in Receivers \ {r} PROVE CallOK(q)'
      <3>1. CallOK(q) /\ q # NoThread /\ SubOf[q] \in Subs
        BY BrokerAssumption DEF CallInv, Threads
      <3> QED
        BY <1>1, <1>2, <3>1 DEF CallOK
    <2>2. ASSUME NEW u \in Subs \ {s} PROVE WaitOK(u)'
      <3>1. WaitOK(u) /\ inboxWait[u] \subseteq Receivers
        BY DEF CallInv, IInv, TypeInv, InboxLockT
      <3>2. u \notin freed => r \notin inboxWait[u]
        BY <1>0, <3>1 DEF WaitOK
      <3> QED
        BY <1>1, <1>2, <3>1, <3>2 DEF WaitOK
    <2>3. WaitOK(s)'
      <3>1. inboxWait[s] \subseteq Receivers
        BY DEF IInv, TypeInv, InboxLockT
      <3> QED
        BY <1>0, <1>1, <1>2, <3>1 DEF WaitOK
    <2> QED
      BY <1>2, <2>1, <2>2, <2>3 DEF CallInv
  <1>3. CASE ReceiveBegin(r)
    <2>1. /\ spc[SubOf[r]] \notin Unregistered /\ UNCHANGED << inboxMutex, inboxWait >>
          /\ rpc[r] = "idle" /\ rpc'[r] \in {"lock", "tryEmpty"}
      BY <1>1, <1>3 DEF ReceiveBegin, CanCall, Attached, Unsubscribing, Unregistered, RGoto
    <2>2. CallOK(r)' /\ Mutex /\ Wait
      BY <1>0, <1>1, <2>1 DEF CallOK, InMutex, WaitOK
    <2> QED
      BY <1>2, <2>2
  <1>4. CASE ReceiveLock(r)
    <2>1. /\ UNCHANGED inboxWait /\ rpc[r] \in {"lock", "blocked"} /\ rpc'[r] = "test"
          /\ rpc[r] = "blocked" => r \notin inboxWait[s]
          /\ inboxMutex[s] = NoThread /\ inboxMutex' = [inboxMutex EXCEPT ![s] = r]
      BY <1>0, <1>1, <1>4 DEF ReceiveLock, RGoto
    <2>2. CallOK(r)' /\ Mutex /\ Wait
      BY <1>0, <1>1, <2>1 DEF CallOK, InMutex, WaitOK
    <2> QED
      BY <1>2, <2>2
  <1>5. CASE ReceiveTest(r) \/ ReceiveTestActive(r)
    <2>1. /\ UNCHANGED << inboxMutex, inboxWait >> /\ rpc[r] \in {"test", "active"}
          /\ rpc'[r] \in {"active", "check", "sleep"}
      BY <1>1, <1>5 DEF ReceiveTest, ReceiveTestActive, RGoto
    <2>2. CallOK(r)' /\ Mutex /\ Wait
      BY <1>0, <1>1, <2>1 DEF CallOK, InMutex, WaitOK
    <2> QED
      BY <1>2, <2>2
  <1>6. CASE ReceiveSleep(r)
    <2>1. /\ rpc[r] = "sleep" /\ rpc'[r] = "blocked"
          /\ inboxMutex' = [inboxMutex EXCEPT ![s] = NoThread]
          /\ inboxWait' = [inboxWait EXCEPT ![s] = @ \cup {r}]
      BY <1>0, <1>1, <1>6 DEF ReceiveSleep, RGoto
    <2>2. CallOK(r)' /\ Mutex /\ Wait
      BY <1>0, <1>1, <2>1 DEF CallOK, InMutex, WaitOK
    <2> QED
      BY <1>2, <2>2
  <1>7. CASE ReceiveCheck(r)
    <2>1. /\ rpc[r] = "check" /\ rpc'[r] \in {"dequeue", "idle"} /\ UNCHANGED inboxWait
          /\ inboxMutex' = [inboxMutex EXCEPT ![s] = NoThread]
      BY <1>0, <1>1, <1>7 DEF ReceiveCheck, RGoto
    <2>2. CallOK(r)' /\ Mutex /\ Wait
      BY <1>0, <1>1, <2>1 DEF CallOK, InMutex, WaitOK
    <2> QED
      BY <1>2, <2>2
  <1>8. CASE TryReceiveTest(r) \/ ReceiveDequeue(r)
    <2>1. /\ UNCHANGED << inboxMutex, inboxWait >>
          /\ rpc[r] \in {"tryEmpty", "dequeue", "tryDequeue"}
          /\ rpc'[r] \in {"idle", "tryDequeue"}
      BY <1>1, <1>8 DEF TryReceiveTest, ReceiveDequeue, RGoto
    <2>2. CallOK(r)' /\ Mutex /\ Wait
      BY <1>0, <1>1, <2>1 DEF CallOK, InMutex, WaitOK
    <2> QED
      BY <1>2, <2>2
  <1>9. CASE TouchesFreedProxy(r)
    <2>1. /\ UNCHANGED << inboxMutex, inboxWait >> /\ s \in freed /\ rpc'[r] = "undefined"
      BY <1>0, <1>1, <1>9 DEF TouchesFreedProxy, RGoto
    <2>2. CallOK(r)' /\ Mutex /\ Wait
      BY <1>0, <1>1, <2>1 DEF CallOK
    <2> QED
      BY <1>2, <2>2
  <1>10. CASE SpuriousWakeup(r)
    <2>1. /\ UNCHANGED << inboxMutex, rpc >>
          /\ inboxWait' = [inboxWait EXCEPT ![s] = @ \ {r}]
      BY <1>0, <1>10 DEF SpuriousWakeup
    <2>2. CallOK(r)' /\ Mutex /\ Wait
      BY <1>0, <1>1, <2>1 DEF CallOK
    <2> QED
      BY <1>2, <2>2
  <1> QED
    BY <1>3, <1>4, <1>5, <1>6, <1>7, <1>8, <1>9, <1>10 DEF ReceiverContinues

LEMMA CallInvStep ==
  ASSUME IInv, CallInv, [Next]_vars
  PROVE  CallInv'
  <1>1. CASE PublisherStep \/ message_broker_free \/ UNCHANGED vars
    <2>1. UNCHANGED << rpc, inboxMutex, inboxWait, spc >> /\ freed \subseteq freed'
      BY <1>1, PublisherFrame DEF message_broker_free, vars, lockVars, subVars, proxyVars
    <2> QED
      BY <2>1, CallFrame
  <1>2. ASSUME NEW w \in Workers, _publisher_task(w) PROVE CallInv'
    BY <1>2, WorkersWake, WorkerFrame, CallFrame DEF subVars
  <1>3. ASSUME NEW s \in Subs,
               \/ SubscriptionContinues(s) \/ UnsubscribeBegin(s) \/ subscription_free(s)
               \/ \E n \in Names : SubscribeGet(s, n)
        PROVE  CallInv'
    <2>1. UNCHANGED << rpc, inboxMutex >> /\ freed \subseteq freed'
      BY <1>3, SubscriptionFrame, InboxBySubscription
    <2>2. \A u \in Subs : /\ inboxWait'[u] \subseteq inboxWait[u]
                          /\ spc[u] \notin Unregistered => spc'[u] \notin Unregistered
      BY <1>3, SubscriptionsWake, SubscriptionProgress DEF IInv
    <2> QED
      BY <2>1, <2>2, CallFrame
  <1> QED
    BY <1>1, <1>2, <1>3, NextCases, ReceiverCallStep
    DEF WorkerStep, SubscriptionStep, ReceiverStep

\* Receivers of s that sleep, or are about to: they have seen an empty inbox.
Sleeping(s) ==
  { r \in Receivers : SubOf[r] = s /\ (r \in inboxWait[s] \/ rpc[r] \in {"active", "sleep"}) }

ToSignal(s) == \E w \in Workers : wpc[w] = "signal" /\ Head(todo[w]) = s

\* While a receiver of s sleeps there is somebody for every message in the
\* inbox: a receiver that is awake, and for one of them perhaps the worker
\* that has yet to signal.
CountOK(s) ==
  inbox[s] # << >> /\ Sleeping(s) # {} =>
    \/ Len(inbox[s]) <= Cardinality(Awake(s))
    \/ ToSignal(s) /\ Len(inbox[s]) <= Cardinality(Awake(s)) + 1

\* After the broadcast of unsubscribe nobody sleeps again.
AwakeOK(s) ==
  spc[s] # "broadcast" =>
    inboxWait[s] = {} /\ \A r \in Receivers : SubOf[r] = s => rpc[r] # "sleep"

StrandOK(s) ==
  s \notin freed => IF active[s] THEN CountOK(s) ELSE AwakeOK(s)

StrandInv == \A s \in Subs : StrandOK(s)

LEMMA AwakeFinite ==
  ASSUME NEW s \in Subs
  PROVE  /\ IsFiniteSet(Awake(s)) /\ Cardinality(Awake(s)) \in Nat
         /\ IsFiniteSet(Awake(s)') /\ Cardinality(Awake(s)') \in Nat
  <1>1. Awake(s) \subseteq Receivers /\ Awake(s)' \subseteq Receivers
    BY DEF Awake
  <1> QED
    BY <1>1, BrokerAssumption, FS_Subset, FS_CardinalityType

\* Nothing happens to the inbox of u or to its receivers.
Quiet(u) ==
  /\ inbox'[u] = inbox[u] /\ inboxWait'[u] = inboxWait[u]
  /\ \A r \in Receivers : SubOf[r] = u => rpc'[r] = rpc[r]

LEMMA StrandFrame ==
  ASSUME NEW u \in Subs, StrandOK(u), Quiet(u), active'[u] = active[u],
         spc'[u] = spc[u] \/ (spc[u] # "broadcast" /\ spc'[u] # "broadcast"),
         u \notin freed' => u \notin freed,
         ToSignal(u) => ToSignal(u)'
  PROVE  StrandOK(u)'
  <1>1. Awake(u)' = Awake(u) /\ Sleeping(u)' = Sleeping(u)
    BY DEF Awake, Sleeping, Quiet
  <1>2. CountOK(u) => CountOK(u)'
    BY <1>1 DEF CountOK, Quiet
  <1>3. AwakeOK(u) => AwakeOK(u)'
    BY DEF AwakeOK, Quiet
  <1> QED
    BY <1>2, <1>3 DEF StrandOK

LEMMA StrandOthers ==
  ASSUME StrandInv,
         \A u \in Subs : /\ active'[u] = active[u] /\ spc'[u] = spc[u]
                         /\ u \notin freed' => u \notin freed
                         /\ Quiet(u) \/ StrandOK(u)'
                         /\ ToSignal(u) => ToSignal(u)' \/ StrandOK(u)'
  PROVE  StrandInv'
  <1>1. ASSUME NEW u \in Subs PROVE StrandOK(u)'
    <2>1. StrandOK(u)
      BY DEF StrandInv
    <2>2. CASE Quiet(u) /\ (ToSignal(u) => ToSignal(u)')
      BY <2>1, <2>2, StrandFrame
    <2> QED
      BY <2>2
  <1> QED
    BY <1>1 DEF StrandInv

\* Only one worker at a time is at a proxy.
LEMMA OneWorkerAtProxy ==
  ASSUME IInv, LockInv, ProxyInv, NEW v \in Workers, NEW w \in Workers,
         wpc[v] \in Walking, wpc[w] \in Walking,
         todo[v] # << >>, todo[w] # << >>, Head(todo[v]) = Head(todo[w])
  PROVE  v = w
  <1>1. PICK s : s = Head(todo[v])
    OBVIOUS
  <1>2. s \in Range(todo[v]) /\ s \in Range(todo[w])
    BY <1>1, HeadAndTail DEF IInv, TypeInv, WorkT
  <1>3. s \in Range(proxies[wchan[v]]) /\ s \in Range(proxies[wchan[w]])
    BY <1>2 DEF ProxyInv, WalkOK
  <1>4. wchan[v] \in Channels /\ wchan[w] \in Channels
    BY DEF IInv, LocalInv, WorkOK
  <1>5. wchan[v] = wchan[w]
    BY <1>3, <1>4 DEF ProxyInv, OneList
  <1> QED
    BY <1>5 DEF LockInv, WorkerLocks

LEMMA WorkerStrandStep ==
  ASSUME IInv, LockInv, ProxyInv, CallInv, StrandInv, NEW w \in Workers, _publisher_task(w)
  PROVE  StrandInv'
  <1>0. /\ UNCHANGED << active, spc, freed, rpc, inboxMutex >> /\ WorkOK(w)
        /\ DOMAIN wpc = Workers /\ DOMAIN todo = Workers /\ todo[w] \in Seq(Subs)
        /\ inbox \in [Subs -> Seq(Messages)] /\ inboxWait \in [Subs -> SUBSET Receivers]
        /\ \A v \in Workers \ {w} : wpc'[v] = wpc[v] /\ todo'[v] = todo[v]
    BY WorkerFrame
    DEF IInv, LocalInv, TypeInv, WorkT, ProxyT, InboxLockT, subVars
  <1>1. CASE WorkerAppend(w) /\ ~UNCHANGED << inbox, delivered >>
    <2>1. PICK s \in Subs :
              /\ wpc[w] = "append" /\ wpc'[w] = "signal" /\ UNCHANGED todo
              /\ todo[w] # << >> /\ s = Head(todo[w]) /\ running[w] \in Messages
              /\ inbox' = [inbox EXCEPT ![s] = Append(@, running[w])]
              /\ UNCHANGED inboxWait
      BY <1>1, InboxByWorker
    <2>2. ~ToSignal(s) /\ ToSignal(s)'
      <3>1. ASSUME NEW v \in Workers, wpc[v] = "signal", Head(todo[v]) = s PROVE FALSE
        <4>1. todo[v] # << >> /\ v # w
          BY <2>1, <3>1 DEF IInv, LocalInv, WorkOK
        <4> QED
          BY <2>1, <3>1, <4>1, OneWorkerAtProxy DEF Walking
      <3> QED
        BY <2>1, <3>1 DEF ToSignal
    <2>3. Awake(s)' = Awake(s) /\ Sleeping(s)' = Sleeping(s)
      BY <1>0, <2>1 DEF Awake, Sleeping
    <2>4. /\ inbox[s] \in Seq(Messages) /\ inbox'[s] = Append(inbox[s], running[w])
          /\ Len(inbox'[s]) = Len(inbox[s]) + 1 /\ Len(inbox[s]) \in Nat
      BY <1>0, <2>1
    <2>5. inbox[s] = << >> => Len(inbox[s]) = 0
      BY <2>4
    <2>6. StrandOK(s)'
      <3>1. CASE s \notin freed /\ active[s]
        <4>1. CountOK(s)
          BY <3>1 DEF StrandInv, StrandOK
        <4>2. Cardinality(Awake(s)) \in Nat
          BY AwakeFinite
        <4>3. CASE Sleeping(s) # {}
          <5>1. Len(inbox[s]) <= Cardinality(Awake(s))
            BY <2>2, <2>4, <2>5, <4>1, <4>2, <4>3 DEF CountOK
          <5>2. Len(inbox'[s]) <= Cardinality(Awake(s)) + 1
            BY <2>4, <4>2, <5>1
          <5> QED
            BY <1>0, <2>2, <2>3, <3>1, <5>2 DEF StrandOK, CountOK
        <4>4. CASE Sleeping(s) = {}
          BY <1>0, <2>3, <3>1, <4>4 DEF StrandOK, CountOK
        <4> QED
          BY <4>3, <4>4
      <3>2. CASE s \notin freed /\ ~active[s]
        BY <1>0, <2>1, <3>2 DEF StrandInv, StrandOK, AwakeOK
      <3> QED
        BY <1>0, <3>1, <3>2 DEF StrandOK
    <2>7. \A u \in Subs \ {s} : Quiet(u)
      BY <1>0, <2>1 DEF Quiet
    <2>8. \A u \in Subs : ToSignal(u) => ToSignal(u)'
      BY <1>0, <2>1 DEF ToSignal
    <2> QED
      BY <1>0, <2>6, <2>7, <2>8, StrandOthers
  <1>2. CASE WorkerSignal(w)
    <2>1. PICK s \in Subs : s = Head(todo[w])
      BY <1>0, <1>2, HeadAndTail DEF WorkerSignal, WorkOK
    <2>2. /\ wpc[w] = "signal" /\ inboxMutex[s] = NoThread /\ UNCHANGED inbox
          /\ wpc'[w] = "each"
          /\ \/ inboxWait[s] = {} /\ UNCHANGED inboxWait
             \/ \E r \in inboxWait[s] : inboxWait' = [inboxWait EXCEPT ![s] = @ \ {r}]
      BY <1>0, <1>2, <2>1 DEF WorkerSignal, SignalInbox, NextProxy, WGoto, proxyVars
    <2>3. \A r \in Receivers : SubOf[r] = s /\ s \notin freed => rpc[r] \notin InMutex
      <3>1. NoThread \notin Receivers
        BY BrokerAssumption DEF Threads
      <3> QED
        BY <2>2, <3>1 DEF CallInv, CallOK
    <2>4. StrandOK(s)'
      <3>1. CASE s \notin freed /\ active[s] /\ inboxWait[s] = {}
        <4>1. Sleeping(s)' = {}
          BY <1>0, <2>2, <2>3, <3>1 DEF Sleeping, InMutex
        <4> QED
          BY <1>0, <3>1, <4>1 DEF StrandOK, CountOK
      <3>2. ASSUME s \notin freed, active[s], NEW r \in inboxWait[s],
                   inboxWait' = [inboxWait EXCEPT ![s] = @ \ {r}]
            PROVE  StrandOK(s)'
        <4>1. r \in Receivers /\ SubOf[r] = s /\ rpc[r] = "blocked" /\ r \in Sleeping(s)
          BY <1>0, <2>1, <3>2 DEF CallInv, WaitOK, Sleeping
        <4>2. r \notin Awake(s) /\ Awake(s)' = Awake(s) \cup {r}
          BY <1>0, <2>1, <3>2, <4>1 DEF Awake
        <4>3. /\ Cardinality(Awake(s)') = Cardinality(Awake(s)) + 1
              /\ Cardinality(Awake(s)) \in Nat
          BY <4>2, AwakeFinite, FS_AddElement
        <4>4. CountOK(s) /\ inbox[s] \in Seq(Messages) /\ Len(inbox[s]) \in Nat
          BY <1>0, <2>1, <3>2 DEF StrandInv, StrandOK
        <4>5. inbox[s] # << >> => Len(inbox[s]) <= Cardinality(Awake(s)')
          BY <4>1, <4>3, <4>4 DEF CountOK
        <4> QED
          BY <1>0, <2>2, <3>2, <4>5 DEF StrandOK, CountOK
      <3>3. CASE s \notin freed /\ ~active[s]
        <4>1. AwakeOK(s)
          BY <3>3 DEF StrandInv, StrandOK
        <4>2. inboxWait'[s] \subseteq inboxWait[s]
          BY WorkersWake
        <4> QED
          BY <1>0, <3>3, <4>1, <4>2 DEF StrandOK, AwakeOK
      <3> QED
        BY <1>0, <2>2, <3>1, <3>2, <3>3 DEF StrandOK
    <2>5. \A u \in Subs \ {s} : Quiet(u)
      BY <1>0, <2>2 DEF Quiet
    <2>6. \A u \in Subs \ {s} : ToSignal(u) => ToSignal(u)'
      BY <1>0, <2>1 DEF ToSignal
    <2> QED
      BY <1>0, <2>4, <2>5, <2>6, StrandOthers
  <1>3. CASE ~WorkerSignal(w) /\ UNCHANGED << inbox, delivered >>
    <2>1. UNCHANGED inboxWait /\ wpc[w] # "signal"
      BY <1>3 DEF _publisher_task, WorkerStart, WorkerGet, WorkerCreate,
         WorkerCreateFails, WorkerLinkFails, LinkFails, WorkerLock, WorkerVisit,
         WorkerEnqueue, WorkerAppend,
         WorkerUnlock, lockVars
    <2>2. \A u \in Subs : Quiet(u) /\ (ToSignal(u) => ToSignal(u)')
      BY <1>0, <1>3, <2>1 DEF Quiet, ToSignal
    <2> QED
      BY <1>0, <2>2, StrandOthers
  <1>4. ~WorkerAppend(w) => UNCHANGED << inbox, delivered >>
    BY DEF _publisher_task, WorkerStart, WorkerGet, WorkerCreate,
       WorkerCreateFails, WorkerLinkFails, LinkFails,
       WorkerLock, WorkerVisit, WorkerEnqueue, WorkerSignal, WorkerUnlock, proxyVars, seenVars
  <1> QED
    BY <1>1, <1>2, <1>3, <1>4

LEMMA SubscriptionStrandStep ==
  ASSUME IInv, ProxyInv, CallInv, StrandInv, NEW s \in Subs,
         \/ SubscriptionContinues(s) \/ UnsubscribeBegin(s) \/ subscription_free(s)
         \/ \E n \in Names : SubscribeGet(s, n)
  PROVE  StrandInv'
  <1>0. /\ UNCHANGED << rpc, wpc, todo, inboxMutex >> /\ StrandOK(s) /\ WaitOK(s)
        /\ DOMAIN spc = Subs /\ DOMAIN active = Subs /\ DOMAIN inboxWait = Subs
        /\ \A u \in Subs : u \notin freed' => u \notin freed /\ inbox'[u] = inbox[u]
    BY SubscriptionFrame, InboxBySubscription
    DEF IInv, TypeInv, SubT, ProxyT, InboxLockT, workVars, StrandInv, CallInv
  <1>1. ASSUME NEW u \in Subs \ {s} PROVE StrandOK(u)'
    <2>1. /\ Quiet(u) /\ active'[u] = active[u] /\ spc'[u] = spc[u] /\ StrandOK(u)
      BY <1>0, SubscriptionFrame DEF Quiet, IInv, StrandInv
    <2>2. ToSignal(u) => ToSignal(u)'
      BY <1>0 DEF ToSignal
    <2> QED
      BY <1>0, <2>1, <2>2, StrandFrame
  <1>2. StrandOK(s)'
    <2>1. CASE UnsubscribeBegin(s)
      <3>1. ~active'[s] /\ spc'[s] = "broadcast"
        BY <1>0, <2>1 DEF UnsubscribeBegin, SGoto
      <3> QED
        BY <3>1 DEF StrandOK, AwakeOK
    <2>2. CASE UnsubscribeBroadcast(s)
      <3>1. inboxWait'[s] = {} /\ inboxMutex[s] = NoThread
        BY <1>0, <2>2 DEF UnsubscribeBroadcast, BroadcastInbox
      <3>2. \A r \in Receivers : SubOf[r] = s /\ s \notin freed' => rpc'[r] \notin InMutex
        <4>1. NoThread \notin Receivers
          BY BrokerAssumption DEF Threads
        <4> QED
          BY <1>0, <3>1, <4>1 DEF CallInv, CallOK
      <3>3. s \notin freed' => Sleeping(s)' = {}
        BY <3>1, <3>2 DEF Sleeping, InMutex
      <3> QED
        BY <3>1, <3>2, <3>3 DEF StrandOK, CountOK, AwakeOK, InMutex
    <2>3. CASE UnsubscribeRemove(s)
      BY <2>3 DEF UnsubscribeRemove, StrandOK
    <2>4. CASE SubscribeInsert(s)
      <3>1. /\ spc[s] = "insert" /\ UNCHANGED inboxWait /\ active'[s]
        BY <1>0, <2>4 DEF SubscribeInsert, lockVars
      <3>2. \A r \in Receivers : SubOf[r] = s => rpc[r] \in {"idle", "undefined"}
        BY <3>1 DEF CallInv, CallOK, Unregistered
      <3>3. s \notin freed' => Sleeping(s)' = {}
        BY <1>0, <3>1, <3>2 DEF Sleeping, WaitOK
      <3> QED
        BY <3>1, <3>3 DEF StrandOK, CountOK
    <2>5. CASE /\ ~UnsubscribeBegin(s) /\ ~UnsubscribeBroadcast(s)
               /\ ~UnsubscribeRemove(s) /\ ~SubscribeInsert(s)
      <3>1. UNCHANGED << active, inboxWait, inbox >>
        BY <2>5 DEF SubscriptionContinues, subscription_free, SubscribeGet,
           SubscribeCreate, SubscribeCreateFails, SubscribeLinkFails, LinkFails,
           UnsubscribeGetBlocks, SubscribeInsertFails, SubscribeWrap,
           UnsubscribeLockChannels, UnsubscribeLookupFails, UnsubscribeLockChannel,
           UnsubscribeRemovesNothing, UnsubscribeUnlock, UnsubscribeClear, lockVars, proxyVars
      <3>2. spc[s] # "broadcast" /\ spc'[s] # "broadcast"
        BY <1>0, <2>5 DEF SubscriptionContinues, subscription_free, SubscribeGet,
           SubscribeCreate, SubscribeCreateFails, SubscribeLinkFails, LinkFails,
           UnsubscribeGetBlocks, SubscribeInsertFails, SubscribeWrap,
           UnsubscribeLockChannels, UnsubscribeLookupFails, UnsubscribeLockChannel,
           UnsubscribeRemovesNothing, UnsubscribeUnlock, UnsubscribeClear, SGoto, subVars
      <3>3. Quiet(s) /\ (ToSignal(s) => ToSignal(s)')
        BY <1>0, <3>1 DEF Quiet, ToSignal
      <3> QED
        BY <1>0, <3>1, <3>2, <3>3, StrandFrame
    <2> QED
      BY <2>1, <2>2, <2>3, <2>4, <2>5
  <1> QED
    BY <1>1, <1>2 DEF StrandInv

LEMMA ReceiverStrandStep ==
  ASSUME IInv, CallInv, StrandInv, NEW r \in Receivers,
         \/ ReceiveBegin(r) \/ ReceiverContinues(r) \/ TouchesFreedProxy(r)
         \/ SpuriousWakeup(r)
  PROVE  StrandInv'
  <1>0. PICK s \in Subs : s = SubOf[r]
    BY BrokerAssumption
  <1>1. /\ UNCHANGED << active, spc, freed, wpc, todo >>
        /\ DOMAIN rpc = Receivers /\ DOMAIN inboxWait = Subs
        /\ inbox \in [Subs -> Seq(Messages)] /\ inbox[s] \in Seq(Messages)
        /\ \A q \in Receivers \ {r} : rpc'[q] = rpc[q]
        /\ StrandOK(s) /\ CallOK(r) /\ WaitOK(s)
    BY ReceiverChanges
    DEF IInv, TypeInv, RecvT, InboxLockT, ProxyT, subVars, workVars, StrandInv, CallInv
  <1>2. \A u \in Subs : ToSignal(u) => ToSignal(u)'
    BY <1>1 DEF ToSignal
  <1>3. ASSUME StrandOK(s)', \A u \in Subs \ {s} : inbox'[u] = inbox[u],
               \A u \in Subs \ {s} : inboxWait'[u] = inboxWait[u]
        PROVE  StrandInv'
    <2>1. \A u \in Subs \ {s} : Quiet(u)
      BY <1>0, <1>1, <1>3 DEF Quiet
    <2> QED
      BY <1>1, <1>2, <1>3, <2>1, StrandOthers
  <1>4. ASSUME UNCHANGED inbox, Awake(s) \subseteq Awake(s)', Sleeping(s)' \subseteq Sleeping(s),
               AwakeOK(s) /\ ~active[s] => AwakeOK(s)'
        PROVE  StrandOK(s)'
    <2>1. Cardinality(Awake(s)) <= Cardinality(Awake(s)')
      BY <1>4, AwakeFinite, FS_Subset
    <2>2. Len(inbox[s]) \in Nat
      BY <1>1
    <2>3. CountOK(s) => CountOK(s)'
      BY <1>2, <1>4, <2>1, <2>2, AwakeFinite DEF CountOK
    <2> QED
      BY <1>1, <1>4, <2>3 DEF StrandOK
  <1>5. CASE ReceiveBegin(r)
    <2>1. /\ UNCHANGED << inbox, inboxWait >> /\ rpc[r] = "idle"
          /\ rpc'[r] \in {"lock", "tryEmpty"}
      BY <1>1, <1>5 DEF ReceiveBegin, CanCall, RGoto
    <2>2. Awake(s) \subseteq Awake(s)' /\ Sleeping(s)' \subseteq Sleeping(s)
      BY <1>1, <2>1 DEF Awake, Sleeping
    <2>3. AwakeOK(s) => AwakeOK(s)'
      BY <1>1, <2>1 DEF AwakeOK
    <2> QED
      BY <1>3, <1>4, <2>1, <2>2, <2>3
  <1>6. CASE ReceiveLock(r)
    <2>1. /\ UNCHANGED << inbox, inboxWait >> /\ rpc[r] \in {"lock", "blocked"}
          /\ rpc'[r] = "test" /\ s \notin freed /\ (rpc[r] = "blocked" => r \notin inboxWait[s])
      BY <1>0, <1>1, <1>6 DEF ReceiveLock, RGoto
    <2>2. r \notin inboxWait[s]
      BY <1>1, <2>1 DEF WaitOK
    <2>3. Awake(s) \subseteq Awake(s)' /\ Sleeping(s)' \subseteq Sleeping(s)
      BY <1>1, <2>1, <2>2 DEF Awake, Sleeping
    <2>4. AwakeOK(s) => AwakeOK(s)'
      BY <1>1, <2>1 DEF AwakeOK
    <2> QED
      BY <1>3, <1>4, <2>1, <2>3, <2>4
  <1>7. CASE ReceiveTest(r)
    <2>1. /\ UNCHANGED << inbox, inboxWait >> /\ rpc[r] = "test"
          /\ rpc'[r] = "check" \/ (rpc'[r] = "active" /\ inbox[s] = << >>)
      BY <1>0, <1>1, <1>7 DEF ReceiveTest, RGoto, generic_queue_syn_is_empty
    <2>2. AwakeOK(s) => AwakeOK(s)'
      BY <1>1, <2>1 DEF AwakeOK
    <2>3. CASE rpc'[r] = "check"
      <3>1. Awake(s) \subseteq Awake(s)' /\ Sleeping(s)' \subseteq Sleeping(s)
        BY <1>1, <2>1, <2>3 DEF Awake, Sleeping
      <3> QED
        BY <1>3, <1>4, <2>1, <2>2, <3>1
    <2>4. CASE inbox[s] = << >>
      <3>1. CountOK(s)'
        BY <2>1, <2>4 DEF CountOK
      <3>2. StrandOK(s)'
        BY <1>1, <2>2, <3>1 DEF StrandOK
      <3> QED
        BY <1>3, <2>1, <3>2
    <2> QED
      BY <2>1, <2>3, <2>4
  <1>8. CASE ReceiveTestActive(r)
    <2>1. /\ UNCHANGED << inbox, inboxWait >> /\ rpc[r] = "active"
          /\ (rpc'[r] = "check" /\ ~active[s]) \/ (rpc'[r] = "sleep" /\ active[s])
      BY <1>0, <1>1, <1>8 DEF ReceiveTestActive, RGoto
    <2>2. AwakeOK(s) /\ ~active[s] => AwakeOK(s)'
      BY <1>1, <2>1 DEF AwakeOK
    <2>3. Awake(s) \subseteq Awake(s)' /\ Sleeping(s)' \subseteq Sleeping(s)
      BY <1>0, <1>1, <2>1 DEF Awake, Sleeping
    <2> QED
      BY <1>3, <1>4, <2>1, <2>2, <2>3
  <1>9. CASE ReceiveSleep(r)
    <2>1. /\ UNCHANGED inbox /\ rpc[r] = "sleep" /\ rpc'[r] = "blocked"
          /\ inboxWait' = [inboxWait EXCEPT ![s] = @ \cup {r}]
      BY <1>0, <1>1, <1>9 DEF ReceiveSleep, RGoto
    <2>2. AwakeOK(s) => AwakeOK(s)'
      BY <1>0, <1>1, <2>1 DEF AwakeOK
    <2>3. Awake(s) \subseteq Awake(s)' /\ Sleeping(s)' \subseteq Sleeping(s)
      BY <1>0, <1>1, <2>1 DEF Awake, Sleeping
    <2> QED
      BY <1>1, <1>3, <1>4, <2>1, <2>2, <2>3
  <1>10. CASE ReceiveCheck(r)
    <2>1. /\ UNCHANGED << inbox, inboxWait >> /\ rpc[r] = "check"
          /\ (rpc'[r] = "dequeue" /\ active[s]) \/ (rpc'[r] = "idle" /\ ~active[s])
      BY <1>0, <1>1, <1>10 DEF ReceiveCheck, RGoto
    <2>2. AwakeOK(s) => AwakeOK(s)'
      BY <1>1, <2>1 DEF AwakeOK
    <2>3. CASE active[s]
      <3>1. Awake(s) \subseteq Awake(s)' /\ Sleeping(s)' \subseteq Sleeping(s)
        BY <1>1, <2>1, <2>3 DEF Awake, Sleeping
      <3> QED
        BY <1>3, <1>4, <2>1, <2>2, <3>1
    <2>4. CASE ~active[s]
      <3>1. StrandOK(s)'
        BY <1>1, <2>2, <2>4 DEF StrandOK
      <3> QED
        BY <1>3, <2>1, <3>1
    <2> QED
      BY <2>3, <2>4
  <1>11. CASE TryReceiveTest(r)
    <2>1. /\ UNCHANGED << inbox, inboxWait >> /\ rpc[r] = "tryEmpty"
          /\ rpc'[r] \in {"idle", "tryDequeue"}
      BY <1>1, <1>11 DEF TryReceiveTest, RGoto
    <2>2. Awake(s) \subseteq Awake(s)' /\ Sleeping(s)' \subseteq Sleeping(s)
      BY <1>1, <2>1 DEF Awake, Sleeping
    <2>3. AwakeOK(s) => AwakeOK(s)'
      BY <1>1, <2>1 DEF AwakeOK
    <2> QED
      BY <1>3, <1>4, <2>1, <2>2, <2>3
  <1>12. CASE TouchesFreedProxy(r)
    <2>1. s \in freed /\ UNCHANGED << inbox, inboxWait >>
      BY <1>0, <1>12 DEF TouchesFreedProxy
    <2>2. StrandOK(s)'
      BY <1>1, <2>1 DEF StrandOK
    <2> QED
      BY <1>3, <2>1, <2>2
  <1>13. CASE SpuriousWakeup(r)
    <2>1. /\ UNCHANGED << inbox, rpc >> /\ inboxWait' = [inboxWait EXCEPT ![s] = @ \ {r}]
      BY <1>0, <1>13 DEF SpuriousWakeup, proxyVars
    <2>2. Awake(s) \subseteq Awake(s)' /\ Sleeping(s)' \subseteq Sleeping(s)
      BY <1>1, <2>1 DEF Awake, Sleeping
    <2>3. AwakeOK(s) => AwakeOK(s)'
      BY <1>1, <2>1 DEF AwakeOK
    <2> QED
      BY <1>1, <1>3, <1>4, <2>1, <2>2, <2>3
  <1>14. CASE ReceiveDequeue(r)
    <2>1. /\ UNCHANGED inboxWait /\ rpc[r] \in {"dequeue", "tryDequeue"} /\ rpc'[r] = "idle"
          /\ s \notin freed
      BY <1>0, <1>1, <1>14 DEF ReceiveDequeue, RGoto
    <2>2. r \notin inboxWait[s] /\ Sleeping(s)' = Sleeping(s)
      BY <1>1, <2>1 DEF WaitOK, Sleeping
    <2>3. AwakeOK(s) => AwakeOK(s)'
      BY <1>1, <2>1 DEF AwakeOK
    <2>4. CASE inbox[s] = << >>
      <3>1. UNCHANGED inbox
        BY <1>0, <1>14, <2>4, InboxByReceiver DEF Takes, ReceiverContinues, ReceiveDequeue,
           dequeued_queue
      <3>2. CountOK(s)'
        BY <2>4, <3>1 DEF CountOK
      <3>3. StrandOK(s)'
        BY <1>1, <2>3, <3>2 DEF StrandOK
      <3> QED
        BY <1>3, <2>1, <3>1, <3>3
    <2>5. CASE inbox[s] # << >>
      <3>1. inbox' = [inbox EXCEPT ![s] = Tail(@)]
        BY <1>0, <1>1, <1>14, <2>5 DEF ReceiveDequeue, dequeued_queue
      <3>2. /\ Len(inbox'[s]) = Len(inbox[s]) - 1 /\ Len(inbox[s]) \in Nat
            /\ \A u \in Subs \ {s} : inbox'[u] = inbox[u]
        BY <1>1, <2>5, <3>1, HeadAndTail
      <3>3. CountOK(s) => CountOK(s)'
        <4>1. /\ Cardinality(Awake(s)) \in Nat
              /\ Cardinality(Awake(s)') \in Nat
              /\ Cardinality(Awake(s)) - 1 <= Cardinality(Awake(s)')
          <5>1. CASE rpc[r] = "dequeue"
            <6>1. r \in Awake(s) /\ Awake(s)' = Awake(s) \ {r}
              BY <1>0, <1>1, <2>1, <2>2, <5>1 DEF Awake
            <6>2. Cardinality(Awake(s) \ {r}) = Cardinality(Awake(s)) - 1
              BY <6>1, AwakeFinite, FS_RemoveElement
            <6>3. Cardinality(Awake(s)') = Cardinality(Awake(s)) - 1
              BY <6>1, <6>2
            <6>4. Cardinality(Awake(s)) \in Nat /\ Cardinality(Awake(s)') \in Nat
              BY AwakeFinite
            <6> QED
              BY <6>3, <6>4
          <5>2. CASE rpc[r] = "tryDequeue"
            <6>1. Awake(s)' = Awake(s)
              BY <1>1, <2>1, <5>2 DEF Awake
            <6> QED
              BY <6>1, AwakeFinite
          <5> QED
            BY <2>1, <5>1, <5>2
        <4> QED
          BY <1>2, <2>2, <2>5, <3>2, <4>1 DEF CountOK
      <3>4. StrandOK(s)'
        BY <1>1, <2>3, <3>3 DEF StrandOK
      <3> QED
        BY <1>3, <2>1, <3>2, <3>4
    <2> QED
      BY <2>4, <2>5
  <1> QED
    BY <1>5, <1>6, <1>7, <1>8, <1>9, <1>10, <1>11, <1>12, <1>13, <1>14 DEF ReceiverContinues

LEMMA StrandInvStep ==
  ASSUME IInv, LockInv, ProxyInv, CallInv, StrandInv, [Next]_vars
  PROVE  StrandInv'
  <1>1. CASE PublisherStep \/ message_broker_free \/ UNCHANGED vars
    <2>1. /\ UNCHANGED << rpc, inbox, inboxWait, spc, active, wpc, todo >>
          /\ freed \subseteq freed'
      BY <1>1, PublisherFrame
      DEF message_broker_free, vars, lockVars, subVars, proxyVars, workVars
    <2>2. \A u \in Subs : Quiet(u) /\ (ToSignal(u) => ToSignal(u)')
      BY <2>1 DEF Quiet, ToSignal
    <2> QED
      BY <2>1, <2>2, StrandOthers
  <1> QED
    BY <1>1, NextCases, WorkerStrandStep, SubscriptionStrandStep, ReceiverStrandStep
    DEF WorkerStep, SubscriptionStep, ReceiverStep

\* No receiver sleeps next to a message, however many receivers share the
\* inbox and whatever wakes them: while one of them is blocked, the messages
\* in the inbox are no more than the receivers that are awake, or a signal or
\* the broadcast of unsubscribe is on its way.
THEOREM NobodySleepsNextToAMessage == Spec => []NoReceiverStranded
  <1>1. Init => CallInv /\ StrandInv
    <2> SUFFICES ASSUME Init PROVE CallInv /\ StrandInv
      OBVIOUS
    <2>1. CallInv
      BY BrokerAssumption
      DEF Init, CallInv, CallOK, WaitOK, InMutex, Threads
    <2>2. StrandInv
      BY DEF Init, StrandInv, StrandOK, AwakeOK
    <2> QED
      BY <2>1, <2>2
  <1>2. IInv /\ CallInv /\ [Next]_vars => CallInv'
    BY CallInvStep
  <1>3. IInv /\ LockInv /\ ProxyInv /\ CallInv /\ StrandInv /\ [Next]_vars => StrandInv'
    BY StrandInvStep
  <1>4. IInv /\ CallInv /\ StrandInv => NoReceiverStranded
    <2> SUFFICES ASSUME IInv, CallInv, StrandInv, NEW s \in Subs \ freed,
                        inbox[s] # << >>, inboxWait[s] # {}, ~ToSignal(s),
                        spc[s] # "broadcast"
                 PROVE  Len(inbox[s]) <= Cardinality(Awake(s))
      BY DEF NoReceiverStranded, ToSignal
    <2>1. active[s]
      BY DEF StrandInv, StrandOK, AwakeOK
    <2>2. PICK r \in inboxWait[s] : r \in Receivers /\ SubOf[r] = s
      BY DEF CallInv, WaitOK, IInv, TypeInv, InboxLockT
    <2>3. Sleeping(s) # {}
      BY <2>2 DEF Sleeping
    <2> QED
      BY <2>1, <2>3 DEF StrandInv, StrandOK, CountOK
  <1> QED
    BY <1>1, <1>2, <1>3, <1>4, Proxies, PTL DEF Spec


-----------------------------------------------------------------------------
(* The log of a channel. *)

\* Every message is worked on once.
OnceInv ==
  /\ IsInjective(pending) /\ Range(pending) \cap completed = {}
  /\ \A v \in Workers : running[v] # NULL => running[v] \notin completed \cup Range(pending)
  /\ \A v, w \in Workers : running[v] # NULL /\ running[v] = running[w] => v = w

LEMMA OnceInvStep ==
  ASSUME IInv, OnceInv, [Next]_vars
  PROVE  OnceInv'
  <1>0. /\ pending \in Seq(Messages) /\ running \in [Workers -> Messages \cup {NULL}]
        /\ NULL \notin Messages
    BY ChannelNumbers DEF IInv, TypeInv, PoolT
  <1>1. CASE UNCHANGED << pending, running, completed >>
    BY <1>1 DEF OnceInv
  <1>2. ASSUME NEW p \in Publishers, PublishSubmit(p) PROVE OnceInv'
    <2>1. PICK m \in Messages : m = parg[p]
      BY <1>2 DEF PublishSubmit, IInv, LocalInv, IdInv, Published
    <2>2. /\ pending' = Append(pending, m) /\ UNCHANGED << running, completed >>
          /\ m \notin Pool!Known
      BY <1>2, <2>1 DEF PublishSubmit, Pool!Accept
    <2>3. m \notin Range(pending) /\ m \notin completed /\ \A v \in Workers : running[v] # m
      <3>1. m \notin Pool!Running
        BY <2>2 DEF Pool!Known
      <3>2. \A v \in Workers : running[v] # m
        BY <1>0, <3>1 DEF Pool!Running
      <3>3. m \notin Pool!Pending /\ DOMAIN pending = 1..Len(pending)
        BY <1>0, <2>2 DEF Pool!Known
      <3> QED
        BY <2>2, <3>2, <3>3 DEF Pool!Known, Pool!Pending, Range
    <2>4. /\ IsInjective(Append(pending, m))
          /\ Range(Append(pending, m)) = Range(pending) \cup {m}
      BY <1>0, <2>3, AppendKeepsInjective, RangeOfAppend DEF OnceInv
    <2> QED
      BY <2>2, <2>3, <2>4 DEF OnceInv
  <1>3. ASSUME NEW w \in Workers, WorkerStart(w) PROVE OnceInv'
    <2>1. /\ pending # << >> /\ pending' = Tail(pending) /\ UNCHANGED completed
          /\ running' = [running EXCEPT ![w] = Head(pending)]
      BY <1>3 DEF WorkerStart, Pool!Start
    <2>2. /\ Range(pending) = {Head(pending)} \cup Range(Tail(pending))
          /\ Head(pending) \notin Range(Tail(pending)) /\ IsInjective(Tail(pending))
      BY <1>0, <2>1, HeadAndTail DEF OnceInv
    <2>3. /\ running'[w] = Head(pending)
          /\ \A v \in Workers \ {w} : running'[v] = running[v]
      BY <1>0, <2>1
    <2> QED
      BY <2>1, <2>2, <2>3 DEF OnceInv
  <1>4. ASSUME NEW w \in Workers,
               \/ WorkerCreateFails(w) \/ WorkerUnlock(w)
               \/ WorkerLinkFails(w) /\ Pool!Complete(w)
        PROVE  OnceInv'
    <2>1. /\ UNCHANGED pending /\ completed' = completed \cup {running[w]}
          /\ running[w] # NULL /\ running' = [running EXCEPT ![w] = NULL]
      BY <1>4 DEF WorkerCreateFails, WorkerUnlock, Pool!Complete
    <2>2. /\ running'[w] = NULL
          /\ \A v \in Workers \ {w} : running'[v] = running[v]
      BY <1>0, <2>1
    <2> QED
      BY <2>1, <2>2 DEF OnceInv
  <1>5. CASE message_broker_free
    <2>1. pending' = << >> /\ UNCHANGED << running, completed >>
      BY <1>5 DEF message_broker_free, Pool!Destroy
    <2>2. Range(pending') = {} /\ IsInjective(pending')
      BY <2>1 DEF Range, IsInjective
    <2> QED
      BY <2>1, <2>2 DEF OnceInv
  <1>6. ASSUME NEW w \in Workers, _publisher_task(w) PROVE OnceInv'
    <2>1. CASE \/ WorkerGet(w) \/ WorkerCreate(w) \/ WorkerLock(w) \/ WorkerVisit(w)
               \/ WorkerEnqueue(w) \/ WorkerAppend(w) \/ WorkerSignal(w)
      BY <1>1, <2>1 DEF WorkerGet, WorkerCreate, WorkerLock, WorkerVisit, WorkerEnqueue,
                        WorkerAppend, WorkerSignal, poolVars
    <2>2. CASE WorkerLinkFails(w) /\ ~Pool!Complete(w)
      BY <1>1, <2>2 DEF WorkerLinkFails, poolVars
    <2> QED
      BY <1>3, <1>4, <1>6, <2>1, <2>2 DEF _publisher_task
  <1>7. ASSUME NEW p \in Publishers, PublishFails(p) \/ \E n \in Names : PublishBegin(p, n)
        PROVE  OnceInv'
    BY <1>1, <1>7 DEF PublishFails, PublishBegin, poolVars
  <1>8. CASE SubscriptionStep \/ ReceiverStep \/ UNCHANGED vars
    BY <1>1, <1>8, SubscriptionFrame, ReceiverChanges
    DEF SubscriptionStep, ReceiverStep, vars, poolVars
  <1> QED
    BY <1>2, <1>5, <1>6, <1>7, <1>8, NextCases DEF PublisherStep, WorkerStep

\* A message is in a log once its delivery has begun, and the last of its
\* channel's log during its delivery.
BegunOK(c) ==
  \A m \in Range(log[c]) :
    m \in completed \/ \E w \in Workers : running[w] = m /\ wpc[w] \in Walking

LastOK(w) ==
  wpc[w] \in Walking => /\ log[wchan[w]] # << >>
                        /\ log[wchan[w]][Len(log[wchan[w]])] = running[w]

BegunInv == (\A c \in Channels : BegunOK(c)) /\ (\A w \in Workers : LastOK(w))

\* All steps of a worker but one leave the logs as they are.
LEMMA WorkerProgress ==
  ASSUME IInv, NEW w \in Workers, _publisher_task(w), ~WorkerLock(w)
  PROVE  /\ UNCHANGED log /\ completed \subseteq completed'
         /\ wpc'[w] \in Walking => /\ wpc[w] \in Walking /\ wchan'[w] = wchan[w]
                                   /\ running'[w] = running[w]
         /\ wpc[w] \in Walking => wpc'[w] \in Walking \/ running[w] \in completed'
  <1>0. DOMAIN wpc = Workers /\ DOMAIN wchan = Workers
    BY DEF IInv, TypeInv, WorkT
  <1>1. CASE \/ WorkerStart(w) \/ WorkerCreate(w) \/ WorkerCreateFails(w)
             \/ WorkerLinkFails(w)
    <2>1. /\ UNCHANGED log /\ completed \subseteq completed'
          /\ wpc[w] \in {"idle", "create"} /\ wpc'[w] \in {"get", "lock", "idle", "undefined"}
      BY <1>0, <1>1 DEF WorkerStart, WorkerCreate, WorkerCreateFails, WorkerLinkFails,
         WGoto, Pool!Start, Pool!Complete, poolVars, seenVars
    <2> QED
      BY <2>1 DEF Walking
  <1>2. CASE WorkerGet(w)
    <2>1. /\ UNCHANGED << log, completed >> /\ wpc[w] = "get"
          /\ wpc'[w] \in {"get", "lock", "create"}
      BY <1>0, <1>2 DEF WorkerGet, WGoto, poolVars, seenVars
    <2> QED
      BY <2>1 DEF Walking
  <1>3. CASE WorkerVisit(w) \/ WorkerEnqueue(w) \/ WorkerSignal(w)
    <2>1. /\ UNCHANGED << log, completed, running, wchan >> /\ wpc[w] \in Walking
          /\ wpc'[w] \in {"each", "enqueue", "append"}
      BY <1>0, <1>3 DEF WorkerVisit, WorkerEnqueue, WorkerSignal, NextProxy, WGoto,
         poolVars, seenVars, Walking
    <2> QED
      BY <2>1 DEF Walking
  <1>4. CASE WorkerAppend(w)
    <2>1. /\ UNCHANGED << log, completed, running, wchan >> /\ wpc[w] = "append"
          /\ wpc'[w] \in {"signal", "each"}
      BY <1>0, <1>4 DEF WorkerAppend, NextProxy, WGoto, poolVars
    <2> QED
      BY <2>1 DEF Walking
  <1>5. CASE WorkerUnlock(w)
    <2>1. /\ UNCHANGED log /\ completed' = completed \cup {running[w]}
          /\ wpc'[w] = "idle"
      BY <1>0, <1>5 DEF WorkerUnlock, Pool!Complete, WGoto, seenVars
    <2> QED
      BY <2>1 DEF Walking
  <1> QED
    BY <1>1, <1>2, <1>3, <1>4, <1>5 DEF _publisher_task

\* The step that begins a delivery.
LEMMA DeliveryBegins ==
  ASSUME IInv, LockInv, NEW w \in Workers, WorkerLock(w)
  PROVE  \E c \in Channels, m \in Messages :
           /\ c = wchan[w] /\ m = running[w]
           /\ wpc[w] = "lock" /\ wpc'[w] = "each" /\ UNCHANGED << wchan, running, completed >>
           /\ channelMutex[c] = NoThread
           /\ \A v \in Workers : wpc[v] \in Walking => wchan[v] # c
           /\ log' = [log EXCEPT ![c] = Append(@, m)]
           /\ log[c] \in Seq(Messages) /\ log'[c] = Append(log[c], m)
           /\ \A d \in Channels \ {c} : log'[d] = log[d]
           /\ UNCHANGED delivered
           /\ faults' = faults => todo'[w] = proxies[c]
  <1>0. /\ WorkOK(w) /\ DOMAIN wpc = Workers /\ DOMAIN todo = Workers
        /\ log \in [Channels -> Seq(Messages)] /\ faults \in Nat
    BY DEF IInv, LocalInv, TypeInv, WorkT, SeenT, BoundT
  <1>1. wpc[w] = "lock"
    BY DEF WorkerLock
  <1>2. PICK c \in Channels : c = wchan[w]
    BY <1>0, <1>1 DEF WorkOK
  <1>3. PICK m \in Messages : m = running[w]
    BY <1>0, <1>1 DEF WorkOK, IInv, LocalInv, IdInv, Published
  <1>4. /\ wpc'[w] = "each" /\ UNCHANGED << wchan, running, completed, delivered >>
        /\ channelMutex[c] = NoThread /\ log' = [log EXCEPT ![c] = Append(@, m)]
        /\ faults' = faults => todo'[w] = proxies[c]
    BY <1>0, <1>2, <1>3 DEF WorkerLock, WGoto, poolVars, Fault
  <1>5. \A v \in Workers : wpc[v] \in Walking => wchan[v] # c
    BY <1>4, BrokerAssumption DEF LockInv, WorkerLocks, Threads
  <1>6. /\ log[c] \in Seq(Messages) /\ log'[c] = Append(log[c], m)
        /\ \A d \in Channels \ {c} : log'[d] = log[d]
    BY <1>0, <1>4
  <1> QED
    BY <1>1, <1>2, <1>3, <1>4, <1>5, <1>6

LEMMA BegunInvStep ==
  ASSUME IInv, LockInv, BegunInv, [Next]_vars
  PROVE  BegunInv'
  <1>1. ASSUME NEW w \in Workers, _publisher_task(w) PROVE BegunInv'
    <2>0. \A v \in Workers \ {w} :
            wpc'[v] = wpc[v] /\ wchan'[v] = wchan[v] /\ running'[v] = running[v]
      BY <1>1, WorkerFrame DEF IInv
    <2>1. CASE ~WorkerLock(w)
      <3>1. /\ UNCHANGED log /\ completed \subseteq completed'
            /\ wpc'[w] \in Walking => /\ wpc[w] \in Walking /\ wchan'[w] = wchan[w]
                                      /\ running'[w] = running[w]
            /\ wpc[w] \in Walking => wpc'[w] \in Walking \/ running[w] \in completed'
        BY <1>1, <2>1, WorkerProgress
      <3>2. ASSUME NEW v \in Workers, wpc[v] \in Walking
            PROVE  running[v] \in completed' \/ (running'[v] = running[v] /\ wpc'[v] \in Walking)
        BY <2>0, <3>1, <3>2
      <3>3. \A c \in Channels : BegunOK(c)'
        BY <3>1, <3>2 DEF BegunInv, BegunOK
      <3>4. \A v \in Workers : LastOK(v)'
        BY <2>0, <3>1 DEF BegunInv, LastOK
      <3> QED
        BY <3>3, <3>4 DEF BegunInv
    <2>2. CASE WorkerLock(w)
      <3>1. PICK c \in Channels, m \in Messages :
              /\ c = wchan[w] /\ m = running[w]
              /\ wpc[w] = "lock" /\ wpc'[w] = "each"
              /\ UNCHANGED << wchan, running, completed >>
              /\ \A v \in Workers : wpc[v] \in Walking => wchan[v] # c
              /\ log[c] \in Seq(Messages) /\ log'[c] = Append(log[c], m)
              /\ \A d \in Channels \ {c} : log'[d] = log[d]
        BY <2>2, DeliveryBegins
      <3>2. /\ Range(log'[c]) = Range(log[c]) \cup {m} /\ log'[c] # << >>
            /\ log'[c][Len(log'[c])] = m
        <4>1. Range(Append(log[c], m)) = Range(log[c]) \cup {m}
          BY <3>1, RangeOfAppend
        <4>2. PICK q \in Seq(Messages) : q = log[c]
          BY <3>1
        <4>3. Append(q, m) # << >> /\ Append(q, m)[Len(Append(q, m))] = m
          BY <4>2, <3>1
        <4> QED
          BY <3>1, <4>1, <4>2, <4>3
      <3>3. \A v \in Workers : wpc[v] \in Walking => wpc'[v] \in Walking
        BY <2>0, <3>1 DEF Walking
      <3>4. wpc'[w] \in Walking
        BY <3>1 DEF Walking
      <3>5. ASSUME NEW d \in Channels PROVE BegunOK(d)'
        <4>1. BegunOK(d) /\ UNCHANGED << completed, running >>
          BY <3>1 DEF BegunInv
        <4>2. \A x \in Range(log[d]) :
                x \in completed \/ \E v \in Workers : running[v] = x /\ wpc'[v] \in Walking
          BY <3>3, <4>1 DEF BegunOK
        <4>3. \A x \in Range(log'[d]) : x \in Range(log[d]) \/ x = m
          <5>1. CASE d = c
            BY <3>2, <5>1
          <5>2. CASE d # c
            BY <3>1, <5>2
          <5> QED
            BY <5>1, <5>2
        <4> QED
          BY <3>1, <3>4, <4>1, <4>2, <4>3 DEF BegunOK
      <3>6. ASSUME NEW v \in Workers PROVE LastOK(v)'
        <4>1. CASE v = w
          BY <3>1, <3>2, <4>1 DEF LastOK
        <4>2. CASE v # w /\ wpc[v] \in Walking
          <5>1. wchan[v] \in Channels \ {c} /\ LastOK(v)
            BY <3>1, <4>2 DEF IInv, LocalInv, WorkOK, BegunInv
          <5> QED
            BY <2>0, <3>1, <4>2, <5>1 DEF LastOK
        <4>3. CASE v # w /\ wpc[v] \notin Walking
          BY <2>0, <4>3 DEF LastOK
        <4> QED
          BY <4>1, <4>2, <4>3
      <3> QED
        BY <3>5, <3>6 DEF BegunInv
    <2> QED
      BY <2>1, <2>2
  <1>2. CASE \/ PublisherStep \/ SubscriptionStep \/ ReceiverStep \/ message_broker_free
             \/ UNCHANGED vars
    <2>1. UNCHANGED << running, completed, log, workVars >>
      BY <1>2, PublisherFrame, SubscriptionFrame, ReceiverChanges
      DEF SubscriptionStep, ReceiverStep, message_broker_free, Pool!Destroy, vars, poolVars,
          seenVars
    <2> QED
      BY <2>1 DEF BegunInv, BegunOK, LastOK, workVars
  <1> QED
    BY <1>1, <1>2, NextCases DEF WorkerStep

(***************************************************************************)
(* How far a subscription is in the log of its channel: it has got         *)
(* everything since it joined, except the last message when the worker     *)
(* that walks the list has still to come to it.                            *)
(***************************************************************************)
AtProxy(w, s) == wpc[w] \in {"append", "signal"} /\ Head(todo[w]) = s

\* s has not left: it is active, or a worker has found it so.
Watched(s) == active[s] \/ \E w \in Workers : AtProxy(w, s)

Waits(w, s) ==
  /\ wpc[w] \in Walking /\ s \in Range(todo[w])
  /\ ~(wpc[w] = "signal" /\ Head(todo[w]) = s)

Behind(s) == \E w \in Workers : Waits(w, s)

LagOK(s) ==
  /\ spc[s] \in Unregistered => delivered[s] = << >>
  /\ Watched(s) => Len(log[schan[s]]) = IF Behind(s) THEN joinAt[s] + Len(delivered[s]) + 1
                                                     ELSE joinAt[s] + Len(delivered[s])

TodoOK(w) == wpc[w] \in Walking => IsInjective(todo[w])

LagInv == (\A s \in Subs : LagOK(s)) /\ (\A w \in Workers : TodoOK(w))

\* A proxy that a worker has to visit.
LEMMA OnTheWalk ==
  ASSUME IInv, LockInv, ProxyInv, MemberInv, NEW w \in Workers, NEW s \in Subs,
         wpc[w] \in Walking, s \in Range(todo[w])
  PROVE  /\ schan[s] \in Channels /\ wchan[w] = schan[s] /\ channelMutex[schan[s]] = w
         /\ spc[s] \in Listed /\ s \in Range(proxies[schan[s]])
  <1>1. wchan[w] \in Channels /\ s \in Range(proxies[wchan[w]]) /\ channelMutex[wchan[w]] = w
    BY DEF IInv, LocalInv, WorkOK, ProxyInv, WalkOK, LockInv, WorkerLocks
  <1> QED
    BY <1>1 DEF MemberInv, MemberOK

LEMMA AtProxyIsOnTheWalk ==
  ASSUME IInv, NEW w \in Workers, NEW s \in Subs, AtProxy(w, s)
  PROVE  wpc[w] \in Walking /\ s \in Range(todo[w]) /\ todo[w] # << >>
  <1>1. todo[w] \in Seq(Subs) /\ todo[w] # << >>
    BY DEF AtProxy, IInv, TypeInv, WorkT, LocalInv, WorkOK
  <1> QED
    BY <1>1, HeadAndTail DEF AtProxy, Walking

LEMMA WatchedIsListed ==
  ASSUME IInv, LockInv, ProxyInv, MemberInv, NEW s \in Subs, Watched(s)
  PROVE  schan[s] \in Channels /\ spc[s] \in Listed /\ s \in Range(proxies[schan[s]])
  <1>1. CASE active[s]
    BY <1>1 DEF MemberInv, MemberOK, Listed, IInv, LocalInv, SubOK, HasChannel
  <1>2. ASSUME NEW w \in Workers, AtProxy(w, s)
        PROVE  schan[s] \in Channels /\ spc[s] \in Listed /\ s \in Range(proxies[schan[s]])
    BY <1>2, AtProxyIsOnTheWalk, OnTheWalk
  <1> QED
    BY <1>1, <1>2 DEF Watched

\* What does not concern a subscription.
LEMMA LagFrame ==
  ASSUME NEW s \in Subs, LagOK(s),
         spc'[s] \in Unregistered => spc[s] \in Unregistered,
         Watched(s)' => /\ Watched(s) /\ log'[schan'[s]] = log[schan[s]]
                        /\ joinAt'[s] = joinAt[s] /\ (Behind(s)' <=> Behind(s)),
         delivered'[s] = delivered[s]
  PROVE  LagOK(s)'
  BY DEF LagOK

\* A step of a worker that neither delivers nor begins a delivery.
LEMMA WorkerLagFrame ==
  ASSUME IInv, NEW w \in Workers, _publisher_task(w), NEW s \in Subs, LagOK(s),
         log'[schan[s]] = log[schan[s]], delivered'[s] = delivered[s],
         AtProxy(w, s)' => Watched(s), 
         Watched(s)' => (Waits(w, s)' <=> Waits(w, s))
  PROVE  LagOK(s)'
  <1>1. /\ UNCHANGED << spc, schan, active, joinAt >>
        /\ \A v \in Workers \ {w} : wpc'[v] = wpc[v] /\ todo'[v] = todo[v]
    BY WorkerFrame DEF IInv, subVars
  <1>2. \A v \in Workers \ {w} : /\ AtProxy(v, s)' <=> AtProxy(v, s)
                                 /\ Waits(v, s)' <=> Waits(v, s)
    BY <1>1 DEF AtProxy, Waits
  <1>3. Watched(s)' => Watched(s)
    BY <1>1, <1>2 DEF Watched
  <1>4. Watched(s)' => (Behind(s)' <=> Behind(s))
    BY <1>2 DEF Behind
  <1> QED
    BY <1>1, <1>3, <1>4, LagFrame

LEMMA WorkerLagStep ==
  ASSUME IInv, LockInv, ProxyInv, MemberInv, LagInv, faults = 0, faults' = 0,
         NEW w \in Workers, _publisher_task(w)
  PROVE  LagInv'
  <1>0. /\ WorkOK(w) /\ TodoOK(w) /\ ~Fault(1) /\ todo[w] \in Seq(Subs)
        /\ DOMAIN wpc = Workers /\ DOMAIN todo = Workers
        /\ delivered \in [Subs -> Seq(Messages)] /\ joinAt \in [Subs -> Nat]
        /\ log \in [Channels -> Seq(Messages)]
    BY DEF IInv, LocalInv, TypeInv, WorkT, LagInv, Fault, SeenT
  <1>1. /\ UNCHANGED << spc, schan, active, joinAt, proxies >>
        /\ \A v \in Workers \ {w} : wpc'[v] = wpc[v] /\ todo'[v] = todo[v]
    BY WorkerFrame DEF IInv, subVars
  <1>2. \A v \in Workers \ {w} : TodoOK(v)'
    BY <1>1 DEF LagInv, TodoOK
  <1>a. ASSUME TodoOK(w)', \A s \in Subs : LagOK(s)' PROVE LagInv'
    BY <1>2, <1>a DEF LagInv
  <1>b. todo[w] # << >> =>
          /\ Range(todo[w]) = {Head(todo[w])} \cup Range(Tail(todo[w]))
          /\ Head(todo[w]) \in Subs
          /\ IsInjective(todo[w]) =>
               IsInjective(Tail(todo[w])) /\ Head(todo[w]) \notin Range(Tail(todo[w]))
    BY <1>0, HeadAndTail
  <1>3. CASE WorkerStart(w) \/ WorkerGet(w) \/ WorkerCreate(w)
    <2>1. /\ wpc[w] \in {"idle", "get", "create"} /\ wpc'[w] \in {"get", "lock", "create"}
          /\ UNCHANGED << log, delivered >>
      BY <1>0, <1>3 DEF WorkerStart, WorkerGet, WorkerCreate, WGoto, seenVars
    <2>2. \A s \in Subs : ~AtProxy(w, s)' /\ ~Waits(w, s)' /\ ~Waits(w, s)
      BY <2>1 DEF AtProxy, Waits, Walking
    <2>3. \A s \in Subs : LagOK(s)'
      BY <2>1, <2>2, WorkerLagFrame DEF LagInv
    <2> QED
      BY <1>a, <2>1, <2>3 DEF TodoOK, Walking
  <1>4. CASE WorkerLock(w)
    <2>1. PICK c \in Channels, m \in Messages :
            /\ c = wchan[w] /\ wpc[w] = "lock" /\ wpc'[w] = "each"
            /\ \A v \in Workers : wpc[v] \in Walking => wchan[v] # c
            /\ log[c] \in Seq(Messages) /\ log'[c] = Append(log[c], m)
            /\ \A d \in Channels \ {c} : log'[d] = log[d]
            /\ UNCHANGED delivered /\ todo'[w] = proxies[c]
      BY <1>4, DeliveryBegins
    <2>2. TodoOK(w)'
      BY <2>1 DEF TodoOK, ProxyInv, ListOK
    <2>3. ASSUME NEW s \in Subs PROVE LagOK(s)'
      <3>0. LagOK(s) /\ ~AtProxy(w, s)' /\ ~Waits(w, s)
        BY <2>1 DEF LagInv, AtProxy, Waits, Walking
      <3>1. CASE ~Watched(s)
        BY <2>1, <3>0, <3>1, <1>1 DEF LagOK, Watched, AtProxy
      <3>2. CASE Watched(s) /\ schan[s] # c
        <4>1. schan[s] \in Channels /\ s \notin Range(proxies[c])
          BY <3>2, WatchedIsListed DEF MemberInv, MemberOK
        <4>2. ~Waits(w, s)'
          BY <2>1, <4>1 DEF Waits
        <4> QED
          BY <2>1, <3>0, <3>2, <4>1, <4>2, WorkerLagFrame
      <3>3. CASE Watched(s) /\ schan[s] = c
        <4>1. ~Behind(s)
          BY <2>1, <3>3, OnTheWalk DEF Behind, Waits
        <4>2. s \in Range(proxies[c])
          BY <3>3, WatchedIsListed
        <4>3. Waits(w, s)'
          BY <2>1, <4>2 DEF Waits, Walking
        <4>4. Behind(s)'
          BY <4>3 DEF Behind
        <4>5. Len(log[c]) = joinAt[s] + Len(delivered[s])
          BY <3>0, <3>3, <4>1 DEF LagOK
        <4>6. Len(log'[c]) = joinAt[s] + Len(delivered[s]) + 1
          BY <2>1, <4>5
        <4>7. spc[s] \notin Unregistered
          BY <3>3, WatchedIsListed DEF Listed, Unregistered
        <4> QED
          BY <1>1, <2>1, <3>3, <4>4, <4>6, <4>7 DEF LagOK
      <3> QED
        BY <3>1, <3>2, <3>3
    <2> QED
      BY <1>a, <2>2, <2>3
  <1>5. CASE WorkerVisit(w) \/ WorkerEnqueue(w)
    <2>1. /\ wpc[w] \in {"each", "enqueue"} /\ todo[w] # << >>
          /\ UNCHANGED << log, delivered >>
          /\ \/ todo'[w] = todo[w] /\ wpc'[w] = "enqueue"
             \/ todo'[w] = todo[w] /\ wpc'[w] = "append" /\ active[Head(todo[w])]
             \/ /\ todo'[w] = Tail(todo[w]) /\ wpc'[w] = "each"
                /\ ~active[Head(todo[w])]
      BY <1>0, <1>5 DEF WorkerVisit, WorkerEnqueue, NextProxy, WGoto, WorkOK, seenVars
    <2>2. TodoOK(w)'
      BY <1>0, <1>b, <2>1 DEF TodoOK, Walking
    <2>3. ASSUME NEW s \in Subs PROVE LagOK(s)'
      <3>1. AtProxy(w, s)' => Watched(s)
        BY <2>1 DEF AtProxy, Watched
      <3>2. CASE todo'[w] = todo[w] /\ wpc'[w] \in {"enqueue", "append"}
        <4>1. Waits(w, s)' <=> Waits(w, s)
          BY <2>1, <3>2 DEF Waits, Walking
        <4> QED
          BY <2>1, <3>1, <4>1, WorkerLagFrame DEF LagInv
      <3>3. CASE s # Head(todo[w]) /\ todo'[w] = Tail(todo[w]) /\ wpc'[w] = "each"
        <4>1. Waits(w, s)' <=> Waits(w, s)
          BY <1>b, <2>1, <3>3 DEF Waits, Walking
        <4> QED
          BY <2>1, <3>1, <4>1, WorkerLagFrame DEF LagInv
      <3>4. CASE s = Head(todo[w]) /\ wpc'[w] = "each" /\ ~active[s]
        <4>1. \A v \in Workers \ {w} : ~AtProxy(v, s)
          BY <1>b, <2>1, <3>4, OneWorkerAtProxy, AtProxyIsOnTheWalk DEF AtProxy, Walking
        <4>2. ~Watched(s)'
          BY <1>1, <3>4, <4>1 DEF Watched, AtProxy
        <4> QED
          BY <2>1, <3>1, <4>2, WorkerLagFrame DEF LagInv
      <3> QED
        BY <2>1, <3>2, <3>3, <3>4
    <2> QED
      BY <1>a, <2>2, <2>3
  <1>6. CASE WorkerAppend(w)
    <2>1. wpc[w] = "append" /\ todo[w] # << >> /\ UNCHANGED log
      BY <1>0, <1>6 DEF WorkerAppend, WorkOK
    <2>2. PICK s \in Subs : s = Head(todo[w])
      BY <1>b, <2>1
    <2>3. /\ delivered' = [delivered EXCEPT ![s] = Append(@, running[w])]
          /\ wpc'[w] = "signal" /\ UNCHANGED todo
      BY <1>0, <1>6, <2>2 DEF WorkerAppend, WGoto
    <2>4. /\ delivered'[s] = Append(delivered[s], running[w])
          /\ \A u \in Subs \ {s} : delivered'[u] = delivered[u]
      BY <1>0, <2>3
    <2>5. TodoOK(w)'
      BY <1>0, <2>1, <2>3 DEF TodoOK, Walking
    <2>6. ASSUME NEW u \in Subs \ {s} PROVE LagOK(u)'
      <3>1. ~AtProxy(w, u)' /\ (Waits(w, u)' <=> Waits(w, u))
        BY <2>1, <2>2, <2>3 DEF AtProxy, Waits, Walking
      <3> QED
        BY <2>1, <2>4, <3>1, WorkerLagFrame DEF LagInv
    <2>7. LagOK(s)'
      <3>1. AtProxy(w, s) /\ Waits(w, s)
        BY <1>b, <2>1, <2>2 DEF AtProxy, Waits, Walking
      <3>2. Watched(s) /\ Behind(s)
        BY <3>1 DEF Watched, Behind
      <3>3. Len(log[schan[s]]) = joinAt[s] + Len(delivered[s]) + 1
        BY <3>2 DEF LagInv, LagOK
      <3>4. ~Behind(s)'
        <4>1. \A v \in Workers : Waits(v, s) => v = w
          BY <3>1, OnTheWalk DEF Waits
        <4>2. ~Waits(w, s)'
          BY <2>2, <2>3 DEF Waits
        <4>3. \A v \in Workers \ {w} : Waits(v, s)' <=> Waits(v, s)
          BY <1>1 DEF Waits
        <4> QED
          BY <4>1, <4>2, <4>3 DEF Behind
      <3>5. Len(delivered'[s]) = Len(delivered[s]) + 1 /\ Len(delivered[s]) \in Nat
        BY <1>0, <2>4, LenProperties
      <3>6. Len(log[schan[s]]) = joinAt[s] + Len(delivered'[s])
        <4>1. joinAt[s] \in Nat
          BY <1>0
        <4> QED
          BY <3>3, <3>5, <4>1
      <3>7. spc[s] \notin Unregistered
        BY <3>2, WatchedIsListed DEF Listed, Unregistered
      <3> QED
        BY <1>1, <2>1, <3>4, <3>6, <3>7 DEF LagOK
    <2> QED
      BY <1>a, <2>5, <2>6, <2>7
  <1>7. CASE WorkerSignal(w)
    <2>1. /\ wpc[w] = "signal" /\ todo[w] # << >> /\ UNCHANGED << log, delivered >>
          /\ wpc'[w] = "each" /\ todo'[w] = Tail(todo[w])
      BY <1>0, <1>7 DEF WorkerSignal, NextProxy, WGoto, WorkOK, seenVars
    <2>2. TodoOK(w)'
      BY <1>0, <1>b, <2>1 DEF TodoOK, Walking
    <2>3. ASSUME NEW s \in Subs PROVE LagOK(s)'
      <3>1. ~AtProxy(w, s)' /\ (Waits(w, s)' <=> Waits(w, s))
        BY <1>0, <1>b, <2>1 DEF AtProxy, Waits, Walking, TodoOK
      <3> QED
        BY <2>1, <3>1, WorkerLagFrame DEF LagInv
    <2> QED
      BY <1>a, <2>2, <2>3
  <1>8. CASE WorkerUnlock(w)
    <2>1. /\ wpc[w] = "each" /\ todo[w] = << >> /\ UNCHANGED << log, delivered >>
          /\ wpc'[w] = "idle"
      BY <1>0, <1>8 DEF WorkerUnlock, WGoto, seenVars
    <2>2. \A s \in Subs : ~AtProxy(w, s)' /\ ~Waits(w, s)' /\ ~Waits(w, s)
      BY <2>1 DEF AtProxy, Waits, Walking, Range
    <2>3. \A s \in Subs : LagOK(s)'
      BY <2>1, <2>2, WorkerLagFrame DEF LagInv
    <2> QED
      BY <1>a, <2>1, <2>3 DEF TodoOK, Walking
  <1>9. ~WorkerCreateFails(w) /\ ~WorkerLinkFails(w)
    BY <1>0 DEF WorkerCreateFails, WorkerLinkFails, LinkFails, CreateFails
  <1> QED
    BY <1>3, <1>4, <1>5, <1>6, <1>7, <1>8, <1>9 DEF _publisher_task

\* What a step of a subscription does to its membership, when no allocation
\* fails: it joins, it leaves, or it stays where it is.
LEMMA SubscriptionStays ==
  ASSUME IInv, NameInv, faults = 0, faults' = 0, NEW s \in Subs,
         \/ SubscriptionContinues(s) \/ UnsubscribeBegin(s) \/ subscription_free(s)
         \/ \E n \in Names : SubscribeGet(s, n),
         ~SubscribeInsert(s)
  PROVE  /\ spc'[s] \in Unregistered <=> spc[s] \in Unregistered
         /\ spc'[s] = "failed" <=> spc[s] = "failed"
         /\ spc[s] \notin Unregistered => schan'[s] = schan[s]
         /\ UNCHANGED joinAt /\ (active' = active \/ UnsubscribeBegin(s))
  <1>0. /\ SubName(s) /\ ~Fault(1) /\ DOMAIN spc = Subs /\ DOMAIN schan = Subs
    BY DEF IInv, TypeInv, SubT, NameInv, Fault
  <1>1. ASSUME NEW n \in Names, SubscribeGet(s, n)
        PROVE  /\ spc[s] = "new" /\ spc'[s] \in {"insert", "create", "hung"}
               /\ UNCHANGED << joinAt, active >>
    BY <1>0, <1>1 DEF SubscribeGet, SGoto, seenVars, proxyVars
  <1>2. CASE SubscribeCreate(s)
    <2>1. spc[s] = "create" /\ spc'[s] = "insert" /\ UNCHANGED << joinAt, active >>
      BY <1>0, <1>2 DEF SubscribeCreate, SGoto, seenVars, proxyVars
    <2> QED
      BY <2>1 DEF Unregistered
  <1>3. CASE UnsubscribeLockChannels(s)
    <2>1. /\ spc[s] = "lockChannels" /\ spc'[s] = "lockChannel"
          /\ schan'[s] = Head(table[sname[s]]) /\ UNCHANGED << joinAt, active >>
      BY <1>0, <1>3 DEF UnsubscribeLockChannels, SGoto, seenVars, proxyVars
    <2>2. table[sname[s]] = << schan[s] >>
      BY <1>0, <2>1 DEF SubName, HasChannel, Unsubscribing
    <2>3. schan'[s] = schan[s]
      BY <2>1, <2>2
    <2> QED
      BY <2>1, <2>3 DEF Unregistered
  <1>4. CASE \/ SubscribeWrap(s) \/ UnsubscribeBegin(s) \/ UnsubscribeBroadcast(s)
             \/ UnsubscribeLockChannel(s)
    <2>1. /\ spc[s] \in {"wrap", "subscribed", "broadcast", "lockChannel"}
          /\ spc'[s] \in {"subscribed", "broadcast", "lockChannels", "remove"}
          /\ UNCHANGED << schan, joinAt >> /\ (active' = active \/ UnsubscribeBegin(s))
      BY <1>0, <1>4 DEF SubscribeWrap, UnsubscribeBegin, UnsubscribeBroadcast,
         UnsubscribeLockChannel, SGoto, seenVars, proxyVars
    <2> QED
      BY <2>1 DEF Unregistered
  <1>5. CASE \/ UnsubscribeRemovesNothing(s) \/ UnsubscribeUnlock(s) \/ UnsubscribeClear(s)
             \/ subscription_free(s)
    <2>1. /\ spc[s] \in {"remove", "unlock", "clear", "unsubscribed"}
          /\ spc'[s] \in {"unlock", "clear", "unsubscribed", "gone"}
          /\ UNCHANGED << schan, joinAt, active >>
      BY <1>0, <1>5 DEF UnsubscribeRemovesNothing, UnsubscribeUnlock, UnsubscribeClear,
         subscription_free, SGoto, seenVars, proxyVars
    <2> QED
      BY <2>1 DEF Unregistered
  <1>6. CASE UnsubscribeRemove(s)
    <2>1. /\ spc[s] = "remove" /\ spc'[s] = "unlock" /\ UNCHANGED << schan, joinAt, active >>
      BY <1>0, <1>6 DEF UnsubscribeRemove, SGoto, seenVars
    <2> QED
      BY <2>1 DEF Unregistered
  <1>7. /\ ~SubscribeCreateFails(s) /\ ~SubscribeLinkFails(s)
        /\ ~SubscribeInsertFails(s) /\ ~UnsubscribeLookupFails(s)
    BY <1>0 DEF SubscribeCreateFails, SubscribeLinkFails, LinkFails, CreateFails,
       SubscribeInsertFails, UnsubscribeLookupFails
  <1>8. CASE UnsubscribeGetBlocks(s)
    BY <1>8 DEF UnsubscribeGetBlocks, subVars, seenVars, proxyVars
  <1> QED
    BY <1>1, <1>2, <1>3, <1>4, <1>5, <1>6, <1>7, <1>8 DEF SubscriptionContinues, Unregistered

LEMMA SubscriptionLagStep ==
  ASSUME IInv, LockInv, ProxyInv, NameInv, MemberInv, LagInv, faults = 0, faults' = 0,
         NEW s \in Subs,
         \/ SubscriptionContinues(s) \/ UnsubscribeBegin(s) \/ subscription_free(s)
         \/ \E n \in Names : SubscribeGet(s, n)
  PROVE  LagInv'
  <1>0. /\ SubOK(s) /\ DOMAIN spc = Subs /\ DOMAIN active = Subs
        /\ delivered \in [Subs -> Seq(Messages)] /\ joinAt \in [Subs -> Nat]
        /\ log \in [Channels -> Seq(Messages)]
    BY DEF IInv, LocalInv, TypeInv, SubT, ProxyT, SeenT
  <1>1. /\ UNCHANGED << wpc, todo, log, delivered >>
        /\ \A u \in Subs \ {s} : /\ spc'[u] = spc[u] /\ schan'[u] = schan[u]
                                 /\ active'[u] = active[u] /\ joinAt'[u] = joinAt[u]
    BY SubscriptionFrame DEF IInv, workVars
  <1>2. \A w \in Workers : TodoOK(w)'
    BY <1>1 DEF LagInv, TodoOK
  <1>3. \A u \in Subs, w \in Workers : /\ AtProxy(w, u)' <=> AtProxy(w, u)
                                       /\ Waits(w, u)' <=> Waits(w, u)
    BY <1>1 DEF AtProxy, Waits
  <1>4. \A u \in Subs : /\ Behind(u)' <=> Behind(u)
                        /\ (active'[u] => active[u]) => (Watched(u)' => Watched(u))
    BY <1>3 DEF Behind, Watched
  <1>5. ASSUME NEW u \in Subs \ {s} PROVE LagOK(u)'
    BY <1>1, <1>4, LagFrame DEF LagInv
  <1>6. CASE SubscribeInsert(s)
    <2>1. /\ spc[s] = "insert" /\ spc'[s] = "wrap" /\ UNCHANGED schan
          /\ joinAt' = [joinAt EXCEPT ![s] = Len(log[schan[s]])]
      BY <1>0, <1>6 DEF SubscribeInsert, SGoto
    <2>2. PICK c \in Channels : c = schan[s]
      BY <1>0, <2>1 DEF SubOK, HasChannel
    <2>3. PICK k \in Nat : k = Len(log[c])
      BY <1>0
    <2>4. joinAt'[s] = k /\ delivered[s] = << >> /\ Len(delivered[s]) = 0
      BY <1>0, <2>1, <2>2, <2>3 DEF LagInv, LagOK, Unregistered
    <2>5. ~Behind(s)
      BY <2>1, OnTheWalk DEF Behind, Waits, Listed
    <2>6. Len(log[c]) = joinAt'[s] + Len(delivered[s])
      BY <2>3, <2>4
    <2>7. LagOK(s)'
      BY <1>1, <1>4, <2>1, <2>2, <2>5, <2>6 DEF LagOK, Unregistered
    <2> QED
      BY <1>2, <1>5, <2>7 DEF LagInv
  <1>7. CASE ~SubscribeInsert(s)
    <2>1. /\ spc'[s] \in Unregistered <=> spc[s] \in Unregistered
          /\ spc[s] \notin Unregistered => schan'[s] = schan[s]
          /\ UNCHANGED joinAt /\ (active' = active \/ UnsubscribeBegin(s))
      BY <1>7, SubscriptionStays
    <2>2. active'[s] => active[s]
      BY <1>0, <2>1 DEF UnsubscribeBegin
    <2>3. Watched(s)' => Watched(s)
      BY <1>4, <2>2
    <2>4. Watched(s) => spc[s] \notin Unregistered
      BY WatchedIsListed DEF Listed, Unregistered
    <2>5. LagOK(s)'
      BY <1>1, <1>4, <2>1, <2>3, <2>4, LagFrame DEF LagInv
    <2> QED
      BY <1>2, <1>5, <2>5 DEF LagInv
  <1> QED
    BY <1>6, <1>7

LogInv == OnceInv /\ BegunInv /\ (faults = 0 => LagInv)

LEMMA Logs ==
  Spec => [](IInv /\ LockInv /\ ProxyInv /\ NamesInv /\ MembersInv /\ LogInv)
  <1>1. Init => LogInv
    <2> SUFFICES ASSUME Init PROVE OnceInv /\ BegunInv /\ LagInv
      BY DEF LogInv
    <2>1. /\ pending = << >> /\ completed = {} /\ \A w \in Workers : running[w] = NULL
          /\ \A w \in Workers : wpc[w] = "idle"
          /\ \A c \in Channels : log[c] = << >>
          /\ \A s \in Subs : delivered[s] = << >> /\ ~active[s]
      BY DEF Init, Pool!Init
    <2>2. Range(<< >>) = {} /\ IsInjective(<< >>)
      BY DEF Range, IsInjective
    <2>3. OnceInv
      BY <2>1, <2>2 DEF OnceInv
    <2>4. BegunInv
      <3>1. \A c \in Channels : Range(log[c]) = {}
        BY <2>1 DEF Range
      <3> QED
        BY <2>1, <3>1 DEF BegunInv, BegunOK, LastOK, Walking
    <2>5. LagInv
      BY <2>1 DEF LagInv, LagOK, TodoOK, Watched, AtProxy, Walking
    <2> QED
      BY <2>3, <2>4, <2>5
  <1>2. IInv /\ LockInv /\ ProxyInv /\ NamesInv /\ MembersInv /\ LogInv /\ [Next]_vars => LogInv'
    <2> SUFFICES ASSUME IInv, LockInv, ProxyInv, NamesInv, MembersInv, LogInv, [Next]_vars
                 PROVE  OnceInv' /\ BegunInv' /\ (faults' = 0 => LagInv')
      BY DEF LogInv
    <2>1. OnceInv' /\ BegunInv'
      BY OnceInvStep, BegunInvStep DEF LogInv
    <2>2. ASSUME faults' = 0 PROVE LagInv'
      <3>1. faults = 0 /\ NameInv /\ MemberInv /\ LagInv
        BY <2>2, NoFaultYet DEF NamesInv, MembersInv, LogInv
      <3>2. CASE PublisherStep \/ ReceiverStep \/ message_broker_free \/ UNCHANGED vars
        <4>1. UNCHANGED << wpc, todo, delivered, log, joinAt, active, spc, schan >>
          BY <3>2, PublisherFrame, ReceiverChanges
          DEF ReceiverStep, message_broker_free, vars, workVars, seenVars, proxyVars, subVars
        <4> QED
          BY <3>1, <4>1 DEF LagInv, LagOK, TodoOK, Watched, AtProxy, Behind, Waits
      <3> QED
        BY <2>2, <3>1, <3>2, NextCases, WorkerLagStep, SubscriptionLagStep
        DEF WorkerStep, SubscriptionStep
    <2> QED
      BY <2>1, <2>2
  <1> QED
    BY <1>1, <1>2, Members, PTL DEF Spec

(***************************************************************************)
(* The order of the messages, whichever allocations fail: every message is *)
(* in one log, once, and a subscription gets messages of one log, in the   *)
(* order of that log.                                                      *)
(***************************************************************************)
UniqueLog ==
  \A c, d \in Channels : \A i \in 1..Len(log[c]), j \in 1..Len(log[d]) :
    log[c][i] = log[d][j] => c = d /\ i = j

Before(m, n) ==
  \E c \in Channels : \E a, b \in 1..Len(log[c]) :
    a < b /\ log[c][a] = m /\ log[c][b] = n

OrderOK(s) ==
  /\ spc[s] \in Unregistered => delivered[s] = << >>
  /\ \A c \in Channels : s \in Range(proxies[c]) => Range(delivered[s]) \subseteq Range(log[c])
  /\ \A i, j \in 1..Len(delivered[s]) : i < j => Before(delivered[s][i], delivered[s][j])

\* A worker has still to deliver its message to the proxies before it.
FreshOK(w) ==
  wpc[w] \in Walking =>
    /\ IsInjective(todo[w])
    /\ \A s \in Range(todo[w]) :
         running[w] \in Range(delivered[s]) => wpc[w] = "signal" /\ s = Head(todo[w])

OrderInv == /\ UniqueLog
            /\ \A s \in Subs : OrderOK(s)
            /\ \A w \in Workers : FreshOK(w)

\* How a worker moves along its list.
LEMMA WalkMoves ==
  ASSUME IInv, NEW w \in Workers, _publisher_task(w), ~WorkerLock(w), wpc'[w] \in Walking
  PROVE  \/ todo'[w] = todo[w] /\ wpc[w] # "signal"
         \/ todo[w] # << >> /\ todo'[w] = Tail(todo[w])
  <1>0. DOMAIN wpc = Workers /\ DOMAIN todo = Workers /\ WorkOK(w)
    BY DEF IInv, LocalInv, TypeInv, WorkT
  <1>1. wpc[w] \in Walking
    BY WorkerProgress
  <1>2. CASE WorkerVisit(w) \/ WorkerEnqueue(w) \/ WorkerSignal(w)
    BY <1>0, <1>2 DEF WorkerVisit, WorkerEnqueue, WorkerSignal, NextProxy, WorkOK
  <1>3. CASE WorkerAppend(w)
    <2>1. wpc[w] = "append" /\ (UNCHANGED todo \/ NextProxy(w))
      BY <1>3 DEF WorkerAppend
    <2> QED
      BY <1>0, <2>1 DEF NextProxy, WorkOK
  <1>4. CASE WorkerUnlock(w)
    BY <1>0, <1>4 DEF WorkerUnlock, WGoto, Walking
  <1>5. CASE \/ WorkerStart(w) \/ WorkerGet(w) \/ WorkerCreate(w) \/ WorkerCreateFails(w)
             \/ WorkerLinkFails(w)
    BY <1>1, <1>5 DEF WorkerStart, WorkerGet, WorkerCreate, WorkerCreateFails,
       WorkerLinkFails, Walking
  <1> QED
    BY <1>2, <1>3, <1>4, <1>5 DEF _publisher_task

LogKept ==
  \A c \in Channels : /\ Len(log[c]) \in Nat /\ Len(log'[c]) \in Nat
                      /\ Len(log[c]) <= Len(log'[c])
                      /\ \A i \in 1..Len(log[c]) : log'[c][i] = log[c][i]

LEMMA BeforeStays ==
  ASSUME LogKept, NEW m, NEW n, Before(m, n)
  PROVE  Before(m, n)'
  <1>1. PICK c \in Channels : \E a, b \in 1..Len(log[c]) :
          a < b /\ log[c][a] = m /\ log[c][b] = n
    BY DEF Before
  <1>2. PICK a \in 1..Len(log[c]), b \in 1..Len(log[c]) :
          a < b /\ log[c][a] = m /\ log[c][b] = n
    BY <1>1
  <1>3. /\ a \in 1..Len(log'[c]) /\ b \in 1..Len(log'[c])
        /\ log'[c][a] = m /\ log'[c][b] = n
    BY <1>2 DEF LogKept
  <1> QED
    BY <1>2, <1>3 DEF Before

LEMMA LogStays ==
  ASSUME TypeInv, UNCHANGED log
  PROVE  LogKept /\ (UniqueLog => UniqueLog')
  <1>1. \A c \in Channels : Len(log[c]) \in Nat
    BY DEF TypeInv, SeenT
  <1> QED
    BY <1>1 DEF LogKept, UniqueLog

\* A message whose delivery is about to begin is in no log.
LEMMA BeginsOnce ==
  ASSUME IInv, OnceInv, BegunInv, NEW w \in Workers, wpc[w] = "lock"
  PROVE  \A d \in Channels : running[w] \notin Range(log[d])
  <1>1. running[w] # NULL
    BY DEF IInv, LocalInv, WorkOK
  <1>2. "lock" \notin Walking
    BY DEF Walking
  <1> QED
    BY <1>1, <1>2 DEF OnceInv, BegunInv, BegunOK

LEMMA LockOrders ==
  ASSUME IInv, LockInv, ProxyInv, OnceInv, BegunInv, OrderInv, NEW w \in Workers,
         WorkerLock(w)
  PROVE  OrderInv'
  <1>1. PICK c \in Channels, m \in Messages :
          /\ c = wchan[w] /\ m = running[w] /\ wpc[w] = "lock" /\ wpc'[w] = "each"
          /\ UNCHANGED << wchan, running, completed >>
          /\ log[c] \in Seq(Messages) /\ log'[c] = Append(log[c], m)
          /\ \A d \in Channels \ {c} : log'[d] = log[d]
          /\ UNCHANGED delivered
    BY DeliveryBegins
  <1>2. /\ TypeInv /\ UNCHANGED << spc, proxies >>
        /\ \A v \in Workers \ {w} :
             wpc'[v] = wpc[v] /\ todo'[v] = todo[v] /\ running'[v] = running[v]
    BY WorkerFrame DEF IInv, _publisher_task, subVars
  <1>3. \A d \in Channels : m \notin Range(log[d])
    BY <1>1, BeginsOnce
  <1>4. /\ \A d \in Channels : Len(log[d]) \in Nat
        /\ \A d \in Channels \ {c} : Len(log'[d]) = Len(log[d])
        /\ Len(log'[c]) = Len(log[c]) + 1 /\ log'[c][Len(log[c]) + 1] = m
        /\ \A i \in 1..Len(log[c]) : log'[c][i] = log[c][i]
    <2>1. PICK q \in Seq(Messages) : q = log[c]
      BY <1>1
    <2>2. /\ Len(Append(q, m)) = Len(q) + 1 /\ Append(q, m)[Len(q) + 1] = m
          /\ \A i \in 1..Len(q) : Append(q, m)[i] = q[i]
      BY <2>1
    <2> QED
      BY <1>1, <1>2, <2>1, <2>2 DEF TypeInv, SeenT
  <1>a. ASSUME NEW d \in Channels, NEW i \in 1..Len(log'[d])
        PROVE  \/ i \in 1..Len(log[d]) /\ log'[d][i] = log[d][i]
               \/ d = c /\ i = Len(log[c]) + 1 /\ log'[d][i] = m
    <2>1. CASE d = c
      BY <1>4, <1>a, <2>1
    <2>2. CASE d # c
      BY <1>1, <1>a, <2>2
    <2> QED
      BY <2>1, <2>2
  <1>5. LogKept
    <2> SUFFICES ASSUME NEW d \in Channels
                 PROVE  /\ Len(log[d]) \in Nat /\ Len(log'[d]) \in Nat
                        /\ Len(log[d]) <= Len(log'[d])
                        /\ \A i \in 1..Len(log[d]) : log'[d][i] = log[d][i]
      BY DEF LogKept
    <2>1. CASE d = c
      BY <1>4, <2>1
    <2>2. CASE d # c
      BY <1>1, <1>4, <2>2
    <2> QED
      BY <2>1, <2>2
  <1>6. \A d \in Channels : \A i \in 1..Len(log[d]) : log[d][i] # m
    <2>1. \A d \in Channels : log[d] \in Seq(Messages)
      BY <1>2 DEF TypeInv, SeenT
    <2> QED
      BY <1>3, <2>1 DEF Range
  <1>7. UniqueLog'
    <2> SUFFICES ASSUME NEW d \in Channels, NEW e \in Channels,
                        NEW i \in 1..Len(log'[d]), NEW j \in 1..Len(log'[e]),
                        log'[d][i] = log'[e][j]
                 PROVE  d = e /\ i = j
      BY DEF UniqueLog
    <2>1. \/ i \in 1..Len(log[d]) /\ log'[d][i] = log[d][i]
          \/ d = c /\ i = Len(log[c]) + 1 /\ log'[d][i] = m
      BY <1>a
    <2>2. \/ j \in 1..Len(log[e]) /\ log'[e][j] = log[e][j]
          \/ e = c /\ j = Len(log[c]) + 1 /\ log'[e][j] = m
      BY <1>a
    <2> QED
      BY <1>6, <2>1, <2>2 DEF OrderInv, UniqueLog
  <1>8. ASSUME NEW s \in Subs PROVE OrderOK(s)'
    <2>1. OrderOK(s)
      BY DEF OrderInv
    <2>2. \A d \in Channels : Range(log[d]) \subseteq Range(log'[d])
      <3>1. Range(Append(log[c], m)) = Range(log[c]) \cup {m}
        BY <1>1, RangeOfAppend
      <3> QED
        BY <1>1, <3>1
    <2> QED
      BY <1>1, <1>2, <1>5, <2>1, <2>2, BeforeStays DEF OrderOK
  <1>9. FreshOK(w)'
    <2>1. todo'[w] = proxies[c] \/ todo'[w] = << >>
      BY <1>1, <1>2 DEF WorkerLock, TypeInv, WorkT
    <2>2. IsInjective(proxies[c]) /\ IsInjective(<< >>) /\ Range(<< >>) = {}
      BY DEF ProxyInv, ListOK, IsInjective, Range
    <2>3. proxies[c] \in Seq(Subs)
      BY <1>2 DEF TypeInv, TableT
    <2>4. Range(proxies[c]) \subseteq Subs
      BY <2>3 DEF Range
    <2>5. \A s \in Range(todo'[w]) : m \notin Range(delivered[s])
      BY <1>3, <2>1, <2>2, <2>4 DEF OrderInv, OrderOK
    <2> QED
      BY <1>1, <2>1, <2>2, <2>5 DEF FreshOK
  <1>10. ASSUME NEW v \in Workers \ {w} PROVE FreshOK(v)'
    BY <1>1, <1>2, <1>10 DEF FreshOK, OrderInv
  <1> QED
    BY <1>7, <1>8, <1>9, <1>10 DEF OrderInv

\* The step that delivers a message.
LEMMA AppendOrders ==
  ASSUME IInv, LockInv, ProxyInv, OnceInv, BegunInv, OrderInv, NEW w \in Workers,
         _publisher_task(w), NEW s \in Subs,
         wpc[w] = "append", wpc'[w] = "signal", UNCHANGED << todo, running, wchan >>,
         todo[w] # << >>, s = Head(todo[w]), running[w] \in Messages,
         delivered' = [delivered EXCEPT ![s] = Append(@, running[w])]
  PROVE  OrderInv'
  <1>0. /\ TypeInv /\ wpc[w] \in Walking /\ ~WorkerLock(w) /\ todo[w] \in Seq(Subs)
        /\ wchan[w] \in Channels
    BY DEF IInv, TypeInv, WorkT, WorkerLock, Walking, LocalInv, WorkOK
  <1>1. PICK c \in Channels : c = wchan[w]
    BY <1>0
  <1>2. PICK m \in Messages : m = running[w]
    OBVIOUS
  <1>3. /\ UNCHANGED << spc, proxies, log >>
        /\ \A v \in Workers \ {w} : wpc'[v] = wpc[v]
    BY <1>0, WorkerFrame, WorkerProgress DEF subVars
  <1>4. PICK q \in Seq(Messages) : q = delivered[s]
    BY <1>0 DEF TypeInv, SeenT
  <1>5. /\ delivered'[s] = Append(q, m) /\ Len(Append(q, m)) = Len(q) + 1
        /\ Range(Append(q, m)) = Range(q) \cup {m}
        /\ Append(q, m)[Len(q) + 1] = m /\ Len(q) \in Nat
        /\ \A i \in 1..Len(q) : Append(q, m)[i] = q[i]
        /\ \A t \in Subs \ {s} : delivered'[t] = delivered[t]
    <2>1. DOMAIN delivered = Subs
      BY <1>0 DEF TypeInv, SeenT
    <2>2. Range(Append(q, m)) = Range(q) \cup {m}
      BY <1>4, <1>2, RangeOfAppend
    <2>3. /\ Len(Append(q, m)) = Len(q) + 1 /\ Len(q) \in Nat
          /\ Append(q, m)[Len(q) + 1] = m
          /\ \A i \in 1..Len(q) : Append(q, m)[i] = q[i]
      BY <1>4, <1>2
    <2>4. delivered' = [delivered EXCEPT ![s] = Append(q, m)]
      BY <1>2, <1>4
    <2> QED
      BY <2>1, <2>2, <2>3, <2>4
  <1>6. s \in Range(todo[w]) /\ s \in Range(proxies[c])
    <2>1. s \in Range(todo[w])
      BY <1>0, HeadAndTail
    <2> QED
      BY <1>0, <1>1, <2>1 DEF ProxyInv, WalkOK
  <1>7. m \notin Range(q)
    BY <1>0, <1>2, <1>4, <1>6 DEF OrderInv, FreshOK
  <1>8. LogKept /\ UniqueLog'
    BY <1>0, <1>3, LogStays DEF OrderInv
  <1>9. ASSUME NEW i \in 1..Len(q) PROVE Before(q[i], m)
    <2>1. q[i] \in Range(log[c]) /\ q[i] # m
      <3>1. q[i] \in Range(q)
        BY <1>4 DEF Range
      <3> QED
        BY <1>4, <1>6, <1>7, <3>1 DEF OrderInv, OrderOK
    <2>2. log[c] \in Seq(Messages) /\ log[c] # << >> /\ log[c][Len(log[c])] = m
      BY <1>0, <1>1, <1>2 DEF BegunInv, LastOK, TypeInv, SeenT
    <2>3. PICK a \in 1..Len(log[c]) : log[c][a] = q[i]
      BY <2>1, <2>2 DEF Range
    <2>4. Len(log[c]) \in 1..Len(log[c]) /\ a < Len(log[c])
      BY <2>1, <2>2, <2>3, LenProperties
    <2> QED
      BY <2>2, <2>3, <2>4 DEF Before
  <1>10. OrderOK(s)'
    <2>1. OrderOK(s) /\ spc[s] \notin Unregistered /\ m \in Range(log[c])
      <3>1. log[c] \in Seq(Messages) /\ log[c] # << >> /\ log[c][Len(log[c])] = m
        BY <1>0, <1>1, <1>2 DEF BegunInv, LastOK, TypeInv, SeenT
      <3>2. Len(log[c]) \in DOMAIN log[c]
        BY <3>1
      <3> QED
        BY <1>6, <3>1, <3>2 DEF OrderInv, ProxyInv, ListOK, Range
    <2>2. \A d \in Channels :
            s \in Range(proxies'[d]) => Range(delivered'[s]) \subseteq Range(log'[d])
      <3>1. \A d \in Channels : s \in Range(proxies[d]) => d = c
        BY <1>6 DEF ProxyInv, OneList
      <3>2. Range(q) \subseteq Range(log[c])
        BY <1>4, <1>6, <2>1 DEF OrderOK
      <3> QED
        BY <1>3, <1>5, <2>1, <3>1, <3>2
    <2>3. ASSUME NEW i \in 1..Len(delivered'[s]), NEW j \in 1..Len(delivered'[s]), i < j
          PROVE  Before(delivered[s][i], delivered[s][j])'
      <3>0. PICK n \in Nat : n = Len(q) /\ Len(delivered'[s]) = n + 1
        BY <1>5
      <3>1. i \in 1..Len(q) /\ delivered'[s][i] = q[i]
        <4>1. i \in 1..n
          <5>1. i \in 1..(n + 1) /\ j \in 1..(n + 1) /\ i < j
            BY <2>3, <3>0
          <5> QED
            BY <5>1
        <4>2. i \in 1..Len(q)
          BY <3>0, <4>1
        <4> QED
          BY <1>5, <4>2
      <3>2. CASE j \in 1..Len(q)
        <4>1. delivered'[s][j] = q[j] /\ Before(q[i], q[j])
          BY <1>4, <1>5, <2>1, <2>3, <3>1, <3>2 DEF OrderOK
        <4>2. Before(q[i], q[j])'
          BY <1>8, <4>1, BeforeStays
        <4> QED
          BY <3>1, <4>1, <4>2 DEF Before
      <3>3. CASE j \notin 1..Len(q)
        <4>1. delivered'[s][j] = m
          <5>1. j \in 1..(n + 1) /\ j \notin 1..n
            BY <2>3, <3>0, <3>3
          <5>2. j = n + 1
            BY <5>1
          <5> QED
            BY <1>5, <3>0, <5>2
        <4>2. Before(q[i], m)'
          BY <1>8, <1>9, <3>1, BeforeStays
        <4> QED
          BY <3>1, <4>1, <4>2 DEF Before
      <3> QED
        BY <3>2, <3>3
    <2> QED
      BY <1>3, <2>1, <2>2, <2>3 DEF OrderOK
  <1>11. ASSUME NEW t \in Subs \ {s} PROVE OrderOK(t)'
    BY <1>3, <1>5, <1>8, <1>11, BeforeStays DEF OrderInv, OrderOK
  <1>12. ASSUME NEW v \in Workers PROVE FreshOK(v)'
    <2>1. CASE v = w
      <3>1. Range(todo[w]) \subseteq Subs
        BY <1>0 DEF Range
      <3> QED
        BY <1>0, <1>2, <1>5, <2>1, <3>1 DEF OrderInv, FreshOK
    <2>2. CASE v # w
      <3>1. todo[v] \in Seq(Subs) /\ (wpc[v] \in Walking => running[v] # NULL)
        BY <1>0 DEF TypeInv, WorkT, IInv, LocalInv, WorkOK, Walking
      <3>2. Range(todo[v]) \subseteq Subs
        BY <3>1 DEF Range
      <3>3. wpc[v] \in Walking => running[v] # m
        BY <1>2, <2>2, <3>1 DEF OnceInv
      <3>4. ASSUME wpc[v] \in Walking
            PROVE  \A t \in Subs : running[v] \in Range(delivered'[t]) =>
                                     running[v] \in Range(delivered[t])
        BY <1>4, <1>5, <3>3, <3>4
      <3> QED
        BY <1>3, <2>2, <3>2, <3>4 DEF OrderInv, FreshOK
    <2> QED
      BY <2>1, <2>2
  <1> QED
    BY <1>8, <1>10, <1>11, <1>12 DEF OrderInv

LEMMA WorkerOrders ==
  ASSUME IInv, LockInv, ProxyInv, OnceInv, BegunInv, OrderInv, NEW w \in Workers,
         _publisher_task(w)
  PROVE  OrderInv'
  <1>1. CASE WorkerLock(w)
    BY <1>1, LockOrders
  <1>2. CASE ~WorkerLock(w) /\ UNCHANGED delivered
    <2>0. /\ TypeInv /\ todo[w] \in Seq(Subs) /\ UNCHANGED << spc, proxies, log >>
          /\ \A v \in Workers \ {w} :
               wpc'[v] = wpc[v] /\ todo'[v] = todo[v] /\ running'[v] = running[v]
      BY <1>2, WorkerFrame, WorkerProgress DEF IInv, TypeInv, WorkT, subVars
    <2>1. LogKept /\ UniqueLog'
      BY <2>0, LogStays DEF OrderInv
    <2>2. \A s \in Subs : OrderOK(s)'
      BY <1>2, <2>0, <2>1, BeforeStays DEF OrderInv, OrderOK
    <2>3. \A v \in Workers \ {w} : FreshOK(v)'
      BY <1>2, <2>0 DEF OrderInv, FreshOK
    <2>4. ASSUME wpc'[w] \in Walking PROVE FreshOK(w)'
      <3>1. wpc[w] \in Walking /\ running'[w] = running[w] /\ FreshOK(w)
        BY <1>2, <2>4, WorkerProgress DEF OrderInv
      <3>2. CASE todo'[w] = todo[w] /\ wpc[w] # "signal"
        BY <1>2, <3>1, <3>2 DEF FreshOK
      <3>3. CASE todo[w] # << >> /\ todo'[w] = Tail(todo[w])
        <4>1. /\ IsInjective(Tail(todo[w])) /\ Head(todo[w]) \notin Range(Tail(todo[w]))
              /\ Range(Tail(todo[w])) \subseteq Range(todo[w])
          BY <2>0, <3>1, <3>3, HeadAndTail DEF FreshOK
        <4> QED
          BY <1>2, <3>1, <3>3, <4>1 DEF FreshOK
      <3> QED
        BY <1>2, <2>4, <3>2, <3>3, WalkMoves
    <2> QED
      BY <2>1, <2>2, <2>3, <2>4 DEF OrderInv, FreshOK
  <1> QED
    BY <1>1, <1>2, InboxByWorker, AppendOrders

LEMMA SubscriptionOrders ==
  ASSUME IInv, ProxyInv, OrderInv, NEW s \in Subs,
         \/ SubscriptionContinues(s) \/ UnsubscribeBegin(s) \/ subscription_free(s)
         \/ \E n \in Names : SubscribeGet(s, n)
  PROVE  OrderInv'
  <1>1. TypeInv /\ UNCHANGED << running, wpc, todo, log, delivered >>
    BY SubscriptionFrame DEF IInv, poolVars, workVars
  <1>2. LogKept /\ UniqueLog'
    BY <1>1, LogStays DEF OrderInv
  <1>3. \A w \in Workers : FreshOK(w)'
    BY <1>1 DEF OrderInv, FreshOK
  <1>4. ASSUME NEW u \in Subs PROVE OrderOK(u)'
    <2>1. OrderOK(u) /\ (spc'[u] \in Unregistered => spc[u] \in Unregistered)
      BY <1>1, SubscriptionProgress DEF OrderInv
    <2>2. ASSUME NEW c \in Channels, u \in Range(proxies'[c])
          PROVE  Range(delivered[u]) \subseteq Range(log[c])
      <3>1. CASE u \in Range(proxies[c])
        BY <2>1, <3>1 DEF OrderOK
      <3>2. CASE u \notin Range(proxies[c])
        <4>1. u = s /\ SubscribeInsert(s)
          BY <2>2, <3>2, Membership, WhoChangesLists
        <4>2. delivered[u] = << >>
          BY <2>1, <4>1 DEF SubscribeInsert, Unregistered, OrderOK
        <4> QED
          BY <4>2 DEF Range
      <3> QED
        BY <3>1, <3>2
    <2> QED
      BY <1>1, <1>2, <2>1, <2>2, BeforeStays DEF OrderOK
  <1> QED
    BY <1>2, <1>3, <1>4 DEF OrderInv

LEMMA OrderInvStep ==
  ASSUME IInv, LockInv, ProxyInv, OnceInv, BegunInv, OrderInv, [Next]_vars
  PROVE  OrderInv'
  <1>1. CASE PublisherStep \/ ReceiverStep \/ message_broker_free \/ UNCHANGED vars
    <2>1. /\ TypeInv /\ UNCHANGED << running, wpc, todo, log, delivered, spc >>
          /\ \A c \in Channels : proxies'[c] = proxies[c] \/ proxies'[c] = << >>
      BY <1>1, PublisherFrame, ReceiverChanges, FreeChanges
      DEF IInv, ReceiverStep, message_broker_free, Pool!Destroy, vars, poolVars, tableVars,
          workVars, seenVars, subVars
    <2>2. \A c \in Channels : Range(proxies'[c]) \subseteq Range(proxies[c])
      BY <2>1 DEF Range
    <2>3. LogKept /\ UniqueLog'
      BY <2>1, LogStays DEF OrderInv
    <2>4. \A s \in Subs : OrderOK(s)'
      BY <2>1, <2>2, <2>3, BeforeStays DEF OrderInv, OrderOK
    <2>5. \A w \in Workers : FreshOK(w)'
      BY <2>1 DEF OrderInv, FreshOK
    <2> QED
      BY <2>3, <2>4, <2>5 DEF OrderInv
  <1> QED
    BY <1>1, NextCases, WorkerOrders, SubscriptionOrders DEF WorkerStep, SubscriptionStep

\* What a subscription has got are the first messages delivered to it: all of
\* them, until its proxy is freed with what is left in the inbox.
PrefixOK(s) ==
  /\ Len(Got(s)) \in 0..Len(delivered[s])
  /\ \A i \in 1..Len(Got(s)) : Got(s)[i] = delivered[s][i]

PrefixInv == \A s \in Subs : PrefixOK(s)

\* The inbox of a freed proxy.
LEMMA FreedInbox ==
  ASSUME IInv, ProxyInv, [Next]_vars, NEW u \in Subs, u \in freed'
  PROVE  /\ delivered'[u] = delivered[u] /\ received'[u] = received[u]
         /\ inbox'[u] = inbox[u] \/ inbox'[u] = << >>
  <1>1. CASE PublisherStep \/ message_broker_free \/ UNCHANGED vars
    BY <1>1, PublisherFrame DEF message_broker_free, vars, proxyVars, seenVars, receipts
  <1>2. ASSUME NEW w \in Workers, _publisher_task(w)
        PROVE  UNCHANGED received /\ delivered'[u] = delivered[u] /\ inbox'[u] = inbox[u]
    <2>1. UNCHANGED << freed, received >>
      BY <1>2, WorkerFrame DEF receipts
    <2>2. ASSUME NEW s \in Subs, wpc[w] = "append", todo[w] # << >>, s = Head(todo[w])
          PROVE  s # u
      <3>1. /\ todo[w] \in Seq(Subs) /\ wchan[w] \in Channels /\ wpc[w] \in Walking
        BY <2>2 DEF IInv, TypeInv, WorkT, LocalInv, WorkOK, Walking
      <3>2. s \in Range(todo[w])
        BY <2>2, <3>1, HeadAndTail
      <3>3. s \in Range(proxies[wchan[w]])
        BY <3>1, <3>2 DEF ProxyInv, WalkOK
      <3> QED
        BY <2>1, <3>1, <3>3 DEF ProxyInv, ListOK
    <2> QED
      BY <1>2, <2>1, <2>2, InboxByWorker DEF IInv, TypeInv, ProxyT, SeenT
  <1>3. ASSUME NEW s \in Subs,
               \/ SubscriptionContinues(s) \/ UnsubscribeBegin(s) \/ subscription_free(s)
               \/ \E n \in Names : SubscribeGet(s, n)
        PROVE  /\ UNCHANGED << delivered, received >>
               /\ inbox'[u] = inbox[u] \/ inbox'[u] = << >>
    BY <1>3, InboxBySubscription DEF receipts
  <1>4. ASSUME NEW r \in Receivers,
               \/ ReceiveBegin(r) \/ ReceiverContinues(r) \/ TouchesFreedProxy(r)
               \/ SpuriousWakeup(r)
        PROVE  UNCHANGED delivered /\ received'[u] = received[u] /\ inbox'[u] = inbox[u]
    <2>1. UNCHANGED << freed, delivered >>
      BY <1>4, ReceiverChanges
    <2>2. ASSUME NEW s \in Subs, Takes(r, s)
          PROVE  received'[u] = received[u] /\ inbox'[u] = inbox[u]
      BY <2>1, <2>2 DEF Takes, IInv, TypeInv, ProxyT, SeenT
    <2> QED
      BY <1>4, <2>1, <2>2, InboxByReceiver
  <1> QED
    BY <1>1, <1>2, <1>3, <1>4, NextCases DEF WorkerStep, SubscriptionStep, ReceiverStep

LEMMA PrefixInvStep ==
  ASSUME IInv, ProxyInv, Mailbox, PrefixInv, [Next]_vars
  PROVE  PrefixInv'
  <1> SUFFICES ASSUME NEW u \in Subs PROVE PrefixOK(u)'
    BY DEF PrefixInv
  <1>0. /\ TypeInv' /\ received[u] \in Seq(Messages) /\ inbox[u] \in Seq(Messages)
    BY TypeInvStep DEF IInv, TypeInv, SeenT, ProxyT
  <1>1. CASE u \notin freed'
    <2>1. Got(u)' = delivered'[u] /\ delivered'[u] \in Seq(Messages)
      BY <1>0, <1>1, MailboxStep DEF Mailbox, TypeInv, SeenT
    <2> QED
      BY <2>1 DEF PrefixOK
  <1>2. CASE u \in freed'
    <2>1. /\ delivered'[u] = delivered[u] /\ received'[u] = received[u]
          /\ inbox'[u] = inbox[u] \/ inbox'[u] = << >>
      BY <1>2, FreedInbox
    <2>2. CASE inbox'[u] = inbox[u]
      BY <2>1, <2>2 DEF PrefixInv, PrefixOK, Got
    <2>3. CASE inbox'[u] = << >>
      <3>1. Got(u)' = received[u]
        BY <1>0, <2>1, <2>3 DEF Got
      <3>2. PICK p \in Seq(Messages), q \in Seq(Messages) : p = received[u] /\ q = inbox[u]
        BY <1>0
      <3>3. Len(p \o q) = Len(p) + Len(q) /\ Len(p) \in Nat /\ Len(q) \in Nat
        BY <3>2
      <3>4. \A i \in 1..Len(p) : (p \o q)[i] = p[i]
        BY <3>3, ConcatProperties
      <3>5. /\ Len(p \o q) \in 0..Len(delivered[u])
            /\ \A i \in 1..Len(p \o q) : (p \o q)[i] = delivered[u][i]
        BY <3>2 DEF PrefixInv, PrefixOK, Got
      <3>6. /\ Len(p) \in 0..Len(delivered[u])
            /\ \A i \in 1..Len(p) : p[i] = delivered[u][i]
        BY <3>3, <3>4, <3>5
      <3> QED
        BY <2>1, <3>1, <3>2, <3>6 DEF PrefixOK
    <2> QED
      BY <2>1, <2>2, <2>3
  <1> QED
    BY <1>1, <1>2

LEMMA OrderImplies ==
  ASSUME TypeInv, OrderInv, PrefixInv
  PROVE  SameOrder
  <1> SUFFICES ASSUME NEW s \in Subs, NEW t \in Subs,
                      NEW i \in 1..Len(Got(s)), NEW j \in 1..Len(Got(s)),
                      NEW k \in 1..Len(Got(t)), NEW l \in 1..Len(Got(t)),
                      Got(s)[i] = Got(t)[k], Got(s)[j] = Got(t)[l], i < j
               PROVE  k < l
    BY DEF SameOrder
  <1>1. PICK x, y : x = Got(s)[i] /\ y = Got(s)[j]
    OBVIOUS
  <1>2. /\ i \in 1..Len(delivered[s]) /\ j \in 1..Len(delivered[s])
        /\ k \in 1..Len(delivered[t]) /\ l \in 1..Len(delivered[t])
        /\ delivered[s][i] = x /\ delivered[s][j] = y
        /\ delivered[t][k] = x /\ delivered[t][l] = y
    <2>1. /\ Len(delivered[s]) \in Nat /\ Len(delivered[t]) \in Nat
      BY DEF TypeInv, SeenT
    <2>2. PrefixOK(s) /\ PrefixOK(t)
      BY DEF PrefixInv
    <2> QED
      BY <1>1, <2>1, <2>2 DEF PrefixOK
  <1>3. ~(Before(x, y) /\ Before(y, x))
    <2> SUFFICES ASSUME Before(x, y), Before(y, x) PROVE FALSE
      OBVIOUS
    <2>1. PICK c \in Channels : \E a, b \in 1..Len(log[c]) :
            a < b /\ log[c][a] = x /\ log[c][b] = y
      BY DEF Before
    <2>2. PICK a \in 1..Len(log[c]), b \in 1..Len(log[c]) :
            a < b /\ log[c][a] = x /\ log[c][b] = y
      BY <2>1
    <2>3. PICK d \in Channels : \E e, f \in 1..Len(log[d]) :
            e < f /\ log[d][e] = y /\ log[d][f] = x
      BY DEF Before
    <2>4. PICK e \in 1..Len(log[d]), f \in 1..Len(log[d]) :
            e < f /\ log[d][e] = y /\ log[d][f] = x
      BY <2>3
    <2>5. ASSUME NEW g \in Channels, NEW h \in Channels,
                 NEW u \in 1..Len(log[g]), NEW v \in 1..Len(log[h]), log[g][u] = log[h][v]
          PROVE  u = v
      <3>1. UniqueLog
        BY DEF OrderInv
      <3> QED
        BY <2>5, <3>1 DEF UniqueLog
    <2>6. log[c][b] = log[d][e] /\ log[c][a] = log[d][f]
      BY <2>2, <2>4
    <2>7. b = e /\ a = f
      BY <2>5, <2>6
    <2>8. a \in Int /\ b \in Int /\ a < b /\ b < a
      BY <2>2, <2>4, <2>7
    <2> QED
      BY <2>8
  <1>4. Before(x, y)
    BY <1>2 DEF OrderInv, OrderOK
  <1>5. CASE k = l
    BY <1>2, <1>3, <1>4, <1>5
  <1>6. CASE l < k
    <2>1. Before(y, x)
      BY <1>2, <1>6 DEF OrderInv, OrderOK
    <2> QED
      BY <1>3, <1>4, <2>1
  <1> QED
    BY <1>5, <1>6

\* No two subscriptions get two messages in different orders, and none gets a
\* message twice, whichever allocations fail and whoever cancels: every walk of
\* a list is made under the mutex of its channel, by the worker whose message
\* is the last of the log, and passes each proxy once.
THEOREM SubscribersAgree == Spec => []SameOrder
  <1>1. Init => Mailbox /\ PrefixInv /\ OrderInv
    <2> SUFFICES ASSUME Init PROVE Mailbox /\ PrefixInv /\ OrderInv
      OBVIOUS
    <2>1. /\ \A c \in Channels : log[c] = << >> /\ proxies[c] = << >>
          /\ \A s \in Subs : delivered[s] = << >> /\ Got(s) = << >>
          /\ \A w \in Workers : wpc[w] = "idle"
      BY DEF Init, Got
    <2>2. \A c \in Channels : Range(proxies[c]) = {}
      BY <2>1 DEF Range
    <2> QED
      BY <2>1, <2>2 DEF Mailbox, PrefixInv, PrefixOK, OrderInv, UniqueLog, OrderOK, FreshOK,
         Walking
  <1>2. IInv /\ Mailbox /\ [Next]_vars => Mailbox'
    BY MailboxStep
  <1>3. IInv /\ ProxyInv /\ Mailbox /\ PrefixInv /\ [Next]_vars => PrefixInv'
    BY PrefixInvStep
  <1>4. IInv /\ LockInv /\ ProxyInv /\ LogInv /\ OrderInv /\ [Next]_vars => OrderInv'
    BY OrderInvStep DEF LogInv
  <1>5. IInv /\ PrefixInv /\ OrderInv => SameOrder
    BY OrderImplies DEF IInv
  <1> QED
    BY <1>1, <1>2, <1>3, <1>4, <1>5, Logs, PTL DEF Spec

(***************************************************************************)
(* The refinement.  Registering a proxy joins the log, taking the          *)
(* channel's mutex publishes, putting a message into an inbox delivers,    *)
(* and a subscription leaves when it is inactive and no worker is at it.   *)
(***************************************************************************)
LEMMA LeftIsUnwatched ==
  \A s \in Subs : s \in Left <=> spc[s] \notin Unregistered /\ ~Watched(s)
  BY DEF Left, Unregistered, Watched, AtProxy

LEMMA LeftFrame ==
  ASSUME \A s \in Subs : (spc'[s] \notin Unregistered /\ ~Watched(s)')
                           <=> (spc[s] \notin Unregistered /\ ~Watched(s))
  PROVE  Left' = Left
  <1>1. /\ Left \subseteq Subs /\ Left' \subseteq Subs
        /\ \A s \in Subs : s \in Left' <=> spc'[s] \notin Unregistered /\ ~Watched(s)'
        /\ \A s \in Subs : s \in Left <=> spc[s] \notin Unregistered /\ ~Watched(s)
    BY DEF Left, Unregistered, Watched, AtProxy
  <1> QED
    BY <1>1

\* A worker that changes its place at no inactive proxy.
LEMMA WorkerLeaves ==
  ASSUME IInv, NEW w \in Workers, _publisher_task(w)
  PROVE  /\ UNCHANGED << Joined, joinAt, spc, active >>
         /\ \A s \in Subs :
              active[s] \/ (AtProxy(w, s)' <=> AtProxy(w, s)) => (Watched(s)' <=> Watched(s))
         /\ (\A s \in Subs : active[s] \/ (AtProxy(w, s)' <=> AtProxy(w, s)))
              => Left' = Left
  <1>1. /\ UNCHANGED << spc, schan, active, joinAt >>
        /\ \A v \in Workers \ {w} : wpc'[v] = wpc[v] /\ todo'[v] = todo[v]
    BY WorkerFrame DEF IInv, subVars
  <1>2. UNCHANGED Joined
    BY <1>1 DEF Joined
  <1>3. ASSUME NEW s \in Subs, active[s] \/ (AtProxy(w, s)' <=> AtProxy(w, s))
        PROVE  Watched(s)' <=> Watched(s)
    <2>1. \A v \in Workers \ {w} : AtProxy(v, s)' <=> AtProxy(v, s)
      BY <1>1 DEF AtProxy
    <2> QED
      BY <1>1, <1>3, <2>1 DEF Watched
  <1>4. ASSUME \A s \in Subs : active[s] \/ (AtProxy(w, s)' <=> AtProxy(w, s))
        PROVE  Left' = Left
    BY <1>1, <1>3, <1>4, LeftFrame
  <1> QED
    BY <1>1, <1>2, <1>3, <1>4

LEMMA WorkerRefines ==
  ASSUME IInv, LockInv, ProxyInv, MemberInv, OnceInv, BegunInv, LagInv,
         faults = 0, faults' = 0, NEW w \in Workers, _publisher_task(w)
  PROVE  Log!Next \/ UNCHANGED Log!logVars
  <1>0. /\ WorkOK(w) /\ ~Fault(1) /\ todo[w] \in Seq(Subs)
        /\ DOMAIN wpc = Workers /\ DOMAIN todo = Workers
        /\ delivered \in [Subs -> Seq(Messages)] /\ joinAt \in [Subs -> Nat]
        /\ log \in [Channels -> Seq(Messages)] /\ NULL \notin Channels
    BY ChannelNumbers DEF IInv, LocalInv, TypeInv, WorkT, LagInv, Fault, SeenT
  <1>1. UNCHANGED << Joined, joinAt, active, spc >>
    BY WorkerLeaves
  <1>a. ASSUME UNCHANGED << log, delivered >>,
               \A s \in Subs : active[s] \/ (AtProxy(w, s)' <=> AtProxy(w, s))
        PROVE  UNCHANGED Log!logVars
    BY <1>1, <1>a, WorkerLeaves DEF Log!logVars
  <1>2. CASE WorkerStart(w) \/ WorkerGet(w) \/ WorkerCreate(w) \/ WorkerUnlock(w)
    <2>1. /\ wpc[w] \in {"idle", "get", "create", "each"}
          /\ wpc'[w] \in {"get", "lock", "create", "idle"}
          /\ UNCHANGED << log, delivered >>
      BY <1>0, <1>2 DEF WorkerStart, WorkerGet, WorkerCreate, WorkerUnlock, WGoto, seenVars
    <2> QED
      BY <1>a, <2>1 DEF AtProxy
  <1>3. CASE WorkerVisit(w) \/ WorkerEnqueue(w)
    <2>1. /\ wpc[w] \in {"each", "enqueue"} /\ UNCHANGED << log, delivered >>
          /\ \/ wpc'[w] \in {"each", "enqueue"}
             \/ wpc'[w] = "append" /\ todo'[w] = todo[w] /\ active[Head(todo[w])]
      BY <1>0, <1>3 DEF WorkerVisit, WorkerEnqueue, NextProxy, WGoto, seenVars
    <2> QED
      BY <1>a, <2>1 DEF AtProxy
  <1>4. CASE WorkerLock(w)
    <2>1. PICK c \in Channels, m \in Messages :
            /\ c = wchan[w] /\ m = running[w] /\ wpc[w] = "lock" /\ wpc'[w] = "each"
            /\ log' = [log EXCEPT ![c] = Append(@, m)] /\ UNCHANGED delivered
      BY <1>4, DeliveryBegins
    <2>2. \A k \in Channels : m \notin Range(log[k])
      <3>1. m # NULL /\ m \notin completed
        BY <2>1, ChannelNumbers DEF OnceInv
      <3>2. \A v \in Workers : running[v] = m => wpc[v] \notin Walking
        BY <2>1, <3>1 DEF OnceInv, Walking
      <3> QED
        BY <3>1, <3>2 DEF BegunInv, BegunOK
    <2>3. \A k \in Channels : \A i \in 1..Len(log[k]) : log[k][i] # m
      <3>1. \A k \in Channels : DOMAIN log[k] = 1..Len(log[k])
        BY <1>0
      <3> QED
        BY <2>2, <3>1 DEF Range
    <2>4. Left' = Left
      BY <2>1, WorkerLeaves DEF AtProxy
    <2>5. Log!Publish(c, m)
      BY <1>1, <2>1, <2>3, <2>4 DEF Log!Publish
    <2> QED
      BY <2>5 DEF Log!Next
  <1>5. CASE WorkerAppend(w)
    <2>1. wpc[w] = "append" /\ todo[w] # << >> /\ UNCHANGED log
      BY <1>0, <1>5 DEF WorkerAppend, WorkOK
    <2>2. PICK s \in Subs : s = Head(todo[w])
      BY <1>0, <2>1, HeadAndTail
    <2>3. /\ delivered' = [delivered EXCEPT ![s] = Append(@, running[w])]
          /\ wpc'[w] = "signal" /\ UNCHANGED todo
      BY <1>0, <1>5, <2>2 DEF WorkerAppend, WGoto
    <2>4. AtProxy(w, s) /\ Waits(w, s)
      BY <1>0, <2>1, <2>2, HeadAndTail DEF AtProxy, Waits, Walking
    <2>5. Watched(s) /\ Behind(s) /\ spc[s] \in Listed /\ wchan[w] = schan[s]
          /\ schan[s] \in Channels
      BY <2>4, WatchedIsListed, OnTheWalk DEF Watched, Behind, Waits
    <2>6. PICK c \in Channels : c = schan[s]
      BY <2>5
    <2>7. Joined[s] = c /\ s \notin Left
      BY <2>5, <2>6, LeftIsUnwatched DEF Joined, Listed
    <2>8. PICK k \in Nat : k = joinAt[s] + Len(delivered[s]) + 1
      BY <1>0
    <2>9. Len(log[c]) = k /\ log[c][k] = running[w]
      <3>1. Len(log[c]) = k
        BY <2>5, <2>6, <2>8 DEF LagInv, LagOK
      <3>2. log[c][Len(log[c])] = running[w]
        BY <2>1, <2>5, <2>6 DEF BegunInv, LastOK, Walking
      <3> QED
        BY <3>1, <3>2
    <2>10. Left' = Left
      BY <2>1, <2>3, WorkerLeaves DEF AtProxy
    <2>11. Log!Deliver(s)
      <3>1. Joined[s] # NULL /\ log[Joined[s]][k] = running[w] /\ k <= Len(log[Joined[s]])
        BY <1>0, <2>7, <2>9
      <3> QED
        BY <1>1, <2>1, <2>3, <2>7, <2>8, <2>10, <3>1 DEF Log!Deliver
    <2> QED
      BY <2>11 DEF Log!Next
  <1>6. CASE WorkerSignal(w)
    <2>1. /\ wpc[w] = "signal" /\ todo[w] # << >> /\ UNCHANGED << log, delivered >>
          /\ wpc'[w] = "each"
      BY <1>0, <1>6 DEF WorkerSignal, NextProxy, WGoto, WorkOK, seenVars
    <2>2. PICK s \in Subs : s = Head(todo[w])
      BY <1>0, <2>1, HeadAndTail
    <2>3. AtProxy(w, s) /\ \A u \in Subs : ~AtProxy(w, u)'
      BY <2>1, <2>2 DEF AtProxy
    <2>4. Watched(s) /\ spc[s] \in Listed /\ schan[s] \in Channels
      BY <2>3, WatchedIsListed DEF Watched
    <2>5. CASE active[s]
      BY <1>a, <2>1, <2>2, <2>3, <2>5 DEF AtProxy
    <2>6. CASE ~active[s]
      <3>1. \A v \in Workers \ {w} : ~AtProxy(v, s)
        BY <2>1, <2>2, OneWorkerAtProxy, AtProxyIsOnTheWalk DEF AtProxy, Walking
      <3>2. \A v \in Workers \ {w} : AtProxy(v, s)' <=> AtProxy(v, s)
        BY WorkerFrame DEF IInv, AtProxy
      <3>3. ~Watched(s)'
        BY <1>1, <2>3, <2>6, <3>1, <3>2 DEF Watched
      <3>4. \A u \in Subs \ {s} : Watched(u)' <=> Watched(u)
        BY <2>2, <2>3, WorkerLeaves DEF AtProxy
      <3>5. Left' = Left \cup {s}
        <4>1. Left \subseteq Subs /\ Left' \subseteq Subs
          BY DEF Left
        <4>2. \A u \in Subs : u \in Left' <=> spc'[u] \notin Unregistered /\ ~Watched(u)'
          BY DEF Left, Unregistered, Watched, AtProxy
        <4>3. s \in Left'
          BY <1>1, <2>4, <3>3, <4>2 DEF Listed, Unregistered
        <4> QED
          BY <1>1, <3>4, <4>1, <4>2, <4>3, LeftIsUnwatched
      <3>6. Joined[s] # NULL
        BY <1>0, <2>4 DEF Joined, Listed
      <3>7. Log!Leave(s)
        BY <1>1, <2>1, <3>5, <3>6 DEF Log!Leave
      <3> QED
        BY <3>7 DEF Log!Next
    <2> QED
      BY <2>5, <2>6
  <1>7. ~WorkerCreateFails(w) /\ ~WorkerLinkFails(w)
    BY <1>0 DEF WorkerCreateFails, WorkerLinkFails, LinkFails, CreateFails
  <1> QED
    BY <1>2, <1>3, <1>4, <1>5, <1>6, <1>7 DEF _publisher_task

LEMMA SubscriptionRefines ==
  ASSUME IInv, LockInv, ProxyInv, NameInv, MemberInv, LagInv, faults = 0, faults' = 0,
         NEW s \in Subs,
         \/ SubscriptionContinues(s) \/ UnsubscribeBegin(s) \/ subscription_free(s)
         \/ \E n \in Names : SubscribeGet(s, n)
  PROVE  Log!Next \/ UNCHANGED Log!logVars
  <1>0. /\ SubOK(s) /\ DOMAIN spc = Subs /\ DOMAIN active = Subs /\ NULL \notin Channels
    BY ChannelNumbers DEF IInv, LocalInv, TypeInv, SubT, ProxyT
  <1>1. /\ UNCHANGED << wpc, todo, log, delivered >>
        /\ \A u \in Subs \ {s} : /\ spc'[u] = spc[u] /\ schan'[u] = schan[u]
                                 /\ active'[u] = active[u] /\ joinAt'[u] = joinAt[u]
    BY SubscriptionFrame DEF IInv, workVars
  <1>2. \A u \in Subs \ {s} : Watched(u)' <=> Watched(u)
    BY <1>1 DEF Watched, AtProxy
  <1>3. /\ Left \subseteq Subs /\ Left' \subseteq Subs
        /\ \A u \in Subs : u \in Left' <=> spc'[u] \notin Unregistered /\ ~Watched(u)'
        /\ \A u \in Subs : u \in Left <=> spc[u] \notin Unregistered /\ ~Watched(u)
    BY DEF Left, Unregistered, Watched, AtProxy
  <1>4. \A u \in Subs \ {s} : u \in Left' <=> u \in Left
    BY <1>1, <1>2, <1>3
  <1>5. CASE SubscribeInsert(s)
    <2>1. /\ spc[s] = "insert" /\ spc'[s] = "wrap" /\ UNCHANGED schan /\ active'[s]
          /\ joinAt' = [joinAt EXCEPT ![s] = Len(log[schan[s]])]
      BY <1>0, <1>5 DEF SubscribeInsert, SGoto
    <2>2. PICK c \in Channels : c = schan[s]
      BY <1>0, <2>1 DEF SubOK, HasChannel
    <2>3. Left' = Left
      BY <1>3, <1>4, <2>1 DEF Unregistered, Watched
    <2>4. Joined[s] = NULL /\ Joined' = [Joined EXCEPT ![s] = c]
      BY <1>1, <2>1, <2>2 DEF Joined
    <2>5. Log!Join(s, c)
      BY <1>1, <2>1, <2>2, <2>3, <2>4 DEF Log!Join
    <2> QED
      BY <2>5 DEF Log!Next
  <1>6. CASE ~SubscribeInsert(s)
    <2>1. /\ spc'[s] \in Unregistered <=> spc[s] \in Unregistered
          /\ spc'[s] = "failed" <=> spc[s] = "failed"
          /\ spc[s] \notin Unregistered => schan'[s] = schan[s]
          /\ UNCHANGED joinAt /\ (active' = active \/ UnsubscribeBegin(s))
      BY <1>6, SubscriptionStays
    <2>2. \A u \in Subs : Joined'[u] = Joined[u]
      BY <1>1, <2>1 DEF Joined, Unregistered
    <2>3. Joined' = Joined
      BY <2>2 DEF Joined
    <2>4. CASE Watched(s)' <=> Watched(s)
      <3>1. Left' = Left
        BY <1>3, <1>4, <2>1, <2>4
      <3> QED
        BY <1>1, <2>1, <2>3, <3>1 DEF Log!logVars
    <2>5. CASE ~(Watched(s)' <=> Watched(s))
      <3>1. active' # active
        BY <1>1, <2>5 DEF Watched, AtProxy
      <3>2. UnsubscribeBegin(s)
        BY <2>1, <3>1
      <3>3. spc[s] = "subscribed" /\ ~active'[s]
        BY <1>0, <3>2 DEF UnsubscribeBegin
      <3>4. ~Watched(s)'
        BY <1>1, <2>5, <3>3 DEF Watched, AtProxy
      <3>5. Left' = Left \cup {s}
        BY <1>3, <1>4, <2>1, <3>3, <3>4 DEF Unregistered
      <3>6. Joined[s] # NULL
        BY <1>0, <3>3 DEF Joined, SubOK, HasChannel
      <3>7. Log!Leave(s)
        BY <1>1, <2>1, <2>3, <3>5, <3>6 DEF Log!Leave
      <3> QED
        BY <3>7 DEF Log!Next
    <2> QED
      BY <2>4, <2>5
  <1> QED
    BY <1>5, <1>6

LEMMA StepRefines ==
  ASSUME MaxFaults = 0, IInv, IInv', LockInv, ProxyInv, NamesInv, MembersInv, LogInv,
         [Next]_vars
  PROVE  Log!Next \/ UNCHANGED Log!logVars
  <1>1. faults = 0 /\ faults' = 0
    BY DEF IInv, TypeInv, BoundT
  <1>2. NameInv /\ MemberInv /\ OnceInv /\ BegunInv /\ LagInv
    BY <1>1 DEF NamesInv, MembersInv, LogInv
  <1>3. CASE PublisherStep \/ ReceiverStep \/ message_broker_free \/ UNCHANGED vars
    <2>1. UNCHANGED << wpc, todo, delivered, log, joinAt, active, spc, schan >>
      BY <1>3, PublisherFrame, ReceiverChanges
      DEF ReceiverStep, message_broker_free, vars, workVars, seenVars, proxyVars, subVars
    <2> QED
      BY <2>1 DEF Log!logVars, Joined, Left
  <1> QED
    BY <1>1, <1>2, <1>3, NextCases, WorkerRefines, SubscriptionRefines
    DEF WorkerStep, SubscriptionStep

\* Without failing allocations the broker implements the logs of its
\* channels: whatever the workers, subscribers and cancellers do, the
\* subscribers of a channel see its messages in one order, from the moment
\* they joined and without a gap.
THEOREM ChannelsAreLogs ==
  ASSUME MaxFaults = 0
  PROVE  Spec => ImplementsChannelLog
  <1>1. Init => Log!Init
    <2> SUFFICES ASSUME Init PROVE Log!Init
      OBVIOUS
    <2>1. Left = {} /\ Joined = [s \in Subs |-> NULL]
      BY DEF Init, Left, Joined
    <2> QED
      BY <2>1 DEF Init, Log!Init
  <1>2. IInv /\ IInv' /\ LockInv /\ ProxyInv /\ NamesInv /\ MembersInv /\ LogInv /\ [Next]_vars
          => [Log!Next]_(Log!logVars)
    BY StepRefines
  <1> QED
    BY <1>1, <1>2, Logs, PTL DEF Spec, ImplementsChannelLog, Log!Spec
=============================================================================
