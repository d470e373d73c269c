------------------------- MODULE NetworkServerProofs -------------------------
(***************************************************************************)
(* Proofs about NetworkServer, for any number of connections,              *)
(* subscriptions and messages.                                             *)
(***************************************************************************)
EXTENDS NetworkServer, SequenceLemmas, FiniteSetTheorems

-----------------------------------------------------------------------------
(* Types, together with where the threads of a connection are: a receiver  *)
(* lives while its handler holds the subscription and before it is joined, *)
(* and the connection in the handshake has no handler yet.                 *)

BrokerTypeOK ==
  /\ log \in [{Channel} -> Seq(Messages)]
  /\ member \in [Subs -> {Channel, NULL}]
  /\ start \in [Subs -> Nat]
  /\ view \in [Subs -> Seq(Messages)]
  /\ left \subseteq Subs

Live(c) == receiver[c] \in {"test", "try", "write", "ended"}

ThreadsInv ==
  /\ acceptor = "handshake" => shaking \in Clients /\ pc[shaking] = "off"
  /\ \A c \in Clients :
       /\ Live(c) => pc[c] \in {"read", "stop", "cleanup", "end"}
       /\ Live(c) => subscription[c] # NULL
       /\ held[c] # NULL <=> receiver[c] = "write"
       /\ is_detached[c] => subscription[c] = NULL \/ pc[c] = "spawn"
       /\ pc[c] \in {"spawn", "stop", "add", "end", "release", "hung"}
            => subscription[c] # NULL
       /\ pc[c] \in {"off", "closed"} => subscription[c] = NULL

TypeInv == TypeOK /\ BrokerTypeOK /\ ThreadsInv

\* What the subscription's inbox holds, and that its first message is the one
\* behind those that were taken.
LEMMA InboxHead ==
  ASSUME BrokerTypeOK, taken \in [Subs -> Nat], NEW s \in Subs,
         Inbox(s) # << >>
  PROVE  /\ taken[s] + 1 \in 1..Len(view[s])
         /\ Head(Inbox(s)) = view[s][taken[s] + 1]
         /\ Head(Inbox(s)) \in Messages
  <1>1. view[s] \in Seq(Messages) /\ Len(view[s]) \in Nat /\ taken[s] \in Nat
    BY DEF BrokerTypeOK
  <1>2. taken[s] + 1 \in 1..Len(view[s])
    BY <1>1, SubSeqEmpty DEF Inbox
  <1>3. Head(Inbox(s)) = view[s][taken[s] + 1]
    BY <1>1, <1>2, HeadTailOfSubSeq DEF Inbox
  <1> QED
    BY <1>1, <1>2, <1>3

LEMMA TypeInvInit == Init => TypeInv
  <1> SUFFICES ASSUME Init PROVE TypeInv
    OBVIOUS
  <1> USE ServerAssumption DEF Init, Broker!Init
  <1>1. BrokerTypeOK
    BY DEF BrokerTypeOK
  <1>2. TypeOK
    <2>1. written \in [Subs -> Seq(Messages)]
      OBVIOUS
    <2>2. taken \in [Subs -> Nat] /\ dropped \in [Subs -> SUBSET Messages]
      OBVIOUS
    <2>3. failed \subseteq Clients /\ faults \in 0..MaxFaults
      OBVIOUS
    <2>4. /\ pc \in [Clients -> {"off"}] /\ receiver \in [Clients -> {"none"}]
          /\ subscription \in [Clients -> {NULL}] /\ held \in [Clients -> {NULL}]
      OBVIOUS
    <2> QED
      BY <2>1, <2>2, <2>3, <2>4 DEF TypeOK
  <1>3. ThreadsInv
    BY DEF ThreadsInv, Live
  <1> QED
    BY <1>1, <1>2, <1>3 DEF TypeInv

LEMMA TypeInvReceiver ==
  ASSUME TypeInv, NEW c \in Clients, ReceiverRuns(c)
  PROVE  TypeInv'
  <1> USE ServerAssumption
      DEF TypeInv, TypeOK, BrokerTypeOK, ThreadsInv, Live, Receiver, brokerVars,
          serverVars, handlerVars, messageVars, receiverVars, faultVars
  <1>1. CASE ReceiverTest(c)
    BY <1>1 DEF ReceiverTest
  <1>2. CASE ReceiverTry(c)
    <2> DEFINE s == subscription[c]
    <2>1. CASE s # NULL /\ Inbox(s) # << >>
      <3>1. s \in Subs
        BY <2>1
      <3>2. Head(Inbox(s)) \in Messages
        BY <2>1, <3>1, InboxHead
      <3>3. taken' \in [Subs -> Nat]
        <4>1. taken' = [taken EXCEPT ![s] = taken[s] + 1]
          BY <1>2, <2>1 DEF ReceiverTry
        <4>2. taken \in [Subs -> Nat]
          OBVIOUS
        <4> HIDE DEF TypeInv, s
        <4> QED
          BY <3>1, <4>1, <4>2
      <3>4. held' \in [Clients -> Messages \cup {NULL}]
        <4>1. held' = [held EXCEPT ![c] = Head(Inbox(s))]
          BY <1>2, <2>1 DEF ReceiverTry
        <4>2. held \in [Clients -> Messages \cup {NULL}]
          OBVIOUS
        <4> HIDE DEF TypeInv, s
        <4> QED
          BY <3>2, <4>1, <4>2
      <3>5. TypeOK' /\ BrokerTypeOK'
        <4>1. receiver' = [receiver EXCEPT ![c] = "write"]
          BY <1>2, <2>1 DEF ReceiverTry
        <4>2. UNCHANGED << serverVars, detached, pc, handlerVars, active, peer,
                           brokerVars, submitted, freed, written, dropped, faultVars >>
          BY <1>2 DEF ReceiverTry
        <4> QED
          BY <3>3, <3>4, <4>1, <4>2
      <3>6. ThreadsInv'
        BY <1>2, <2>1, <3>1, <3>2 DEF ReceiverTry
      <3> QED
        BY <3>5, <3>6
    <2>2. CASE ~(s # NULL /\ Inbox(s) # << >>)
      <3>1. /\ receiver[c] = "try" /\ receiver' = [receiver EXCEPT ![c] = "test"]
            /\ UNCHANGED << held, taken >>
        BY <1>2, <2>2 DEF ReceiverTry
      <3>2. UNCHANGED << serverVars, detached, pc, handlerVars, active, peer,
                         brokerVars, submitted, freed, written, dropped, faultVars >>
        BY <1>2 DEF ReceiverTry
      <3>3. TypeOK' /\ BrokerTypeOK'
        BY <3>1, <3>2
      <3>4. ThreadsInv'
        BY <3>1, <3>2
      <3> QED
        BY <3>3, <3>4
    <2> QED
      BY <2>1, <2>2
  <1>3. CASE ReceiverWrite(c)
    <2>1. subscription[c] \in Subs /\ held[c] \in Messages
      BY <1>3 DEF ReceiverWrite
    <2> DEFINE s == subscription[c]
    <2>2. /\ written' = [written EXCEPT ![s] = Append(written[s], held[c])]
             \/ written' = written
          /\ dropped' = [dropped EXCEPT ![s] = dropped[s] \cup {held[c]}]
             \/ dropped' = dropped
      BY <1>3 DEF ReceiverWrite
    <2>3. written' \in [Subs -> Seq(Messages)] /\ dropped' \in [Subs -> SUBSET Messages]
      <3>1. written \in [Subs -> Seq(Messages)] /\ dropped \in [Subs -> SUBSET Messages]
        OBVIOUS
      <3> HIDE DEF TypeInv, s
      <3>2. Append(written[s], held[c]) \in Seq(Messages)
        BY <2>1, <3>1, AppendProperties DEF s
      <3>3. written' \in [Subs -> Seq(Messages)]
        BY <2>1, <2>2, <3>1, <3>2
      <3>4. dropped' \in [Subs -> SUBSET Messages]
        BY <2>1, <2>2, <3>1
      <3> QED
        BY <3>3, <3>4
    <2>4. failed' = failed /\ faults' \in 0..MaxFaults
      BY <1>3 DEF ReceiverWrite, Fault, faultVars
    <2>5. TypeOK' /\ BrokerTypeOK'
      BY <1>3, <2>3, <2>4 DEF ReceiverWrite
    <2>6. ThreadsInv'
      BY <1>3, <2>1 DEF ReceiverWrite
    <2> QED
      BY <2>5, <2>6
  <1> QED
    BY <1>1, <1>2, <1>3 DEF ReceiverRuns

LEMMA TypeInvHandler ==
  ASSUME TypeInv, NEW c \in Clients, HandlerRuns(c)
  PROVE  TypeInv'
  <1> USE ServerAssumption
      DEF TypeInv, TypeOK, BrokerTypeOK, ThreadsInv, Live, Receiver, Goto,
          NextCommand, brokerVars, serverVars, handlerVars, messageVars,
          receiverVars, faultVars
  <1>1. CASE Spawn(c)
    <2>0. failed' \subseteq Clients /\ faults' \in 0..MaxFaults
      BY <1>1 DEF Spawn, CreateReceiver, FaultOf, Fault
    <2>1. TypeOK' /\ BrokerTypeOK'
      BY <1>1, <2>0 DEF Spawn, CreateReceiver
    <2>2. ThreadsInv'
      BY <1>1 DEF Spawn, CreateReceiver
    <2> QED
      BY <2>1, <2>2
  <1>2. CASE DetachJoin(c)
    <2>0. /\ main' \in {main, "killed"}
          /\ \E l \in {"add", "release", "hung"} : pc' \in {pc, [pc EXCEPT ![c] = l]}
          /\ receiver' \in {receiver, [receiver EXCEPT ![c] = "none"]}
          /\ UNCHANGED << running, listening, acceptor, shaking, detached, handlerVars,
                          active, held, peer, messageVars, faultVars >>
      BY <1>2 DEF DetachJoin, JoinThen
    <2>1. TypeOK' /\ BrokerTypeOK'
      <3>1. pc' \in [Clients -> {"off", "read", "spawn", "stop", "add", "touch",
                         "cleanup", "end", "release", "close", "hung", "closed"}]
        BY <2>0
      <3>2. receiver' \in [Clients -> {"none", "test", "try", "write", "ended"}]
        BY <2>0
      <3> QED
        BY <2>0, <3>1, <3>2
    <2>2. ThreadsInv'
      BY <1>2 DEF DetachJoin, JoinThen
    <2> QED
      BY <2>1, <2>2
  <1>3. CASE DetachAdd(c)
    <2>0. failed' \subseteq Clients /\ faults' \in 0..MaxFaults
      BY <1>3 DEF DetachAdd, FaultOf, Fault
    <2>1. /\ pc[c] = "add" /\ subscription[c] \in Subs
          /\ detached' \in {detached, detached \cup {subscription[c]}}
          /\ \E l \in {"touch", "read", "cleanup"} : pc' = [pc EXCEPT ![c] = l]
          /\ UNCHANGED << serverVars, handlerVars, active, receiverVars, peer,
                          messageVars >>
      BY <1>3 DEF DetachAdd, _add_detached
    <2>2. TypeOK' /\ BrokerTypeOK'
      BY <2>0, <2>1
    <2>3. ThreadsInv'
      BY <2>1
    <2> QED
      BY <2>2, <2>3
  <1>4. CASE DetachTouch(c)
    BY <1>4 DEF DetachTouch
  <1>5. CASE Cleanup(c)
    BY <1>5 DEF Cleanup
  <1>6. CASE CleanupJoin(c)
    <2>0. /\ main' \in {main, "killed"}
          /\ \E l \in {"add", "release", "hung"} : pc' \in {pc, [pc EXCEPT ![c] = l]}
          /\ receiver' \in {receiver, [receiver EXCEPT ![c] = "none"]}
          /\ UNCHANGED << running, listening, acceptor, shaking, detached, handlerVars,
                          active, held, peer, messageVars, faultVars >>
      BY <1>6 DEF CleanupJoin, JoinThen
    <2>1. TypeOK' /\ BrokerTypeOK'
      <3>1. pc' \in [Clients -> {"off", "read", "spawn", "stop", "add", "touch",
                         "cleanup", "end", "release", "close", "hung", "closed"}]
        BY <2>0
      <3>2. receiver' \in [Clients -> {"none", "test", "try", "write", "ended"}]
        BY <2>0
      <3> QED
        BY <2>0, <3>1, <3>2
    <2>2. ThreadsInv'
      BY <1>6 DEF CleanupJoin, JoinThen
    <2> QED
      BY <2>1, <2>2
  <1>7. CASE CleanupRelease(c)
    BY <1>7 DEF CleanupRelease, Release, Broker!Leave
  <1>8. CASE CleanupClose(c)
    BY <1>8 DEF CleanupClose
  <1> QED
    BY <1>1, <1>2, <1>3, <1>4, <1>5, <1>6, <1>7, <1>8 DEF HandlerRuns

LEMMA TypeInvPeer ==
  ASSUME TypeInv, NEW c \in Clients, PeerActs(c) \/ SigPipe(c)
  PROVE  TypeInv'
  <1> USE ServerAssumption
      DEF TypeInv, TypeOK, BrokerTypeOK, ThreadsInv, Live, Goto, NextCommand,
          Command, brokerVars, serverVars, handlerVars, messageVars,
          receiverVars, faultVars
  <1>1. CASE Refuse(c)
    BY <1>1 DEF Refuse
  <1>2. CASE EndOfSession(c)
    BY <1>2 DEF EndOfSession
  <1>3. CASE _handle_auth(c)
    BY <1>3 DEF _handle_auth
  <1>4. CASE _handle_publish(c)
    BY <1>4 DEF _handle_publish, Unpublished
  <1>5. CASE _handle_subscribe(c)
    <2>1. Channel \in {Channel} /\ Len(log[Channel]) \in Nat
      BY LenProperties
    <2> QED
      BY <1>5, <2>1 DEF _handle_subscribe, Broker!Join
  <1>6. CASE _handle_attach(c)
    BY <1>6 DEF _handle_attach, _find_and_remove_detached
  <1>7. CASE _handle_detach(c)
    BY <1>7 DEF _handle_detach
  <1>8. CASE WriteBlocks(c) \/ Disconnect(c)
    <2>1. /\ \E p \in {"stalled", "gone"} : peer' = [peer EXCEPT ![c] = p]
          /\ UNCHANGED << serverVars, detached, pc, handlerVars, active,
                          receiverVars, messageVars, faultVars >>
      BY <1>8 DEF WriteBlocks, Disconnect
    <2> QED
      BY <2>1
  <1>9. CASE SigPipe(c)
    BY <1>9 DEF SigPipe
  <1>10. CASE CleanupClose(c)
    BY <1>10 DEF CleanupClose
  <1> QED
    BY <1>1, <1>2, <1>3, <1>4, <1>5, <1>6, <1>7, <1>8, <1>9, <1>10 DEF PeerActs

LEMMA TypeInvServer ==
  ASSUME TypeInv,
         \/ BrokerRuns \/ ServerRuns \/ HandshakeEnds
         \/ network_server_start \/ network_server_stop \/ network_server_free
  PROVE  TypeInv'
  <1> USE ServerAssumption
      DEF TypeInv, TypeOK, BrokerTypeOK, ThreadsInv, Live, Goto, NextCommand,
          NextConnection, brokerVars, serverVars, handlerVars, messageVars,
          receiverVars, faultVars
  <1>1. CASE BrokerLogs
    BY <1>1, AppendProperties DEF BrokerLogs, Broker!Publish
  <1>2. CASE BrokerDelivers
    <2>1. PICK s \in Subs : Broker!Deliver(s)
      BY <1>2 DEF BrokerDelivers
    <2> DEFINE next == start[s] + Len(view[s]) + 1
    <2>2. member[s] = Channel /\ next \in 1..Len(log[Channel])
      BY <2>1 DEF Broker!Deliver
    <2>3. log[Channel][next] \in Messages
      BY <2>2
    <2> QED
      BY <1>2, <2>1, <2>2, <2>3, AppendProperties
      DEF BrokerDelivers, Broker!Deliver
  <1>3. CASE AcceptReturns
    BY <1>3 DEF AcceptReturns
  <1>4. CASE StopShutdown
    BY <1>4 DEF StopShutdown
  <1>5. CASE StopJoin
    BY <1>5 DEF StopJoin
  <1>6. CASE HandshakeEnds
    <2>1. TypeOK' /\ BrokerTypeOK'
      BY <1>6 DEF HandshakeEnds
    <2>2. ThreadsInv'
      BY <1>6 DEF HandshakeEnds
    <2> QED
      BY <2>1, <2>2
  <1>7. CASE network_server_start
    BY <1>7 DEF network_server_start
  <1>8. CASE network_server_stop
    BY <1>8 DEF network_server_stop
  <1>9. CASE network_server_free
    BY <1>9 DEF network_server_free, Release, Broker!Leave
  <1> QED
    BY <1>1, <1>2, <1>3, <1>4, <1>5, <1>6, <1>7, <1>8, <1>9
    DEF BrokerRuns, ServerRuns

LEMMA TypeInvariant == Spec => []TypeInv
  <1>1. TypeInv /\ [Next]_vars => TypeInv'
    <2> SUFFICES ASSUME TypeInv, [Next]_vars PROVE TypeInv'
      OBVIOUS
    <2>1. CASE Next
      BY <2>1, TypeInvReceiver, TypeInvHandler, TypeInvPeer, TypeInvServer
      DEF Next, ReadFails, PeerActs
    <2>2. CASE UNCHANGED vars
      BY <2>2
      DEF TypeInv, TypeOK, BrokerTypeOK, ThreadsInv, Live, vars, brokerVars,
          serverVars, handlerVars, messageVars, receiverVars, faultVars
    <2> QED
      BY <2>1, <2>2
  <1> QED
    BY TypeInvInit, <1>1, PTL DEF Spec

\* Every variable of the server keeps its type.
THEOREM TypeCorrect == Spec => []TypeOK
  BY TypeInvariant, PTL DEF TypeInv

-----------------------------------------------------------------------------
(* Who owns a subscription.  It is with one connection or in the list, and *)
(* a connection that holds one has a receiver to join, if nothing of its   *)
(* own has failed since its last receiver was created.                     *)

Holds(c) == subscription[c] # NULL /\ pc[c] \notin {"touch", "close", "closed"}

InUse(s) == member[s] # NULL /\ s \notin left

OwnerInv ==
  /\ freed = left
  /\ \A s \in left : member[s] # NULL
  /\ \A c \in Clients : Holds(c) => InUse(subscription[c]) /\ subscription[c] \notin detached
  /\ \A c, d \in Clients :
       Holds(c) /\ Holds(d) /\ subscription[c] = subscription[d] => c = d
  /\ \A s \in detached : InUse(s)
  /\ \A s \in Subs : InUse(s) =>
       s \in detached \/ \E c \in Clients : Holds(c) /\ subscription[c] = s

JoinInv ==
  \A c \in Clients : c \notin failed =>
    (Holds(c) /\ pc[c] \in {"read", "cleanup", "stop", "end"} => Live(c))

\* What the steps need of the types.
OwnerTypes ==
  /\ DOMAIN pc = Clients /\ DOMAIN receiver = Clients
  /\ subscription \in [Clients -> Subs \cup {NULL}]
  /\ DOMAIN member = Subs /\ detached \subseteq Subs /\ left \subseteq Subs

LEMMA TypesOfOwner == TypeInv => OwnerTypes /\ ThreadsInv
  BY DEF TypeInv, TypeOK, BrokerTypeOK, OwnerTypes

LEMMA OwnerInvInit == Init => OwnerInv /\ JoinInv
  BY DEF Init, Broker!Init, OwnerInv, JoinInv, Holds, InUse

LEMMA OwnerInvHandler ==
  ASSUME OwnerTypes, ThreadsInv, OwnerInv, JoinInv, NEW c \in Clients, HandlerRuns(c)
  PROVE  OwnerInv' /\ JoinInv'
  <1> USE ServerAssumption
      DEF OwnerTypes, ThreadsInv, Live, OwnerInv, JoinInv,
          Holds, InUse, Receiver, Goto, NextCommand, brokerVars, serverVars,
          handlerVars, messageVars, receiverVars, faultVars
  <1>1. CASE Spawn(c)
    BY <1>1 DEF Spawn, CreateReceiver, FaultOf
  <1>2. CASE DetachJoin(c)
    <2>1. OwnerInv'
      <3>1. \A d \in Clients : Holds(d)' <=> Holds(d)
        BY <1>2 DEF DetachJoin, JoinThen
      <3>2. UNCHANGED << subscription, detached, freed, left, member >>
        BY <1>2 DEF DetachJoin, JoinThen
      <3> HIDE DEF Holds
      <3> QED
        BY <3>1, <3>2
    <2>2. JoinInv'
      BY <1>2 DEF DetachJoin, JoinThen
    <2> QED
      BY <2>1, <2>2
  <1>3. CASE DetachAdd(c)
    <2>1. OwnerInv'
      BY <1>3 DEF DetachAdd, _add_detached, FaultOf
    <2>2. JoinInv'
      BY <1>3 DEF DetachAdd, _add_detached, FaultOf
    <2> QED
      BY <2>1, <2>2
  <1>4. CASE DetachTouch(c)
    BY <1>4 DEF DetachTouch
  <1>5. CASE Cleanup(c)
    BY <1>5 DEF Cleanup
  <1>6. CASE CleanupJoin(c)
    <2>1. OwnerInv'
      <3>1. \A d \in Clients : Holds(d)' <=> Holds(d)
        BY <1>6 DEF CleanupJoin, JoinThen
      <3>2. UNCHANGED << subscription, detached, freed, left, member >>
        BY <1>6 DEF CleanupJoin, JoinThen
      <3> HIDE DEF Holds
      <3> QED
        BY <3>1, <3>2
    <2>2. JoinInv'
      BY <1>6 DEF CleanupJoin, JoinThen
    <2> QED
      BY <2>1, <2>2
  <1>7. CASE CleanupRelease(c)
    <2>1. OwnerInv'
      BY <1>7 DEF CleanupRelease, Release, Broker!Leave
    <2>2. JoinInv'
      BY <1>7 DEF CleanupRelease, Release, Broker!Leave
    <2> QED
      BY <2>1, <2>2
  <1>8. CASE CleanupClose(c)
    BY <1>8 DEF CleanupClose
  <1> QED
    BY <1>1, <1>2, <1>3, <1>4, <1>5, <1>6, <1>7, <1>8 DEF HandlerRuns

LEMMA OwnerInvPeer ==
  ASSUME OwnerTypes, ThreadsInv, OwnerInv, JoinInv, NEW c \in Clients,
         PeerActs(c) \/ SigPipe(c) \/ ReceiverRuns(c)
  PROVE  OwnerInv' /\ JoinInv'
  <1> USE ServerAssumption
      DEF OwnerTypes, ThreadsInv, Live, OwnerInv, JoinInv,
          Holds, InUse, Receiver, Goto, NextCommand, Command, brokerVars,
          serverVars, handlerVars, messageVars, receiverVars, faultVars
  <1>1. CASE Refuse(c)
    BY <1>1 DEF Refuse
  <1>2. CASE EndOfSession(c)
    BY <1>2 DEF EndOfSession
  <1>3. CASE _handle_auth(c)
    BY <1>3 DEF _handle_auth
  <1>4. CASE _handle_publish(c)
    BY <1>4 DEF _handle_publish
  <1>5. CASE _handle_subscribe(c)
    <2>1. OwnerInv'
      <3>1. PICK s \in Subs :
              /\ member[s] = NULL /\ member' = [member EXCEPT ![s] = Channel]
              /\ subscription' = [subscription EXCEPT ![c] = s]
              /\ UNCHANGED left
        BY <1>5 DEF _handle_subscribe, Broker!Join
      <3>2. /\ pc[c] = "read" /\ pc' = [pc EXCEPT ![c] = "spawn"]
            /\ subscription[c] = NULL /\ UNCHANGED << detached, freed >>
        BY <1>5 DEF _handle_subscribe
      <3>3. s \notin detached \cup left /\ \A d \in Clients : Holds(d) => subscription[d] # s
        BY <3>1
      <3> QED
        BY <3>1, <3>2, <3>3
    <2>2. JoinInv'
      BY <1>5 DEF _handle_subscribe, Broker!Join
    <2> QED
      BY <2>1, <2>2
  <1>6. CASE _handle_attach(c)
    BY <1>6 DEF _handle_attach, _find_and_remove_detached
  <1>7. CASE _handle_detach(c)
    BY <1>7 DEF _handle_detach
  <1>8. CASE WriteBlocks(c) \/ Disconnect(c)
    BY <1>8 DEF WriteBlocks, Disconnect
  <1>9. CASE SigPipe(c)
    BY <1>9 DEF SigPipe
  <1>10. CASE ReceiverTest(c)
    BY <1>10 DEF ReceiverTest
  <1>11. CASE ReceiverTry(c)
    <2>1. OwnerInv'
      BY <1>11 DEF ReceiverTry
    <2>2. JoinInv'
      BY <1>11 DEF ReceiverTry
    <2> QED
      BY <2>1, <2>2
  <1>12. CASE ReceiverWrite(c)
    BY <1>12 DEF ReceiverWrite
  <1>13. CASE CleanupClose(c)
    BY <1>13 DEF CleanupClose
  <1> QED
    BY <1>1, <1>2, <1>3, <1>4, <1>5, <1>6, <1>7, <1>8, <1>9, <1>10, <1>11,
       <1>12, <1>13
    DEF PeerActs, ReceiverRuns

LEMMA OwnerInvServer ==
  ASSUME OwnerTypes, ThreadsInv, OwnerInv, JoinInv,
         \/ BrokerRuns \/ ServerRuns \/ HandshakeEnds
         \/ network_server_start \/ network_server_stop \/ network_server_free
  PROVE  OwnerInv' /\ JoinInv'
  <1> USE ServerAssumption
      DEF OwnerTypes, ThreadsInv, Live, OwnerInv, JoinInv,
          Holds, InUse, Goto, NextCommand, brokerVars, serverVars, handlerVars,
          messageVars, receiverVars, faultVars
  <1>1. CASE BrokerLogs
    BY <1>1 DEF BrokerLogs, Broker!Publish
  <1>2. CASE BrokerDelivers
    BY <1>2 DEF BrokerDelivers, Broker!Deliver
  <1>3. CASE HandshakeEnds
    <2>1. OwnerInv'
      <3>1. \A d \in Clients : Holds(d)' <=> Holds(d)
        BY <1>3 DEF HandshakeEnds
      <3>2. UNCHANGED << subscription, detached, freed, left, member >>
        BY <1>3 DEF HandshakeEnds
      <3> HIDE DEF Holds
      <3> QED
        BY <3>1, <3>2
    <2>2. JoinInv'
      BY <1>3 DEF HandshakeEnds
    <2> QED
      BY <2>1, <2>2
  <1>4. CASE network_server_free
    <2>1. OwnerInv'
      BY <1>4 DEF network_server_free, Release, Broker!Leave
    <2>2. JoinInv'
      BY <1>4 DEF network_server_free, Release, Broker!Leave
    <2> QED
      BY <2>1, <2>2
  <1>5. CASE UNCHANGED << pc, subscription, receiver, detached, freed, left,
                          member, failed >>
    BY <1>5
  <1> QED
    BY <1>1, <1>2, <1>3, <1>4, <1>5
    DEF BrokerRuns, ServerRuns, AcceptReturns, StopShutdown, StopJoin,
        network_server_start, network_server_stop

LEMMA OwnerInvariant == Spec => [](TypeInv /\ OwnerInv /\ JoinInv)
  <1>1. TypeInv /\ OwnerInv /\ JoinInv /\ [Next]_vars => OwnerInv' /\ JoinInv'
    <2> SUFFICES ASSUME TypeInv, OwnerInv, JoinInv, [Next]_vars
                 PROVE  OwnerInv' /\ JoinInv'
      OBVIOUS
    <2>1. CASE Next
      BY <2>1, TypesOfOwner, OwnerInvHandler, OwnerInvPeer, OwnerInvServer
      DEF Next, ReadFails, PeerActs
    <2>2. CASE UNCHANGED vars
      BY <2>2
      DEF OwnerInv, JoinInv, Holds, InUse, Live, vars, brokerVars, serverVars,
          handlerVars, messageVars, receiverVars, faultVars
    <2> QED
      BY <2>1, <2>2
  <1> QED
    BY TypeInvariant, OwnerInvInit, <1>1, PTL DEF Spec

\* Over all connections at most one receiver thread reads a subscription,
\* and never one that was freed or a connection without it: the discipline
\* that subscription_try_receive needs.
THEOREM SubscriptionHasOneReader == Spec => []OneReader
  <1>1. ASSUME TypeInv, OwnerInv PROVE OneReader
    <2>1. ASSUME NEW c \in Clients, Reads(c)
          PROVE  Holds(c) /\ pc[c] \notin {"touch", "close", "closed"}
      BY <1>1, <2>1 DEF TypeInv, ThreadsInv, Reads, Live, Holds
    <2> QED
      BY <1>1, <2>1 DEF OwnerInv, OneReader, Holds, InUse
  <1> QED
    BY <1>1, OwnerInvariant, PTL

\* Every subscription has exactly one owner from message_broker_subscribe to
\* its release, a connection or the list of detached ones.
THEOREM SubscriptionHasOneOwner == Spec => []SubscriptionOwned
  <1>1. ASSUME TypeInv, OwnerInv PROVE SubscriptionOwned
    <2> USE ServerAssumption DEF TypeInv, TypeOK
    <2> SUFFICES ASSUME NEW s \in Subs
                 PROVE  IF InUse(s)
                        THEN Cardinality(Holders(s)) + (IF s \in detached THEN 1 ELSE 0) = 1
                        ELSE Holders(s) = {} /\ s \notin detached
      BY DEF SubscriptionOwned, InUse
    <2>1. Holders(s) = { c \in Clients : Holds(c) /\ subscription[c] = s }
      BY DEF Holders, Holds
    <2>2. CASE ~InUse(s)
      BY <1>1, <2>1, <2>2 DEF OwnerInv
    <2>3. CASE s \in detached
      <3>1. Holders(s) = {} /\ InUse(s)
        BY <1>1, <2>1, <2>3 DEF OwnerInv
      <3> QED
        BY <2>3, <3>1, FS_EmptySet
    <2>4. CASE InUse(s) /\ s \notin detached
      <3>1. PICK c \in Clients : Holds(c) /\ subscription[c] = s
        BY <1>1, <2>4 DEF OwnerInv
      <3>2. Holders(s) = {c}
        BY <1>1, <2>1, <3>1 DEF OwnerInv
      <3>3. Cardinality({c}) = 1
        BY FS_Singleton
      <3> QED
        BY <2>4, <3>2, <3>3
    <2> QED
      BY <2>2, <2>3, <2>4
  <1> QED
    BY <1>1, OwnerInvariant, PTL

\* Each receiver thread is joined once and pthread_join is called for no
\* other, on every connection but one whose last pthread_create failed or
\* whose last DETACH found no memory for the list's node, whatever has failed
\* on other connections.
THEOREM ReceiversJoinedOnce == Spec => []JoinsOnce
  <1>1. TypeInv /\ JoinInv => JoinsOnce
    BY DEF TypeInv, TypeOK, ThreadsInv, JoinInv, JoinsOnce, Live, Holds
  <1> QED
    BY <1>1, OwnerInvariant, PTL

-----------------------------------------------------------------------------
(* What a subscription is given is a part of the log, without repetition,  *)
(* and a receiver holds the last message that was taken.                   *)

LogInv ==
  /\ \A i, j \in 1..Len(log[Channel]) : log[Channel][i] = log[Channel][j] => i = j
  /\ \A s \in Subs :
       /\ start[s] + Len(view[s]) <= Len(log[Channel])
       /\ \A i \in 1..Len(view[s]) : view[s][i] = log[Channel][start[s] + i]
       /\ member[s] = NULL => view[s] = << >>

TakenInv ==
  /\ \A s \in Subs : taken[s] <= Len(view[s])
  /\ \A c \in Clients : held[c] # NULL =>
       LET s == subscription[c]
       IN taken[s] > 0 /\ held[c] = view[s][taken[s]]

LEMMA LogInvInit == Init => LogInv /\ TakenInv
  BY DEF Init, Broker!Init, LogInv, TakenInv

\* A part of a log without repetition has none either.
LEMMA ViewInjective ==
  ASSUME BrokerTypeOK, LogInv, NEW s \in Subs,
         NEW i \in 1..Len(view[s]), NEW j \in 1..Len(view[s]),
         view[s][i] = view[s][j]
  PROVE  i = j
  <1>1. /\ log[Channel] \in Seq(Messages) /\ view[s] \in Seq(Messages)
        /\ start[s] \in Nat
    BY DEF BrokerTypeOK
  <1>2. start[s] + i \in 1..Len(log[Channel]) /\ start[s] + j \in 1..Len(log[Channel])
    BY <1>1 DEF LogInv
  <1>3. log[Channel][start[s] + i] = log[Channel][start[s] + j]
    BY DEF LogInv
  <1>4. start[s] + i = start[s] + j
    BY <1>2, <1>3 DEF LogInv
  <1> QED
    BY <1>1, <1>4

LEMMA LogInvStep ==
  ASSUME BrokerTypeOK, LogInv, [Next]_vars
  PROVE  LogInv'
  <1> USE DEF brokerVars, messageVars
  <1>0. /\ log[Channel] \in Seq(Messages) /\ DOMAIN log = {Channel}
        /\ \A s \in Subs : view[s] \in Seq(Messages) /\ start[s] \in Nat
        /\ DOMAIN view = Subs /\ DOMAIN start = Subs
        /\ member \in [Subs -> {Channel, NULL}]
    BY DEF BrokerTypeOK
  <1>1. CASE BrokerLogs
    <2>1. PICK m \in submitted : Broker!Publish(Channel, m)
      BY <1>1 DEF BrokerLogs
    <2>2. /\ \A i \in 1..Len(log[Channel]) : log[Channel][i] # m
          /\ log'[Channel] = Append(log[Channel], m)
          /\ UNCHANGED << member, start, view, left >>
      BY <1>0, <2>1 DEF Broker!Publish
    <2>3. /\ Len(log'[Channel]) = Len(log[Channel]) + 1
          /\ \A i \in 1..Len(log[Channel]) : log'[Channel][i] = log[Channel][i]
          /\ log'[Channel][Len(log[Channel]) + 1] = m
      BY <1>0, <2>2
    <2>4. \A i, j \in 1..Len(log'[Channel]) : log'[Channel][i] = log'[Channel][j] => i = j
      BY <1>0, <2>2, <2>3 DEF LogInv
    <2>5. ASSUME NEW s \in Subs
          PROVE  /\ start'[s] + Len(view'[s]) <= Len(log'[Channel])
                 /\ \A i \in 1..Len(view'[s]) : view'[s][i] = log'[Channel][start'[s] + i]
                 /\ member'[s] = NULL => view'[s] = << >>
      BY <1>0, <2>2, <2>3, <2>5 DEF LogInv
    <2> QED
      BY <2>4, <2>5 DEF LogInv
  <1>2. CASE BrokerDelivers
    <2>1. PICK s \in Subs : Broker!Deliver(s)
      BY <1>2 DEF BrokerDelivers
    <2> DEFINE next == start[s] + Len(view[s]) + 1
    <2>2. /\ member[s] = Channel /\ next <= Len(log[Channel])
          /\ view' = [view EXCEPT ![s] = Append(view[s], log[Channel][next])]
          /\ UNCHANGED << log, member, start, left >>
      BY <1>0, <2>1 DEF Broker!Deliver
    <2>3. /\ Len(view'[s]) = Len(view[s]) + 1
          /\ \A i \in 1..Len(view[s]) : view'[s][i] = view[s][i]
          /\ view'[s][Len(view[s]) + 1] = log[Channel][next]
      BY <1>0, <2>2
    <2>4. ASSUME NEW u \in Subs
          PROVE  /\ start'[u] + Len(view'[u]) <= Len(log'[Channel])
                 /\ \A i \in 1..Len(view'[u]) : view'[u][i] = log'[Channel][start'[u] + i]
                 /\ member'[u] = NULL => view'[u] = << >>
      <3>1. CASE u = s
        BY <1>0, <2>2, <2>3, <3>1, ServerAssumption DEF LogInv
      <3>2. CASE u # s
        BY <1>0, <2>2, <3>2 DEF LogInv
      <3> QED
        BY <3>1, <3>2
    <2> QED
      BY <2>2, <2>4 DEF LogInv
  <1>3. ASSUME NEW c \in Clients, _handle_subscribe(c)
        PROVE  LogInv'
    <2>1. PICK s \in Subs : Broker!Join(s, Channel)
      BY <1>3 DEF _handle_subscribe
    <2>2. /\ member[s] = NULL /\ member' = [member EXCEPT ![s] = Channel]
          /\ start' = [start EXCEPT ![s] = Len(log[Channel])]
          /\ UNCHANGED << log, view >>
      BY <2>1 DEF Broker!Join
    <2>3. view[s] = << >>
      BY <2>2 DEF LogInv
    <2> QED
      BY <1>0, <2>2, <2>3 DEF LogInv
  <1>4. CASE UNCHANGED << log, member, start, view >>
    BY <1>4 DEF LogInv
  <1>5. ASSUME NEW c \in Clients, HandlerRuns(c)
        PROVE  UNCHANGED << log, member, start, view >>
    BY <1>5
    DEF HandlerRuns, Spawn, DetachJoin, JoinThen, DetachAdd, DetachTouch, Cleanup,
        CleanupJoin, CleanupRelease, Release, Broker!Leave, CleanupClose
  <1>6. ASSUME NEW c \in Clients,
               ReceiverRuns(c) \/ PeerActs(c) \/ SigPipe(c), ~_handle_subscribe(c)
        PROVE  UNCHANGED << log, member, start, view >>
    BY <1>6
    DEF ReceiverRuns, ReceiverTest, ReceiverTry, ReceiverWrite, PeerActs, Refuse,
        EndOfSession, _handle_auth, _handle_publish, _handle_attach,
        _handle_detach, WriteBlocks, Disconnect, CleanupClose, SigPipe
  <1>7. CASE \/ ServerRuns \/ HandshakeEnds \/ network_server_start
             \/ network_server_stop \/ network_server_free \/ UNCHANGED vars
    <2>1. UNCHANGED << log, member, start, view >>
      BY <1>7
      DEF ServerRuns, AcceptReturns, StopShutdown, StopJoin, HandshakeEnds,
          network_server_start, network_server_stop, network_server_free,
          Release, Broker!Leave, vars
    <2> QED
      BY <2>1, <1>4
  <1> QED
    BY <1>1, <1>2, <1>3, <1>4, <1>5, <1>6, <1>7
    DEF Next, BrokerRuns, ReadFails, PeerActs

-----------------------------------------------------------------------------
(* What became of the messages that the receivers of a subscription took.  *)

\* The messages of s that a receiver is about to write.
Reading(s) == { held[c] : c \in { d \in Clients : subscription[d] = s } } \ {NULL}

\* The first n messages of v.
FirstOf(v, n) == { v[i] : i \in 1..n }

\* The messages w are among the first n of v, in the same order.
InOrder(w, v, n) ==
  \A i, j \in 1..Len(w) : i < j =>
    \E p, q \in 1..n : p < q /\ v[p] = w[i] /\ v[q] = w[j]

\* NothingLostByDetach for one subscription.
Conserved(s) ==
  /\ Range(written[s]) \cup dropped[s] \cup Reading(s) = FirstOf(view[s], taken[s])
  /\ Range(written[s]) \cap dropped[s] = {}
  /\ (Range(written[s]) \cup dropped[s]) \cap Reading(s) = {}
  /\ InOrder(written[s], view[s], taken[s])
  /\ dropped[s] # {} => faults > 0 \/ \E c \in Clients : peer[c] = "gone"

TakeInv == TakenInv /\ \A s \in Subs : Conserved(s)

\* One message more.
LEMMA FirstOfNext ==
  ASSUME NEW v, NEW n \in Nat
  PROVE  FirstOf(v, n + 1) = FirstOf(v, n) \cup {v[n + 1]}
  BY DEF FirstOf

LEMMA InOrderNext ==
  ASSUME NEW w, NEW v, NEW n \in Nat, InOrder(w, v, n)
  PROVE  InOrder(w, v, n + 1)
  <1> SUFFICES ASSUME NEW i \in 1..Len(w), NEW j \in 1..Len(w), i < j
               PROVE  \E p, q \in 1..(n + 1) : p < q /\ v[p] = w[i] /\ v[q] = w[j]
    BY DEF InOrder
  <1>1. PICK p \in 1..n, q \in 1..n : p < q /\ v[p] = w[i] /\ v[q] = w[j]
    BY DEF InOrder
  <1>2. p \in 1..(n + 1) /\ q \in 1..(n + 1)
    OBVIOUS
  <1> QED
    BY <1>1, <1>2

\* What is written next and has not been written yet comes last.
LEMMA InOrderAppend ==
  ASSUME NEW w \in Seq(Messages), NEW v, NEW n \in Nat \ {0}, v[n] \in Messages,
         InOrder(w, v, n), Range(w) \subseteq FirstOf(v, n), v[n] \notin Range(w)
  PROVE  InOrder(Append(w, v[n]), v, n)
  <1> DEFINE x == Append(w, v[n])
  <1>0. Len(w) \in Nat /\ DOMAIN w = 1..Len(w)
    OBVIOUS
  <1>1. /\ Len(x) = Len(w) + 1 /\ x[Len(w) + 1] = v[n]
        /\ \A i \in 1..Len(w) : x[i] = w[i]
    OBVIOUS
  <1> HIDE DEF x
  <1> SUFFICES ASSUME NEW i \in 1..Len(x), NEW j \in 1..Len(x), i < j
               PROVE  \E p, q \in 1..n : p < q /\ v[p] = x[i] /\ v[q] = x[j]
    BY DEF InOrder, x
  <1>2. i \in 1..Len(w) /\ x[i] = w[i]
    BY <1>0, <1>1
  <1>3. CASE j \in 1..Len(w)
    BY <1>1, <1>2, <1>3 DEF InOrder
  <1>4. CASE j = Len(w) + 1
    <2>1. w[i] \in Range(w)
      BY <1>0, <1>2 DEF Range
    <2>2. PICK p \in 1..n : v[p] = w[i]
      BY <2>1 DEF FirstOf
    <2>3. p < n /\ n \in 1..n
      BY <2>1, <2>2
    <2> QED
      BY <1>1, <1>2, <1>4, <2>2, <2>3
  <1> QED
    BY <1>0, <1>1, <1>3, <1>4

\* Only the first n messages of v count.
LEMMA SameBeginning ==
  ASSUME NEW w, NEW v, NEW u, NEW n \in Nat, \A i \in 1..n : u[i] = v[i]
  PROVE  FirstOf(u, n) = FirstOf(v, n) /\ (InOrder(w, v, n) => InOrder(w, u, n))
  BY DEF FirstOf, InOrder

LEMMA TakeInvInit == Init => TakeInv
  <1> SUFFICES ASSUME Init PROVE TakeInv
    OBVIOUS
  <1>1. ASSUME NEW s \in Subs PROVE Conserved(s)
    <2>1. written[s] = << >> /\ dropped[s] = {} /\ taken[s] = 0 /\ Reading(s) = {}
      BY DEF Init, Reading
    <2>2. Range(written[s]) = {} /\ Len(written[s]) = 0
      BY <2>1 DEF Range
    <2> QED
      BY <2>1, <2>2 DEF Conserved, FirstOf, InOrder
  <1> QED
    BY <1>1, LogInvInit DEF TakeInv

\* A message is with one receiver of a subscription at a time.
LEMMA OneReading ==
  ASSUME TypeInv, OwnerInv, NEW c \in Clients, NEW d \in Clients,
         subscription[c] = subscription[d], Live(c), held[d] # NULL
  PROVE  c = d
  BY DEF TypeInv, ThreadsInv, Live, OwnerInv, Holds

\* A step that leaves the messages and those who hold them alone.
LEMMA TakeInvFrame ==
  ASSUME TakeInv, TypeInv,
         UNCHANGED << view, taken, written, dropped, held >>,
         \A c \in Clients : held[c] # NULL => subscription'[c] = subscription[c],
         \A c \in Clients : held[c] = NULL =>
           subscription'[c] = subscription[c] \/ subscription'[c] \in Subs \cup {NULL},
         faults' \in Nat, faults > 0 => faults' > 0,
         \A c \in Clients : peer[c] = "gone" => peer'[c] = "gone"
  PROVE  TakeInv'
  <1>1. ASSUME NEW s \in Subs PROVE Reading(s)' = Reading(s)
    BY <1>1 DEF Reading
  <1>2. TakenInv'
    BY DEF TakeInv, TakenInv
  <1>3. ASSUME NEW s \in Subs PROVE Conserved(s)'
    <2>1. Conserved(s) /\ Reading(s)' = Reading(s)
      BY <1>1 DEF TakeInv
    <2>2. dropped[s] # {} => faults' > 0 \/ \E c \in Clients : peer'[c] = "gone"
      BY <2>1 DEF Conserved
    <2> QED
      BY <2>1, <2>2 DEF Conserved
  <1> QED
    BY <1>2, <1>3 DEF TakeInv

LEMMA TakeInvTry ==
  ASSUME TypeInv, OwnerInv, LogInv, TakeInv, NEW c \in Clients, ReceiverTry(c),
         subscription[c] # NULL, Inbox(subscription[c]) # << >>
  PROVE  TakeInv'
  <1>0. PICK s \in Subs : s = subscription[c]
    BY DEF TypeInv, TypeOK
  <1>1. receiver[c] = "try" /\ held[c] = NULL
    BY DEF TypeInv, ThreadsInv, ReceiverTry
  <1> DEFINE n == taken[s]
             x == view[s][n + 1]
  <1>2. n + 1 \in 1..Len(view[s]) /\ Head(Inbox(s)) = x /\ x \in Messages
    BY <1>0, InboxHead DEF TypeInv, TypeOK
  <1>3. /\ held' = [held EXCEPT ![c] = x] /\ taken' = [taken EXCEPT ![s] = n + 1]
        /\ UNCHANGED << view, written, dropped, faults, peer, subscription >>
    BY <1>0, <1>2 DEF ReceiverTry, brokerVars, handlerVars, faultVars
  <1>4. n \in Nat /\ DOMAIN taken = Subs /\ DOMAIN held = Clients /\ x # NULL
        /\ \A u \in Subs : taken[u] \in Nat /\ Len(view[u]) \in Nat
    BY <1>2, ServerAssumption DEF TypeInv, TypeOK, BrokerTypeOK
  <1>5. \A d \in Clients : subscription[d] = s => held[d] = NULL
    BY <1>0, <1>1, OneReading DEF Live
  <1> HIDE DEF n, x
  <1>6. Reading(s) = {}
    BY <1>5 DEF Reading
  <1>7. Reading(s)' = {x}
    BY <1>0, <1>3, <1>4, <1>5 DEF Reading
  <1>8. ASSUME NEW u \in Subs, u # s PROVE Conserved(u)'
    <2>1. Reading(u)' = Reading(u)
      BY <1>0, <1>3, <1>4, <1>8 DEF Reading
    <2> QED
      BY <1>3, <1>4, <1>8, <2>1 DEF Conserved, TakeInv
  <1>9. Conserved(s)'
    <2>1. taken'[s] = n + 1
      BY <1>3, <1>4
    <2>2. Conserved(s) /\ n = taken[s]
      BY DEF TakeInv, n
    <2>3. \A i \in 1..n : view[s][i] # x
      <3>1. SUFFICES ASSUME NEW i \in 1..n, view[s][i] = view[s][n + 1] PROVE FALSE
        BY DEF x
      <3>2. i \in 1..Len(view[s]) /\ i # n + 1
        BY <1>2, <1>4, <3>1
      <3> QED
        BY <1>2, <3>1, <3>2, ViewInjective DEF TypeInv
    <2>4. FirstOf(view[s], n + 1) = FirstOf(view[s], n) \cup {x}
      BY <1>4, FirstOfNext DEF x
    <2>5. Range(written[s]) \cup dropped[s] = FirstOf(view[s], n)
      BY <1>6, <2>2 DEF Conserved
    <2>6. InOrder(written[s], view[s], n + 1)
      BY <1>4, <2>2, InOrderNext DEF Conserved
    <2>7. x \notin FirstOf(view[s], n)
      BY <2>3 DEF FirstOf
    <2>8. /\ Range(written[s]) \cap dropped[s] = {}
          /\ dropped[s] # {} => faults > 0 \/ \E d \in Clients : peer[d] = "gone"
      BY <2>2 DEF Conserved
    <2> QED
      BY <1>3, <1>7, <2>1, <2>4, <2>5, <2>6, <2>7, <2>8 DEF Conserved
  <1>10. TakenInv'
    <2>1. ASSUME NEW u \in Subs PROVE taken'[u] <= Len(view'[u])
      BY <1>2, <1>3, <1>4, <2>1 DEF TakeInv, TakenInv
    <2>2. ASSUME NEW d \in Clients, held'[d] # NULL
          PROVE  LET u == subscription'[d]
                 IN taken'[u] > 0 /\ held'[d] = view'[u][taken'[u]]
      <3>1. CASE d = c
        BY <1>0, <1>3, <1>4, <3>1 DEF x
      <3>2. CASE d # c
        <4>1. held[d] # NULL /\ subscription[d] # s
          BY <1>3, <1>4, <1>5, <2>2, <3>2
        <4> QED
          BY <1>3, <1>4, <2>2, <3>2, <4>1 DEF TakeInv, TakenInv
      <3> QED
        BY <3>1, <3>2
    <2> QED
      BY <2>1, <2>2 DEF TakenInv
  <1> QED
    BY <1>8, <1>9, <1>10 DEF TakeInv

LEMMA TakeInvWrite ==
  ASSUME TypeInv, OwnerInv, LogInv, TakeInv, NEW c \in Clients, ReceiverWrite(c)
  PROVE  TakeInv'
  <1>1. receiver[c] = "write" /\ held[c] # NULL
    BY DEF TypeInv, ThreadsInv, ReceiverWrite
  <1>2. PICK s \in Subs : s = subscription[c]
    BY <1>1 DEF TypeInv, TypeOK, ThreadsInv, Live
  <1> DEFINE n == taken[s]
             x == view[s][n]
  <1>3. held[c] = x /\ n > 0 /\ n <= Len(view[s])
    BY <1>1, <1>2 DEF TakeInv, TakenInv
  <1>4. /\ n \in Nat /\ x \in Messages /\ written[s] \in Seq(Messages)
        /\ DOMAIN held = Clients /\ DOMAIN written = Subs /\ DOMAIN dropped = Subs
        /\ faults \in Nat
    BY <1>1, <1>3 DEF TypeInv, TypeOK
  <1>5. /\ held' = [held EXCEPT ![c] = NULL]
        /\ UNCHANGED << view, taken, peer, subscription >>
        /\ \/ /\ written' = [written EXCEPT ![s] = Append(written[s], x)]
              /\ UNCHANGED << dropped, faults >>
           \/ /\ dropped' = [dropped EXCEPT ![s] = dropped[s] \cup {x}]
              /\ UNCHANGED written
              /\ (peer[c] = "gone" /\ faults' = faults) \/ faults' = faults + 1
    BY <1>2, <1>3 DEF ReceiverWrite, Fault, brokerVars, handlerVars, faultVars
  <1>6. \A d \in Clients \ {c} : subscription[d] = s => held[d] = NULL
    BY <1>1, <1>2, OneReading DEF Live
  <1> HIDE DEF n, x
  <1>7. Reading(s) = {x} /\ Reading(s)' = {}
    BY <1>1, <1>2, <1>3, <1>4, <1>5, <1>6 DEF Reading
  <1>8. ASSUME NEW u \in Subs, u # s PROVE Conserved(u)'
    <2>1. Reading(u)' = Reading(u)
      BY <1>2, <1>4, <1>5, <1>8 DEF Reading
    <2>2. written'[u] = written[u] /\ dropped'[u] = dropped[u]
      BY <1>4, <1>5, <1>8
    <2>3. faults > 0 => faults' > 0
      BY <1>4, <1>5
    <2> QED
      BY <1>5, <1>8, <2>1, <2>2, <2>3 DEF Conserved, TakeInv
  <1>9. Conserved(s)'
    <2>1. /\ Range(written[s]) \cup dropped[s] \cup {x} = FirstOf(view[s], n)
          /\ Range(written[s]) \cap dropped[s] = {}
          /\ x \notin Range(written[s]) \cup dropped[s]
          /\ InOrder(written[s], view[s], n)
          /\ dropped[s] # {} => faults > 0 \/ \E d \in Clients : peer[d] = "gone"
      BY <1>7 DEF TakeInv, Conserved, n
    <2>2. CASE /\ written' = [written EXCEPT ![s] = Append(written[s], x)]
               /\ UNCHANGED << dropped, faults >>
      <3>1. Range(written'[s]) = Range(written[s]) \cup {x}
        BY <1>4, <2>2, RangeOfAppend
      <3>2. InOrder(Append(written[s], x), view[s], n)
        BY <1>3, <1>4, <2>1, InOrderAppend DEF x
      <3>3. InOrder(written'[s], view[s], n) /\ dropped'[s] = dropped[s]
        BY <1>4, <2>2, <3>2
      <3> QED
        BY <1>5, <1>7, <2>1, <2>2, <3>1, <3>3 DEF Conserved, n
    <2>3. CASE /\ dropped' = [dropped EXCEPT ![s] = dropped[s] \cup {x}]
               /\ UNCHANGED written
               /\ (peer[c] = "gone" /\ faults' = faults) \/ faults' = faults + 1
      <3>1. dropped'[s] = dropped[s] \cup {x} /\ written'[s] = written[s]
        BY <1>4, <2>3
      <3>2. faults' > 0 \/ \E d \in Clients : peer'[d] = "gone"
        BY <1>4, <1>5, <2>3
      <3> QED
        BY <1>5, <1>7, <2>1, <3>1, <3>2 DEF Conserved, n
    <2> QED
      BY <1>5, <2>2, <2>3
  <1>10. TakenInv'
    <2>1. \A d \in Clients : held'[d] # NULL => held'[d] = held[d]
      BY <1>4, <1>5
    <2> QED
      BY <1>5, <2>1 DEF TakeInv, TakenInv
  <1> QED
    BY <1>8, <1>9, <1>10 DEF TakeInv

LEMMA TakeInvDeliver ==
  ASSUME TypeInv, TakeInv, BrokerDelivers
  PROVE  TakeInv'
  <1>1. PICK s \in Subs : Broker!Deliver(s)
    BY DEF BrokerDelivers
  <1>2. UNCHANGED << taken, written, dropped, held, subscription, faults, peer >>
    BY DEF BrokerDelivers, receiverVars, handlerVars, faultVars
  <1>3. PICK m : view' = [view EXCEPT ![s] = Append(view[s], m)]
    BY <1>1 DEF Broker!Deliver
  <1>4. ASSUME NEW u \in Subs
        PROVE  /\ taken[u] \in Nat /\ Len(view[u]) \in Nat
               /\ Len(view'[u]) >= Len(view[u])
               /\ \A i \in 1..Len(view[u]) : view'[u][i] = view[u][i]
    <2>1. view[u] \in Seq(Messages) /\ DOMAIN view = Subs /\ taken[u] \in Nat
      BY DEF TypeInv, TypeOK, BrokerTypeOK
    <2> QED
      BY <1>3, <2>1
  <1>5. TakenInv'
    <2>1. ASSUME NEW u \in Subs PROVE taken'[u] <= Len(view'[u])
      BY <1>2, <1>4, <2>1 DEF TakeInv, TakenInv
    <2>2. ASSUME NEW c \in Clients, held'[c] # NULL
          PROVE  LET u == subscription'[c]
                 IN taken'[u] > 0 /\ held'[c] = view'[u][taken'[u]]
      <3>1. PICK u \in Subs : u = subscription[c]
        BY <1>2, <2>2 DEF TypeInv, TypeOK, ThreadsInv, Live
      <3>2. taken[u] > 0 /\ held[c] = view[u][taken[u]] /\ taken[u] <= Len(view[u])
        BY <1>2, <2>2, <3>1 DEF TakeInv, TakenInv
      <3> QED
        BY <1>2, <1>4, <3>1, <3>2
    <2> QED
      BY <2>1, <2>2 DEF TakenInv
  <1>6. ASSUME NEW u \in Subs PROVE Conserved(u)'
    <2>1. Reading(u)' = Reading(u)
      BY <1>2 DEF Reading
    <2>2. \A i \in 1..taken[u] : view'[u][i] = view[u][i]
      BY <1>4 DEF TakeInv, TakenInv
    <2>3. /\ FirstOf(view'[u], taken[u]) = FirstOf(view[u], taken[u])
          /\ InOrder(written[u], view[u], taken[u])
               => InOrder(written[u], view'[u], taken[u])
      BY <1>4, <2>2, SameBeginning
    <2> QED
      BY <1>2, <2>1, <2>3 DEF TakeInv, Conserved
  <1> QED
    BY <1>5, <1>6 DEF TakeInv

LEMMA TakeInvStep ==
  ASSUME TypeInv, OwnerInv, LogInv, TakeInv, [Next]_vars, TypeInv'
  PROVE  TakeInv'
  <1> USE DEF brokerVars, serverVars, handlerVars, messageVars, receiverVars, faultVars
  <1>0. /\ faults \in Nat /\ faults' \in Nat /\ DOMAIN subscription = Clients
        /\ DOMAIN peer = Clients
        /\ \A d \in Clients : subscription'[d] \in Subs \cup {NULL}
        /\ \A d \in Clients : held[d] # NULL =>
             subscription[d] # NULL /\ pc[d] \in {"read", "stop", "cleanup", "end"}
    BY DEF TypeInv, TypeOK, ThreadsInv, Live
  <1>1. ASSUME NEW c \in Clients, HandlerRuns(c) PROVE TakeInv'
    <2>1. UNCHANGED << view, taken, written, dropped, held, peer >>
      BY <1>1
      DEF HandlerRuns, Spawn, DetachJoin, JoinThen, DetachAdd, DetachTouch,
          Cleanup, CleanupJoin, CleanupRelease, Release, Broker!Leave,
          CleanupClose
    <2>2. faults' = faults \/ faults' = faults + 1
      BY <1>1
      DEF HandlerRuns, Spawn, DetachJoin, JoinThen, DetachAdd, DetachTouch,
          Cleanup, CleanupJoin, CleanupRelease, CreateReceiver, CleanupClose,
          FaultOf, Fault
    <2>3. ASSUME NEW d \in Clients, held[d] # NULL
          PROVE  subscription'[d] = subscription[d]
      BY <1>0, <1>1, <2>3
      DEF HandlerRuns, Spawn, DetachJoin, JoinThen, DetachAdd, DetachTouch,
          Cleanup, CleanupJoin, CleanupRelease, CleanupClose
    <2> QED
      BY <1>0, <2>1, <2>2, <2>3, TakeInvFrame
  <1>2. ASSUME NEW c \in Clients, PeerActs(c) \/ SigPipe(c) PROVE TakeInv'
    <2>1. UNCHANGED << view, taken, written, dropped, held, faults >>
      BY <1>2
      DEF PeerActs, Refuse, EndOfSession, _handle_auth, _handle_publish,
          _handle_subscribe, Broker!Join, _handle_attach, _handle_detach,
          WriteBlocks, Disconnect, CleanupClose, SigPipe
    <2>2. ASSUME NEW d \in Clients, held[d] # NULL
          PROVE  subscription'[d] = subscription[d]
      BY <1>0, <1>2, <2>2
      DEF PeerActs, Refuse, EndOfSession, _handle_auth, _handle_publish,
          _handle_subscribe, _handle_attach, _handle_detach, WriteBlocks,
          Disconnect, CleanupClose, SigPipe
    <2>3. \A d \in Clients : peer[d] = "gone" => peer'[d] = "gone"
      BY <1>0, <1>2
      DEF PeerActs, Refuse, EndOfSession, _handle_auth, _handle_publish,
          _handle_subscribe, _handle_attach, _handle_detach, WriteBlocks,
          Disconnect, CleanupClose, SigPipe
    <2> QED
      BY <1>0, <2>1, <2>2, <2>3, TakeInvFrame
  <1>3. ASSUME NEW c \in Clients, ReceiverRuns(c) PROVE TakeInv'
    <2>1. CASE ReceiverTry(c) /\ subscription[c] # NULL /\ Inbox(subscription[c]) # << >>
      BY <2>1, TakeInvTry
    <2>2. CASE ReceiverWrite(c)
      BY <2>2, TakeInvWrite
    <2>3. CASE \/ ReceiverTest(c)
               \/ /\ ReceiverTry(c)
                  /\ ~(subscription[c] # NULL /\ Inbox(subscription[c]) # << >>)
      <3>1. UNCHANGED << view, taken, written, dropped, held, subscription, faults,
                         peer >>
        BY <2>3 DEF ReceiverTest, ReceiverTry
      <3> QED
        BY <1>0, <3>1, TakeInvFrame
    <2> QED
      BY <1>3, <2>1, <2>2, <2>3 DEF ReceiverRuns
  <1>4. CASE \/ ServerRuns \/ HandshakeEnds \/ BrokerLogs \/ network_server_start
             \/ network_server_stop \/ network_server_free \/ UNCHANGED vars
    <2>1. UNCHANGED << view, taken, written, dropped, held, subscription, faults,
                       peer >>
      BY <1>4
      DEF ServerRuns, AcceptReturns, StopShutdown, StopJoin, HandshakeEnds,
          BrokerLogs, Broker!Publish, network_server_start, network_server_stop,
          network_server_free, Release, Broker!Leave, vars
    <2> QED
      BY <1>0, <2>1, TakeInvFrame
  <1> QED
    BY <1>1, <1>2, <1>3, <1>4, TakeInvDeliver
    DEF Next, BrokerRuns, ReadFails, PeerActs

LEMMA TakeInvariant == Spec => []TakeInv
  <1>1. Init => LogInv /\ TakeInv
    BY LogInvInit, TakeInvInit
  <1>2. TypeInv /\ LogInv /\ [Next]_vars => LogInv'
    BY LogInvStep DEF TypeInv
  <1>3. TypeInv /\ OwnerInv /\ LogInv /\ TakeInv /\ [Next]_vars /\ TypeInv' => TakeInv'
    BY TakeInvStep
  <1> QED
    BY <1>1, <1>2, <1>3, TypeInvariant, OwnerInvariant, PTL DEF Spec

\* No message that the receivers of a subscription took is lost, repeated or
\* written out of order, over any sequence of DETACH and ATTACH; it is
\* dropped only when a connection broke or memory ran out.
THEOREM NothingIsLostByDetach == Spec => []NothingLostByDetach
  <1>1. TakeInv => NothingLostByDetach
    BY DEF TakeInv, Conserved, NothingLostByDetach, Reading, FirstOf, InOrder
  <1> QED
    BY <1>1, TakeInvariant, PTL

=============================================================================
