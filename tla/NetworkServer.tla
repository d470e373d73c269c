---------------------------- MODULE NetworkServer ----------------------------
(***************************************************************************)
(* network_server.c: the accept thread, a handler thread and a receiver    *)
(* thread for each connection, the list of detached subscriptions, and the *)
(* start and the stop of network_server_main.c.                            *)
(*                                                                         *)
(* The broker under the server is the one ChannelLog specifies, with one   *)
(* channel; MessageBroker is shown to implement it.  What a subscription   *)
(* was given (view) and its receivers have not taken yet is its inbox.     *)
(*                                                                         *)
(* A client is one connection: a peer that reconnects is another client.   *)
(* What it sends is one of the commands, well formed or not, at any time;  *)
(* it may stop reading, which blocks who writes to it, and its connection  *)
(* may break.  Answers are not modelled, the messages that reach the peer  *)
(* are: a handler blocked in an answer does what one does whose peer sends *)
(* no further command.                                                     *)
(***************************************************************************)
EXTENDS Integers, FiniteSets, SequencesExt

CONSTANTS
  Clients,    \* connections
  Subs,       \* subscriptions that can be made
  Messages,   \* messages that can be published
  Channel,    \* the channel they are published to
  NULL,
  MaxFaults   \* bound on failing allocations and thread creations

ASSUME ServerAssumption ==
  /\ IsFiniteSet(Clients) /\ IsFiniteSet(Subs) /\ IsFiniteSet(Messages)
  /\ NULL \notin Clients \cup Subs \cup Messages \cup {Channel}
  /\ MaxFaults \in Nat

VARIABLES
  \* the server
  main,         \* what becomes of it: "new", "up", "shutdown", "join",
                \* "stopped", "freed", "killed"
  running,      \* _running
  listening,    \* the listening socket is open
  acceptor,     \* accept thread: "none", "accept", "handshake", "ended"
  shaking,      \* the connection in SSL_accept, or NULL
  detached,     \* _detached_subscriptions
  \* the connections: handler thread and client_context_t
  pc,           \* handler thread; "off" before it is created
  subscription, \* _subscription
  is_detached,  \* _detached
  authenticated,\* _authenticated
  active,       \* _active
  receiver,     \* receiver thread; "none" when there is none to join
  held,         \* the message the receiver is about to write, or NULL
  peer,         \* the other end: "reads", "stalled" once a write has blocked
                \* because it no longer reads, "gone" when it has closed or
                \* reset the connection
  \* the broker
  log, member, start, view, left,   \* see ChannelLog
  submitted,    \* messages of answered PUBLISHs, not in the log yet
  taken,        \* number of messages received from a subscription
  freed,        \* subscriptions that were freed
  \* history
  written,      \* messages of a subscription that reached a peer, in order
  dropped,      \* messages of a subscription that could not be written
  failed,       \* connections whose last receiver could not be created, or
                \* was joined by a DETACH that then failed
  faults

brokerVars == << log, member, start, view, left >>
serverVars == << main, running, listening, acceptor, shaking >>
handlerVars == << subscription, is_detached, authenticated >>
messageVars == << brokerVars, submitted, taken, freed, written, dropped >>
receiverVars == << receiver, held >>
faultVars == << failed, faults >>
vars == << serverVars, detached, pc, handlerVars, active, receiverVars, peer,
           messageVars, faultVars >>

Broker == INSTANCE ChannelLog WITH Channels <- {Channel}

TypeOK ==
  /\ main \in {"new", "up", "shutdown", "join", "stopped", "freed", "killed"}
  /\ running \in BOOLEAN /\ listening \in BOOLEAN
  /\ acceptor \in {"none", "accept", "handshake", "ended"}
  /\ shaking \in Clients \cup {NULL}
  /\ detached \subseteq Subs
  /\ pc \in [Clients -> {"off", "read", "spawn", "stop", "add", "touch",
                         "cleanup", "end", "release", "close", "hung", "closed"}]
  /\ subscription \in [Clients -> Subs \cup {NULL}]
  /\ is_detached \in [Clients -> BOOLEAN]
  /\ authenticated \in [Clients -> BOOLEAN]
  /\ active \in [Clients -> BOOLEAN]
  /\ receiver \in [Clients -> {"none", "test", "try", "write", "ended"}]
  /\ held \in [Clients -> Messages \cup {NULL}]
  /\ peer \in [Clients -> {"reads", "stalled", "gone"}]
  /\ submitted \subseteq Messages
  /\ taken \in [Subs -> Nat]
  /\ freed \subseteq Subs
  /\ written \in [Subs -> Seq(Messages)]
  /\ dropped \in [Subs -> SUBSET Messages]
  /\ failed \subseteq Clients /\ faults \in 0..MaxFaults

-----------------------------------------------------------------------------
Goto(c, l) == pc' = [pc EXCEPT ![c] = l]

Fault == faults < MaxFaults /\ faults' = faults + 1

\* Something fails that leaves connection c without a receiver to join.
FaultOf(c) == Fault /\ failed' = failed \cup {c}

Inbox(s) == SubSeq(view[s], taken[s] + 1, Len(view[s]))

\* The list of detached subscriptions, each under _detached_mutex.
_find_and_remove_detached(s) == s \in detached /\ detached' = detached \ {s}

_add_detached(s) == detached' = detached \cup {s}

\* subscription_unsubscribe and subscription_free
Release(s) == Broker!Leave(s) /\ freed' = freed \cup {s}

-----------------------------------------------------------------------------
(* The broker *)

\* A worker enters an accepted message in the channel.
BrokerLogs ==
  /\ \E m \in submitted :
       /\ Broker!Publish(Channel, m)
       /\ submitted' = submitted \ {m}
  /\ UNCHANGED << serverVars, detached, pc, handlerVars, active, receiverVars,
                  peer, taken, freed, written, dropped, faultVars >>

\* A worker puts the next message in an inbox.
BrokerDelivers ==
  /\ \E s \in Subs : Broker!Deliver(s)
  /\ UNCHANGED << serverVars, detached, pc, handlerVars, active, receiverVars,
                  peer, submitted, taken, freed, written, dropped, faultVars >>

-----------------------------------------------------------------------------
(* _subscriber_receiver_thread *)

Receiver(c, l) == receiver' = [receiver EXCEPT ![c] = l]

\* The loop's test of _active.
ReceiverTest(c) ==
  /\ receiver[c] = "test"
  /\ Receiver(c, IF active[c] THEN "try" ELSE "ended")
  /\ UNCHANGED << serverVars, detached, pc, handlerVars, active, held, peer,
                  messageVars, faultVars >>

\* subscription_try_receive
ReceiverTry(c) ==
  /\ receiver[c] = "try"
  /\ LET s == subscription[c] IN
     IF s # NULL /\ Inbox(s) # << >>
     THEN /\ held' = [held EXCEPT ![c] = Head(Inbox(s))]
          /\ taken' = [taken EXCEPT ![s] = @ + 1]
          /\ Receiver(c, "write")
     ELSE Receiver(c, "test") /\ UNCHANGED << held, taken >>
  /\ UNCHANGED << serverVars, detached, pc, handlerVars, active, peer,
                  brokerVars, submitted, freed, written, dropped, faultVars >>

\* Wrong variant: a receiver that is being stopped does not write any more.
ReceiverWriteIfActive(c) ==
  /\ receiver[c] = "write" /\ peer[c] # "stalled"
  /\ LET s == subscription[c] IN
     \/ /\ peer[c] = "reads"
        /\ written' = [written EXCEPT ![s] = IF active[c] THEN Append(@, held[c]) ELSE @]
        /\ UNCHANGED << dropped, faultVars >>
     \/ /\ IF peer[c] = "gone" THEN UNCHANGED faults ELSE Fault
        /\ dropped' = [dropped EXCEPT ![s] = @ \cup {held[c]}]
        /\ UNCHANGED << written, failed >>
  /\ held' = [held EXCEPT ![c] = NULL]
  /\ Receiver(c, "test")
  /\ UNCHANGED << serverVars, detached, pc, handlerVars, active, peer,
                  brokerVars, submitted, taken, freed >>

\* The message is formatted, written and freed; it is gone if there is no
\* memory for the text or the peer is.  SSL_write waits for a peer that does
\* not read, as long as the connection lasts.
ReceiverWrite(c) ==
  /\ receiver[c] = "write" /\ peer[c] # "stalled"
  /\ LET s == subscription[c] IN
     \/ /\ peer[c] = "reads"
        /\ written' = [written EXCEPT ![s] = Append(@, held[c])]
        /\ UNCHANGED << dropped, faultVars >>
     \/ /\ IF peer[c] = "gone" THEN UNCHANGED faults ELSE Fault
        /\ dropped' = [dropped EXCEPT ![s] = @ \cup {held[c]}]
        /\ UNCHANGED << written, failed >>
  /\ held' = [held EXCEPT ![c] = NULL]
  /\ Receiver(c, "test")
  /\ UNCHANGED << serverVars, detached, pc, handlerVars, active, peer,
                  brokerVars, submitted, taken, freed >>

-----------------------------------------------------------------------------
(* _client_handler *)

\* The loop's test of _running.
NextCommand(c) == Goto(c, IF running THEN "read" ELSE "cleanup")

\* A command that is answered with an error and changes nothing: no command
\* at all, one before AUTH, one its handler rejects, a PUBLISH whose content
\* is too long or comes in pieces, a failing call of the broker.
Refuse(c) ==
  /\ pc[c] = "read"
  /\ NextCommand(c)
  /\ UNCHANGED << serverVars, detached, handlerVars, active, receiverVars,
                  peer, messageVars, faultVars >>

\* QUIT, an empty line, or the end of the connection.
EndOfSession(c) ==
  /\ pc[c] = "read"
  /\ Goto(c, "cleanup")
  /\ UNCHANGED << serverVars, detached, handlerVars, active, receiverVars,
                  peer, messageVars, faultVars >>

_handle_auth(c) ==
  /\ pc[c] = "read"
  /\ ~authenticated[c]
  /\ authenticated' = [authenticated EXCEPT ![c] = TRUE]
  /\ NextCommand(c)
  /\ UNCHANGED << serverVars, detached, subscription, is_detached, active,
                  receiverVars, peer, messageVars, faultVars >>

\* An authenticated peer sent a command, perhaps its last before it left.
Command(c) == pc[c] = "read" /\ authenticated[c]

Unpublished == Messages \ (submitted \cup Range(log[Channel]))

\* message_broker_publish accepts the message.
_handle_publish(c) ==
  /\ Command(c)
  /\ Unpublished # {}
  /\ submitted' = submitted \cup {CHOOSE m \in Unpublished : TRUE}
  /\ NextCommand(c)
  /\ UNCHANGED << serverVars, detached, handlerVars, active, receiverVars,
                  peer, brokerVars, taken, freed, written, dropped, faultVars >>

\* message_broker_subscribe; the subscription becomes the connection's.
_handle_subscribe(c) ==
  /\ Command(c)
  /\ subscription[c] = NULL
  /\ \E s \in Subs :
       /\ Broker!Join(s, Channel)
       /\ subscription' = [subscription EXCEPT ![c] = s]
  /\ Goto(c, "spawn")
  /\ UNCHANGED << serverVars, detached, is_detached, authenticated, active,
                  receiverVars, peer, submitted, taken, freed, written,
                  dropped, faultVars >>

\* Wrong variant: the detached subscription is handed over and stays listed.
AttachKeepsListed(c) ==
  /\ Command(c)
  /\ subscription[c] = NULL
  /\ \E s \in detached : subscription' = [subscription EXCEPT ![c] = s]
  /\ Goto(c, "spawn")
  /\ UNCHANGED << serverVars, detached, is_detached, authenticated, active,
                  receiverVars, peer, messageVars, faultVars >>

\* A detached subscription is handed over to the connection.
_handle_attach(c) ==
  /\ Command(c)
  /\ subscription[c] = NULL
  /\ \E s \in Subs :
       /\ _find_and_remove_detached(s)
       /\ subscription' = [subscription EXCEPT ![c] = s]
  /\ Goto(c, "spawn")
  /\ UNCHANGED << serverVars, is_detached, authenticated, active, receiverVars,
                  peer, messageVars, faultVars >>

\* pthread_create of the receiver, with no look at the result.
CreateReceiver(c) ==
  \/ Receiver(c, "test") /\ failed' = failed \ {c} /\ UNCHANGED faults
  \/ Receiver(c, "none") /\ FaultOf(c)

\* Wrong variant: the receiver finds _active as DETACH left it.
SpawnInactive(c) ==
  /\ pc[c] = "spawn"
  /\ is_detached' = [is_detached EXCEPT ![c] = FALSE]
  /\ CreateReceiver(c)
  /\ NextCommand(c)
  /\ UNCHANGED << serverVars, detached, subscription, authenticated, active,
                  held, peer, messageVars >>

\* The end of both: the receiver is created and the command is answered.
Spawn(c) ==
  /\ pc[c] = "spawn"
  /\ is_detached' = [is_detached EXCEPT ![c] = FALSE]
  /\ active' = [active EXCEPT ![c] = TRUE]
  /\ CreateReceiver(c)
  /\ NextCommand(c)
  /\ UNCHANGED << serverVars, detached, subscription, authenticated, held,
                  peer, messageVars >>

\* Wrong variant: the receiver is not told to stop.
DetachStillActive(c) ==
  /\ Command(c)
  /\ subscription[c] # NULL
  /\ Goto(c, "stop")
  /\ UNCHANGED << serverVars, detached, handlerVars, active, receiverVars,
                  peer, messageVars, faultVars >>

_handle_detach(c) ==
  /\ Command(c)
  /\ subscription[c] # NULL
  /\ active' = [active EXCEPT ![c] = FALSE]
  /\ Goto(c, "stop")
  /\ UNCHANGED << serverVars, detached, handlerVars, receiverVars, peer,
                  messageVars, faultVars >>

\* pthread_join of the receiver, then l.  Joining a thread that was never
\* created or has been joined before is undefined: it returns an error, hangs
\* or crashes.
JoinThen(c, l) ==
  /\ \/ /\ receiver[c] = "ended"
        /\ Receiver(c, "none")
        /\ Goto(c, l)
        /\ UNCHANGED main
     \/ /\ receiver[c] = "none"
        /\ \/ (Goto(c, l) \/ Goto(c, "hung")) /\ UNCHANGED main
           \/ main' = "killed" /\ UNCHANGED pc
        /\ UNCHANGED receiver
  /\ UNCHANGED << running, listening, acceptor, shaking, detached, handlerVars,
                  active, held, peer, messageVars, faultVars >>

\* Wrong variant: the receiver is not waited for.
DetachJoinForgotten(c) ==
  /\ pc[c] = "stop"
  /\ Goto(c, "add")
  /\ UNCHANGED << serverVars, detached, handlerVars, active, receiverVars,
                  peer, messageVars, faultVars >>

DetachJoin(c) == pc[c] = "stop" /\ JoinThen(c, "add")

\* The subscription is listed, or there is no memory for the list's node: the
\* command fails and leaves a connection with a subscription and no receiver.
DetachAdd(c) ==
  /\ pc[c] = "add"
  /\ \/ /\ _add_detached(subscription[c])
        /\ Goto(c, "touch")
        /\ UNCHANGED faultVars
     \/ /\ FaultOf(c)
        /\ NextCommand(c)
        /\ UNCHANGED detached
  /\ UNCHANGED << serverVars, handlerVars, active, receiverVars, peer,
                  messageVars >>

\* Wrong variant: the connection keeps the subscription.
DetachTouchKeeps(c) ==
  /\ pc[c] = "touch"
  /\ is_detached' = [is_detached EXCEPT ![c] = TRUE]
  /\ NextCommand(c)
  /\ UNCHANGED << serverVars, detached, subscription, authenticated, active,
                  receiverVars, peer, messageVars, faultVars >>

\* The id is read from the subscription, which is anybody's by now, and the
\* connection forgets it.
DetachTouch(c) ==
  /\ pc[c] = "touch"
  /\ is_detached' = [is_detached EXCEPT ![c] = TRUE]
  /\ subscription' = [subscription EXCEPT ![c] = NULL]
  /\ NextCommand(c)
  /\ UNCHANGED << serverVars, detached, authenticated, active, receiverVars,
                  peer, messageVars, faultVars >>

\* The end of the session: the receiver is stopped if there is one.
Cleanup(c) ==
  /\ pc[c] = "cleanup"
  /\ active' = [active EXCEPT ![c] = FALSE]
  /\ Goto(c, IF subscription[c] # NULL /\ ~is_detached[c] THEN "end" ELSE "close")
  /\ UNCHANGED << serverVars, detached, handlerVars, receiverVars, peer,
                  messageVars, faultVars >>

CleanupJoin(c) == pc[c] = "end" /\ JoinThen(c, "release")

CleanupRelease(c) ==
  /\ pc[c] = "release"
  /\ Release(subscription[c])
  /\ Goto(c, "close")
  /\ UNCHANGED << serverVars, detached, handlerVars, active, receiverVars,
                  peer, submitted, taken, written, dropped, faultVars >>

\* SSL_shutdown, which writes; then the connection is closed and the context
\* freed.
CleanupClose(c) ==
  /\ pc[c] = "close"
  /\ Goto(c, "closed")
  /\ subscription' = [subscription EXCEPT ![c] = NULL]
  /\ is_detached' = [is_detached EXCEPT ![c] = FALSE]
  /\ authenticated' = [authenticated EXCEPT ![c] = FALSE]
  /\ failed' = failed \ {c}
  /\ UNCHANGED << serverVars, detached, active, receiverVars, peer, messageVars,
                  faults >>

\* The peer or the network drops the connection.
Disconnect(c) ==
  /\ pc[c] \notin {"off", "closed"} /\ peer[c] # "gone"
  /\ peer' = [peer EXCEPT ![c] = "gone"]
  /\ UNCHANGED << serverVars, detached, pc, handlerVars, active, receiverVars,
                  messageVars, faultVars >>

\* The peer has stopped reading for good, and the connection takes no more of
\* the message that is being written.
WriteBlocks(c) ==
  /\ receiver[c] = "write" /\ peer[c] = "reads"
  /\ peer' = [peer EXCEPT ![c] = "stalled"]
  /\ UNCHANGED << serverVars, detached, pc, handlerVars, active, receiverVars,
                  messageVars, faultVars >>

\* The thread is about to write to its connection: a message, an answer or
\* the shutdown of TLS.  A process that would die of another answer, in the
\* step that gives it, can as well die of the shutdown.
Writes(c) == receiver[c] = "write" \/ pc[c] \in {"spawn", "touch", "close"}

\* A write to a connection that was reset raises SIGPIPE.  main installs
\* handlers for SIGINT and SIGTERM only: the process ends.  The handshake
\* writes, too.
SigPipe(c) ==
  /\ (peer[c] = "gone" /\ Writes(c)) \/ shaking = c
  /\ main' = "killed"
  /\ UNCHANGED << running, listening, acceptor, shaking, detached, pc,
                  handlerVars, active, receiverVars, peer, messageVars, faultVars >>

-----------------------------------------------------------------------------
(* _accept_thread *)

\* The loop's test of _running.
NextConnection == acceptor' = IF running THEN "accept" ELSE "ended"

\* accept: a connection, or an error when the socket was shut down.
AcceptReturns ==
  /\ acceptor = "accept"
  /\ \/ /\ listening
        /\ \E c \in Clients : pc[c] = "off"
        /\ shaking' = CHOOSE c \in Clients : pc[c] = "off"
        /\ acceptor' = "handshake"
     \/ ~listening /\ NextConnection /\ UNCHANGED shaking
  /\ UNCHANGED << main, running, listening, detached, pc, handlerVars, active,
                  receiverVars, peer, messageVars, faultVars >>

\* SSL_accept, which waits for the peer; then the handler is created, or one
\* of the steps up to there fails and the connection is closed.
HandshakeEnds ==
  /\ acceptor = "handshake"
  /\ NextCommand(shaking) \/ Goto(shaking, "closed")
  /\ NextConnection
  /\ shaking' = NULL
  /\ UNCHANGED << main, running, listening, detached, handlerVars, active,
                  receiverVars, peer, messageVars, faultVars >>

-----------------------------------------------------------------------------
(* network_server_start, _stop, _free *)

network_server_start ==
  /\ main = "new"
  /\ \/ main' = "up" /\ running' = TRUE /\ acceptor' = "accept"
     \/ main' = "stopped" /\ UNCHANGED << running, acceptor >>
  /\ UNCHANGED << listening, shaking, detached, pc, handlerVars, active,
                  receiverVars, peer, messageVars, faultVars >>

\* The handler of SIGINT and SIGTERM.
network_server_stop ==
  /\ main = "up"
  /\ running' = FALSE
  /\ main' = "shutdown"
  /\ UNCHANGED << listening, acceptor, shaking, detached, pc, handlerVars,
                  active, receiverVars, peer, messageVars, faultVars >>

StopShutdown ==
  /\ main = "shutdown"
  /\ listening' = FALSE
  /\ main' = "join"
  /\ UNCHANGED << running, acceptor, shaking, detached, pc, handlerVars, active,
                  receiverVars, peer, messageVars, faultVars >>

StopJoin ==
  /\ main = "join"
  /\ acceptor = "ended"
  /\ main' = "stopped"
  /\ UNCHANGED << running, listening, acceptor, shaking, detached, pc,
                  handlerVars, active, receiverVars, peer, messageVars, faultVars >>

\* Nobody waits for the handlers, so that its caller has to know that none is
\* left.
network_server_free ==
  /\ main = "stopped"
  /\ \A c \in Clients : pc[c] \in {"off", "closed"}
  /\ IF detached = {}
     THEN main' = "freed" /\ UNCHANGED << messageVars, detached >>
     ELSE /\ \E s \in detached : Release(s) /\ detached' = detached \ {s}
          /\ UNCHANGED << main, submitted, taken, written, dropped >>
  /\ UNCHANGED << running, listening, acceptor, shaking, pc, handlerVars, active,
                  receiverVars, peer, faultVars >>

-----------------------------------------------------------------------------
\* network_server_new, and the context of a connection to come.
Init ==
  /\ main = "new" /\ running = FALSE /\ listening = TRUE
  /\ acceptor = "none" /\ shaking = NULL /\ detached = {}
  /\ pc = [c \in Clients |-> "off"]
  /\ subscription = [c \in Clients |-> NULL]
  /\ is_detached = [c \in Clients |-> FALSE]
  /\ authenticated = [c \in Clients |-> FALSE]
  /\ active = [c \in Clients |-> FALSE]
  /\ receiver = [c \in Clients |-> "none"] /\ held = [c \in Clients |-> NULL]
  /\ peer = [c \in Clients |-> "reads"]
  /\ Broker!Init
  /\ submitted = {} /\ taken = [s \in Subs |-> 0] /\ freed = {}
  /\ written = [s \in Subs |-> << >>] /\ dropped = [s \in Subs |-> {}]
  /\ failed = {} /\ faults = 0

\* What the peer decides: when to send which command, whether to take what is
\* written to it, SSL_shutdown included, and when to leave.
PeerActs(c) ==
  \/ Refuse(c) \/ EndOfSession(c) \/ _handle_auth(c) \/ _handle_publish(c)
  \/ _handle_subscribe(c) \/ _handle_attach(c) \/ _handle_detach(c)
  \/ WriteBlocks(c) \/ CleanupClose(c) \/ Disconnect(c)

Alive == main # "killed"

\* What the handler does by itself.
HandlerRuns(c) ==
  /\ Alive
  /\ \/ Spawn(c) \/ DetachJoin(c) \/ DetachAdd(c) \/ DetachTouch(c)
     \/ Cleanup(c) \/ CleanupJoin(c) \/ CleanupRelease(c)
     \/ peer[c] = "gone" /\ CleanupClose(c)

\* Nothing is left to read from the peer.
ReadFails(c) == Alive /\ peer[c] = "gone" /\ EndOfSession(c)

ReceiverRuns(c) ==
  Alive /\ (ReceiverTest(c) \/ ReceiverTry(c) \/ ReceiverWrite(c))

BrokerRuns == Alive /\ (BrokerLogs \/ BrokerDelivers)

ServerRuns == Alive /\ (AcceptReturns \/ StopShutdown \/ StopJoin)

Next ==
  \/ \E c \in Clients :
       \/ HandlerRuns(c) \/ ReadFails(c) \/ ReceiverRuns(c)
       \/ Alive /\ (PeerActs(c) \/ SigPipe(c))
  \/ BrokerRuns \/ ServerRuns \/ (Alive /\ HandshakeEnds)
  \/ network_server_start \/ network_server_stop \/ network_server_free

Spec == Init /\ [][Next]_vars

\* Threads run, and a write ends unless it has blocked; peers send, stop
\* reading, leave and end a handshake when they please.  What
\* a peer sent before it left is finite, so that a handler that goes on
\* reading comes to its end.
FairSpec ==
  /\ Spec
  /\ \A c \in Clients : WF_vars(HandlerRuns(c)) /\ WF_vars(ReceiverRuns(c))
  /\ \A c \in Clients : SF_vars(ReadFails(c))
  /\ WF_vars(BrokerRuns) /\ WF_vars(ServerRuns)

-----------------------------------------------------------------------------
(* Properties *)

Reads(c) == receiver[c] \in {"test", "try", "write"}

\* A subscription has at most one receiver thread at a time, however it is
\* handed from connection to connection, the thread's connection holds the
\* subscription, and nobody has freed it: the broker, whose
\* subscription_try_receive is safe for one reader only, is used as it must
\* be.  A connection without a subscription, and one that has been closed,
\* is written to by nobody.
OneReader ==
  \A c \in Clients : Reads(c) =>
    /\ subscription[c] # NULL /\ subscription[c] \notin freed
    /\ pc[c] \notin {"touch", "close", "closed"}
    /\ \A d \in Clients \ {c} : Reads(d) => subscription[d] # subscription[c]

\* The connections that hold s: not the one in _handle_detach that has listed
\* it and only reads its id, and not one that is over.
Holders(s) ==
  { c \in Clients : subscription[c] = s /\ pc[c] \notin {"touch", "close", "closed"} }

\* A subscription has exactly one owner from SUBSCRIBE to its release, a
\* connection or the list of detached ones, so that it is released once and
\* never leaks; and it is out of everybody's reach once it is freed, except
\* for the reading of its id by _handle_detach.
SubscriptionOwned ==
  \A s \in Subs :
    IF member[s] # NULL /\ s \notin left
    THEN Cardinality(Holders(s)) + (IF s \in detached THEN 1 ELSE 0) = 1
    ELSE Holders(s) = {} /\ s \notin detached

\* pthread_join is called once for each receiver thread, whatever the order
\* of SUBSCRIBE, ATTACH and DETACH.  A connection whose last receiver could
\* not be created, or whose DETACH failed after joining it, is the exception,
\* until its next receiver is created; the failure of one connection never
\* reaches another.
JoinsOnce ==
  \A c \in Clients \ failed :
    pc[c] \in {"stop", "end"} => receiver[c] # "none"

\* Messages survive DETACH and ATTACH: what the receivers of a subscription,
\* over all its connections, have taken from its inbox was written to a peer,
\* could not be written or is at a receiver, and only one of these; and what
\* was written was written in the order of delivery and without repetition.
\* None is dropped unless a connection broke or memory ran out.
NothingLostByDetach ==
  \A s \in Subs :
    LET reading == { held[c] : c \in { d \in Clients : subscription[d] = s } } \ {NULL}
        reached == Range(written[s])
    IN /\ reached \cup dropped[s] \cup reading = { view[s][i] : i \in 1..taken[s] }
       /\ reached \cap dropped[s] = {}
       /\ (reached \cup dropped[s]) \cap reading = {}
       /\ \A i, j \in 1..Len(written[s]) : i < j =>
            \E p, q \in 1..taken[s] :
              p < q /\ view[s][p] = written[s][i] /\ view[s][q] = written[s][j]
       /\ dropped[s] # {} => faults > 0 \/ \E c \in Clients : peer[c] = "gone"

\* A message delivered to a subscription reaches its peer, or the write
\* fails, or the subscription is detached or released first, or it is held by
\* a connection whose peer does not read or which has lost its receiver to a
\* failed creation or a failed DETACH, or the process dies.
DeliveredIsWritten ==
  \A s \in Subs, m \in Messages :
    (\E i \in DOMAIN view[s] : view[s][i] = m) ~>
      \/ \E i \in DOMAIN written[s] : written[s][i] = m
      \/ m \in dropped[s]
      \/ s \in detached \cup left
      \/ \E c \in Clients :
           subscription[c] = s /\ (peer[c] = "stalled" \/ c \in failed)
      \/ ~Alive

\* Threads come to an end.  The handler of a connection that breaks gives up
\* the subscription and ends, also when a write had blocked, unless joining a
\* receiver that is not there hangs; and network_server_stop returns,
\* whatever the connections do, unless the accept thread waits for ever for a
\* peer that does not finish its handshake.  The death of the process is the
\* end of all of them.
ThreadsEnd ==
  /\ \A c \in Clients :
       peer[c] = "gone" ~> pc[c] = "closed" \/ c \in failed \/ ~Alive
  /\ \/ <>[](acceptor = "handshake")
     \/ main = "shutdown" ~> main = "stopped" \/ ~Alive

=============================================================================
