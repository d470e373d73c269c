-------------------------- MODULE ThreadPoolProofs --------------------------
(***************************************************************************)
(* Proofs about ThreadPool, for any number of dispatchers, clients and     *)
(* tasks.                                                                  *)
(***************************************************************************)
EXTENDS ThreadPool, TLAPS, FiniteSetTheorems

\* How the set of counted dispatchers, and its cardinality, changes when one
\* dispatcher moves.
LEMMA CountedMoves ==
  ASSUME InFlightCounts, inFlight \in Nat,
         dpc \in [Dispatchers -> DispatcherPC],
         NEW d \in Dispatchers, NEW l \in DispatcherPC, DGoto(d, l)
  PROVE  /\ dpc' \in [Dispatchers -> DispatcherPC]
         /\ (dpc[d] \in {"run", "uncount"} <=> l \in {"run", "uncount"})
              => Counted' = Counted
         /\ dpc[d] = "count" /\ l = "run"
              => Cardinality(Counted') = inFlight + 1
         /\ dpc[d] = "uncount" /\ l = "notify"
              => inFlight - 1 \in Nat /\ Cardinality(Counted') = inFlight - 1
  <1>1. dpc' \in [Dispatchers -> DispatcherPC]
    BY DEF DGoto
  <1>2. IsFiniteSet(Counted)
    BY FS_Subset, PoolAssumption DEF Counted
  <1>3. ASSUME dpc[d] \in {"run", "uncount"} <=> l \in {"run", "uncount"}
        PROVE  Counted' = Counted
    BY <1>3 DEF Counted, DGoto
  <1>4. ASSUME dpc[d] = "count", l = "run"
        PROVE  Cardinality(Counted') = inFlight + 1
    <2>1. Counted' = Counted \cup {d} /\ d \notin Counted
      BY <1>4 DEF Counted, DGoto
    <2> QED
      BY <2>1, <1>2, FS_AddElement DEF InFlightCounts
  <1>5. ASSUME dpc[d] = "uncount", l = "notify"
        PROVE  inFlight - 1 \in Nat /\ Cardinality(Counted') = inFlight - 1
    <2>1. Counted' = Counted \ {d} /\ d \in Counted
      BY <1>5 DEF Counted, DGoto
    <2>2. Cardinality(Counted') = inFlight - 1
      BY <2>1, <1>2, FS_RemoveElement DEF InFlightCounts
    <2>3. Cardinality(Counted') \in Nat
      BY <2>1, <1>2, FS_RemoveElement, FS_CardinalityType
    <2> QED
      BY <2>2, <2>3
  <1> QED
    BY <1>1, <1>3, <1>4, <1>5

-----------------------------------------------------------------------------
(* Types, together with the meaning of _in_flight, without which the       *)
(* decrement could leave the natural numbers, and with the fact that the   *)
(* locals task and arg hold a task where the code uses them.               *)

LocalsOK ==
  /\ \A d \in Dispatchers : dpc[d] \in {"count", "run"} => held[d] \in Tasks
  /\ \A c \in Clients : cpc[c] = "enqueue" => arg[c] \in Tasks

TypeInv == TypeOK /\ InFlightCounts /\ LocalsOK

LEMMA TypeInvInit == Init => TypeInv
  <1> SUFFICES ASSUME Init PROVE TypeInv
    OBVIOUS
  <1>1. queue \in Seq(Tasks)
    BY DEF Init
  <1>2. cpc \in [Clients -> ClientPC]
    BY DEF Init, ClientPC
  <1>3. TypeOK
    BY <1>1, <1>2, PoolAssumption
    DEF Init, TypeOK, DispatcherPC, Stage, Threads
  <1>4. Counted = {}
    BY DEF Init, Counted
  <1>5. LocalsOK
    BY DEF Init, LocalsOK
  <1> QED
    BY <1>3, <1>4, <1>5, FS_EmptySet DEF Init, TypeInv, InFlightCounts

LEMMA TypeInvDispatcher ==
  ASSUME TypeInv, NEW d \in Dispatchers, _dispatcher_function(d)
  PROVE  TypeInv'
  <1> USE DEF TypeInv, TypeOK, InFlightCounts, LocalsOK, DGoto, DispatcherPC,
              ClientPC, Stage, Threads, syncVars, flagVars, dispatcherVars, clientVars,
              historyVars, boundVars
  <1>0. \A l \in DispatcherPC : DGoto(d, l) =>
           /\ dpc' \in [Dispatchers -> DispatcherPC]
           /\ (dpc[d] \in {"run", "uncount"} <=> l \in {"run", "uncount"})
                => Counted' = Counted
           /\ dpc[d] = "count" /\ l = "run"
                => Cardinality(Counted') = inFlight + 1
           /\ dpc[d] = "uncount" /\ l = "notify"
                => inFlight - 1 \in Nat /\ Cardinality(Counted') = inFlight - 1
    BY CountedMoves
  <1>1. CASE DispatcherLock(d)
    BY <1>0, <1>1 DEF DispatcherLock, Lock
  <1>2. CASE DispatcherIsEmpty(d)
    BY <1>0, <1>2 DEF DispatcherIsEmpty
  <1>3. CASE DispatcherLoadOn(d)
    BY <1>0, <1>3 DEF DispatcherLoadOn
  <1>4. CASE DispatcherSleep(d)
    BY <1>0, <1>4 DEF DispatcherSleep, Unlock
  <1>5. CASE DispatcherWake(d)
    BY <1>0, <1>5 DEF DispatcherWake, Lock
  <1>6. CASE DispatcherLoadOff(d)
    BY <1>0, <1>6 DEF DispatcherLoadOff, Unlock
  <1>7. CASE DispatcherRecheckOn(d)
    BY <1>0, <1>7 DEF DispatcherRecheckOn, Unlock
  <1>8. CASE DispatcherRecheckEmpty(d)
    BY <1>0, <1>8 DEF DispatcherRecheckEmpty, Unlock
  <1>9. CASE DispatcherDequeue(d)
    <2>1. CASE queue = << >>
      BY <1>0, <1>9, <2>1
      DEF DispatcherDequeue, generic_queue_syn_dequeue, dequeued_queue
    <2>2. CASE queue # << >>
      <3>1. Head(queue) \in Tasks /\ Tail(queue) \in Seq(Tasks)
        BY <2>2
      <3>2. /\ DGoto(d, "count")
            /\ stage' = [stage EXCEPT ![Head(queue)] = "taken"]
            /\ held' = [held EXCEPT ![d] = Head(queue)]
            /\ queue' = Tail(queue)
        BY <1>9, <2>2, <3>1, PoolAssumption
        DEF DispatcherDequeue, generic_queue_syn_dequeue, dequeued_queue
      <3> QED
        BY <1>0, <1>9, <3>1, <3>2 DEF DispatcherDequeue
    <2> QED
      BY <2>1, <2>2
  <1>10. CASE DispatcherCount(d)
    BY <1>0, <1>10 DEF DispatcherCount
  <1>11. CASE DispatcherRun(d)
    BY <1>0, <1>11 DEF DispatcherRun
  <1>12. CASE DispatcherUncount(d)
    BY <1>0, <1>12 DEF DispatcherUncount
  <1>13. CASE DispatcherNotify(d)
    BY <1>0, <1>13 DEF DispatcherNotify, BroadcastTaskDone
  <1> QED
    BY <1>1, <1>2, <1>3, <1>4, <1>5, <1>6, <1>7, <1>8, <1>9,
       <1>10, <1>11, <1>12, <1>13
    DEF _dispatcher_function

LEMMA TypeInvClient ==
  ASSUME TypeInv, NEW c \in Clients, Continue(c) \/ Call(c)
  PROVE  TypeInv'
  <1> USE DEF TypeInv, TypeOK, InFlightCounts, LocalsOK, Counted, ClientPC,
              Stage, Threads, CGoto, syncVars, flagVars, dispatcherVars, clientVars,
              historyVars, boundVars
  <1>1. CASE SubmitEnqueue(c)
    BY <1>1 DEF SubmitEnqueue, generic_queue_syn_enqueue
  <1>2. CASE SubmitEnqueueFails(c)
    BY <1>2 DEF SubmitEnqueueFails
  <1>3. CASE SubmitSignal(c)
    BY <1>3 DEF SubmitSignal, SignalNewTask
  <1>4. CASE WaitLock(c)
    BY <1>4 DEF WaitLock, Lock
  <1>5. CASE WaitIsEmpty(c)
    BY <1>5 DEF WaitIsEmpty
  <1>6. CASE WaitInFlight(c)
    BY <1>6 DEF WaitInFlight, Unlock
  <1>7. CASE WaitSleep(c)
    BY <1>7 DEF WaitSleep, Unlock
  <1>8. ASSUME NEW t \in Tasks, SubmitBegin(c, t) PROVE TypeInv'
    BY <1>8 DEF SubmitBegin
  <1>9. CASE WaitBegin(c)
    BY <1>9 DEF WaitBegin, Unfinished
  <1> QED
    BY <1>1, <1>2, <1>3, <1>4, <1>5, <1>6, <1>7, <1>8, <1>9 DEF Continue, Call

LEMMA TypeInvOwner ==
  ASSUME TypeInv,
         OwnerContinues \/ ShutdownBegin \/ FreeBegin \/ SpuriousWakeup
  PROVE  TypeInv'
  <1> USE PoolAssumption
      DEF TypeInv, TypeOK, InFlightCounts, LocalsOK, ClientPC, Stage, Threads,
          CGoto, syncVars, flagVars, dispatcherVars, clientVars, historyVars,
          boundVars
  <1>1. ASSUME NEW d \in Dispatchers, CreateThread(d) PROVE TypeInv'
    <2>1. Counted' = Counted
      BY <1>1 DEF CreateThread, DGoto, Counted
    <2> QED
      BY <1>1, <2>1 DEF CreateThread, DGoto, DispatcherPC
  <1>2. CASE NewReturns
    BY <1>2 DEF NewReturns, Counted
  <1>3. CASE NewFails
    BY <1>3 DEF NewFails, Counted
  <1>4. CASE StoreOff
    BY <1>4 DEF StoreOff, Counted
  <1>5. CASE StopBroadcast
    BY <1>5 DEF StopBroadcast, BroadcastNewTask, Counted
  <1>6. CASE Join
    BY <1>6 DEF Join, Counted
  <1>7. CASE FreeDrain
    BY <1>7 DEF FreeDrain, Counted
  <1>8. CASE ShutdownBegin
    BY <1>8 DEF ShutdownBegin, Counted
  <1>9. CASE FreeBegin
    BY <1>9 DEF FreeBegin, Counted
  <1>10. CASE SpuriousWakeup
    BY <1>10 DEF SpuriousWakeup, Counted
  <1> QED
    BY <1>1, <1>2, <1>3, <1>4, <1>5, <1>6, <1>7, <1>8, <1>9,
       <1>10
    DEF OwnerContinues

LEMMA TypeInvariant == Spec => []TypeInv
  <1>1. TypeInv /\ [Next]_vars => TypeInv'
    <2> SUFFICES ASSUME TypeInv, [Next]_vars PROVE TypeInv'
      OBVIOUS
    <2>1. CASE Next
      BY <2>1, TypeInvDispatcher, TypeInvClient, TypeInvOwner DEF Next
    <2>2. CASE UNCHANGED vars
      BY <2>2
      DEF TypeInv, TypeOK, InFlightCounts, LocalsOK, Counted, vars, syncVars,
          flagVars, dispatcherVars, clientVars, historyVars, boundVars
    <2> QED
      BY <2>1, <2>2
  <1> QED
    BY TypeInvInit, <1>1, PTL DEF Spec

\* Every variable of the pool keeps its type.
THEOREM TypeCorrect == Spec => []TypeOK
  BY TypeInvariant, PTL DEF TypeInv

\* The counter _in_flight of thread_pool.c is at all times the number of
\* dispatchers between its increment and its decrement.
THEOREM InFlightIsExact == Spec => []InFlightCounts
  BY TypeInvariant, PTL DEF TypeInv

-----------------------------------------------------------------------------
(* Mutual exclusion between the dispatchers, and no lost wakeup.  A        *)
(* dispatcher that has seen the queue empty keeps _mutex until it sleeps:  *)
(* whoever enqueues in between cannot have sent its signal yet.            *)

DispatcherCritical ==
  {"isEmpty", "loadOn", "sleep", "loadOff", "recheckOn", "recheckEmpty"}

Signalling == \E c \in Clients : cpc[c] = "signal"

SyncInv ==
  /\ \A d \in Dispatchers : dpc[d] \in DispatcherCritical <=> mutex = d
  /\ \A d \in newTask : dpc[d] = "blocked"
  /\ \A d \in Dispatchers :
       dpc[d] \in {"loadOn", "sleep"} /\ queue # << >> => Signalling
  /\ NoLostWakeup

LEMMA SyncInvInit == Init => SyncInv
  BY PoolAssumption
  DEF Init, SyncInv, NoLostWakeup, DispatcherCritical, Signalling, Threads

LEMMA SyncInvDispatcher ==
  ASSUME TypeInv, SyncInv, NEW d \in Dispatchers, _dispatcher_function(d)
  PROVE  SyncInv'
  <1> USE PoolAssumption DEF TypeInv, TypeOK, LocalsOK, SyncInv, NoLostWakeup,
          DispatcherCritical, Signalling, Threads, DGoto, syncVars, flagVars,
          dispatcherVars, clientVars, historyVars, boundVars
  <1>1. CASE DispatcherLock(d)
    BY <1>1 DEF DispatcherLock, Lock
  <1>2. CASE DispatcherIsEmpty(d)
    BY <1>2 DEF DispatcherIsEmpty, generic_queue_syn_is_empty
  <1>3. CASE DispatcherLoadOn(d)
    BY <1>3 DEF DispatcherLoadOn
  <1>4. CASE DispatcherSleep(d)
    BY <1>4 DEF DispatcherSleep, Unlock
  <1>5. CASE DispatcherWake(d)
    BY <1>5 DEF DispatcherWake, Lock
  <1>6. CASE DispatcherLoadOff(d)
    BY <1>6 DEF DispatcherLoadOff, Unlock
  <1>7. CASE DispatcherRecheckOn(d)
    BY <1>7 DEF DispatcherRecheckOn, Unlock
  <1>8. CASE DispatcherRecheckEmpty(d)
    BY <1>8 DEF DispatcherRecheckEmpty, Unlock
  <1>9. CASE DispatcherDequeue(d)
    BY <1>9 DEF DispatcherDequeue, generic_queue_syn_dequeue, dequeued_queue
  <1>10. CASE DispatcherCount(d)
    BY <1>10 DEF DispatcherCount
  <1>11. CASE DispatcherRun(d)
    BY <1>11 DEF DispatcherRun
  <1>12. CASE DispatcherUncount(d)
    BY <1>12 DEF DispatcherUncount
  <1>13. CASE DispatcherNotify(d)
    BY <1>13 DEF DispatcherNotify, BroadcastTaskDone
  <1> QED
    BY <1>1, <1>2, <1>3, <1>4, <1>5, <1>6, <1>7, <1>8, <1>9, <1>10, <1>11,
       <1>12, <1>13
    DEF _dispatcher_function

LEMMA SyncInvClient ==
  ASSUME TypeInv, SyncInv, NEW c \in Clients, Continue(c) \/ Call(c)
  PROVE  SyncInv'
  <1> USE PoolAssumption DEF TypeInv, TypeOK, LocalsOK, SyncInv, NoLostWakeup,
          DispatcherCritical, Signalling, Threads, CGoto, syncVars, flagVars,
          dispatcherVars, clientVars, historyVars, boundVars
  <1>1. CASE SubmitEnqueue(c)
    BY <1>1 DEF SubmitEnqueue, generic_queue_syn_enqueue
  <1>2. CASE SubmitEnqueueFails(c)
    BY <1>2 DEF SubmitEnqueueFails
  <1>3. CASE SubmitSignal(c)
    BY <1>3 DEF SubmitSignal, SignalNewTask
  <1>4. CASE WaitLock(c)
    BY <1>4 DEF WaitLock, Lock
  <1>5. CASE WaitIsEmpty(c)
    BY <1>5 DEF WaitIsEmpty, generic_queue_syn_is_empty
  <1>6. CASE WaitInFlight(c)
    BY <1>6 DEF WaitInFlight, Unlock
  <1>7. CASE WaitSleep(c)
    BY <1>7 DEF WaitSleep, Unlock
  <1>8. ASSUME NEW t \in Tasks, SubmitBegin(c, t) PROVE SyncInv'
    BY <1>8 DEF SubmitBegin
  <1>9. CASE WaitBegin(c)
    BY <1>9 DEF WaitBegin, Unfinished
  <1> QED
    BY <1>1, <1>2, <1>3, <1>4, <1>5, <1>6, <1>7, <1>8, <1>9 DEF Continue, Call

LEMMA SyncInvOwner ==
  ASSUME TypeInv, SyncInv,
         OwnerContinues \/ ShutdownBegin \/ FreeBegin \/ SpuriousWakeup
  PROVE  SyncInv'
  <1> USE PoolAssumption DEF TypeInv, TypeOK, LocalsOK, SyncInv, NoLostWakeup,
          DispatcherCritical, Signalling, Threads, CGoto, syncVars, flagVars,
          dispatcherVars, clientVars, historyVars, boundVars
  <1>1. ASSUME NEW d \in Dispatchers, CreateThread(d) PROVE SyncInv'
    BY <1>1 DEF CreateThread, DGoto
  <1>2. CASE NewReturns
    BY <1>2 DEF NewReturns
  <1>3. CASE NewFails
    BY <1>3 DEF NewFails
  <1>4. CASE StoreOff
    BY <1>4 DEF StoreOff
  <1>5. CASE StopBroadcast
    BY <1>5 DEF StopBroadcast, BroadcastNewTask
  <1>6. CASE Join
    BY <1>6 DEF Join
  <1>7. CASE FreeDrain
    BY <1>7 DEF FreeDrain
  <1>8. CASE ShutdownBegin
    BY <1>8 DEF ShutdownBegin
  <1>9. CASE FreeBegin
    BY <1>9 DEF FreeBegin
  <1>10. CASE SpuriousWakeup
    BY <1>10 DEF SpuriousWakeup
  <1> QED
    BY <1>1, <1>2, <1>3, <1>4, <1>5, <1>6, <1>7, <1>8, <1>9, <1>10
    DEF OwnerContinues

LEMMA SyncInvStep ==
  ASSUME TypeInv, SyncInv, [Next]_vars
  PROVE  SyncInv'
  <1>1. CASE Next
    BY <1>1, SyncInvDispatcher, SyncInvClient, SyncInvOwner DEF Next
  <1>2. CASE UNCHANGED vars
    BY <1>2
    DEF SyncInv, NoLostWakeup, DispatcherCritical, Signalling, vars, syncVars,
        flagVars, dispatcherVars, clientVars, historyVars, boundVars
  <1> QED
    BY <1>1, <1>2

\* No submitted task is stranded: for any number of dispatchers and clients,
\* the queue is never non-empty with every dispatcher asleep on _new_task and
\* no submitter about to signal it.
THEOREM NoWakeupIsLost == Spec => []NoLostWakeup
  <1>1. Spec => []TypeInv
    BY TypeInvariant
  <1>2. TypeInv /\ SyncInv /\ [Next]_vars => SyncInv'
    BY SyncInvStep
  <1>3. Spec => []SyncInv
    BY <1>1, <1>2, SyncInvInit, PTL DEF Spec
  <1> QED
    BY <1>3, PTL DEF SyncInv

-----------------------------------------------------------------------------
(* Conservation of tasks.  What has to be added is where a task is between *)
(* its allocation and its enqueue: with the one client that submits it.    *)

TaskInv ==
  /\ Conservation
  /\ \A c \in Clients : cpc[c] = "enqueue" => stage[arg[c]] = "submitting"
  /\ \A c, e \in Clients :
       cpc[c] = "enqueue" /\ cpc[e] = "enqueue" /\ arg[c] = arg[e] => c = e

LEMMA TaskInvInit == Init => TaskInv
  BY DEF Init, TaskInv, Conservation, Holders

\* A step that moves no task preserves the invariant.
LEMMA TaskInvFrame ==
  ASSUME TaskInv, UNCHANGED << queue, stage, runs, arg >>,
         Holders' = Holders, \A d \in Holders : held'[d] = held[d],
         \A c \in Clients : cpc'[c] = "enqueue" => cpc[c] = "enqueue"
  PROVE  TaskInv'
  BY DEF TaskInv, Conservation

LEMMA TaskInvDispatcher ==
  ASSUME TypeInv, TaskInv, NEW d \in Dispatchers, _dispatcher_function(d)
  PROVE  TaskInv'
  <1> USE PoolAssumption DEF TypeInv, TypeOK, LocalsOK, TaskInv, Conservation,
          Holders, DGoto, syncVars, flagVars, dispatcherVars, clientVars,
          historyVars, boundVars
  <1>0. \A l \in DispatcherPC :
          /\ DGoto(d, l)
          /\ dpc[d] \in {"count", "run"} <=> l \in {"count", "run"}
          /\ UNCHANGED << queue, held, stage, runs, arg, cpc >>
          => TaskInv'
    <2> SUFFICES ASSUME NEW l \in DispatcherPC, DGoto(d, l),
                        dpc[d] \in {"count", "run"} <=> l \in {"count", "run"},
                        UNCHANGED << queue, held, stage, runs, arg, cpc >>
                 PROVE  TaskInv'
      OBVIOUS
    <2>1. Holders' = Holders
      OBVIOUS
    <2> QED
      BY <2>1, TaskInvFrame
  <1>1. CASE DispatcherLock(d)
    BY <1>0, <1>1 DEF DispatcherLock, Lock, DispatcherPC
  <1>2. CASE DispatcherIsEmpty(d)
    BY <1>0, <1>2 DEF DispatcherIsEmpty, generic_queue_syn_is_empty, DispatcherPC
  <1>3. CASE DispatcherLoadOn(d)
    BY <1>0, <1>3 DEF DispatcherLoadOn, DispatcherPC
  <1>4. CASE DispatcherSleep(d)
    BY <1>0, <1>4 DEF DispatcherSleep, Unlock, DispatcherPC
  <1>5. CASE DispatcherWake(d)
    BY <1>0, <1>5 DEF DispatcherWake, Lock, DispatcherPC
  <1>6. CASE DispatcherLoadOff(d)
    BY <1>0, <1>6 DEF DispatcherLoadOff, Unlock, DispatcherPC
  <1>7. CASE DispatcherRecheckOn(d)
    BY <1>0, <1>7 DEF DispatcherRecheckOn, Unlock, DispatcherPC
  <1>8. CASE DispatcherRecheckEmpty(d)
    BY <1>0, <1>8 DEF DispatcherRecheckEmpty, Unlock, DispatcherPC
  <1>9. CASE DispatcherDequeue(d)
    <2>1. CASE queue = << >>
      <3>1. DGoto(d, "lock") /\ held' = [held EXCEPT ![d] = NULL]
        BY <1>9, <2>1 DEF DispatcherDequeue, generic_queue_syn_dequeue
      <3>2. /\ UNCHANGED << queue, stage, runs, arg, cpc >>
            /\ dpc[d] = "dequeue"
        BY <1>9, <2>1
        DEF DispatcherDequeue, generic_queue_syn_dequeue, dequeued_queue
      <3>3. Holders' = Holders /\ \A e \in Holders : held'[e] = held[e]
        BY <3>1, <3>2
      <3> QED
        BY <3>2, <3>3, TaskInvFrame
    <2>2. CASE queue # << >>
      <3> DEFINE t == Head(queue)
      <3>1. /\ t \in Tasks /\ t # NULL
            /\ stage[t] = "queued"
            /\ Len(queue) \in Nat /\ Len(queue) > 0
            /\ queue' = Tail(queue)
            /\ Len(queue') = Len(queue) - 1
            /\ \A i \in 1..Len(queue') : i + 1 \in 1..Len(queue) /\ queue'[i] = queue[i + 1]
            /\ queue[1] = t
        BY <1>9, <2>2
        DEF DispatcherDequeue, generic_queue_syn_dequeue, dequeued_queue
      <3>2. /\ dpc' = [dpc EXCEPT ![d] = "count"]
            /\ stage' = [stage EXCEPT ![t] = "taken"]
            /\ held' = [held EXCEPT ![d] = t]
            /\ dpc[d] = "dequeue"
            /\ UNCHANGED << cpc, arg, runs >>
        BY <1>9, <2>2, <3>1
        DEF DispatcherDequeue, generic_queue_syn_dequeue, dequeued_queue
      <3> HIDE DEF t
      <3>3. \A i, j \in 1..Len(queue') : queue'[i] = queue'[j] => i = j
        BY <3>1
      <3>4. \A i \in 1..Len(queue') : stage'[queue'[i]] = "queued"
        <4> TAKE i \in 1..Len(queue')
        <4>1. queue'[i] # t /\ queue'[i] \in Tasks
          BY <3>1
        <4>2. stage[queue'[i]] = "queued"
          BY <3>1
        <4> QED
          BY <4>1, <4>2, <3>1, <3>2
      <3>5. \A s \in Tasks : stage'[s] = "queued" =>
              \E i \in 1..Len(queue') : queue'[i] = s
        <4> SUFFICES ASSUME NEW s \in Tasks, stage'[s] = "queued"
                     PROVE  \E i \in 1..Len(queue') : queue'[i] = s
          OBVIOUS
        <4>1. s # t /\ stage[s] = "queued"
          BY <3>1, <3>2
        <4>2. PICK k \in 1..Len(queue) : queue[k] = s
          BY <4>1
        <4>3. k - 1 \in 1..Len(queue') /\ queue'[k - 1] = s
          BY <4>1, <4>2, <3>1
        <4> QED
          BY <4>3
      <3>6. Holders' = Holders \cup {d} /\ d \notin Holders
        BY <3>2
      <3>7. \A e \in Holders : held'[e] = held[e] /\ held[e] # t /\ held[e] \in Tasks
        BY <3>1, <3>2, <3>6
      <3> QED
        BY <3>1, <3>2, <3>3, <3>4, <3>5, <3>6, <3>7
    <2> QED
      BY <2>1, <2>2
  <1>10. CASE DispatcherCount(d)
    BY <1>0, <1>10 DEF DispatcherCount, DispatcherPC
  <1>11. CASE DispatcherRun(d)
    BY <1>11 DEF DispatcherRun
  <1>12. CASE DispatcherUncount(d)
    BY <1>0, <1>12 DEF DispatcherUncount, DispatcherPC
  <1>13. CASE DispatcherNotify(d)
    BY <1>0, <1>13 DEF DispatcherNotify, BroadcastTaskDone, DispatcherPC
  <1> QED
    BY <1>1, <1>2, <1>3, <1>4, <1>5, <1>6, <1>7, <1>8, <1>9, <1>10, <1>11,
       <1>12, <1>13
    DEF _dispatcher_function

LEMMA TaskInvClient ==
  ASSUME TypeInv, TaskInv, NEW c \in Clients, Continue(c) \/ Call(c)
  PROVE  TaskInv'
  <1> USE PoolAssumption DEF TypeInv, TypeOK, LocalsOK, TaskInv, Conservation,
          Holders, CGoto, syncVars, flagVars, dispatcherVars, clientVars,
          historyVars, boundVars
  <1>0. /\ UNCHANGED << queue, held, stage, runs, arg, dpc >>
        /\ \A e \in Clients : cpc'[e] = "enqueue" => cpc[e] = "enqueue"
        => TaskInv'
    <2> SUFFICES ASSUME UNCHANGED << queue, held, stage, runs, arg, dpc >>,
                        \A e \in Clients : cpc'[e] = "enqueue" => cpc[e] = "enqueue"
                 PROVE  TaskInv'
      OBVIOUS
    <2>1. Holders' = Holders
      OBVIOUS
    <2> QED
      BY <2>1, TaskInvFrame
  <1>1. CASE SubmitEnqueue(c)
    <2> DEFINE t == arg[c]
    <2>1. /\ t \in Tasks /\ stage[t] = "submitting"
          /\ queue' = Append(queue, t)
          /\ Len(queue') = Len(queue) + 1 /\ Len(queue) \in Nat
          /\ queue'[Len(queue) + 1] = t
          /\ \A i \in 1..Len(queue) : queue'[i] = queue[i]
      BY <1>1 DEF SubmitEnqueue, generic_queue_syn_enqueue
    <2>2. /\ stage' = [stage EXCEPT ![t] = "queued"]
          /\ cpc' = [cpc EXCEPT ![c] = "signal"]
          /\ cpc[c] = "enqueue"
          /\ UNCHANGED << dpc, held, arg, runs >>
      BY <1>1 DEF SubmitEnqueue
    <2>3. Holders' = Holders
      BY <2>2
    <2>4. \A i \in 1..Len(queue) : queue[i] # t /\ queue[i] \in Tasks
      <3> TAKE i \in 1..Len(queue)
      <3>1. queue[i] \in Tasks
        OBVIOUS
      <3>2. stage[queue[i]] = "queued"
        OBVIOUS
      <3> QED
        BY <3>1, <3>2, <2>1
    <2>5. \A e \in Clients : cpc'[e] = "enqueue" => arg[e] # t /\ cpc[e] = "enqueue"
      BY <2>2
    <2> HIDE DEF t
    <2>6. \A i, j \in 1..Len(queue') : queue'[i] = queue'[j] => i = j
      BY <2>1, <2>4
    <2>7. \A i \in 1..Len(queue') : stage'[queue'[i]] = "queued"
      BY <2>1, <2>2, <2>4
    <2>8. \A s \in Tasks : stage'[s] = "queued" =>
            \E i \in 1..Len(queue') : queue'[i] = s
      <3> SUFFICES ASSUME NEW s \in Tasks, stage'[s] = "queued"
                   PROVE  \E i \in 1..Len(queue') : queue'[i] = s
        OBVIOUS
      <3>1. CASE s = t
        BY <3>1, <2>1
      <3>2. CASE s # t
        <4>1. PICK k \in 1..Len(queue) : queue[k] = s
          BY <3>2, <2>2
        <4> QED
          BY <4>1, <2>1
      <3> QED
        BY <3>1, <3>2
    <2>9. \A e \in Holders : held[e] # t
      BY <2>1
    <2>10. \A e \in Clients : cpc'[e] = "enqueue" => stage'[arg[e]] = "submitting"
      BY <2>2, <2>5
    <2> QED
      BY <2>1, <2>2, <2>3, <2>5, <2>6, <2>7, <2>8, <2>9, <2>10
  <1>2. CASE SubmitEnqueueFails(c)
    BY <1>2 DEF SubmitEnqueueFails
  <1>3. CASE SubmitSignal(c)
    BY <1>0, <1>3 DEF SubmitSignal, SignalNewTask
  <1>4. CASE WaitLock(c)
    BY <1>0, <1>4 DEF WaitLock, Lock
  <1>5. CASE WaitIsEmpty(c)
    BY <1>0, <1>5 DEF WaitIsEmpty, generic_queue_syn_is_empty
  <1>6. CASE WaitInFlight(c)
    BY <1>0, <1>6 DEF WaitInFlight, Unlock
  <1>7. CASE WaitSleep(c)
    BY <1>0, <1>7 DEF WaitSleep, Unlock
  <1>8. ASSUME NEW t \in Tasks, SubmitBegin(c, t) PROVE TaskInv'
    <2>1. /\ stage[t] = "fresh"
          /\ stage' = [stage EXCEPT ![t] = "submitting"]
          /\ arg' = [arg EXCEPT ![c] = t]
          /\ cpc' = [cpc EXCEPT ![c] = "enqueue"]
          /\ UNCHANGED << queue, held, runs, dpc >>
      BY <1>8 DEF SubmitBegin
    <2>2. stage'[t] = "submitting" /\ \A s \in Tasks : s # t => stage'[s] = stage[s]
      BY <2>1
    <2>3. \A e \in Clients : e # c => cpc'[e] = cpc[e] /\ arg'[e] = arg[e]
      BY <2>1
    <2>4. cpc'[c] = "enqueue" /\ arg'[c] = t
      BY <2>1
    <2>5. \A e \in Clients : cpc[e] = "enqueue" => arg[e] \in Tasks /\ arg[e] # t
      BY <2>1
    <2>6. \A i \in 1..Len(queue) : queue[i] \in Tasks /\ queue[i] # t
      BY <2>1
    <2>7. \A d \in Holders : held[d] \in Tasks /\ held[d] # t
      BY <2>1
    <2>8. Holders' = Holders
      BY <2>1
    <2>9. Conservation'
      BY <2>1, <2>2, <2>6, <2>7, <2>8
    <2>10. \A e \in Clients : cpc'[e] = "enqueue" => stage'[arg'[e]] = "submitting"
      BY <2>2, <2>3, <2>4, <2>5
    <2>11. \A e, f \in Clients :
             cpc'[e] = "enqueue" /\ cpc'[f] = "enqueue" /\ arg'[e] = arg'[f] => e = f
      BY <2>3, <2>4, <2>5
    <2> QED
      BY <2>9, <2>10, <2>11
  <1>9. CASE WaitBegin(c)
    BY <1>0, <1>9 DEF WaitBegin, Unfinished
  <1> QED
    BY <1>1, <1>2, <1>3, <1>4, <1>5, <1>6, <1>7, <1>8, <1>9 DEF Continue, Call

LEMMA TaskInvOwner ==
  ASSUME TypeInv, TaskInv,
         OwnerContinues \/ ShutdownBegin \/ FreeBegin \/ SpuriousWakeup
  PROVE  TaskInv'
  <1> USE PoolAssumption DEF TypeInv, TypeOK, LocalsOK, TaskInv, Conservation,
          Holders, CGoto, syncVars, flagVars, dispatcherVars, clientVars,
          historyVars, boundVars
  <1>0. /\ UNCHANGED << queue, held, stage, runs, arg, dpc >>
        /\ \A e \in Clients : cpc'[e] = "enqueue" => cpc[e] = "enqueue"
        => TaskInv'
    <2> SUFFICES ASSUME UNCHANGED << queue, held, stage, runs, arg, dpc >>,
                        \A e \in Clients : cpc'[e] = "enqueue" => cpc[e] = "enqueue"
                 PROVE  TaskInv'
      OBVIOUS
    <2>1. Holders' = Holders
      OBVIOUS
    <2> QED
      BY <2>1, TaskInvFrame
  <1>1. ASSUME NEW d \in Dispatchers, CreateThread(d) PROVE TaskInv'
    BY <1>1 DEF CreateThread, DGoto
  <1>2. CASE NewReturns
    BY <1>0, <1>2 DEF NewReturns
  <1>3. CASE NewFails
    BY <1>0, <1>3 DEF NewFails
  <1>4. CASE StoreOff
    BY <1>0, <1>4 DEF StoreOff
  <1>5. CASE StopBroadcast
    BY <1>0, <1>5 DEF StopBroadcast, BroadcastNewTask
  <1>6. CASE Join
    BY <1>0, <1>6 DEF Join
  <1>7. CASE FreeDrain
    BY <1>7 DEF FreeDrain
  <1>8. CASE ShutdownBegin
    BY <1>0, <1>8 DEF ShutdownBegin
  <1>9. CASE FreeBegin
    BY <1>0, <1>9 DEF FreeBegin
  <1>10. CASE SpuriousWakeup
    BY <1>0, <1>10 DEF SpuriousWakeup
  <1> QED
    BY <1>1, <1>2, <1>3, <1>4, <1>5, <1>6, <1>7, <1>8, <1>9, <1>10
    DEF OwnerContinues

LEMMA TaskInvStep ==
  ASSUME TypeInv, TaskInv, [Next]_vars
  PROVE  TaskInv'
  <1>1. CASE Next
    BY <1>1, TaskInvDispatcher, TaskInvClient, TaskInvOwner DEF Next
  <1>2. CASE UNCHANGED vars
    BY <1>2
    DEF TaskInv, Conservation, Holders, vars, syncVars, flagVars,
        dispatcherVars, clientVars, historyVars, boundVars
  <1> QED
    BY <1>1, <1>2

LEMMA TaskInvariant == Spec => []TaskInv
  <1>1. TypeInv /\ TaskInv /\ [Next]_vars => TaskInv'
    BY TaskInvStep
  <1> QED
    BY TypeInvariant, TaskInvInit, <1>1, PTL DEF Spec

\* An accepted task is executed exactly once or is still in exactly one
\* place: no dispatcher race, shutdown or failed enqueue loses or duplicates
\* it.
THEOREM TasksAreConserved == Spec => []Conservation
  BY TaskInvariant, PTL DEF TaskInv

-----------------------------------------------------------------------------
(* The owner's stop sequence: once _off is set and the owner is past the   *)
(* joins there is no dispatcher left, and while the pool is being freed    *)
(* no other client is inside it.                                           *)

OwnerInv ==
  /\ cpc[Owner] = "new" => ~off
  /\ off /\ cpc[Owner] \notin {"broadcast", "join"} =>
       \A d \in Dispatchers : dpc[d] \in {"unborn", "exited"}
  /\ cpc[Owner] \in {"broadcast", "join", "drain", "freed", "failed"} => off
  /\ cpc[Owner] \in {"drain", "freed"} => stopFor = "free"
  /\ stopFor = "free" => \A c \in Clients \ {Owner} : cpc[c] = "idle"

LEMMA OwnerInvInit == Init => OwnerInv
  BY PoolAssumption DEF Init, OwnerInv

LEMMA OwnerInvDispatcher ==
  ASSUME TypeInv, OwnerInv, NEW d \in Dispatchers, _dispatcher_function(d)
  PROVE  OwnerInv'
  <1> USE PoolAssumption DEF TypeInv, TypeOK, OwnerInv, Usable, DGoto,
          syncVars, flagVars, dispatcherVars, clientVars, historyVars,
          boundVars
  <1>1. CASE DispatcherLock(d)
    BY <1>1 DEF DispatcherLock, Lock
  <1>2. CASE DispatcherIsEmpty(d)
    BY <1>2 DEF DispatcherIsEmpty, generic_queue_syn_is_empty
  <1>3. CASE DispatcherLoadOn(d)
    BY <1>3 DEF DispatcherLoadOn
  <1>4. CASE DispatcherSleep(d)
    BY <1>4 DEF DispatcherSleep, Unlock
  <1>5. CASE DispatcherWake(d)
    BY <1>5 DEF DispatcherWake, Lock
  <1>6. CASE DispatcherLoadOff(d)
    BY <1>6 DEF DispatcherLoadOff, Unlock
  <1>7. CASE DispatcherRecheckOn(d)
    BY <1>7 DEF DispatcherRecheckOn, Unlock
  <1>8. CASE DispatcherRecheckEmpty(d)
    BY <1>8 DEF DispatcherRecheckEmpty, Unlock
  <1>9. CASE DispatcherDequeue(d)
    BY <1>9 DEF DispatcherDequeue, generic_queue_syn_dequeue, dequeued_queue
  <1>10. CASE DispatcherCount(d)
    BY <1>10 DEF DispatcherCount
  <1>11. CASE DispatcherRun(d)
    BY <1>11 DEF DispatcherRun
  <1>12. CASE DispatcherUncount(d)
    BY <1>12 DEF DispatcherUncount
  <1>13. CASE DispatcherNotify(d)
    BY <1>13 DEF DispatcherNotify, BroadcastTaskDone
  <1> QED
    BY <1>1, <1>2, <1>3, <1>4, <1>5, <1>6, <1>7, <1>8, <1>9, <1>10, <1>11,
       <1>12, <1>13
    DEF _dispatcher_function

LEMMA OwnerInvClient ==
  ASSUME TypeInv, OwnerInv, NEW c \in Clients, Continue(c) \/ Call(c)
  PROVE  OwnerInv'
  <1> USE PoolAssumption DEF TypeInv, TypeOK, OwnerInv, Usable, CGoto,
          syncVars, flagVars, dispatcherVars, clientVars, historyVars,
          boundVars
  <1>1. CASE SubmitEnqueue(c)
    BY <1>1 DEF SubmitEnqueue, generic_queue_syn_enqueue
  <1>2. CASE SubmitEnqueueFails(c)
    BY <1>2 DEF SubmitEnqueueFails
  <1>3. CASE SubmitSignal(c)
    BY <1>3 DEF SubmitSignal, SignalNewTask
  <1>4. CASE WaitLock(c)
    BY <1>4 DEF WaitLock, Lock
  <1>5. CASE WaitIsEmpty(c)
    BY <1>5 DEF WaitIsEmpty, generic_queue_syn_is_empty
  <1>6. CASE WaitInFlight(c)
    BY <1>6 DEF WaitInFlight, Unlock
  <1>7. CASE WaitSleep(c)
    BY <1>7 DEF WaitSleep, Unlock
  <1>8. ASSUME NEW t \in Tasks, SubmitBegin(c, t) PROVE OwnerInv'
    BY <1>8 DEF SubmitBegin
  <1>9. CASE WaitBegin(c)
    BY <1>9 DEF WaitBegin, Unfinished
  <1> QED
    BY <1>1, <1>2, <1>3, <1>4, <1>5, <1>6, <1>7, <1>8, <1>9 DEF Continue, Call

LEMMA OwnerInvOwner ==
  ASSUME TypeInv, OwnerInv,
         OwnerContinues \/ ShutdownBegin \/ FreeBegin \/ SpuriousWakeup
  PROVE  OwnerInv'
  <1> USE PoolAssumption DEF TypeInv, TypeOK, OwnerInv, Usable, CGoto,
          syncVars, flagVars, dispatcherVars, clientVars, historyVars,
          boundVars
  <1>1. ASSUME NEW d \in Dispatchers, CreateThread(d) PROVE OwnerInv'
    BY <1>1 DEF CreateThread, DGoto
  <1>2. CASE NewReturns
    BY <1>2 DEF NewReturns
  <1>3. CASE NewFails
    BY <1>3 DEF NewFails
  <1>4. CASE StoreOff
    BY <1>4 DEF StoreOff
  <1>5. CASE StopBroadcast
    BY <1>5 DEF StopBroadcast, BroadcastNewTask
  <1>6. CASE Join
    BY <1>6 DEF Join
  <1>7. CASE FreeDrain
    BY <1>7 DEF FreeDrain
  <1>8. CASE ShutdownBegin
    BY <1>8 DEF ShutdownBegin
  <1>9. CASE FreeBegin
    BY <1>9 DEF FreeBegin
  <1>10. CASE SpuriousWakeup
    BY <1>10 DEF SpuriousWakeup
  <1> QED
    BY <1>1, <1>2, <1>3, <1>4, <1>5, <1>6, <1>7, <1>8, <1>9, <1>10
    DEF OwnerContinues

LEMMA OwnerInvStep ==
  ASSUME TypeInv, OwnerInv, [Next]_vars
  PROVE  OwnerInv'
  <1>1. CASE Next
    BY <1>1, OwnerInvDispatcher, OwnerInvClient, OwnerInvOwner DEF Next
  <1>2. CASE UNCHANGED vars
    BY <1>2
    DEF OwnerInv, vars, syncVars, flagVars, dispatcherVars, clientVars,
        historyVars, boundVars
  <1> QED
    BY <1>1, <1>2

LEMMA OwnerInvariant == Spec => []OwnerInv
  <1>1. TypeInv /\ OwnerInv /\ [Next]_vars => OwnerInv'
    BY OwnerInvStep
  <1> QED
    BY TypeInvariant, OwnerInvInit, <1>1, PTL DEF Spec

-----------------------------------------------------------------------------
(* thread_pool_wait.  A client that has decided to sleep keeps _mutex until *)
(* it sleeps, so the broadcast of the dispatcher it waits for comes later. *)

WaiterCritical == {"waitEmpty", "waitInFlight", "waitSleep"}

Waiting == WaiterCritical \cup {"waitLock", "waitBlocked"}

Busy == \E d \in Dispatchers : dpc[d] \in {"count", "run", "uncount", "notify"}

WaitInv ==
  /\ \A c \in Clients : cpc[c] \in WaiterCritical <=> mutex = c
  /\ \A c \in taskDone : cpc[c] = "waitBlocked"
  /\ \A c \in Clients : cpc[c] = "waitSleep" => queue # << >> \/ Busy
  /\ WaiterHasCause
  /\ \A c \in Clients : cpc[c] \in Waiting =>
       \A t \in owed[c] : stage[t] \in {"queued", "taken", "done"}
  /\ \A c \in Clients : cpc[c] = "waitInFlight" =>
       \A t \in owed[c] : stage[t] \in {"taken", "done"}

\* A positive _in_flight means a busy dispatcher, and zero means that no
\* dispatcher is executing a task.
LEMMA InFlightBusy ==
  ASSUME TypeInv
  PROVE  /\ inFlight > 0 => Busy
         /\ inFlight = 0 => \A d \in Dispatchers : dpc[d] # "run"
  <1>1. IsFiniteSet(Counted)
    BY FS_Subset, PoolAssumption DEF Counted
  <1>2. inFlight = 0 <=> Counted = {}
    BY <1>1, FS_EmptySet DEF TypeInv, InFlightCounts
  <1> QED
    BY <1>2 DEF Counted, Busy, TypeInv, TypeOK

LEMMA WaitInvInit == Init => WaitInv
  BY PoolAssumption
  DEF Init, WaitInv, WaiterHasCause, WaiterCritical, Waiting, Threads

LEMMA WaitInvDispatcher ==
  ASSUME TypeInv, TaskInv, OwnerInv, WaitInv,
         NEW d \in Dispatchers, _dispatcher_function(d)
  PROVE  WaitInv'
  <1> USE PoolAssumption DEF TypeInv, TypeOK, LocalsOK, WaitInv,
          WaiterHasCause, WaiterCritical, Waiting, Busy, Threads, DGoto,
          syncVars, flagVars, dispatcherVars, clientVars, historyVars,
          boundVars
  <1>1. CASE DispatcherLock(d)
    BY <1>1 DEF DispatcherLock, Lock
  <1>2. CASE DispatcherIsEmpty(d)
    BY <1>2 DEF DispatcherIsEmpty, generic_queue_syn_is_empty
  <1>3. CASE DispatcherLoadOn(d)
    BY <1>3 DEF DispatcherLoadOn
  <1>4. CASE DispatcherSleep(d)
    BY <1>4 DEF DispatcherSleep, Unlock
  <1>5. CASE DispatcherWake(d)
    BY <1>5 DEF DispatcherWake, Lock
  <1>6. CASE DispatcherLoadOff(d)
    BY <1>6 DEF DispatcherLoadOff, Unlock
  <1>7. CASE DispatcherRecheckOn(d)
    BY <1>7 DEF DispatcherRecheckOn, Unlock
  <1>8. CASE DispatcherRecheckEmpty(d)
    BY <1>8 DEF DispatcherRecheckEmpty, Unlock
  <1>9. CASE DispatcherDequeue(d)
    <2>1. CASE queue = << >>
      BY <1>9, <2>1
      DEF DispatcherDequeue, generic_queue_syn_dequeue, dequeued_queue
    <2>2. CASE queue # << >>
      <3>1. Head(queue) \in Tasks
        BY <2>2
      <3>2. /\ dpc' = [dpc EXCEPT ![d] = "count"]
            /\ stage' = [stage EXCEPT ![Head(queue)] = "taken"]
            /\ UNCHANGED << mutex, taskDone, cpc, owed >>
        BY <1>9, <2>2, <3>1 DEF DispatcherDequeue, generic_queue_syn_dequeue
      <3> QED
        BY <3>1, <3>2
    <2> QED
      BY <2>1, <2>2
  <1>10. CASE DispatcherCount(d)
    BY <1>10 DEF DispatcherCount
  <1>11. CASE DispatcherRun(d)
    BY <1>11 DEF DispatcherRun, TaskInv, Conservation, Holders
  <1>12. CASE DispatcherUncount(d)
    BY <1>12 DEF DispatcherUncount
  <1>13. CASE DispatcherNotify(d)
    BY <1>13 DEF DispatcherNotify, BroadcastTaskDone
  <1> QED
    BY <1>1, <1>2, <1>3, <1>4, <1>5, <1>6, <1>7, <1>8, <1>9, <1>10, <1>11,
       <1>12, <1>13
    DEF _dispatcher_function

LEMMA WaitInvClient ==
  ASSUME TypeInv, TaskInv, OwnerInv, WaitInv,
         NEW c \in Clients, Continue(c) \/ Call(c)
  PROVE  WaitInv'
  <1> USE PoolAssumption DEF TypeInv, TypeOK, LocalsOK, WaitInv,
          WaiterHasCause, WaiterCritical, Waiting, Busy, Threads, CGoto,
          syncVars, flagVars, dispatcherVars, clientVars, historyVars,
          boundVars
  <1>1. CASE SubmitEnqueue(c)
    <2>1. queue' # << >>
      BY <1>1 DEF SubmitEnqueue, generic_queue_syn_enqueue
    <2>2. /\ stage' = [stage EXCEPT ![arg[c]] = "queued"]
          /\ cpc' = [cpc EXCEPT ![c] = "signal"] /\ cpc[c] = "enqueue"
          /\ stage[arg[c]] = "submitting"
          /\ UNCHANGED << mutex, taskDone, dpc, owed >>
      BY <1>1 DEF SubmitEnqueue, TaskInv
    <2> QED
      BY <2>1, <2>2
  <1>2. CASE SubmitEnqueueFails(c)
    BY <1>2 DEF SubmitEnqueueFails, TaskInv
  <1>3. CASE SubmitSignal(c)
    BY <1>3 DEF SubmitSignal, SignalNewTask
  <1>4. CASE WaitLock(c)
    BY <1>4 DEF WaitLock, Lock
  <1>5. CASE WaitIsEmpty(c)
    BY <1>5 DEF WaitIsEmpty, generic_queue_syn_is_empty, TaskInv, Conservation
  <1>6. CASE WaitInFlight(c)
    <2>1. /\ cpc[c] = "waitInFlight" /\ mutex = c
          /\ UNCHANGED << queue, taskDone, dpc, owed, stage >>
      BY <1>6 DEF WaitInFlight
    <2>2. CASE inFlight > 0
      <3>1. Busy
        BY <2>2, InFlightBusy
      <3>2. cpc' = [cpc EXCEPT ![c] = "waitSleep"] /\ mutex' = c
        BY <1>6, <2>1, <2>2 DEF WaitInFlight
      <3> QED
        BY <2>1, <3>1, <3>2
    <2>3. CASE inFlight = 0
      <3>1. cpc' = [cpc EXCEPT ![c] = "idle"] /\ mutex' = NoThread
        BY <1>6, <2>3 DEF WaitInFlight, Unlock
      <3> QED
        BY <2>1, <3>1
    <2> QED
      BY <1>6, <2>2, <2>3 DEF WaitInFlight
  <1>7. CASE WaitSleep(c)
    BY <1>7 DEF WaitSleep, Unlock
  <1>8. ASSUME NEW t \in Tasks, SubmitBegin(c, t) PROVE WaitInv'
    BY <1>8 DEF SubmitBegin
  <1>9. CASE WaitBegin(c)
    BY <1>9 DEF WaitBegin, Unfinished
  <1> QED
    BY <1>1, <1>2, <1>3, <1>4, <1>5, <1>6, <1>7, <1>8, <1>9 DEF Continue, Call

LEMMA WaitInvOwner ==
  ASSUME TypeInv, TaskInv, OwnerInv, WaitInv,
         OwnerContinues \/ ShutdownBegin \/ FreeBegin \/ SpuriousWakeup
  PROVE  WaitInv'
  <1> USE PoolAssumption DEF TypeInv, TypeOK, LocalsOK, WaitInv,
          WaiterHasCause, WaiterCritical, Waiting, Busy, Threads, CGoto,
          syncVars, flagVars, dispatcherVars, clientVars, historyVars,
          boundVars
  <1>1. ASSUME NEW d \in Dispatchers, CreateThread(d) PROVE WaitInv'
    BY <1>1 DEF CreateThread, DGoto
  <1>2. CASE NewReturns
    BY <1>2 DEF NewReturns
  <1>3. CASE NewFails
    BY <1>3 DEF NewFails
  <1>4. CASE StoreOff
    BY <1>4 DEF StoreOff
  <1>5. CASE StopBroadcast
    BY <1>5 DEF StopBroadcast, BroadcastNewTask
  <1>6. CASE Join
    BY <1>6 DEF Join
  <1>7. CASE FreeDrain
    <2>1. \A c \in Clients : cpc[c] = IF c = Owner THEN "drain" ELSE "idle"
      BY <1>7 DEF FreeDrain, OwnerInv
    <2>2. taskDone = {}
      BY <2>1
    <2>3. \A c \in Clients : cpc'[c] \in {"idle", "freed"}
      BY <1>7, <2>1 DEF FreeDrain
    <2> QED
      <3>1. UNCHANGED << mutex, taskDone >>
        BY <1>7 DEF FreeDrain
      <3>2. \A c \in Clients : mutex # c
        BY <2>1
      <3> QED
        BY <2>2, <2>3, <3>1, <3>2
  <1>8. CASE ShutdownBegin
    BY <1>8 DEF ShutdownBegin
  <1>9. CASE FreeBegin
    BY <1>9 DEF FreeBegin
  <1>10. CASE SpuriousWakeup
    BY <1>10 DEF SpuriousWakeup
  <1> QED
    BY <1>1, <1>2, <1>3, <1>4, <1>5, <1>6, <1>7, <1>8, <1>9, <1>10
    DEF OwnerContinues

LEMMA WaitInvStep ==
  ASSUME TypeInv, TaskInv, OwnerInv, WaitInv, [Next]_vars
  PROVE  WaitInv'
  <1>1. CASE Next
    BY <1>1, WaitInvDispatcher, WaitInvClient, WaitInvOwner DEF Next
  <1>2. CASE UNCHANGED vars
    BY <1>2
    DEF WaitInv, WaiterHasCause, WaiterCritical, Waiting, Busy, vars,
        syncVars, flagVars, dispatcherVars, clientVars, historyVars, boundVars
  <1> QED
    BY <1>1, <1>2

LEMMA WaitInvariant == Spec => []WaitInv
  <1>1. TypeInv /\ TaskInv /\ OwnerInv /\ WaitInv /\ [Next]_vars => WaitInv'
    BY WaitInvStep
  <1> QED
    BY TypeInvariant, TaskInvariant, OwnerInvariant, WaitInvInit, <1>1, PTL
    DEF Spec

\* Whoever sleeps in thread_pool_wait has a task in the queue or a busy
\* dispatcher to wait for: no broadcast of _task_done was missed.
THEOREM WaitersHaveCause == Spec => []WaiterHasCause
  BY WaitInvariant, PTL DEF WaitInv

LEMMA WaitReturnStep ==
  ASSUME TypeInv, [Next]_vars, NEW c \in Clients, WaitReturns(c)
  PROVE  inFlight = 0 /\ UNCHANGED << dpc, held, stage, owed >>
  <1> USE DEF WaitReturns, TypeInv, TypeOK, ClientPC, CGoto, syncVars, flagVars,
              dispatcherVars, clientVars, historyVars, boundVars
  <1>1. ASSUME NEW d \in Dispatchers, _dispatcher_function(d) PROVE FALSE
    BY <1>1
    DEF _dispatcher_function, DispatcherLock, DispatcherIsEmpty,
        DispatcherLoadOn, DispatcherSleep, DispatcherWake, DispatcherLoadOff,
        DispatcherRecheckOn, DispatcherRecheckEmpty, DispatcherDequeue,
        DispatcherCount, DispatcherRun, DispatcherUncount, DispatcherNotify
  <1>2. ASSUME NEW e \in Clients, Continue(e) \/ Call(e)
        PROVE  inFlight = 0 /\ UNCHANGED << dpc, held, stage, owed >>
    BY <1>2
    DEF Continue, Call, SubmitEnqueue, SubmitEnqueueFails, SubmitSignal,
        WaitLock, WaitIsEmpty, WaitInFlight, WaitSleep, SubmitBegin, WaitBegin
  <1>3. CASE OwnerContinues \/ ShutdownBegin \/ FreeBegin \/ SpuriousWakeup
    BY <1>3
    DEF OwnerContinues, CreateThread, NewReturns, NewFails, StoreOff,
        StopBroadcast, Join, FreeDrain, ShutdownBegin, FreeBegin,
        SpuriousWakeup
  <1> QED
    BY <1>1, <1>2, <1>3 DEF Next, vars

\* When thread_pool_wait returns, every task accepted before the call has
\* been executed, except one that a dispatcher has dequeued and not counted
\* yet.  The exception is real: see WaitMeansDone.
THEOREM WaitGuarantee == Spec => WaitMissesOnlyUncounted
  <1> DEFINE P == \A c \in Clients : WaitReturns(c) =>
                    \A t \in owed[c] :
                      \/ stage[t] = "done"
                      \/ \E d \in Dispatchers : dpc[d] = "count" /\ held[d] = t
  <1>1. TypeInv /\ TaskInv /\ WaitInv /\ [Next]_vars => P
    <2> SUFFICES ASSUME TypeInv, TaskInv, WaitInv, [Next]_vars,
                        NEW c \in Clients, WaitReturns(c), NEW t \in owed[c],
                        stage[t] # "done"
                 PROVE  \E d \in Dispatchers : dpc[d] = "count" /\ held[d] = t
      OBVIOUS
    <2>1. \A d \in Dispatchers : dpc[d] # "run"
      BY WaitReturnStep, InFlightBusy
    <2>2. t \in Tasks /\ stage[t] = "taken"
      BY DEF WaitInv, WaitReturns, TypeInv, TypeOK
    <2> QED
      BY <2>1, <2>2 DEF TaskInv, Conservation, Holders
  <1>2. TypeInv /\ TaskInv /\ WaitInv /\ [Next]_vars => [P]_vars
    BY <1>1
  <1> QED
    BY <1>2, TypeInvariant, TaskInvariant, WaitInvariant, PTL
    DEF Spec, WaitMissesOnlyUncounted

-----------------------------------------------------------------------------
(* ThreadPool implements TaskPool. *)

Run == [d \in Dispatchers |->
          IF dpc[d] \in {"count", "run"} THEN held[d] ELSE NULL]

Done == { t \in Tasks : stage[t] = "done" }

Discarded == { t \in Tasks : stage[t] = "discarded" }

Closed == cpc[Owner] = "freed"

Hidden == << queue, Run, Done, Discarded, Closed >>

Refines == TP!Next \/ UNCHANGED Hidden

\* Steps of thread_pool.c that the abstract pool does not see.
LEMMA RefineStutter ==
  ASSUME UNCHANGED << queue, stage, held >>,
         Closed' = Closed,
         \A d \in Dispatchers :
           dpc'[d] \in {"count", "run"} <=> dpc[d] \in {"count", "run"}
  PROVE  Refines
  BY DEF Refines, Hidden, Run, Done, Discarded

LEMMA RefineInit == Init => TP!Init
  <1> SUFFICES ASSUME Init PROVE TP!Init
    OBVIOUS
  <1>1. Run = [d \in Dispatchers |-> NULL]
    BY DEF Init, Run
  <1>2. Done = {} /\ Discarded = {}
    BY DEF Init, Done, Discarded
  <1>3. ~Closed
    BY PoolAssumption DEF Init, Closed
  <1> QED
    BY <1>1, <1>2, <1>3 DEF Init, TP!Init, Run, Done, Discarded, Closed

LEMMA RefineDispatcher ==
  ASSUME TypeInv, TaskInv, OwnerInv,
         NEW d \in Dispatchers, _dispatcher_function(d)
  PROVE  Refines
  <1> USE PoolAssumption DEF TypeInv, TypeOK, LocalsOK, DGoto, syncVars,
          flagVars, dispatcherVars, clientVars, historyVars, boundVars
  <1>0. \A l \in DispatcherPC :
          /\ DGoto(d, l)
          /\ dpc[d] \in {"count", "run"} <=> l \in {"count", "run"}
          /\ UNCHANGED << queue, stage, held, cpc >>
          => Refines
    BY RefineStutter DEF Closed
  <1>1. CASE DispatcherLock(d)
    BY <1>0, <1>1 DEF DispatcherLock, Lock, DispatcherPC
  <1>2. CASE DispatcherIsEmpty(d)
    BY <1>0, <1>2 DEF DispatcherIsEmpty, generic_queue_syn_is_empty, DispatcherPC
  <1>3. CASE DispatcherLoadOn(d)
    BY <1>0, <1>3 DEF DispatcherLoadOn, DispatcherPC
  <1>4. CASE DispatcherSleep(d)
    BY <1>0, <1>4 DEF DispatcherSleep, Unlock, DispatcherPC
  <1>5. CASE DispatcherWake(d)
    BY <1>0, <1>5 DEF DispatcherWake, Lock, DispatcherPC
  <1>6. CASE DispatcherLoadOff(d)
    BY <1>0, <1>6 DEF DispatcherLoadOff, Unlock, DispatcherPC
  <1>7. CASE DispatcherRecheckOn(d)
    BY <1>0, <1>7 DEF DispatcherRecheckOn, Unlock, DispatcherPC
  <1>8. CASE DispatcherRecheckEmpty(d)
    BY <1>0, <1>8 DEF DispatcherRecheckEmpty, Unlock, DispatcherPC
  <1>9. CASE DispatcherDequeue(d)
    <2>1. CASE queue = << >>
      BY <1>9, <2>1
      DEF DispatcherDequeue, generic_queue_syn_dequeue, dequeued_queue,
          Refines, Hidden, Run, Done, Discarded, Closed
    <2>2. CASE queue # << >>
      <3>1. Head(queue) \in Tasks /\ Head(queue) # NULL
        BY <2>2
      <3>2. stage[Head(queue)] = "queued"
        BY <2>2 DEF TaskInv, Conservation
      <3>3. /\ dpc[d] = "dequeue"
            /\ dpc' = [dpc EXCEPT ![d] = "count"]
            /\ stage' = [stage EXCEPT ![Head(queue)] = "taken"]
            /\ held' = [held EXCEPT ![d] = Head(queue)]
            /\ queue' = Tail(queue)
            /\ cpc' = cpc
        BY <1>9, <2>2, <3>1
        DEF DispatcherDequeue, generic_queue_syn_dequeue, dequeued_queue
      <3>4. ~Closed
        BY <3>3 DEF OwnerInv, Closed
      <3>5. Run[d] = NULL /\ Run' = [Run EXCEPT ![d] = Head(queue)]
        BY <3>3 DEF Run
      <3>6. Done' = Done /\ Discarded' = Discarded
        BY <3>1, <3>2, <3>3 DEF Done, Discarded
      <3>7. TP!Start(d)
        BY <2>2, <3>3, <3>4, <3>5, <3>6
        DEF TP!Start, Run, Done, Discarded, Closed
      <3> QED
        BY <3>7 DEF TP!Next, Refines
    <2> QED
      BY <2>1, <2>2
  <1>10. CASE DispatcherCount(d)
    BY <1>0, <1>10 DEF DispatcherCount, DispatcherPC
  <1>11. CASE DispatcherRun(d)
    <2>1. /\ dpc[d] = "run" /\ held[d] \in Tasks /\ held[d] # NULL
          /\ dpc' = [dpc EXCEPT ![d] = "uncount"]
          /\ stage' = [stage EXCEPT ![held[d]] = "done"]
          /\ stage[held[d]] = "taken"
          /\ UNCHANGED << queue, held, cpc >>
      BY <1>11 DEF DispatcherRun, TaskInv, Conservation, Holders
    <2>2. Run[d] = held[d] /\ Run' = [Run EXCEPT ![d] = NULL]
      BY <2>1 DEF Run
    <2>3. Done' = Done \cup {held[d]} /\ Discarded' = Discarded
      BY <2>1 DEF Done, Discarded
    <2>4. TP!Complete(d)
      BY <2>1, <2>2, <2>3 DEF TP!Complete, Run, Done, Discarded, Closed
    <2> QED
      BY <2>4 DEF TP!Next, Refines
  <1>12. CASE DispatcherUncount(d)
    BY <1>0, <1>12 DEF DispatcherUncount, DispatcherPC
  <1>13. CASE DispatcherNotify(d)
    BY <1>0, <1>13 DEF DispatcherNotify, BroadcastTaskDone, DispatcherPC
  <1> QED
    BY <1>1, <1>2, <1>3, <1>4, <1>5, <1>6, <1>7, <1>8, <1>9, <1>10, <1>11,
       <1>12, <1>13
    DEF _dispatcher_function

LEMMA RefineClient ==
  ASSUME TypeInv, TaskInv, OwnerInv,
         NEW c \in Clients, Continue(c) \/ Call(c)
  PROVE  Refines
  <1> USE PoolAssumption DEF TypeInv, TypeOK, LocalsOK, CGoto, syncVars,
          flagVars, dispatcherVars, clientVars, historyVars, boundVars
  <1>0. UNCHANGED << queue, stage, held, dpc >> /\ Closed' = Closed => Refines
    BY RefineStutter
  <1>1. CASE SubmitEnqueue(c)
    <2> DEFINE t == arg[c]
    <2>1. /\ t \in Tasks /\ stage[t] = "submitting"
          /\ queue' = Append(queue, t)
          /\ stage' = [stage EXCEPT ![t] = "queued"]
          /\ cpc[c] = "enqueue" /\ cpc' = [cpc EXCEPT ![c] = "signal"]
          /\ UNCHANGED << dpc, held >>
      BY <1>1 DEF SubmitEnqueue, generic_queue_syn_enqueue, TaskInv
    <2>2. ~Closed /\ ~Closed'
      BY <2>1 DEF OwnerInv, Closed
    <2>3. \A i \in 1..Len(queue) : queue[i] # t
      BY <2>1 DEF TaskInv, Conservation
    <2>4. t \notin Done /\ t \notin Discarded
      BY <2>1 DEF Done, Discarded
    <2>5. \A d \in Dispatchers : Run[d] # t
      BY <2>1 DEF Run, TaskInv, Conservation, Holders
    <2>6. Run' = Run /\ Done' = Done /\ Discarded' = Discarded
      BY <2>1 DEF Run, Done, Discarded
    <2>7. t \notin TP!Known
      BY <2>3, <2>4, <2>5
      DEF TP!Known, TP!Pending, TP!Running, Run, Done, Discarded
    <2>8. TP!Accept(t)
      BY <2>1, <2>2, <2>6, <2>7
      DEF TP!Accept, Run, Done, Discarded, Closed
    <2> QED
      BY <2>1, <2>8 DEF TP!Next, Refines
  <1>2. CASE SubmitEnqueueFails(c)
    <2>1. /\ stage[arg[c]] = "submitting" /\ arg[c] \in Tasks
          /\ stage' = [stage EXCEPT ![arg[c]] = "fresh"]
          /\ UNCHANGED << queue, dpc, held >>
          /\ cpc[c] = "enqueue" /\ cpc' = [cpc EXCEPT ![c] = "idle"]
      BY <1>2 DEF SubmitEnqueueFails, TaskInv
    <2> QED
      BY <2>1 DEF Refines, Hidden, Run, Done, Discarded, Closed
  <1>3. CASE SubmitSignal(c)
    BY <1>0, <1>3 DEF SubmitSignal, SignalNewTask, Closed
  <1>4. CASE WaitLock(c)
    BY <1>0, <1>4 DEF WaitLock, Lock, Closed
  <1>5. CASE WaitIsEmpty(c)
    BY <1>0, <1>5 DEF WaitIsEmpty, generic_queue_syn_is_empty, Closed
  <1>6. CASE WaitInFlight(c)
    BY <1>0, <1>6 DEF WaitInFlight, Unlock, Closed
  <1>7. CASE WaitSleep(c)
    BY <1>0, <1>7 DEF WaitSleep, Unlock, Closed
  <1>8. ASSUME NEW t \in Tasks, SubmitBegin(c, t) PROVE Refines
    BY <1>8 DEF SubmitBegin, Refines, Hidden, Run, Done, Discarded, Closed
  <1>9. CASE WaitBegin(c)
    BY <1>0, <1>9 DEF WaitBegin, Unfinished, Closed
  <1> QED
    BY <1>1, <1>2, <1>3, <1>4, <1>5, <1>6, <1>7, <1>8, <1>9 DEF Continue, Call

LEMMA RefineOwner ==
  ASSUME TypeInv, TaskInv, OwnerInv,
         OwnerContinues \/ ShutdownBegin \/ FreeBegin \/ SpuriousWakeup
  PROVE  Refines
  <1> USE PoolAssumption DEF TypeInv, TypeOK, LocalsOK, CGoto, syncVars,
          flagVars, dispatcherVars, clientVars, historyVars, boundVars
  <1>0. UNCHANGED << queue, stage, held, dpc >> /\ Closed' = Closed => Refines
    BY RefineStutter
  <1>1. ASSUME NEW d \in Dispatchers, CreateThread(d) PROVE Refines
    BY <1>1 DEF CreateThread, DGoto, Refines, Hidden, Run, Done, Discarded,
               Closed
  <1>2. CASE NewReturns
    BY <1>0, <1>2 DEF NewReturns, Closed
  <1>3. CASE NewFails
    BY <1>0, <1>3 DEF NewFails, Closed
  <1>4. CASE StoreOff
    BY <1>0, <1>4 DEF StoreOff, Closed
  <1>5. CASE StopBroadcast
    BY <1>0, <1>5 DEF StopBroadcast, BroadcastNewTask, Closed
  <1>6. CASE Join
    BY <1>0, <1>6 DEF Join, Closed
  <1>7. CASE FreeDrain
    <2>1. /\ cpc[Owner] = "drain" /\ cpc' = [cpc EXCEPT ![Owner] = "freed"]
          /\ queue' = << >>
          /\ stage' = [t \in Tasks |->
                         IF stage[t] = "queued" THEN "discarded" ELSE stage[t]]
          /\ UNCHANGED << dpc, held >>
      BY <1>7 DEF FreeDrain
    <2>2. \A d \in Dispatchers : Run[d] = NULL
      BY <2>1 DEF OwnerInv, Run
    <2>3. Run' = Run /\ Done' = Done
      BY <2>1 DEF Run, Done
    <2>4. Discarded' = Discarded \cup { queue[i] : i \in 1..Len(queue) }
      <3>1. \A t \in Tasks : stage[t] = "queued" <=>
              \E i \in 1..Len(queue) : queue[i] = t
        BY DEF TaskInv, Conservation
      <3>2. \A i \in 1..Len(queue) : queue[i] \in Tasks
        OBVIOUS
      <3>3. { queue[i] : i \in 1..Len(queue) } =
              { t \in Tasks : stage[t] = "queued" }
        BY <3>1, <3>2
      <3>4. \A t \in Tasks : stage'[t] = "discarded" <=>
              stage[t] = "discarded" \/ stage[t] = "queued"
        BY <2>1
      <3> QED
        BY <3>3, <3>4 DEF Discarded
    <2>5. ~Closed /\ Closed'
      BY <2>1 DEF Closed
    <2>6. TP!Destroy
      BY <2>1, <2>2, <2>3, <2>4, <2>5
      DEF TP!Destroy, TP!Pending, Run, Done, Discarded, Closed
    <2> QED
      BY <2>6 DEF TP!Next, Refines
  <1>8. CASE ShutdownBegin
    BY <1>0, <1>8 DEF ShutdownBegin, Closed
  <1>9. CASE FreeBegin
    BY <1>0, <1>9 DEF FreeBegin, Closed
  <1>10. CASE SpuriousWakeup
    BY <1>0, <1>10 DEF SpuriousWakeup, Closed
  <1> QED
    BY <1>1, <1>2, <1>3, <1>4, <1>5, <1>6, <1>7, <1>8, <1>9, <1>10
    DEF OwnerContinues

LEMMA RefineStep ==
  ASSUME TypeInv, TaskInv, OwnerInv, [Next]_vars
  PROVE  Refines
  <1>1. CASE Next
    BY <1>1, RefineDispatcher, RefineClient, RefineOwner DEF Next
  <1>2. CASE UNCHANGED vars
    BY <1>2
    DEF Refines, Hidden, Run, Done, Discarded, Closed, vars, syncVars,
        flagVars, dispatcherVars, clientVars, historyVars, boundVars
  <1> QED
    BY <1>1, <1>2

\* Every behaviour of the thread pool is, seen from outside, a behaviour of
\* the abstract pool: accepted tasks start in the order of submission, each
\* on one dispatcher and once, and only thread_pool_free discards any, after
\* every running task has ended.
THEOREM Refinement == Spec => ImplementsTaskPool
  <1>1. TypeInv /\ TaskInv /\ OwnerInv /\ [Next]_vars
          => [TP!Next]_(TP!poolVars)
    BY RefineStep
    DEF Refines, Hidden, TP!poolVars, Run, Done, Discarded, Closed
  <1> QED
    BY <1>1, RefineInit, TypeInvariant, TaskInvariant, OwnerInvariant, PTL
    DEF Spec, ImplementsTaskPool, TP!Spec

=============================================================================
