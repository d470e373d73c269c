----------------------------- MODULE ThreadPool -----------------------------
(***************************************************************************)
(* thread_pool.c: dispatcher threads that take tasks from a shared queue,  *)
(* and the client threads that create the pool, submit tasks, wait for     *)
(* them, shut the pool down and free it.                                   *)
(*                                                                         *)
(* One step is one operation another thread can observe: an atomic load or *)
(* store, a queue call, or taking _mutex.  A critical section that only    *)
(* signals a condition variable is one step.  pthread_cond_wait is two:    *)
(* block (release _mutex, join the waiters) and, once woken, retake        *)
(* _mutex; a waiter may also wake spuriously.                              *)
(*                                                                         *)
(* One client, Owner, calls thread_pool_new, thread_pool_shutdown (once:   *)
(* a second call would join the same threads again) and thread_pool_free,  *)
(* the latter when no other client is inside the pool.                     *)
(***************************************************************************)
EXTENDS Naturals, FiniteSets, GenericQueue

CONSTANTS
  Dispatchers,   \* the _n_threads dispatcher threads
  Clients,       \* the threads that call the API
  Owner,         \* the client that creates, shuts down and frees the pool
  Tasks,         \* the task structures clients may submit
  NoThread,      \* the owner of a free mutex
  MaxWaits,      \* bound on the calls of thread_pool_wait
  MaxSpurious    \* bound on the spurious wakeups

Threads == Dispatchers \cup Clients

ASSUME PoolAssumption ==
  /\ Dispatchers # {} /\ IsFiniteSet(Dispatchers)
  /\ Dispatchers \cap Clients = {}
  /\ Owner \in Clients
  /\ NoThread \notin Threads
  /\ NULL \notin Tasks
  /\ MaxWaits \in Nat /\ MaxSpurious \in Nat

VARIABLES
  queue,      \* _queue_syn, oldest task first
  mutex,      \* the holder of _mutex, or NoThread
  newTask,    \* dispatchers blocked on _new_task
  taskDone,   \* clients blocked on _task_done
  on, off,    \* _on and _off
  inFlight,   \* _in_flight
  dpc,        \* dpc[d]: where dispatcher d is in _dispatcher_function
  held,       \* held[d]: its local variable task
  cpc,        \* cpc[c]: where client c is in an API call, "idle" outside
  arg,        \* arg[c]: the task thread_pool_submit is submitting
  stopFor,    \* why the pool stops: "new" until thread_pool_new succeeds,
              \* "none", then "shutdown" or "free" by the owner's call
  stage,      \* history: stage[t] says how far task t has come
  runs,       \* history: how often task t has been executed
  owed,       \* history: tasks unfinished when c called thread_pool_wait
  waits, spurious  \* counters for MaxWaits and MaxSpurious

dispatcherVars == << dpc, held >>
clientVars     == << cpc, arg, stopFor >>
syncVars       == << mutex, newTask, taskDone >>
flagVars       == << on, off >>
historyVars    == << stage, runs, owed >>
boundVars      == << waits, spurious >>

vars == << queue, syncVars, flagVars, inFlight, dispatcherVars, clientVars,
           historyVars, boundVars >>

DispatcherPC ==
  { "unborn", "lock", "isEmpty", "loadOn", "sleep", "blocked", "loadOff",
    "recheckOn", "recheckEmpty", "dequeue", "count", "run", "uncount",
    "notify", "exited" }

ClientPC ==
  { "new", "idle", "enqueue", "signal", "waitLock", "waitEmpty",
    "waitInFlight", "waitSleep", "waitBlocked", "storeOff", "broadcast",
    "join", "drain", "freed", "failed" }

Stage == { "fresh", "submitting", "queued", "taken", "done", "discarded" }

TypeOK ==
  /\ queue \in Seq(Tasks)
  /\ mutex \in Threads \cup {NoThread}
  /\ newTask \subseteq Dispatchers
  /\ taskDone \subseteq Clients
  /\ on \in BOOLEAN /\ off \in BOOLEAN
  /\ inFlight \in Nat
  /\ dpc \in [Dispatchers -> DispatcherPC]
  /\ held \in [Dispatchers -> Tasks \cup {NULL}]
  /\ cpc \in [Clients -> ClientPC]
  /\ arg \in [Clients -> Tasks \cup {NULL}]
  /\ stopFor \in {"new", "none", "shutdown", "free"}
  /\ stage \in [Tasks -> Stage]
  /\ runs \in [Tasks -> Nat]
  /\ owed \in [Clients -> SUBSET Tasks]
  /\ waits \in Nat /\ spurious \in Nat

-----------------------------------------------------------------------------
(* Mutex and condition variables (pthreads). *)

DGoto(d, l) == dpc' = [dpc EXCEPT ![d] = l]

CGoto(c, l) == cpc' = [cpc EXCEPT ![c] = l]

Lock(t) == mutex = NoThread /\ mutex' = t

Unlock(t) == mutex = t /\ mutex' = NoThread

\* Wrong variants: a signal only for the task that makes the queue
\* non-empty, and no signal at all.
SignalNewTaskIfFirst ==
  /\ mutex = NoThread
  /\ IF newTask = {} \/ Len(queue) # 1
     THEN newTask' = newTask
     ELSE \E d \in newTask : newTask' = newTask \ {d}

SignalNewTaskForgotten == mutex = NoThread /\ UNCHANGED newTask

\* pthread_cond_signal wakes one of the blocked threads, if there is one.
\* A signal sent inside its own short critical section needs a free mutex.
SignalNewTask ==
  /\ mutex = NoThread
  /\ IF newTask = {} THEN newTask' = newTask
                     ELSE \E d \in newTask : newTask' = newTask \ {d}

\* Wrong variant: the broadcast without the mutex.
BroadcastNewTaskUnlocked == newTask' = {}

BroadcastNewTask == mutex = NoThread /\ newTask' = {}

\* Wrong variants: the broadcast without the mutex, and none at all.
BroadcastTaskDoneUnlocked == taskDone' = {}

BroadcastTaskDoneForgotten == mutex = NoThread /\ UNCHANGED taskDone

BroadcastTaskDone == mutex = NoThread /\ taskDone' = {}

-----------------------------------------------------------------------------
(* _dispatcher_function *)

DispatcherLock(d) ==
  /\ dpc[d] = "lock"
  /\ Lock(d)
  /\ DGoto(d, "isEmpty")
  /\ UNCHANGED << queue, newTask, taskDone, flagVars, inFlight, held,
                  clientVars, historyVars, boundVars >>

DispatcherIsEmpty(d) ==
  /\ dpc[d] = "isEmpty"
  /\ DGoto(d, IF generic_queue_syn_is_empty(queue) THEN "loadOn" ELSE "loadOff")
  /\ UNCHANGED << queue, syncVars, flagVars, inFlight, held, clientVars,
                  historyVars, boundVars >>

\* The queue was seen empty: block on _new_task if the pool is on.
DispatcherLoadOn(d) ==
  /\ dpc[d] = "loadOn"
  /\ DGoto(d, IF on THEN "sleep" ELSE "loadOff")
  /\ UNCHANGED << queue, syncVars, flagVars, inFlight, held, clientVars,
                  historyVars, boundVars >>

DispatcherSleep(d) ==
  /\ dpc[d] = "sleep"
  /\ Unlock(d)
  /\ newTask' = newTask \cup {d}
  /\ DGoto(d, "blocked")
  /\ UNCHANGED << queue, taskDone, flagVars, inFlight, held, clientVars,
                  historyVars, boundVars >>

DispatcherWake(d) ==
  /\ dpc[d] = "blocked"
  /\ d \notin newTask
  /\ Lock(d)
  /\ DGoto(d, "isEmpty")
  /\ UNCHANGED << queue, newTask, taskDone, flagVars, inFlight, held,
                  clientVars, historyVars, boundVars >>

DispatcherLoadOff(d) ==
  /\ dpc[d] = "loadOff"
  /\ \/ /\ off
        /\ Unlock(d)
        /\ DGoto(d, "exited")
     \/ /\ ~off
        /\ DGoto(d, "recheckOn")
        /\ UNCHANGED mutex
  /\ UNCHANGED << queue, newTask, taskDone, flagVars, inFlight, held,
                  clientVars, historyVars, boundVars >>

DispatcherRecheckOn(d) ==
  /\ dpc[d] = "recheckOn"
  /\ \/ /\ on
        /\ Unlock(d)
        /\ DGoto(d, "dequeue")
     \/ /\ ~on
        /\ DGoto(d, "recheckEmpty")
        /\ UNCHANGED mutex
  /\ UNCHANGED << queue, newTask, taskDone, flagVars, inFlight, held,
                  clientVars, historyVars, boundVars >>

DispatcherRecheckEmpty(d) ==
  /\ dpc[d] = "recheckEmpty"
  /\ Unlock(d)
  /\ DGoto(d, IF generic_queue_syn_is_empty(queue) THEN "exited" ELSE "dequeue")
  /\ UNCHANGED << queue, newTask, taskDone, flagVars, inFlight, held,
                  clientVars, historyVars, boundVars >>

\* _mutex is no longer held: another dispatcher may have emptied the queue,
\* and then dequeue yields NULL and the loop starts over.
DispatcherDequeue(d) ==
  /\ dpc[d] = "dequeue"
  /\ LET task == generic_queue_syn_dequeue(queue) IN
     \/ /\ task = NULL
        /\ DGoto(d, "lock")
        /\ UNCHANGED stage
     \/ /\ task # NULL
        /\ DGoto(d, "count")
        /\ stage' = [stage EXCEPT ![task] = "taken"]
  /\ held' = [held EXCEPT ![d] = generic_queue_syn_dequeue(queue)]
  /\ queue' = dequeued_queue(queue)
  /\ UNCHANGED << syncVars, flagVars, inFlight, clientVars, runs, owed,
                  boundVars >>

\* Wrong variants: a task not counted, and a dequeued task dropped because
\* the pool is being stopped.
DispatcherCountForgotten(d) ==
  /\ dpc[d] = "count"
  /\ DGoto(d, "run")
  /\ UNCHANGED << queue, syncVars, flagVars, inFlight, held, clientVars,
                  historyVars, boundVars >>

DispatcherCountUnlessOff(d) ==
  /\ dpc[d] = "count"
  /\ inFlight' = IF off THEN inFlight ELSE inFlight + 1
  /\ DGoto(d, IF off THEN "lock" ELSE "run")
  /\ UNCHANGED << queue, syncVars, flagVars, held, clientVars, historyVars,
                  boundVars >>

DispatcherCount(d) ==
  /\ dpc[d] = "count"
  /\ inFlight' = inFlight + 1
  /\ DGoto(d, "run")
  /\ UNCHANGED << queue, syncVars, flagVars, held, clientVars, historyVars,
                  boundVars >>

\* task->_function(task->_arg); free(task)
DispatcherRun(d) ==
  /\ dpc[d] = "run"
  /\ runs' = [runs EXCEPT ![held[d]] = @ + 1]
  /\ stage' = [stage EXCEPT ![held[d]] = "done"]
  /\ DGoto(d, "uncount")
  /\ UNCHANGED << queue, syncVars, flagVars, inFlight, held, clientVars, owed,
                  boundVars >>

\* Wrong variant: the decrement left out.
DispatcherUncountForgotten(d) ==
  /\ dpc[d] = "uncount"
  /\ DGoto(d, "notify")
  /\ UNCHANGED << queue, syncVars, flagVars, inFlight, held, clientVars,
                  historyVars, boundVars >>

DispatcherUncount(d) ==
  /\ dpc[d] = "uncount"
  /\ inFlight' = inFlight - 1
  /\ DGoto(d, "notify")
  /\ UNCHANGED << queue, syncVars, flagVars, held, clientVars, historyVars,
                  boundVars >>

DispatcherNotify(d) ==
  /\ dpc[d] = "notify"
  /\ BroadcastTaskDone
  /\ DGoto(d, "lock")
  /\ UNCHANGED << queue, mutex, newTask, flagVars, inFlight, held, clientVars,
                  historyVars, boundVars >>

_dispatcher_function(d) ==
  \/ DispatcherLock(d) \/ DispatcherIsEmpty(d) \/ DispatcherLoadOn(d)
  \/ DispatcherSleep(d) \/ DispatcherWake(d) \/ DispatcherLoadOff(d)
  \/ DispatcherRecheckOn(d) \/ DispatcherRecheckEmpty(d)
  \/ DispatcherDequeue(d) \/ DispatcherCount(d) \/ DispatcherRun(d)
  \/ DispatcherUncount(d) \/ DispatcherNotify(d)

-----------------------------------------------------------------------------
(* thread_pool_new: the dispatchers run as soon as pthread_create made     *)
(* them; a failure stops and joins the ones that exist already.            *)

CreateThread(d) ==
  /\ cpc[Owner] = "new"
  /\ dpc[d] = "unborn"
  /\ DGoto(d, "lock")
  /\ UNCHANGED << queue, syncVars, flagVars, inFlight, held, clientVars,
                  historyVars, boundVars >>

NewReturns ==
  /\ cpc[Owner] = "new"
  /\ \A d \in Dispatchers : dpc[d] # "unborn"
  /\ CGoto(Owner, "idle")
  /\ stopFor' = "none"
  /\ UNCHANGED << queue, syncVars, flagVars, inFlight, dispatcherVars, arg,
                  historyVars, boundVars >>

NewFails ==
  /\ cpc[Owner] = "new"
  /\ \E d \in Dispatchers : dpc[d] = "unborn"
  /\ on' = FALSE
  /\ CGoto(Owner, "storeOff")
  /\ UNCHANGED << queue, syncVars, off, inFlight, dispatcherVars, arg, stopFor,
                  historyVars, boundVars >>

-----------------------------------------------------------------------------
(* Calls that any client makes while the pool exists. *)

Usable == stopFor \in {"none", "shutdown"}

\* thread_pool_submit up to the allocation of the task; the calls that find
\* _off set, or no memory, return at once and change nothing.
SubmitBegin(c, t) ==
  /\ cpc[c] = "idle" /\ Usable
  /\ ~off
  /\ stage[t] = "fresh"
  /\ stage' = [stage EXCEPT ![t] = "submitting"]
  /\ arg' = [arg EXCEPT ![c] = t]
  /\ CGoto(c, "enqueue")
  /\ UNCHANGED << queue, syncVars, flagVars, inFlight, dispatcherVars, stopFor,
                  runs, owed, boundVars >>

SubmitEnqueue(c) ==
  /\ cpc[c] = "enqueue"
  /\ queue' = generic_queue_syn_enqueue(queue, arg[c])
  /\ stage' = [stage EXCEPT ![arg[c]] = "queued"]
  /\ CGoto(c, "signal")
  /\ UNCHANGED << syncVars, flagVars, inFlight, dispatcherVars, arg, stopFor,
                  runs, owed, boundVars >>

\* The list node cannot be allocated: the task is freed and submit fails.
SubmitEnqueueFails(c) ==
  /\ cpc[c] = "enqueue"
  /\ stage' = [stage EXCEPT ![arg[c]] = "fresh"]
  /\ CGoto(c, "idle")
  /\ UNCHANGED << queue, syncVars, flagVars, inFlight, dispatcherVars, arg,
                  stopFor, runs, owed, boundVars >>

SubmitSignal(c) ==
  /\ cpc[c] = "signal"
  /\ SignalNewTask
  /\ CGoto(c, "idle")
  /\ UNCHANGED << queue, mutex, taskDone, flagVars, inFlight, dispatcherVars,
                  arg, stopFor, historyVars, boundVars >>

\* The accepted tasks whose execution has not ended.
Unfinished == { t \in Tasks : stage[t] \in {"queued", "taken"} }

WaitBegin(c) ==
  /\ cpc[c] = "idle" /\ Usable
  /\ waits < MaxWaits
  /\ waits' = waits + 1
  /\ owed' = [owed EXCEPT ![c] = Unfinished]
  /\ CGoto(c, "waitLock")
  /\ UNCHANGED << queue, syncVars, flagVars, inFlight, dispatcherVars, arg,
                  stopFor, stage, runs, spurious >>

WaitLock(c) ==
  /\ \/ cpc[c] = "waitLock"
     \/ cpc[c] = "waitBlocked" /\ c \notin taskDone
  /\ Lock(c)
  /\ CGoto(c, "waitEmpty")
  /\ UNCHANGED << queue, newTask, taskDone, flagVars, inFlight, dispatcherVars,
                  arg, stopFor, historyVars, boundVars >>

WaitIsEmpty(c) ==
  /\ cpc[c] = "waitEmpty"
  /\ CGoto(c, IF generic_queue_syn_is_empty(queue) THEN "waitInFlight"
                                                   ELSE "waitSleep")
  /\ UNCHANGED << queue, syncVars, flagVars, inFlight, dispatcherVars, arg,
                  stopFor, historyVars, boundVars >>

\* Wrong variant: thread_pool_wait tests the queue only.
WaitInFlightIgnored(c) ==
  /\ cpc[c] = "waitInFlight"
  /\ Unlock(c)
  /\ CGoto(c, "idle")
  /\ UNCHANGED << queue, newTask, taskDone, flagVars, inFlight, dispatcherVars,
                  arg, stopFor, historyVars, boundVars >>

WaitInFlight(c) ==
  /\ cpc[c] = "waitInFlight"
  /\ \/ /\ inFlight > 0
        /\ CGoto(c, "waitSleep")
        /\ UNCHANGED mutex
     \/ /\ inFlight = 0
        /\ Unlock(c)
        /\ CGoto(c, "idle")
  /\ UNCHANGED << queue, newTask, taskDone, flagVars, inFlight, dispatcherVars,
                  arg, stopFor, historyVars, boundVars >>

WaitSleep(c) ==
  /\ cpc[c] = "waitSleep"
  /\ Unlock(c)
  /\ taskDone' = taskDone \cup {c}
  /\ CGoto(c, "waitBlocked")
  /\ UNCHANGED << queue, newTask, flagVars, inFlight, dispatcherVars, arg,
                  stopFor, historyVars, boundVars >>

-----------------------------------------------------------------------------
(* thread_pool_shutdown and thread_pool_free, by the owner. *)

ShutdownBegin ==
  /\ cpc[Owner] = "idle"
  /\ stopFor = "none"
  /\ stopFor' = "shutdown"
  /\ on' = FALSE
  /\ CGoto(Owner, "storeOff")
  /\ UNCHANGED << queue, syncVars, off, inFlight, dispatcherVars, arg,
                  historyVars, boundVars >>

FreeBegin ==
  /\ cpc[Owner] = "idle" /\ Usable
  /\ \A c \in Clients : cpc[c] = "idle"
  /\ stopFor' = "free"
  /\ \/ /\ ~off
        /\ on' = FALSE
        /\ CGoto(Owner, "storeOff")
     \/ /\ off
        /\ CGoto(Owner, "drain")
        /\ UNCHANGED on
  /\ UNCHANGED << queue, syncVars, off, inFlight, dispatcherVars, arg,
                  historyVars, boundVars >>

StoreOff ==
  /\ cpc[Owner] = "storeOff"
  /\ off' = TRUE
  /\ CGoto(Owner, "broadcast")
  /\ UNCHANGED << queue, syncVars, on, inFlight, dispatcherVars, arg, stopFor,
                  historyVars, boundVars >>

StopBroadcast ==
  /\ cpc[Owner] = "broadcast"
  /\ BroadcastNewTask
  /\ CGoto(Owner, "join")
  /\ UNCHANGED << queue, mutex, taskDone, flagVars, inFlight, dispatcherVars,
                  arg, stopFor, historyVars, boundVars >>

\* Wrong variant: the owner does not wait for the dispatchers to exit.
JoinForgotten ==
  /\ cpc[Owner] = "join"
  /\ CGoto(Owner, CASE stopFor = "new" -> "failed"
                    [] stopFor = "free" -> "drain"
                    [] OTHER -> "idle")
  /\ UNCHANGED << queue, syncVars, flagVars, inFlight, dispatcherVars, arg,
                  stopFor, historyVars, boundVars >>

\* pthread_join of every thread that was created, then whatever the caller
\* of the stop sequence does next.
Join ==
  /\ cpc[Owner] = "join"
  /\ \A d \in Dispatchers : dpc[d] \in {"unborn", "exited"}
  /\ CGoto(Owner, CASE stopFor = "new" -> "failed"
                    [] stopFor = "free" -> "drain"
                    [] OTHER -> "idle")
  /\ UNCHANGED << queue, syncVars, flagVars, inFlight, dispatcherVars, arg,
                  stopFor, historyVars, boundVars >>

\* Nobody else can reach the queue any more, so the loop that frees the
\* tasks left in it is one step.  The tasks' arguments are not freed.
FreeDrain ==
  /\ cpc[Owner] = "drain"
  /\ queue' = << >>
  /\ stage' = [t \in Tasks |->
                 IF stage[t] = "queued" THEN "discarded" ELSE stage[t]]
  /\ CGoto(Owner, "freed")
  /\ UNCHANGED << syncVars, flagVars, inFlight, dispatcherVars, arg, stopFor,
                  runs, owed, boundVars >>

-----------------------------------------------------------------------------
(* POSIX lets pthread_cond_wait return without a signal. *)
SpuriousWakeup ==
  /\ spurious < MaxSpurious
  /\ spurious' = spurious + 1
  /\ \/ /\ \E d \in newTask : newTask' = newTask \ {d}
        /\ UNCHANGED taskDone
     \/ /\ \E c \in taskDone : taskDone' = taskDone \ {c}
        /\ UNCHANGED newTask
  /\ UNCHANGED << queue, mutex, flagVars, inFlight, dispatcherVars, clientVars,
                  historyVars, waits >>

Init ==
  /\ queue = << >>
  /\ mutex = NoThread /\ newTask = {} /\ taskDone = {}
  /\ on = TRUE /\ off = FALSE
  /\ inFlight = 0
  /\ dpc = [d \in Dispatchers |-> "unborn"]
  /\ held = [d \in Dispatchers |-> NULL]
  /\ cpc = [c \in Clients |-> IF c = Owner THEN "new" ELSE "idle"]
  /\ arg = [c \in Clients |-> NULL]
  /\ stopFor = "new"
  /\ stage = [t \in Tasks |-> "fresh"]
  /\ runs = [t \in Tasks |-> 0]
  /\ owed = [c \in Clients |-> {}]
  /\ waits = 0 /\ spurious = 0

\* A client inside a call takes its next step.
Continue(c) ==
  \/ SubmitEnqueue(c) \/ SubmitEnqueueFails(c) \/ SubmitSignal(c)
  \/ WaitLock(c) \/ WaitIsEmpty(c) \/ WaitInFlight(c) \/ WaitSleep(c)

OwnerContinues ==
  \/ (\E d \in Dispatchers : CreateThread(d)) \/ NewReturns \/ NewFails
  \/ StoreOff \/ StopBroadcast \/ Join \/ FreeDrain

\* A client outside the pool makes a call.
Call(c) == (\E t \in Tasks : SubmitBegin(c, t)) \/ WaitBegin(c)

Next ==
  \/ \E d \in Dispatchers : _dispatcher_function(d)
  \/ \E c \in Clients : Continue(c) \/ Call(c)
  \/ OwnerContinues
  \/ ShutdownBegin \/ FreeBegin
  \/ SpuriousWakeup

Spec == Init /\ [][Next]_vars

\* Every thread that can run is eventually scheduled.  Nothing forces a
\* client to make another call, nor a wakeup to be spurious.
Fairness ==
  /\ \A d \in Dispatchers : WF_vars(_dispatcher_function(d))
  /\ \A c \in Clients : WF_vars(Continue(c))
  /\ WF_vars(OwnerContinues)

FairSpec == Spec /\ Fairness
-----------------------------------------------------------------------------
(* Properties *)

\* No lost wakeup: the queue never holds tasks with every dispatcher asleep
\* on _new_task, unless the submitter that is to wake one is still on its
\* way to the signal.  The enqueue is not protected by _mutex, so this rests
\* on the order enqueue, lock, signal in thread_pool_submit and on the test
\* made under _mutex before the wait.
NoLostWakeup ==
  queue # << >> /\ newTask = Dispatchers => \E c \in Clients : cpc[c] = "signal"

\* The dispatchers that have dequeued a task and not executed it yet.
Holders == { d \in Dispatchers : dpc[d] \in {"count", "run"} }

\* The pool neither loses nor duplicates a task: an accepted task that was
\* not discarded is at exactly one place (the queue, one dispatcher, or the
\* finished tasks), and it has been executed once if it is finished and
\* never otherwise, whichever dispatchers raced for it and wherever the
\* shutdown came.
Conservation ==
  /\ \A i, j \in 1..Len(queue) : queue[i] = queue[j] => i = j
  /\ \A i \in 1..Len(queue) : stage[queue[i]] = "queued"
  /\ \A d \in Holders : held[d] # NULL /\ stage[held[d]] = "taken"
  /\ \A d, e \in Holders : held[d] = held[e] => d = e
  /\ \A t \in Tasks :
       /\ stage[t] = "queued" => \E i \in 1..Len(queue) : queue[i] = t
       /\ stage[t] = "taken" => \E d \in Holders : held[d] = t
       /\ runs[t] = IF stage[t] = "done" THEN 1 ELSE 0

\* The dispatchers between the increment and the decrement of _in_flight.
Counted == { d \in Dispatchers : dpc[d] \in {"run", "uncount"} }

\* _in_flight is exactly the number of those dispatchers, so the unsigned
\* counter never wraps below zero.
InFlightCounts == inFlight = Cardinality(Counted)

\* A client asleep in thread_pool_wait has something to wait for: a task in
\* the queue, or a dispatcher that will still broadcast _task_done.
WaiterHasCause ==
  taskDone # {} =>
    \/ queue # << >>
    \/ \E d \in Dispatchers : dpc[d] \in {"count", "run", "uncount", "notify"}

WaitReturns(c) == cpc[c] = "waitInFlight" /\ cpc'[c] = "idle"

\* What thread_pool_wait does guarantee: the tasks that were unfinished at
\* the call are finished when it returns, except those a dispatcher has
\* dequeued and not yet counted in _in_flight.
WaitMissesOnlyUncounted ==
  [][\A c \in Clients : WaitReturns(c) =>
       \A t \in owed[c] :
         \/ stage[t] = "done"
         \/ \E d \in Dispatchers : dpc[d] = "count" /\ held[d] = t]_vars

\* What the test of thread_pool_wait expects ("all tasks should complete
\* after wait"): every task accepted before the call has been executed when
\* the call returns.  The code does not provide it.
WaitMeansDone ==
  [][\A c \in Clients : WaitReturns(c) =>
       \A t \in owed[c] : stage[t] = "done"]_vars

\* The pool is an implementation of the abstract task pool: tasks start in
\* the order of their submission and once, shutdown and free let running
\* tasks end, and only free discards the tasks nobody has started.
TP == INSTANCE TaskPool WITH
  Workers   <- Dispatchers,
  pending   <- queue,
  running   <- [d \in Dispatchers |->
                  IF dpc[d] \in {"count", "run"} THEN held[d] ELSE NULL],
  completed <- { t \in Tasks : stage[t] = "done" },
  discarded <- { t \in Tasks : stage[t] = "discarded" },
  closed    <- (cpc[Owner] = "freed")

ImplementsTaskPool == TP!Spec

\* Every accepted task is executed unless the owner stops the pool.
AcceptedTasksRun ==
  \A t \in Tasks : stage[t] = "queued" ~> (stage[t] = "done" \/ ~on)

\* Stopping the pool terminates: no dispatcher sleeps through the broadcast
\* or keeps working off a queue that is still being filled, so that the
\* joins of thread_pool_shutdown, thread_pool_free and of a failed
\* thread_pool_new return.
StopTerminates == ~on ~> (off /\ cpc[Owner] # "join" /\ cpc[Owner] # "broadcast")

\* A call of thread_pool_wait returns unless the pool is stopped under it.
WaitTerminates ==
  \A c \in Clients : cpc[c] = "waitLock" ~> (cpc[c] = "idle" \/ ~on)

=============================================================================
