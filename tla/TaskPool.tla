------------------------------ MODULE TaskPool ------------------------------
(***************************************************************************)
(* What a pool of worker threads promises its clients, with no mutex, no   *)
(* condition variable and no flags: accepted tasks are started in the      *)
(* order in which they were accepted, each by one worker and once; only    *)
(* the destruction of the pool discards tasks, it does so when no task is  *)
(* running, and afterwards nothing is accepted or started.                 *)
(*                                                                         *)
(* ThreadPool implements this specification, and MessageBroker runs its    *)
(* publisher tasks on it.                                                  *)
(***************************************************************************)
EXTENDS Naturals, Sequences

CONSTANTS Workers, Tasks, NULL

VARIABLES
  pending,    \* accepted tasks no worker has started, oldest first
  running,    \* running[w]: the task worker w executes, or NULL
  completed,  \* tasks that have been executed
  discarded,  \* accepted tasks thrown away when the pool was destroyed
  closed      \* the pool has been destroyed

poolVars == << pending, running, completed, discarded, closed >>

Pending == { pending[i] : i \in 1..Len(pending) }

Running == { running[w] : w \in Workers } \ {NULL}

Known == Pending \cup Running \cup completed \cup discarded

Init ==
  /\ pending = << >>
  /\ running = [w \in Workers |-> NULL]
  /\ completed = {}
  /\ discarded = {}
  /\ closed = FALSE

Accept(t) ==
  /\ ~closed
  /\ t \notin Known
  /\ pending' = Append(pending, t)
  /\ UNCHANGED << running, completed, discarded, closed >>

Start(w) ==
  /\ ~closed
  /\ running[w] = NULL
  /\ pending # << >>
  /\ running' = [running EXCEPT ![w] = Head(pending)]
  /\ pending' = Tail(pending)
  /\ UNCHANGED << completed, discarded, closed >>

Complete(w) ==
  /\ running[w] # NULL
  /\ completed' = completed \cup {running[w]}
  /\ running' = [running EXCEPT ![w] = NULL]
  /\ UNCHANGED << pending, discarded, closed >>

Destroy ==
  /\ ~closed
  /\ \A w \in Workers : running[w] = NULL
  /\ closed' = TRUE
  /\ discarded' = discarded \cup Pending
  /\ pending' = << >>
  /\ UNCHANGED << running, completed >>

Next ==
  \/ \E t \in Tasks : Accept(t)
  \/ \E w \in Workers : Start(w) \/ Complete(w)
  \/ Destroy

Spec == Init /\ [][Next]_poolVars

=============================================================================
