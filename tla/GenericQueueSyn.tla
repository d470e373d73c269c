--------------------------- MODULE GenericQueueSyn ---------------------------
(***************************************************************************)
(* generic_queue_syn.c over generic_queue.c: a queue shared by threads.    *)
(* Every call takes the queue's mutex, makes the calls on the linked list  *)
(* that generic_queue.c makes for it, one at a time, and releases the      *)
(* mutex.  Walks over the list are made node by node.                      *)
(*                                                                         *)
(* An element is the data a node holds: what was enqueued, or its copy     *)
(* when a copy function is set, so that setting the copy function changes  *)
(* nothing here and a failing copy is a failing enqueue.  Elements are not *)
(* used twice, and NULL is not enqueued.  Calls without a queue, a place   *)
(* for the answer of a peek or a function to apply change nothing and are  *)
(* left out; dequeue without a place for the data frees it.                *)
(***************************************************************************)
EXTENDS Integers, FiniteSets, SequencesExt

CONSTANTS
  Threads,
  Elements,
  NoThread,   \* the owner of a free mutex
  NULL,
  MaxCalls,   \* bound on the calls
  MaxFaults   \* bound on the failing allocations

Ops == {"enqueue", "dequeue", "is_empty", "size", "peek", "peek_rear", "clear",
        "contains", "for_each", "set_free_function"}

ASSUME QueueAssumption ==
  /\ IsFiniteSet(Threads) /\ IsFiniteSet(Elements)
  /\ NoThread \notin Threads
  /\ NULL \notin Elements \cup Ops
  /\ MaxCalls \in Nat /\ MaxFaults \in Nat

VARIABLES
  list,          \* _generic_linked_list: the elements, first to last
  free_function, \* _free_function is set
  mutex,         \* the holder of _mutex
  pc, op, arg,   \* thread: program counter, call and its argument
  at,            \* thread: the element its iterator is at, NULL at the end
  seen,          \* thread: the elements its loop has dealt with
  answer,        \* thread: the result of its last call
  dequeued,      \* elements handed out by dequeue
  freed,         \* elements freed by the list
  lost,          \* elements in the list when it was freed without a function
  freeing,       \* generic_queue_syn_free: "no", "lock", "done"
  calls, faults

listVars   == << list, free_function, dequeued, freed, lost >>
threadVars == << pc, op, arg, at, seen, answer >>
vars == << listVars, mutex, threadVars, freeing, calls, faults >>

TypeOK ==
  /\ list \in Seq(Elements)
  /\ free_function \in BOOLEAN
  /\ mutex \in Threads \cup {NoThread}
  /\ pc \in [Threads -> {"idle", "lock", "call", "get", "walk", "unlock"}]
  /\ op \in [Threads -> Ops \cup {NULL}]
  /\ arg \in [Threads -> Elements \cup {TRUE, FALSE, NULL}]
  /\ at \in [Threads -> Elements \cup {NULL}]
  /\ seen \in [Threads -> Seq(Elements)]
  /\ dequeued \subseteq Elements /\ freed \subseteq Elements
  /\ lost \subseteq Elements
  /\ freeing \in {"no", "lock", "done"}
  /\ calls \in 0..MaxCalls /\ faults \in 0..MaxFaults

-----------------------------------------------------------------------------
Goto(t, l) == pc' = [pc EXCEPT ![t] = l]

\* The generic_queue call is over with result a.
Result(t, a) ==
  /\ Goto(t, "unlock")
  /\ answer' = [answer EXCEPT ![t] = a]

Fault == faults < MaxFaults /\ faults' = faults + 1

\* Thread t is in the generic_queue call o and makes the list call of label l.
In(t, o, l) == pc[t] = l /\ op[t] = o

First(q) == IF q = << >> THEN NULL ELSE q[1]

\* The element behind x in list q.
After(q, x) ==
  IF \E i \in 1..(Len(q) - 1) : q[i] = x
  THEN q[(CHOOSE i \in 1..Len(q) : q[i] = x) + 1] ELSE NULL

Used == Range(list) \cup dequeued \cup freed \cup lost
          \cup { arg[t] : t \in { u \in Threads : op[u] = "enqueue" } }

-----------------------------------------------------------------------------
(* generic_queue_syn.c *)

\* A call o begins; only data of its own is enqueued.
Call(t, o, x) ==
  /\ pc[t] = "idle" /\ freeing = "no"
  /\ calls < MaxCalls
  /\ calls' = calls + 1
  /\ op' = [op EXCEPT ![t] = o]
  /\ arg' = [arg EXCEPT ![t] = x]
  /\ Goto(t, "lock")
  /\ UNCHANGED << listVars, mutex, at, seen, answer, freeing, faults >>

generic_queue_syn_enqueue(t) ==
  \E x \in Elements \ Used : Call(t, "enqueue", x)
generic_queue_syn_dequeue(t)   ==  \* the argument: out_data is not NULL
  \E out \in BOOLEAN : Call(t, "dequeue", out)
generic_queue_syn_is_empty(t)  == Call(t, "is_empty", NULL)
generic_queue_syn_size(t)      == Call(t, "size", NULL)
generic_queue_syn_peek(t)      == Call(t, "peek", NULL)
generic_queue_syn_peek_rear(t) == Call(t, "peek_rear", NULL)
generic_queue_syn_clear(t)     == Call(t, "clear", NULL)
generic_queue_syn_for_each(t)  == Call(t, "for_each", NULL)
generic_queue_syn_contains(t)  ==
  \E x \in Elements : Call(t, "contains", x)
generic_queue_syn_set_free_function(t) ==
  \E f \in BOOLEAN : Call(t, "set_free_function", f)

\* Wrong variant: the mutex is not taken.
LockForgotten(t) ==
  /\ pc[t] = "lock"
  /\ Goto(t, "call")
  /\ UNCHANGED << listVars, mutex, op, arg, at, seen, answer, freeing, calls,
                  faults >>

Lock(t) ==
  /\ pc[t] = "lock"
  /\ mutex = NoThread
  /\ mutex' = t
  /\ Goto(t, "call")
  /\ UNCHANGED << listVars, op, arg, at, seen, answer, freeing, calls, faults >>

\* Wrong variant: a call that failed returns with the mutex.
UnlockUnlessFailed(t) ==
  /\ pc[t] = "unlock"
  /\ mutex' = IF answer[t] = << "failed" >> THEN mutex ELSE NoThread
  /\ Goto(t, "idle")
  /\ op' = [op EXCEPT ![t] = NULL]
  /\ arg' = [arg EXCEPT ![t] = NULL]
  /\ at' = [at EXCEPT ![t] = NULL]
  /\ seen' = [seen EXCEPT ![t] = << >>]
  /\ UNCHANGED << listVars, answer, freeing, calls, faults >>

\* The mutex is released and the call returns.
Unlock(t) ==
  /\ pc[t] = "unlock"
  /\ mutex' = NoThread
  /\ Goto(t, "idle")
  /\ op' = [op EXCEPT ![t] = NULL]
  /\ arg' = [arg EXCEPT ![t] = NULL]
  /\ at' = [at EXCEPT ![t] = NULL]
  /\ seen' = [seen EXCEPT ![t] = << >>]
  /\ UNCHANGED << listVars, answer, freeing, calls, faults >>

-----------------------------------------------------------------------------
(* generic_queue.c *)

\* generic_linked_list_insert_last, which may lack memory for the node or
\* the copy.
generic_queue_enqueue(t) ==
  /\ In(t, "enqueue", "call")
  /\ \/ /\ list' = Append(list, arg[t])
        /\ Result(t, << "done" >>)
        /\ UNCHANGED faults
     \/ /\ Fault
        /\ Result(t, << "failed" >>)
        /\ UNCHANGED list
  /\ UNCHANGED << free_function, dequeued, freed, lost, mutex, op, arg, at,
                  seen, freeing, calls >>

\* Wrong variant: the element is freed also when it is handed out.
generic_queue_dequeue_frees(t) ==
  /\ In(t, "dequeue", "call")
  /\ list' = (IF list = << >> THEN list ELSE Tail(list))
  /\ dequeued' = IF arg[t] THEN dequeued \cup ({First(list)} \ {NULL}) ELSE dequeued
  /\ freed' = IF free_function THEN freed \cup ({First(list)} \ {NULL}) ELSE freed
  /\ Result(t, << "data", First(list) >>)
  /\ UNCHANGED << free_function, lost, mutex, op, arg, at, seen,
                  freeing, calls, faults >>

\* generic_linked_list_remove_first: the data is handed out, or freed if there
\* is no place for it, which a list without a free function refuses.
generic_queue_dequeue(t) ==
  /\ In(t, "dequeue", "call")
  /\ \/ /\ list = << >>
        /\ Result(t, IF arg[t] THEN << "data", NULL >> ELSE << "done" >>)
        /\ UNCHANGED << list, dequeued, freed >>
     \/ /\ list # << >> /\ arg[t]
        /\ list' = Tail(list)
        /\ dequeued' = dequeued \cup {Head(list)}
        /\ Result(t, << "data", Head(list) >>)
        /\ UNCHANGED freed
     \/ /\ list # << >> /\ ~arg[t] /\ free_function
        /\ list' = Tail(list)
        /\ freed' = freed \cup {Head(list)}
        /\ Result(t, << "done" >>)
        /\ UNCHANGED dequeued
     \/ /\ list # << >> /\ ~arg[t] /\ ~free_function
        /\ Result(t, << "failed" >>)
        /\ UNCHANGED << list, dequeued, freed >>
  /\ UNCHANGED << free_function, lost, mutex, op, arg, at, seen, freeing, calls,
                  faults >>

generic_queue_is_empty(t) ==
  /\ In(t, "is_empty", "call")
  /\ Result(t, << "empty", list = << >> >>)
  /\ UNCHANGED << listVars, mutex, op, arg, at, seen, freeing, calls, faults >>

generic_queue_size(t) ==
  /\ In(t, "size", "call")
  /\ Result(t, << "size", Len(list) >>)
  /\ UNCHANGED << listVars, mutex, op, arg, at, seen, freeing, calls, faults >>

generic_queue_set_free_function(t) ==
  /\ In(t, "set_free_function", "call")
  /\ free_function' = arg[t]
  /\ Result(t, << "done" >>)
  /\ UNCHANGED << list, dequeued, freed, lost, mutex, op, arg, at, seen,
                  freeing, calls, faults >>

\* peek and peek_rear: nothing in an empty queue, else an iterator at the
\* front or at the back.
PeekBegin(t) ==
  /\ pc[t] = "call" /\ op[t] \in {"peek", "peek_rear"}
  /\ \/ /\ list = << >>
        /\ Result(t, << "data", NULL >>)
        /\ UNCHANGED << at, faults >>
     \/ /\ list # << >>
        /\ at' = [at EXCEPT ![t] = IF op[t] = "peek" THEN list[1]
                                   ELSE list[Len(list)]]
        /\ Goto(t, "get")
        /\ UNCHANGED << answer, faults >>
     \/ /\ list # << >>
        /\ Fault
        /\ Result(t, << "failed" >>)
        /\ UNCHANGED at
  /\ UNCHANGED << listVars, mutex, op, arg, seen, freeing, calls >>

\* generic_linked_list_iterator_get; the iterator is freed.
PeekGet(t) ==
  /\ pc[t] = "get"
  /\ Result(t, << "data", at[t] >>)
  /\ UNCHANGED << listVars, mutex, op, arg, at, seen, freeing, calls, faults >>

\* One turn of the loop of generic_queue_clear: the first element is freed
\* and removed, which a list without a free function refuses.
generic_queue_clear(t) ==
  /\ In(t, "clear", "call")
  /\ \/ /\ list = << >>
        /\ Result(t, << "done" >>)
        /\ UNCHANGED << list, freed, seen >>
     \/ /\ list # << >> /\ ~free_function
        /\ Result(t, << "failed" >>)
        /\ UNCHANGED << list, freed, seen >>
     \/ /\ list # << >> /\ free_function
        /\ freed' = freed \cup {Head(list)}
        /\ list' = Tail(list)
        /\ seen' = [seen EXCEPT ![t] = Append(@, Head(list))]
        /\ UNCHANGED << pc, answer >>
  /\ UNCHANGED << free_function, dequeued, lost, mutex, op, arg, at, freeing,
                  calls, faults >>

Walks == {"contains", "for_each"}

\* The begin and the end iterator of contains and for_each.
WalkBegin(t) ==
  /\ pc[t] = "call" /\ op[t] \in Walks
  /\ \/ /\ at' = [at EXCEPT ![t] = First(list)]
        /\ Goto(t, "walk")
        /\ UNCHANGED << answer, faults >>
     \/ /\ Fault
        /\ Result(t, << "failed" >>)
        /\ UNCHANGED at
  /\ UNCHANGED << listVars, mutex, op, arg, seen, freeing, calls >>

\* The walk has come to the end iterator.
WalkDone(t) == at[t] = NULL

\* generic_linked_list_iterator_for_each
ForEachStep(t) ==
  /\ In(t, "for_each", "walk")
  /\ IF WalkDone(t)
     THEN /\ Result(t, << "each" >> \o seen[t])
          /\ UNCHANGED << at, seen >>
     ELSE /\ seen' = [seen EXCEPT ![t] = Append(@, at[t])]
          /\ at' = [at EXCEPT ![t] = After(list, at[t])]
          /\ UNCHANGED << pc, answer >>
  /\ UNCHANGED << listVars, mutex, op, arg, freeing, calls, faults >>

\* generic_linked_list_iterator_find, which makes an iterator to answer with,
\* and generic_linked_list_iterator_is_valid of that.
ContainsStep(t) ==
  /\ In(t, "contains", "walk")
  /\ \/ /\ at[t] \notin {NULL, arg[t]}
        /\ at' = [at EXCEPT ![t] = After(list, at[t])]
        /\ UNCHANGED << pc, answer, faults >>
     \/ /\ at[t] \in {NULL, arg[t]}
        /\ Result(t, << "contains", at[t] # NULL >>)
        /\ UNCHANGED << at, faults >>
     \/ /\ at[t] \in {NULL, arg[t]}
        /\ Fault
        /\ Result(t, << "failed" >>)
        /\ UNCHANGED at
  /\ UNCHANGED << listVars, mutex, op, arg, seen, freeing, calls >>

-----------------------------------------------------------------------------
(* generic_queue_syn_free, called when no thread is in a call *)

FreeBegin ==
  /\ freeing = "no"
  /\ \A t \in Threads : pc[t] = "idle"
  /\ freeing' = "lock"
  /\ UNCHANGED << listVars, mutex, threadVars, calls, faults >>

\* generic_queue_free: what is left is freed, if the list knows how.
generic_queue_syn_free ==
  /\ freeing = "lock"
  /\ mutex = NoThread
  /\ IF free_function THEN freed' = freed \cup Range(list) /\ UNCHANGED lost
                      ELSE lost' = Range(list) /\ UNCHANGED freed
  /\ list' = << >>
  /\ freeing' = "done"
  /\ UNCHANGED << free_function, dequeued, mutex, threadVars, calls, faults >>

-----------------------------------------------------------------------------
\* generic_queue_syn_new
Init ==
  /\ list = << >> /\ free_function = FALSE
  /\ mutex = NoThread
  /\ pc = [t \in Threads |-> "idle"] /\ op = [t \in Threads |-> NULL]
  /\ arg = [t \in Threads |-> NULL] /\ at = [t \in Threads |-> NULL]
  /\ seen = [t \in Threads |-> << >>]
  /\ answer = [t \in Threads |-> << "none" >>]
  /\ dequeued = {} /\ freed = {} /\ lost = {}
  /\ freeing = "no"
  /\ calls = 0 /\ faults = 0

Begin(t) ==
  \/ generic_queue_syn_enqueue(t) \/ generic_queue_syn_dequeue(t)
  \/ generic_queue_syn_is_empty(t) \/ generic_queue_syn_size(t)
  \/ generic_queue_syn_peek(t) \/ generic_queue_syn_peek_rear(t)
  \/ generic_queue_syn_clear(t) \/ generic_queue_syn_contains(t)
  \/ generic_queue_syn_for_each(t) \/ generic_queue_syn_set_free_function(t)

Continue(t) ==
  \/ Lock(t) \/ Unlock(t)
  \/ generic_queue_enqueue(t) \/ generic_queue_dequeue(t)
  \/ generic_queue_is_empty(t) \/ generic_queue_size(t)
  \/ generic_queue_set_free_function(t) \/ generic_queue_clear(t)
  \/ PeekBegin(t) \/ PeekGet(t) \/ WalkBegin(t)
  \/ ForEachStep(t) \/ ContainsStep(t)

Next ==
  \/ \E t \in Threads : Begin(t) \/ Continue(t)
  \/ FreeBegin \/ generic_queue_syn_free

Spec == Init /\ [][Next]_vars

\* A thread inside a call keeps running; nobody is made to call.
FairSpec ==
  /\ Spec
  /\ \A t \in Threads : WF_vars(Continue(t))
  /\ WF_vars(generic_queue_syn_free)

-----------------------------------------------------------------------------
(* Properties *)

\* Data has one owner: an element that was enqueued is once in the list,
\* with the caller that dequeued it, or freed by clear, by a dequeue without a
\* place for it or with the queue, and
\* in no second of these places; it is lost only when a queue without a free
\* function is freed.  What a thread walks to or peeks at while it holds the
\* mutex is in the list.
ElementsConserved ==
  /\ IsInjective(list)
  /\ Range(list) \cap (dequeued \cup freed \cup lost) = {}
  /\ dequeued \cap (freed \cup lost) = {} /\ freed \cap lost = {}
  /\ lost # {} => ~free_function /\ freeing = "done"
  /\ \A t \in Threads :
       pc[t] \in {"get", "walk"} /\ at[t] # NULL => at[t] \in Range(list)

\* A call of clear takes effect when it has removed the last element.
Cleared ==
  LET ts == { t \in Threads : op[t] = "clear" /\ pc[t] = "call" }
  IN IF ts = {} THEN << >> ELSE seen[CHOOSE t \in ts : TRUE]

Queue == Cleared \o list

\* A call has had its effect when it is about to release the mutex.
Asked == [t \in Threads |-> IF pc[t] \in {"idle", "unlock"} THEN << >>
                            ELSE << op[t], arg[t] >>]

Closed == freeing = "done"

\* The queue is a FIFO sequence on which every call acts at one moment: what
\* ThreadPool and MessageBroker take for granted when they make a queue call
\* one step.
A == INSTANCE AtomicQueue WITH
  queue <- Queue,
  frees <- free_function,
  asked <- Asked,
  closed <- Closed

ImplementsAtomicQueue == A!Spec

\* Every call returns, also when it fails or when others use the queue, and
\* so does the freeing of the queue.
CallsReturn ==
  /\ \A t \in Threads : pc[t] # "idle" ~> pc[t] = "idle"
  /\ freeing = "lock" ~> freeing = "done"

=============================================================================
