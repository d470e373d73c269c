----------------------------- MODULE AtomicQueue -----------------------------
(***************************************************************************)
(* What generic_queue_syn promises the threads that share a queue: a FIFO  *)
(* sequence on which every call acts at one moment, the ones that look at  *)
(* all of the queue (clear, contains, for_each) too.  The operators of     *)
(* GenericQueue say what a call does to the sequence: this is the form in  *)
(* which ThreadPool and MessageBroker use their queues.                    *)
(***************************************************************************)
EXTENDS GenericQueue

CONSTANTS Threads, Elements

VARIABLES
  queue,    \* the elements, front first
  frees,    \* a free function is set
  asked,    \* asked[t]: the call of thread t, << >> once it has had its effect
  answer,   \* answer[t]: the result of the last call of thread t
  closed    \* the queue is being freed

queueVars == << queue, frees, asked, answer, closed >>

Idle == << >>

Init ==
  /\ queue = << >>
  /\ frees = FALSE
  /\ asked = [t \in Threads |-> Idle]
  /\ answer = [t \in Threads |-> << "none" >>]
  /\ closed = FALSE

Calls ==
  { << o, NULL >> : o \in {"is_empty", "size", "peek", "peek_rear", "clear",
                           "for_each"} }
  \cup ({"enqueue", "contains"} \X Elements)
  \cup ({"dequeue", "set_free_function"} \X BOOLEAN)

Ask(t, call) ==
  /\ ~closed
  /\ asked[t] = Idle
  /\ asked' = [asked EXCEPT ![t] = call]
  /\ UNCHANGED << queue, frees, answer, closed >>

\* The call of t is answered with a.
Answer(t, a) ==
  /\ asked' = [asked EXCEPT ![t] = Idle]
  /\ answer' = [answer EXCEPT ![t] = a]
  /\ UNCHANGED closed

Enqueue(t, x) ==
  /\ asked[t] = << "enqueue", x >>
  /\ queue' = generic_queue_syn_enqueue(queue, x)
  /\ Answer(t, << "done" >>)
  /\ UNCHANGED frees

Dequeue(t) ==
  /\ asked[t] = << "dequeue", TRUE >>
  /\ queue' = dequeued_queue(queue)
  /\ Answer(t, << "data", generic_queue_syn_dequeue(queue) >>)
  /\ UNCHANGED frees

\* Without a place for the data it is freed, which needs a free function.
Discard(t) ==
  /\ asked[t] = << "dequeue", FALSE >>
  /\ IF queue # << >> /\ ~frees
     THEN Answer(t, << "failed" >>) /\ UNCHANGED queue
     ELSE Answer(t, << "done" >>) /\ queue' = dequeued_queue(queue)
  /\ UNCHANGED frees

\* Clearing needs a free function, unless there is nothing to free.
Clear(t) ==
  /\ asked[t] = << "clear", NULL >>
  /\ IF queue # << >> /\ ~frees
     THEN Answer(t, << "failed" >>) /\ UNCHANGED queue
     ELSE Answer(t, << "done" >>) /\ queue' = << >>
  /\ UNCHANGED frees

Back == IF queue = << >> THEN NULL ELSE queue[Len(queue)]

\* What a call that only looks sees.
Seen(call) ==
  CASE call[1] = "is_empty"  -> << "empty", generic_queue_syn_is_empty(queue) >>
    [] call[1] = "size"      -> << "size", Len(queue) >>
    [] call[1] = "peek"      -> << "data", generic_queue_syn_dequeue(queue) >>
    [] call[1] = "peek_rear" -> << "data", Back >>
    [] call[1] = "for_each"  -> << "each" >> \o queue
    [] call[1] = "contains"  ->
         << "contains", \E i \in DOMAIN queue : queue[i] = call[2] >>

Look(t) ==
  /\ asked[t] # Idle
  /\ asked[t][1] \in {"is_empty", "size", "peek", "peek_rear", "for_each", "contains"}
  /\ Answer(t, Seen(asked[t]))
  /\ UNCHANGED << queue, frees >>

SetFree(t, f) ==
  /\ asked[t] = << "set_free_function", f >>
  /\ frees' = f
  /\ Answer(t, << "done" >>)
  /\ UNCHANGED queue

\* There is no memory for a node or an iterator: nothing happens.
Fail(t) ==
  /\ asked[t] # Idle
  /\ asked[t][1] \in {"enqueue", "peek", "peek_rear", "for_each", "contains"}
  /\ Answer(t, << "failed" >>)
  /\ UNCHANGED << queue, frees >>

\* The queue is freed, with what is left in it.
Close ==
  /\ ~closed /\ \A t \in Threads : asked[t] = Idle
  /\ closed' = TRUE
  /\ queue' = << >>
  /\ UNCHANGED << frees, asked, answer >>

Next ==
  \/ \E t \in Threads :
       \/ \E call \in Calls : Ask(t, call)
       \/ \E x \in Elements : Enqueue(t, x)
       \/ \E f \in BOOLEAN : SetFree(t, f)
       \/ Dequeue(t) \/ Discard(t) \/ Clear(t) \/ Look(t) \/ Fail(t)
  \/ Close

Spec == Init /\ [][Next]_queueVars

=============================================================================
