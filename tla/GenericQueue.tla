---------------------------- MODULE GenericQueue ----------------------------
(***************************************************************************)
(* The FIFO queue of generic_queue.c and its locked form of                *)
(* generic_queue_syn.c, as operators on the sequence of its elements       *)
(* (front first).                                                          *)
(*                                                                         *)
(* Every generic_queue_syn_* function takes the queue's own mutex, makes   *)
(* one generic_queue_* call, which neither blocks nor takes another lock,  *)
(* and releases the mutex: each call is therefore one step of its caller.  *)
(***************************************************************************)
EXTENDS Sequences

CONSTANT NULL   \* the C null pointer

generic_queue_syn_is_empty(q) == q = << >>

generic_queue_syn_enqueue(q, data) == Append(q, data)

\* What dequeue stores in *out_data.  Dequeuing an empty queue is no error:
\* generic_linked_list_remove_first stores NULL and returns 0.
generic_queue_syn_dequeue(q) == IF q = << >> THEN NULL ELSE Head(q)

\* The queue a dequeue leaves behind.
dequeued_queue(q) == IF q = << >> THEN q ELSE Tail(q)

=============================================================================
