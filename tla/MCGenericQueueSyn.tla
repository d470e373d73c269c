-------------------------- MODULE MCGenericQueueSyn --------------------------
(* The locked queue for TLC: two threads and two elements. *)
EXTENDS GenericQueueSyn

=============================================================================
