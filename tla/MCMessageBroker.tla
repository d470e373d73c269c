--------------------------- MODULE MCMessageBroker ---------------------------
(* Instances of MessageBroker for TLC.                                     *)
EXTENDS MessageBroker, TLC

CONSTANTS s1, s2, r1, r2

\* All receivers receive from the first subscription.
AllOnFirst == [r \in Receivers |-> s1]

\* The table has one bucket.
OneBucket == [n \in Names |-> 0]

\* Workers are interchangeable, and so are publishers.
Symmetry == Permutations(Workers) \cup Permutations(Publishers)

=============================================================================
