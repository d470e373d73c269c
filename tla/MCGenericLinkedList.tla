------------------------- MODULE MCGenericLinkedList -------------------------
(* Instances of GenericLinkedList for TLC.                                 *)
EXTENDS GenericLinkedList, TLC

\* Nodes, objects and iterators are interchangeable.
Symmetry ==
  Permutations(Nodes) \cup Permutations(Data) \cup Permutations(Iterators)

=============================================================================
