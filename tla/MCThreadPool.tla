---------------------------- MODULE MCThreadPool ----------------------------
(* Instances of ThreadPool for TLC.                                        *)
EXTENDS ThreadPool, TLC

\* Dispatchers are interchangeable, and so are tasks; clients are not,
\* because one of them is the owner.
Symmetry == Permutations(Dispatchers) \cup Permutations(Tasks)

=============================================================================
