------------------------- MODULE MCGenericHashTable -------------------------
(* The hash table for TLC: two keys that share a bucket and one that does  *)
(* not.                                                                    *)
EXTENDS GenericHashTable

CONSTANTS k1, k2, k3

TwoShareABucket == [k \in Keys |-> CASE k = k1 -> 1 [] k = k2 -> 3 [] OTHER -> 4]

=============================================================================
