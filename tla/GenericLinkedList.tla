-------------------------- MODULE GenericLinkedList --------------------------
(***************************************************************************)
(* generic_linked_list.c: a doubly linked list between two guard nodes,    *)
(* with iterators.  The list has no lock: its users call it under one of   *)
(* their own, and each call is one step.                                   *)
(*                                                                         *)
(* A call that fails (a NULL argument, no memory, a copy function that     *)
(* fails, an iterator at the wrong guard, a removal that can neither hand  *)
(* out nor free the element) changes nothing and is not an action.  The    *)
(* caller does not use an iterator whose node was removed by other means,  *)
(* which would be undefined behaviour, and passes a pointer it owns.       *)
(***************************************************************************)
EXTENDS Naturals, FiniteSets, Sequences, SequencesExt

CONSTANTS
  Nodes,       \* addresses malloc may return for nodes
  HeadGuard, TailGuard,
  Data,        \* the objects data pointers point to
  Iterators,   \* the iterators a caller may have at the same time
  NULL

Guards == {HeadGuard, TailGuard}

ASSUME ListAssumption ==
  /\ IsFiniteSet(Nodes) /\ HeadGuard # TailGuard
  /\ Guards \cap Nodes = {}
  /\ NULL \notin Nodes \cup Guards \cup Data \cup Nat

VARIABLES
  next, prev,  \* links of the guards and the nodes; a free node has NULL
  data,        \* data[n]: the data pointer of node n
  size,        \* _size
  freeFn,      \* _free_function is set
  copyFn,      \* _copy_function is set
  iter,        \* iter[i]: _current_node of iterator i; NULL if i is not open
  out,         \* what the last call that yields a result stored, in a sequence
  exists,      \* the list has not been freed
  where,       \* history: where the object a data pointer points to is
  order,       \* history: the nodes in the order of the list
  stale        \* history: iterators whose node was removed by other means

linkVars == << next, prev, data, size, order >>
vars == << linkVars, freeFn, copyFn, iter, out, exists, where, stale >>

TypeOK ==
  /\ next \in [Nodes \cup Guards -> Nodes \cup Guards \cup {NULL}]
  /\ prev \in [Nodes \cup Guards -> Nodes \cup Guards \cup {NULL}]
  /\ data \in [Nodes \cup Guards -> Data \cup {NULL}]
  /\ size \in Nat
  /\ freeFn \in BOOLEAN /\ copyFn \in BOOLEAN /\ exists \in BOOLEAN
  /\ iter \in [Iterators -> Nodes \cup Guards \cup {NULL}]
  /\ out \in Seq(Data \cup {NULL} \cup Nat)
  /\ where \in [Data -> {"outside", "list", "freed"}]
  /\ order \in Seq(Nodes)
  /\ stale \subseteq Iterators

\* The place of a node in the list; the guards are at its ends.
Position(n) == IF n = HeadGuard THEN 0
               ELSE IF n = TailGuard THEN Len(order) + 1
               ELSE CHOOSE k \in 1..Len(order) : order[k] = n

-----------------------------------------------------------------------------
(* Insertion *)

\* The pointer a new node gets: the caller's or, if there is a copy function,
\* a copy, which is never NULL.
StoredData(d) ==
  \/ d = NULL /\ ~copyFn /\ UNCHANGED where
  \/ /\ d \in Data
     /\ where[d] = "outside"
     /\ where' = [where EXCEPT ![d] = "list"]

generic_linked_list_insert_first(n, d) ==
  /\ exists /\ n \notin Range(order)
  /\ StoredData(d)
  /\ data' = [data EXCEPT ![n] = d]
  /\ next' = [next EXCEPT ![n] = next[HeadGuard], ![HeadGuard] = n]
  /\ prev' = [prev EXCEPT ![next[HeadGuard]] = n, ![n] = HeadGuard]
  /\ size' = size + 1
  /\ order' = << n >> \o order
  /\ UNCHANGED << freeFn, copyFn, iter, out, exists, stale >>

\* Wrong variant: the guard keeps pointing to the node that was last.
insert_last_half_linked(n, d) ==
  /\ exists /\ n \notin Range(order)
  /\ StoredData(d)
  /\ data' = [data EXCEPT ![n] = d]
  /\ prev' = [prev EXCEPT ![n] = prev[TailGuard]]
  /\ next' = [next EXCEPT ![prev[TailGuard]] = n, ![n] = TailGuard]
  /\ size' = size + 1
  /\ order' = Append(order, n)
  /\ UNCHANGED << freeFn, copyFn, iter, out, exists, stale >>

generic_linked_list_insert_last(n, d) ==
  /\ exists /\ n \notin Range(order)
  /\ StoredData(d)
  /\ data' = [data EXCEPT ![n] = d]
  /\ prev' = [prev EXCEPT ![n] = prev[TailGuard], ![TailGuard] = n]
  /\ next' = [next EXCEPT ![prev[TailGuard]] = n, ![n] = TailGuard]
  /\ size' = size + 1
  /\ order' = Append(order, n)
  /\ UNCHANGED << freeFn, copyFn, iter, out, exists, stale >>

-----------------------------------------------------------------------------
(* Removal *)

\* The data of a removed node goes to the caller or to the free function,
\* which is not called on NULL.
Dispose(d) ==
  \/ /\ out' = << d >>
     /\ where' = [e \in Data |-> IF e = d THEN "outside" ELSE where[e]]
  \/ /\ freeFn
     /\ where' = [e \in Data |-> IF e = d THEN "freed" ELSE where[e]]
     /\ UNCHANGED out

\* Node n is freed under the iterators in others.
FreeNode(n, others) ==
  /\ data' = [data EXCEPT ![n] = NULL]
  /\ size' = size - 1
  /\ stale' = stale \cup { i \in others : iter[i] = n }

generic_linked_list_remove_first ==
  /\ exists /\ size > 0
  /\ LET n == next[HeadGuard] IN
     /\ Dispose(data[n])
     /\ next' = [next EXCEPT ![HeadGuard] = next[n], ![n] = NULL]
     /\ prev' = [prev EXCEPT ![next[n]] = HeadGuard, ![n] = NULL]
     /\ FreeNode(n, Iterators)
  /\ order' = RemoveAt(order, 1)
  /\ UNCHANGED << freeFn, copyFn, iter, exists >>

\* Wrong variant: the node is freed before its data is disposed of.
remove_last_leaks ==
  /\ exists /\ size > 0
  /\ LET n == prev[TailGuard] IN
     /\ prev' = [prev EXCEPT ![TailGuard] = prev[n], ![n] = NULL]
     /\ next' = [next EXCEPT ![prev[n]] = TailGuard, ![n] = NULL]
     /\ FreeNode(n, Iterators)
  /\ order' = RemoveAt(order, Len(order))
  /\ UNCHANGED << freeFn, copyFn, iter, exists, out, where >>

generic_linked_list_remove_last ==
  /\ exists /\ size > 0
  /\ LET n == prev[TailGuard] IN
     /\ Dispose(data[n])
     /\ prev' = [prev EXCEPT ![TailGuard] = prev[n], ![n] = NULL]
     /\ next' = [next EXCEPT ![prev[n]] = TailGuard, ![n] = NULL]
     /\ FreeNode(n, Iterators)
  /\ order' = RemoveAt(order, Len(order))
  /\ UNCHANGED << freeFn, copyFn, iter, exists >>

\* remove_first and remove_last of an empty list succeed and yield NULL.
RemoveNothing ==
  /\ exists /\ size = 0
  /\ out' = << NULL >>
  /\ UNCHANGED << linkVars, freeFn, copyFn, iter, exists, where, stale >>

\* iterator i may be used.
Usable(i) == iter[i] # NULL /\ i \notin stale

\* generic_linked_list_iterator_is_valid yields 0: i is at an element.
generic_linked_list_iterator_is_valid(i) == iter[i] \notin Guards

\* Wrong variant: the iterator stays at the node that is freed.
iterator_remove_stays(i) ==
  /\ exists /\ Usable(i) /\ generic_linked_list_iterator_is_valid(i)
  /\ LET n == iter[i] IN
     /\ Dispose(data[n])
     /\ next' = [next EXCEPT ![prev[n]] = next[n], ![n] = NULL]
     /\ prev' = [prev EXCEPT ![next[n]] = prev[n], ![n] = NULL]
     /\ FreeNode(n, Iterators \ {i})
     /\ order' = RemoveAt(order, Position(n))
  /\ UNCHANGED << freeFn, copyFn, iter, exists >>

generic_linked_list_iterator_remove(i) ==
  /\ exists /\ Usable(i) /\ generic_linked_list_iterator_is_valid(i)
  /\ LET n == iter[i] IN
     /\ Dispose(data[n])
     /\ next' = [next EXCEPT ![prev[n]] = next[n], ![n] = NULL]
     /\ prev' = [prev EXCEPT ![next[n]] = prev[n], ![n] = NULL]
     /\ FreeNode(n, Iterators \ {i})
     /\ iter' = [iter EXCEPT ![i] = next[n]]
     /\ order' = RemoveAt(order, Position(n))
  /\ UNCHANGED << freeFn, copyFn, exists >>

-----------------------------------------------------------------------------
(* Iterators *)

iterFrame == << linkVars, freeFn, copyFn, exists, where >>

Place(i, n) ==
  /\ iter' = [iter EXCEPT ![i] = n]
  /\ UNCHANGED << iterFrame, out, stale >>

\* iterator_begin, _end, _reverse_begin and _reverse_end
Open(i) ==
  /\ exists /\ iter[i] = NULL
  /\ \E n \in {next[HeadGuard], TailGuard, prev[TailGuard], HeadGuard} :
       Place(i, n)

generic_linked_list_iterator_free(i) ==
  /\ iter[i] # NULL
  /\ iter' = [iter EXCEPT ![i] = NULL]
  /\ stale' = stale \ {i}
  /\ UNCHANGED << iterFrame, out >>

generic_linked_list_iterator_next(i) ==
  /\ exists /\ Usable(i)
  /\ iter[i] # TailGuard
  /\ Place(i, next[iter[i]])

\* Wrong variant: the test for the guard left out.
iterator_prev_unchecked(i) ==
  /\ exists /\ Usable(i)
  /\ IF prev[iter[i]] = NULL THEN Place(i, "wild")
                             ELSE Place(i, prev[iter[i]])

generic_linked_list_iterator_prev(i) ==
  /\ exists /\ Usable(i)
  /\ iter[i] # HeadGuard
  /\ Place(i, prev[iter[i]])

\* The node reached from node m by k links, and by fewer if the guard g is
\* met before.
Reached(link, m, g, k) ==
  LET at[l \in 0..k] == IF l = 0 THEN m
                        ELSE IF at[l - 1] = g THEN g ELSE link[at[l - 1]]
  IN at[k]

generic_linked_list_iterator_advance(i, n) ==
  /\ exists /\ Usable(i)
  /\ Place(i, Reached(next, iter[i], TailGuard, n))

generic_linked_list_iterator_reverse_advance(i, n) ==
  /\ exists /\ Usable(i)
  /\ Place(i, Reached(prev, iter[i], HeadGuard, n))

Yields(result) ==
  /\ out' = result
  /\ UNCHANGED << iterFrame, iter, stale >>

generic_linked_list_iterator_get(i) ==
  /\ exists /\ Usable(i)
  /\ Yields(<< IF generic_linked_list_iterator_is_valid(i)
               THEN data[iter[i]] ELSE NULL >>)

\* The nodes a walk from m visits before it meets node e or the tail guard.
Walk(m, e) ==
  LET At(k) == Reached(next, m, TailGuard, k)
      stops == { k \in 0..(Cardinality(Nodes) + 1) : At(k) \in {e, TailGuard} }
  IN [k \in 1..Min(stops) |-> At(k - 1)]

\* The walk from m meets e.
Meets(m, e) == Reached(next, m, TailGuard, Len(Walk(m, e))) = e

\* Wrong variant: the guard in front of the first element counts.
iterator_distance_with_guard(i, j) ==
  /\ exists /\ Usable(i) /\ Usable(j)
  /\ Meets(iter[i], iter[j])
  /\ Yields(<< Len(Walk(iter[i], iter[j])) >>)

\* An end that cannot be reached is an error.  The head guard is not counted.
generic_linked_list_iterator_distance(i, j) ==
  /\ exists /\ Usable(i) /\ Usable(j)
  /\ Meets(iter[i], iter[j])
  /\ LET walk == Walk(iter[i], iter[j])
     IN Yields(<< Cardinality({ k \in 1..Len(walk) : walk[k] # HeadGuard }) >>)

\* The compare function is not called for the head guard.
generic_linked_list_iterator_find(i, j, d, h) ==
  /\ exists /\ Usable(i) /\ Usable(j) /\ iter[h] = NULL
  /\ LET walk == Walk(iter[i], iter[j])
         hits == { k \in 1..Len(walk) : walk[k] # HeadGuard /\ data[walk[k]] = d }
     IN Place(h, IF hits = {} THEN iter[j] ELSE walk[Min(hits)])

\* apply is called for the head guard, too.
generic_linked_list_iterator_for_each(i, j) ==
  /\ exists /\ Usable(i) /\ Usable(j)
  /\ LET walk == Walk(iter[i], iter[j])
     IN Yields([k \in 1..Len(walk) |-> data[walk[k]]])

-----------------------------------------------------------------------------
generic_linked_list_set_free_function(set) ==
  /\ exists
  /\ freeFn' = set
  /\ UNCHANGED << linkVars, copyFn, iter, out, exists, where, stale >>

generic_linked_list_set_copy_function(set) ==
  /\ exists
  /\ copyFn' = set
  /\ UNCHANGED << linkVars, freeFn, iter, out, exists, where, stale >>

\* Frees the nodes and, through the free function, their data.  The caller
\* has freed its iterators.
generic_linked_list_free ==
  /\ exists
  /\ \A i \in Iterators : iter[i] = NULL
  /\ exists' = FALSE
  /\ where' = [d \in Data |-> IF where[d] # "list" THEN where[d]
                              ELSE IF freeFn THEN "freed" ELSE "outside"]
  /\ next' = [n \in Nodes \cup Guards |-> NULL]
  /\ prev' = [n \in Nodes \cup Guards |-> NULL]
  /\ data' = [n \in Nodes \cup Guards |-> NULL]
  /\ size' = 0
  /\ order' = << >>
  /\ UNCHANGED << freeFn, copyFn, iter, out, stale >>

\* generic_linked_list_new
Init ==
  /\ next = [n \in Nodes \cup Guards |->
               IF n = HeadGuard THEN TailGuard ELSE NULL]
  /\ prev = [n \in Nodes \cup Guards |->
               IF n = TailGuard THEN HeadGuard ELSE NULL]
  /\ data = [n \in Nodes \cup Guards |-> NULL]
  /\ size = 0 /\ order = << >>
  /\ freeFn = FALSE /\ copyFn = FALSE
  /\ iter = [i \in Iterators |-> NULL] /\ stale = {}
  /\ out = << >> /\ exists = TRUE
  /\ where = [d \in Data |-> "outside"]

Next ==
  \/ \E n \in Nodes, d \in Data \cup {NULL} :
       \/ generic_linked_list_insert_first(n, d)
       \/ generic_linked_list_insert_last(n, d)
  \/ generic_linked_list_remove_first
  \/ generic_linked_list_remove_last
  \/ RemoveNothing
  \/ generic_linked_list_free
  \/ \E set \in BOOLEAN :
       \/ generic_linked_list_set_free_function(set)
       \/ generic_linked_list_set_copy_function(set)
  \/ \E i \in Iterators :
       \/ Open(i)
       \/ generic_linked_list_iterator_free(i)
       \/ generic_linked_list_iterator_next(i)
       \/ generic_linked_list_iterator_prev(i)
       \/ generic_linked_list_iterator_get(i)
       \/ generic_linked_list_iterator_remove(i)
       \/ \E k \in 0..(Cardinality(Nodes) + 1) :
            \/ generic_linked_list_iterator_advance(i, k)
            \/ generic_linked_list_iterator_reverse_advance(i, k)
  \/ \E i, j \in Iterators :
       \/ generic_linked_list_iterator_distance(i, j)
       \/ generic_linked_list_iterator_for_each(i, j)
       \/ \E h \in Iterators, d \in Data :
            generic_linked_list_iterator_find(i, j, d, h)

Spec == Init /\ [][Next]_vars

-----------------------------------------------------------------------------
(* Properties *)

\* The chain of a list with its guards, from head to tail.
Chain == << HeadGuard >> \o order \o << TailGuard >>

\* The links represent the list in both directions, whatever mixture of
\* insertions and removals at the ends and through iterators made it: each
\* node of the chain and its successor point to each other, no node is in it
\* twice, _size counts the elements, and the nodes outside are not linked.
WellLinked ==
  exists =>
    /\ \A k \in 1..(Len(Chain) - 1) :
         next[Chain[k]] = Chain[k + 1] /\ prev[Chain[k + 1]] = Chain[k]
    /\ prev[HeadGuard] = NULL /\ next[TailGuard] = NULL
    /\ \A k, l \in 1..Len(order) : order[k] = order[l] => k = l
    /\ size = Len(order)
    /\ \A n \in Nodes \ Range(order) : next[n] = NULL /\ prev[n] = NULL

\* An object belongs to the list exactly while one node, and no other,
\* points to it: nothing the list was given is lost, and nothing is handed
\* out or freed twice.
Ownership ==
  \A d \in Data :
    LET holders == { n \in Range(order) : data[n] = d } IN
    Cardinality(holders) = IF where[d] = "list" THEN 1 ELSE 0

\* An iterator nobody pulled the node away from is at a guard or at a node
\* of the list.
IteratorsLive ==
  \A i \in Iterators : Usable(i) => iter[i] \in Range(order) \cup Guards

\* The list is a sequence, and its iterators are positions in it.
Elements == [k \in 1..Len(order) |-> data[order[k]]]
Places == [i \in Iterators |-> IF Usable(i) THEN Position(iter[i]) ELSE NULL]

L == INSTANCE IteratedList WITH seq <- Elements, pos <- Places

ImplementsIteratedList == L!Spec

=============================================================================
