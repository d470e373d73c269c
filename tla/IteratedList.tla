---------------------------- MODULE IteratedList ----------------------------
(***************************************************************************)
(* What the linked list promises, without nodes and pointers: a sequence   *)
(* and iterators that are positions in it.  Position 0 is before the first *)
(* element and Len(seq) + 1 behind the last.  An iterator stays at its     *)
(* element whatever is inserted or removed elsewhere; the removal of that  *)
(* element moves the iterator it was made through to the next one and      *)
(* invalidates the other iterators that were there.                        *)
(***************************************************************************)
EXTENDS Naturals, Sequences, FiniteSets

CONSTANTS Data, Iterators, NULL

VARIABLES
  seq,   \* the elements
  pos,   \* pos[i]: the position of iterator i; NULL if it is not usable
  out    \* the result of the last call that yields one, as a sequence

listVars == << seq, pos, out >>

Usable(i) == pos[i] # NULL

Init == seq = << >> /\ pos = [i \in Iterators |-> NULL] /\ out = << >>

InsertFirst(d) ==
  /\ seq' = << d >> \o seq
  /\ pos' = [i \in Iterators |-> IF pos[i] \in {NULL, 0} THEN pos[i]
                                 ELSE pos[i] + 1]
  /\ UNCHANGED out

InsertLast(d) ==
  /\ seq' = Append(seq, d)
  /\ pos' = [i \in Iterators |-> IF pos[i] = Len(seq) + 1 THEN Len(seq) + 2
                                 ELSE pos[i]]
  /\ UNCHANGED out

\* Remove element k, handing it out or not; the iterators in via move on.
Remove(k, via) ==
  /\ seq' = SubSeq(seq, 1, k - 1) \o SubSeq(seq, k + 1, Len(seq))
  /\ pos' = [i \in Iterators |->
               IF pos[i] = NULL \/ (pos[i] = k /\ i \notin via) THEN NULL
               ELSE IF pos[i] > k THEN pos[i] - 1 ELSE pos[i]]
  /\ out' \in {out, << seq[k] >>}

RemoveFirst == seq # << >> /\ Remove(1, {})

RemoveLast == seq # << >> /\ Remove(Len(seq), {})

RemoveAtIterator(i) == pos[i] \in 1..Len(seq) /\ Remove(pos[i], {i})

\* Removing from the empty list yields NULL.
RemoveNothing == seq = << >> /\ out' = << NULL >> /\ UNCHANGED << seq, pos >>

Open(i) ==
  /\ ~Usable(i)
  /\ pos' \in { [pos EXCEPT ![i] = k] : k \in {0, 1, Len(seq), Len(seq) + 1} }
  /\ UNCHANGED << seq, out >>

Close(i) == pos' = [pos EXCEPT ![i] = NULL] /\ UNCHANGED << seq, out >>

\* next, prev and their repetitions stop at the ends.
Advance(i, n) ==
  /\ Usable(i)
  /\ pos' = [pos EXCEPT ![i] = IF @ + n > Len(seq) + 1 THEN Len(seq) + 1
                               ELSE @ + n]
  /\ UNCHANGED << seq, out >>

ReverseAdvance(i, n) ==
  /\ Usable(i)
  /\ pos' = [pos EXCEPT ![i] = IF @ < n THEN 0 ELSE @ - n]
  /\ UNCHANGED << seq, out >>

Get(i) ==
  /\ Usable(i)
  /\ out' = << IF pos[i] \in 1..Len(seq) THEN seq[pos[i]] ELSE NULL >>
  /\ UNCHANGED << seq, pos >>

\* The elements between two iterators.  An end that lies before the begin is
\* never met, so that the range extends to the end of the list.
Between(i, j) ==
  { k \in 1..Len(seq) : pos[i] <= k /\ (pos[i] <= pos[j] => k < pos[j]) }

Distance(i, j) ==
  /\ Usable(i) /\ Usable(j)
  /\ pos[i] <= pos[j]
  /\ out' = << Cardinality(Between(i, j)) >>
  /\ UNCHANGED << seq, pos >>

\* h becomes an iterator at the first occurrence of d, or at the end.
Find(i, j, d, h) ==
  /\ Usable(i) /\ Usable(j) /\ ~Usable(h)
  /\ LET hits == { k \in Between(i, j) : seq[k] = d } IN
     pos' = [pos EXCEPT ![h] =
               IF hits = {} THEN pos[j]
               ELSE CHOOSE k \in hits : \A l \in hits : k <= l]
  /\ UNCHANGED << seq, out >>

\* A walk that starts before the first element visits a NULL there.
ForEach(i, j) ==
  /\ Usable(i) /\ Usable(j)
  /\ LET stop  == IF pos[i] <= pos[j] THEN pos[j] ELSE Len(seq) + 1
         first == IF pos[i] = 0 THEN 1 ELSE pos[i]
     IN out' = (IF pos[i] = 0 /\ stop # 0 THEN << NULL >> ELSE << >>)
                 \o SubSeq(seq, first, stop - 1)
  /\ UNCHANGED << seq, pos >>

Clear ==
  /\ seq' = << >>
  /\ \A i \in Iterators : ~Usable(i)
  /\ UNCHANGED << pos, out >>

Next ==
  \/ \E d \in Data \cup {NULL} : InsertFirst(d) \/ InsertLast(d)
  \/ RemoveFirst \/ RemoveLast \/ RemoveNothing \/ Clear
  \/ \E i \in Iterators :
       \/ Open(i) \/ Close(i) \/ Get(i) \/ RemoveAtIterator(i)
       \/ \E n \in 1..(Len(seq) + 1) : Advance(i, n) \/ ReverseAdvance(i, n)
  \/ \E i, j \in Iterators :
       \/ Distance(i, j) \/ ForEach(i, j)
       \/ \E h \in Iterators, d \in Data : Find(i, j, d, h)

Spec == Init /\ [][Next]_listVars

=============================================================================
