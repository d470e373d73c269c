---------------------------- MODULE ConcurrentMap ----------------------------
(***************************************************************************)
(* What the hash table promises the threads that share it, with no bucket, *)
(* no mutex and no list: every call takes effect at one moment between its *)
(* begin and its end.  A key has a stack of values, because inserting a    *)
(* key again does not replace its value but hides it: get yields the       *)
(* newest value, and delete removes it and uncovers the one before.  A     *)
(* call that runs out of memory changes nothing.                           *)
(*                                                                         *)
(* MessageBroker uses the table this way: table[n] there is stack[n] here. *)
(***************************************************************************)
EXTENDS Naturals, Sequences, FiniteSets

CONSTANTS Threads, Keys, Values

VARIABLES
  stack,    \* stack[k]: the values of key k, newest first
  asked,    \* asked[t]: the call of thread t and its key, << >> between calls
  answer,   \* answer[t]: the result of the last call of thread t
  closed    \* the table is being freed

mapVars == << stack, asked, answer, closed >>

Idle == << >>

Init ==
  /\ stack = [k \in Keys |-> << >>]
  /\ asked = [t \in Threads |-> Idle]
  /\ answer = [t \in Threads |-> << "none" >>]
  /\ closed = FALSE

Ask(t, o, k) ==
  /\ ~closed
  /\ asked[t] = Idle
  /\ asked' = [asked EXCEPT ![t] = << o, k >>]
  /\ UNCHANGED << stack, answer, closed >>

\* The call of t is answered with a.
Answer(t, a) ==
  /\ asked' = [asked EXCEPT ![t] = Idle]
  /\ answer' = [answer EXCEPT ![t] = a]
  /\ UNCHANGED closed

Insert(t, k, v) ==
  /\ asked[t] = << "insert", k >>
  /\ \A l \in Keys : \A i \in 1..Len(stack[l]) : stack[l][i] # v
  /\ stack' = [stack EXCEPT ![k] = << v >> \o @]
  /\ Answer(t, << "inserted" >>)

Get(t, k) ==
  /\ asked[t] = << "get", k >>
  /\ Answer(t, IF stack[k] = << >> THEN << "missing" >>
               ELSE << "value", Head(stack[k]) >>)
  /\ UNCHANGED stack

Contains(t, k) ==
  /\ asked[t] = << "contains", k >>
  /\ Answer(t, IF stack[k] = << >> THEN << "missing" >> ELSE << "present" >>)
  /\ UNCHANGED stack

Delete(t, k) ==
  /\ asked[t] = << "delete", k >>
  /\ IF stack[k] = << >>
     THEN Answer(t, << "missing" >>) /\ UNCHANGED stack
     ELSE Answer(t, << "deleted" >>) /\ stack' = [stack EXCEPT ![k] = Tail(@)]

Held == { h \in Keys \X (1..Cardinality(Values)) : h[2] <= Len(stack[h[1]]) }

\* The number of values the map holds at this moment.
Size(t) ==
  /\ asked[t] = Idle /\ ~closed
  /\ Answer(t, << "size", Cardinality(Held) >>)
  /\ UNCHANGED stack

Fail(t) ==
  /\ ~closed
  /\ Answer(t, << "failed" >>)
  /\ UNCHANGED stack

\* The table is freed: nothing is called any more, and the keys go.
Close ==
  /\ ~closed /\ \A t \in Threads : asked[t] = Idle
  /\ closed' = TRUE
  /\ UNCHANGED << stack, asked, answer >>

Drop(gone) ==
  /\ closed
  /\ stack' = [k \in Keys |-> IF k \in gone THEN << >> ELSE stack[k]]
  /\ UNCHANGED << asked, answer, closed >>

Next ==
  \/ \E t \in Threads :
       \/ Fail(t) \/ Size(t)
       \/ \E k \in Keys :
            \/ \E o \in {"insert", "get", "contains", "delete"} : Ask(t, o, k)
            \/ Get(t, k) \/ Contains(t, k) \/ Delete(t, k)
            \/ \E v \in Values : Insert(t, k, v)
  \/ Close
  \/ \E gone \in SUBSET Keys : Drop(gone)

Spec == Init /\ [][Next]_mapVars

=============================================================================
