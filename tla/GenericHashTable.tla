-------------------------- MODULE GenericHashTable --------------------------
(***************************************************************************)
(* generic_hash_table.c: buckets that are linked lists of key-value pairs, *)
(* one mutex for each bucket, and an atomic counter of the pairs.          *)
(*                                                                         *)
(* A thread in the critical section of a bucket makes one list call, or    *)
(* one step of the walk with an iterator, at a time.  A pair stands for    *)
(* the copies of the key and the value it points to: they are made for it  *)
(* and freed with it, and get hands out the pointer to the value itself.   *)
(* Pairs are not used twice, so that a pointer kept too long can be told.  *)
(* Calls with a NULL argument change nothing and are not modelled.         *)
(***************************************************************************)
EXTENDS Integers, FiniteSets, SequencesExt

CONSTANTS
  Threads,    \* threads that use the table
  Keys,
  Pairs,      \* the pairs that can be allocated
  Capacity,   \* _capacity
  Hash,       \* Hash[k]: _hash_function
  NoThread,   \* the owner of a free mutex
  NULL,
  MaxCalls,   \* bound on the calls
  MaxFaults   \* bound on the failing allocations

Buckets == 0..(Capacity - 1)

ASSUME TableAssumption ==
  /\ Capacity \in Nat \ {0}
  /\ Hash \in [Keys -> Nat]
  /\ IsFiniteSet(Pairs) /\ IsFiniteSet(Threads)
  /\ NoThread \notin Threads
  /\ NULL \notin Keys \cup Pairs
  /\ MaxCalls \in Nat /\ MaxFaults \in Nat

VARIABLES
  buckets,   \* buckets[b]: the pairs in the list of bucket b, first to last
  mutexes,   \* mutexes[b]: the holder of the mutex of bucket b
  size,      \* _size
  key,       \* key[p]: the key of pair p, NULL before it is allocated
  freed,     \* the pairs that have been freed
  pc, op,    \* thread: program counter and the call it is in
  arg,       \* thread: the key of the call
  at,        \* thread: the pair it inserts or its iterator is at; NULL
             \* when the iterator is at the end of the list
  answer,    \* thread: the result of its last call
  freeing,   \* generic_hash_table_free: the next bucket, -1 before the call
  leaked,    \* history: buckets an insert left locked for want of memory
  calls, faults

tableVars  == << buckets, size, key, freed >>
threadVars == << pc, op, arg, at, answer >>
boundVars  == << calls, faults >>
vars == << tableVars, mutexes, threadVars, freeing, leaked, boundVars >>

Lookups == {"get", "contains", "delete"}

Answers ==
  { << w >> : w \in {"none", "inserted", "missing", "present", "deleted", "failed"} }
  \cup { << "value", p >> : p \in Pairs }
  \cup { << "size", n >> : n \in 0..Cardinality(Pairs) }

TypeOK ==
  /\ buckets \in [Buckets -> Seq(Pairs)]
  /\ mutexes \in [Buckets -> Threads \cup {NoThread}]
  /\ size \in 0..Cardinality(Pairs)
  /\ key \in [Pairs -> Keys \cup {NULL}]
  /\ freed \subseteq Pairs
  /\ pc \in [Threads -> {"idle", "lock", "link", "count", "walk", "uncount"}]
  /\ op \in [Threads -> Lookups \cup {"insert", NULL}]
  /\ arg \in [Threads -> Keys \cup {NULL}]
  /\ at \in [Threads -> Pairs \cup {NULL}]
  /\ answer \in [Threads -> Answers]
  /\ freeing \in -1..Capacity
  /\ leaked \subseteq Buckets
  /\ calls \in 0..MaxCalls /\ faults \in 0..MaxFaults

-----------------------------------------------------------------------------
\* hashed_key % self->_capacity
BucketIndex(k) == Hash[k] % Capacity

MyBucket(t) == BucketIndex(arg[t])

Goto(t, l) == pc' = [pc EXCEPT ![t] = l]

Answer(t, a) == answer' = [answer EXCEPT ![t] = a]

Unlock(t) == mutexes' = [mutexes EXCEPT ![MyBucket(t)] = NoThread]

\* The call returns a; its locals are gone.
Return(t, a) ==
  /\ pc' = [pc EXCEPT ![t] = "idle"]
  /\ op' = [op EXCEPT ![t] = NULL]
  /\ arg' = [arg EXCEPT ![t] = NULL]
  /\ at' = [at EXCEPT ![t] = NULL]
  /\ Answer(t, a)

Fault == faults < MaxFaults /\ faults' = faults + 1

\* Thread t calls o on key k.
Call(t, o, k) ==
  /\ pc[t] = "idle" /\ freeing = -1
  /\ calls < MaxCalls
  /\ calls' = calls + 1
  /\ op' = [op EXCEPT ![t] = o]
  /\ arg' = [arg EXCEPT ![t] = k]

-----------------------------------------------------------------------------
(* generic_hash_table_insert *)

Unused == { p \in Pairs : key[p] = NULL }

\* The pair and its copies are made before the mutex is taken.
InsertBegin(t, k) ==
  /\ Call(t, "insert", k)
  /\ Unused # {}
  /\ LET p == CHOOSE p \in Unused : TRUE IN
     /\ key' = [key EXCEPT ![p] = k]
     /\ at' = [at EXCEPT ![t] = p]
  /\ Goto(t, "lock")
  /\ UNCHANGED << buckets, size, freed, mutexes, answer, freeing, leaked, faults >>

\* The pair or one of the copies cannot be allocated.
InsertFails(t) ==
  /\ pc[t] = "idle" /\ freeing = -1
  /\ Fault
  /\ Answer(t, << "failed" >>)
  /\ UNCHANGED << tableVars, mutexes, pc, op, arg, at, freeing, leaked, calls >>

InsertLock(t) ==
  /\ pc[t] = "lock" /\ op[t] = "insert"
  /\ mutexes[MyBucket(t)] = NoThread
  /\ mutexes' = [mutexes EXCEPT ![MyBucket(t)] = t]
  /\ Goto(t, "link")
  /\ UNCHANGED << tableVars, op, arg, at, answer, freeing, leaked, boundVars >>

\* generic_linked_list_insert_first
InsertLink(t) ==
  /\ pc[t] = "link"
  /\ buckets' = [buckets EXCEPT ![MyBucket(t)] = << at[t] >> \o @]
  /\ Goto(t, "count")
  /\ UNCHANGED << size, key, freed, mutexes, op, arg, at, answer, freeing,
                  leaked, boundVars >>

\* The list node cannot be allocated: the pair is freed, and the function
\* returns without releasing the mutex.
InsertLinkFails(t) ==
  /\ pc[t] = "link"
  /\ Fault
  /\ freed' = freed \cup {at[t]}
  /\ leaked' = leaked \cup {MyBucket(t)}
  /\ Return(t, << "failed" >>)
  /\ UNCHANGED << buckets, size, key, mutexes, freeing, calls >>

\* Wrong variant: a pair is not counted when its bucket had one already.
InsertCountLost(t) ==
  /\ pc[t] = "count"
  /\ size' = IF Len(buckets[MyBucket(t)]) = 1 THEN size + 1 ELSE size
  /\ Unlock(t)
  /\ Return(t, << "inserted" >>)
  /\ UNCHANGED << buckets, key, freed, freeing, leaked, boundVars >>

InsertCount(t) ==
  /\ pc[t] = "count"
  /\ size' = size + 1
  /\ Unlock(t)
  /\ Return(t, << "inserted" >>)
  /\ UNCHANGED << buckets, key, freed, freeing, leaked, boundVars >>

-----------------------------------------------------------------------------
(* generic_hash_table_get, _contains and _delete *)

LookupBegin(t, o, k) ==
  /\ Call(t, o, k)
  /\ Goto(t, "lock")
  /\ UNCHANGED << tableVars, mutexes, at, answer, freeing, leaked, faults >>

First(q) == IF q = << >> THEN NULL ELSE q[1]

\* Where the iterator that is at p stands in list q.
Position(q, p) == CHOOSE i \in 1..Len(q) : q[i] = p

\* The element behind p in list q.
After(q, p) ==
  IF Position(q, p) = Len(q) THEN NULL ELSE q[Position(q, p) + 1]

\* Wrong variant: the bucket is walked without its mutex.
LookupLockForgotten(t) ==
  /\ pc[t] = "lock" /\ op[t] \in Lookups
  /\ at' = [at EXCEPT ![t] = First(buckets[MyBucket(t)])]
  /\ Goto(t, "walk")
  /\ UNCHANGED << tableVars, mutexes, op, arg, answer, freeing, leaked, boundVars >>

\* Takes the mutex and an iterator at the first pair.
LookupLock(t) ==
  /\ pc[t] = "lock" /\ op[t] \in Lookups
  /\ mutexes[MyBucket(t)] = NoThread
  /\ mutexes' = [mutexes EXCEPT ![MyBucket(t)] = t]
  /\ at' = [at EXCEPT ![t] = First(buckets[MyBucket(t)])]
  /\ Goto(t, "walk")
  /\ UNCHANGED << tableVars, op, arg, answer, freeing, leaked, boundVars >>

\* Wrong variant: the error path keeps the mutex.
LookupFailsLocked(t) ==
  /\ pc[t] = "lock" /\ op[t] \in Lookups
  /\ mutexes[MyBucket(t)] = NoThread
  /\ Fault
  /\ mutexes' = [mutexes EXCEPT ![MyBucket(t)] = t]
  /\ Return(t, << "failed" >>)
  /\ UNCHANGED << tableVars, freeing, leaked, calls >>

\* The iterator cannot be allocated: the mutex is taken and released.
LookupFails(t) ==
  /\ pc[t] = "lock" /\ op[t] \in Lookups
  /\ mutexes[MyBucket(t)] = NoThread
  /\ Fault
  /\ Return(t, << "failed" >>)
  /\ UNCHANGED << tableVars, mutexes, freeing, leaked, calls >>

\* _compare_key_function yields 0.
Matches(t) == at[t] # NULL /\ key[at[t]] = arg[t]

LookupNext(t) ==
  /\ pc[t] = "walk"
  /\ at[t] # NULL /\ ~Matches(t)
  /\ at' = [at EXCEPT ![t] = After(buckets[MyBucket(t)], at[t])]
  /\ UNCHANGED << tableVars, mutexes, pc, op, arg, answer, freeing, leaked, boundVars >>

\* The calls that end with the walk: nothing found, get and contains.
LookupEnd(t) ==
  /\ pc[t] = "walk"
  /\ \/ at[t] = NULL /\ Return(t, << "missing" >>)
     \/ Matches(t) /\ op[t] = "get" /\ Return(t, << "value", at[t] >>)
     \/ Matches(t) /\ op[t] = "contains" /\ Return(t, << "present" >>)
  /\ Unlock(t)
  /\ UNCHANGED << tableVars, freeing, leaked, boundVars >>

\* generic_linked_list_iterator_remove
DeleteUnlink(t) ==
  /\ pc[t] = "walk" /\ op[t] = "delete" /\ Matches(t)
  /\ buckets' = [buckets EXCEPT ![MyBucket(t)] =
                   RemoveAt(@, Position(@, at[t]))]
  /\ Goto(t, "uncount")
  /\ UNCHANGED << size, key, freed, mutexes, op, arg, at, answer, freeing,
                  leaked, boundVars >>

\* Frees the key, the value and the pair, and counts it down.
DeleteFree(t) ==
  /\ pc[t] = "uncount"
  /\ freed' = freed \cup {at[t]}
  /\ size' = size - 1
  /\ Unlock(t)
  /\ Return(t, << "deleted" >>)
  /\ UNCHANGED << buckets, key, freeing, leaked, boundVars >>

\* generic_hash_table_get_size, and is_empty, which compares it with 0: the
\* counter is read without a mutex.
GetSize(t) ==
  /\ pc[t] = "idle" /\ freeing = -1
  /\ calls < MaxCalls
  /\ calls' = calls + 1
  /\ Answer(t, << "size", size >>)
  /\ UNCHANGED << tableVars, mutexes, pc, op, arg, at, freeing, leaked, faults >>

-----------------------------------------------------------------------------
(* generic_hash_table_free, called when no thread is in a call *)

FreeBegin ==
  /\ freeing = -1
  /\ \A t \in Threads : pc[t] = "idle"
  /\ freeing' = 0
  /\ UNCHANGED << tableVars, mutexes, threadVars, leaked, boundVars >>

\* The pairs of the bucket are freed, unless there is no memory for the
\* iterator: then only the list is.
FreeBucket ==
  /\ freeing \in Buckets
  /\ mutexes[freeing] = NoThread
  /\ \/ freed' = freed \cup Range(buckets[freeing]) /\ UNCHANGED faults
     \/ Fault /\ UNCHANGED freed
  /\ buckets' = [buckets EXCEPT ![freeing] = << >>]
  /\ freeing' = freeing + 1
  /\ UNCHANGED << size, key, mutexes, threadVars, leaked, calls >>

-----------------------------------------------------------------------------
\* generic_hash_table_new
Init ==
  /\ buckets = [b \in Buckets |-> << >>]
  /\ mutexes = [b \in Buckets |-> NoThread]
  /\ size = 0
  /\ key = [p \in Pairs |-> NULL] /\ freed = {}
  /\ pc = [t \in Threads |-> "idle"] /\ op = [t \in Threads |-> NULL]
  /\ arg = [t \in Threads |-> NULL] /\ at = [t \in Threads |-> NULL]
  /\ answer = [t \in Threads |-> << "none" >>]
  /\ freeing = -1
  /\ leaked = {} /\ calls = 0 /\ faults = 0

Continue(t) ==
  \/ InsertLock(t) \/ InsertLink(t) \/ InsertLinkFails(t) \/ InsertCount(t)
  \/ LookupLock(t) \/ LookupFails(t) \/ LookupNext(t) \/ LookupEnd(t)
  \/ DeleteUnlink(t) \/ DeleteFree(t)

Next ==
  \/ \E t \in Threads :
       \/ Continue(t) \/ InsertFails(t) \/ GetSize(t)
       \/ \E k \in Keys :
            \/ InsertBegin(t, k)
            \/ \E o \in Lookups : LookupBegin(t, o, k)
  \/ FreeBegin \/ FreeBucket

Spec == Init /\ [][Next]_vars

\* A thread inside a call keeps running; nobody is made to call.
FairSpec == Spec /\ (\A t \in Threads : WF_vars(Continue(t))) /\ WF_vars(FreeBucket)

-----------------------------------------------------------------------------
(* Properties *)

Linked == UNION { Range(buckets[b]) : b \in Buckets }

\* Every pair that was allocated is at one place: in the hands of the thread
\* that inserts or deletes it, once in the list of the bucket of its key, or
\* freed; and the iterator of a thread that walks a bucket is at a pair of
\* that bucket's list, whatever the threads on its other keys do.  Without
\* failing allocations, freeing the table frees all.
PairsConserved ==
  /\ \A b \in Buckets :
       /\ IsInjective(buckets[b])
       /\ \A p \in Range(buckets[b]) : BucketIndex(key[p]) = b
  /\ \A t \in Threads : pc[t] = "walk" /\ at[t] # NULL =>
                         at[t] \in Range(buckets[MyBucket(t)])
  /\ \A p \in Pairs :
       LET hands == { t \in Threads :
             /\ at[t] = p
             /\ \/ pc[t] \in {"link", "uncount"}
                \/ pc[t] = "lock" /\ op[t] = "insert" }
       IN IF key[p] = NULL THEN p \notin Linked \cup freed
          ELSE IF p \in Linked THEN p \notin freed /\ hands = {}
          ELSE IF p \in freed THEN hands = {}
          ELSE Cardinality(hands) = 1 \/ (freeing > 0 /\ faults > 0)

At(l) == { at[t] : t \in { u \in Threads : pc[u] = l } }

\* An insertion takes effect when the pair is counted, a deletion when it is
\* counted down.
StackOf(k) ==
  SelectSeq(SetToSeq(At("uncount")) \o buckets[BucketIndex(k)],
            LAMBDA p : key[p] = k /\ p \notin At("count"))

\* The table is a map of stacks, and every call takes effect at one moment
\* with the answer that the map has for its key at that moment.
M == INSTANCE ConcurrentMap WITH
  Values <- Pairs,
  stack <- [k \in Keys |-> StackOf(k)],
  asked <- [t \in Threads |-> IF pc[t] = "idle" THEN << >> ELSE << op[t], arg[t] >>],
  closed <- freeing # -1

ImplementsConcurrentMap == M!Spec

\* Every call returns, generic_hash_table_free too: nobody waits for a mutex
\* whose holder waits or has left.  The exception is a bucket that an insert
\* without memory for the list node left locked.
CallsReturn ==
  /\ \A t \in Threads :
       pc[t] # "idle" ~> pc[t] = "idle" \/ MyBucket(t) \in leaked
  /\ freeing = 0 ~> freeing = Capacity \/ leaked # {}

=============================================================================
