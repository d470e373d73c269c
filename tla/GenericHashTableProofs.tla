----------------------- MODULE GenericHashTableProofs -----------------------
(***************************************************************************)
(* Every pair of the hash table has one place, and a walk of a bucket      *)
(* stays in its list: PairsConserved holds for every number of threads,    *)
(* keys, pairs and buckets and every hash function.                        *)
(***************************************************************************)
EXTENDS GenericHashTable, SequenceLemmas, FiniteSetTheorems

\* The places where a thread has the mutex of the bucket of its key.
Inside == {"link", "count", "walk", "uncount"}

\* The thread has a pair of its own that is not in the table: the one it
\* inserts, or the one it has taken out.
Inserts(t) == pc[t] = "link" \/ (pc[t] = "lock" /\ op[t] = "insert")
Holds(t) == Inserts(t) \/ pc[t] = "uncount"

TypeInv ==
  /\ buckets \in [Buckets -> Seq(Pairs)]
  /\ mutexes \in [Buckets -> Threads \cup {NoThread}]
  /\ key \in [Pairs -> Keys \cup {NULL}]
  /\ freed \subseteq Pairs
  /\ pc \in [Threads -> {"idle", "lock", "link", "count", "walk", "uncount"}]
  /\ DOMAIN op = Threads
  /\ arg \in [Threads -> Keys \cup {NULL}]
  /\ at \in [Threads -> Pairs \cup {NULL}]
  /\ freeing \in -1..Capacity
  /\ faults \in Nat

CallOK(t) ==
  /\ pc[t] # "idle" => arg[t] \in Keys /\ freeing = -1
  /\ pc[t] \in Inside => mutexes[MyBucket(t)] = t
  /\ Holds(t) => at[t] \in Pairs
  /\ Inserts(t) => key[at[t]] = arg[t]

CallInv == \A t \in Threads : CallOK(t)

ListInv(b) ==
  /\ IsInjective(buckets[b])
  /\ \A p \in Range(buckets[b]) :
       key[p] # NULL /\ BucketIndex(key[p]) = b /\ p \notin freed

\* Where thread t is with its pair, and that the pair is in no other place.
PairOK(t) ==
  /\ pc[t] = "walk" /\ at[t] # NULL => at[t] \in Range(buckets[MyBucket(t)])
  /\ Holds(t) => /\ key[at[t]] # NULL /\ at[t] \notin freed
                 /\ \A b \in Buckets : at[t] \notin Range(buckets[b])

OneHolder ==
  \A t, u \in Threads : Holds(t) /\ Holds(u) /\ at[t] = at[u] => t = u

Placed(p) ==
  \/ \E b \in Buckets : p \in Range(buckets[b])
  \/ p \in freed
  \/ \E t \in Threads : Holds(t) /\ at[t] = p
  \/ freeing > 0 /\ faults > 0

PairInv ==
  /\ \A b \in Buckets : ListInv(b)
  /\ \A t \in Threads : PairOK(t)
  /\ OneHolder
  /\ \A p \in freed : key[p] # NULL
  /\ \A p \in Pairs : key[p] # NULL => Placed(p)

IInv == TypeInv /\ CallInv /\ PairInv

-----------------------------------------------------------------------------
(* Facts about the operators *)

LEMMA BucketIndexInBuckets ==
  ASSUME NEW k \in Keys
  PROVE  BucketIndex(k) \in Buckets
  <1>1. Hash[k] \in Nat /\ Capacity \in Nat /\ Capacity > 0
    BY TableAssumption
  <1> QED
    BY <1>1 DEF BucketIndex, Buckets

LEMMA PositionProperties ==
  ASSUME NEW S, NEW q \in Seq(S), NEW p \in Range(q)
  PROVE  Position(q, p) \in 1..Len(q) /\ q[Position(q, p)] = p
  <1>1. \E i \in 1..Len(q) : q[i] = p
    BY DEF Range
  <1> QED
    BY <1>1 DEF Position

LEMMA FirstInRange ==
  ASSUME NEW S, NEW q \in Seq(S)
  PROVE  First(q) \in Range(q) \cup {NULL}
  <1>1. CASE q = << >>
    BY <1>1 DEF First
  <1>2. CASE q # << >>
    <2>1. 1 \in DOMAIN q
      BY <1>2, HeadAndTail
    <2> QED
      BY <1>2, <2>1 DEF First, Range
  <1> QED
    BY <1>1, <1>2

LEMMA AfterInRange ==
  ASSUME NEW S, NEW q \in Seq(S), NEW p \in Range(q)
  PROVE  After(q, p) \in Range(q) \cup {NULL}
  <1>1. PICK k \in 1..Len(q) : k = Position(q, p)
    BY PositionProperties
  <1>2. CASE k = Len(q)
    BY <1>1, <1>2 DEF After
  <1>3. CASE k # Len(q)
    <2>1. Len(q) \in Nat /\ DOMAIN q = 1..Len(q)
      OBVIOUS
    <2>2. k + 1 \in DOMAIN q
      BY <1>1, <1>3, <2>1
    <2> QED
      BY <1>1, <1>3, <2>2 DEF After, Range
  <1> QED
    BY <1>2, <1>3

LEMMA RangeInSet ==
  ASSUME NEW S, NEW q \in Seq(S)
  PROVE  Range(q) \subseteq S
  BY DEF Range

-----------------------------------------------------------------------------
(* Frames: what a step of thread t leaves alone *)

Others(t) ==
  \A u \in Threads \ {t} :
    pc'[u] = pc[u] /\ op'[u] = op[u] /\ arg'[u] = arg[u] /\ at'[u] = at[u]

LEMMA CallInvFrame ==
  ASSUME IInv, NEW t \in Threads, Others(t), CallOK(t)', freeing' = freeing,
         \A b \in Buckets : mutexes[b] \in Threads \ {t} => mutexes'[b] = mutexes[b],
         \A p \in Pairs : key[p] # NULL => key'[p] = key[p]
  PROVE  CallInv'
  <1> SUFFICES ASSUME NEW u \in Threads \ {t} PROVE CallOK(u)'
    BY DEF CallInv
  <1>1. CallOK(u) /\ PairOK(u)
    BY DEF IInv, CallInv, PairInv
  <1>2. pc'[u] = pc[u] /\ op'[u] = op[u] /\ arg'[u] = arg[u] /\ at'[u] = at[u]
    BY DEF Others
  <1>3. MyBucket(u)' = MyBucket(u) /\ (Holds(u)' <=> Holds(u)) /\ (Inserts(u)' <=> Inserts(u))
    BY <1>2 DEF MyBucket, Holds, Inserts
  <1>4. pc[u] \in Inside => mutexes'[MyBucket(u)] = u
    <2>1. pc[u] \in Inside => MyBucket(u) \in Buckets /\ mutexes[MyBucket(u)] = u
      BY <1>1, BucketIndexInBuckets DEF CallOK, Inside, MyBucket
    <2> QED
      BY <2>1
  <1>5. Inserts(u) => key'[at[u]] = arg[u]
    BY <1>1 DEF CallOK, PairOK, Holds
  <1> QED
    BY <1>1, <1>2, <1>3, <1>4, <1>5 DEF CallOK

\* A step that leaves the lists, the pairs and the pairs in hand alone.
LEMMA PairInvFrame ==
  ASSUME IInv, UNCHANGED << buckets, key, freed >>, faults' \in Nat, faults' >= faults,
         freeing' = freeing \/ (freeing' = 0 /\ freeing = -1),
         NEW t \in Threads, Others(t),
         Holds(t)' <=> Holds(t), Holds(t) => at'[t] = at[t],
         pc'[t] = "walk" /\ at'[t] # NULL => at'[t] \in Range(buckets'[MyBucket(t)'])
  PROVE  PairInv'
  <1>0. faults \in Nat /\ freeing \in Int
    BY DEF IInv, TypeInv
  <1>1. \A u \in Threads : (Holds(u)' <=> Holds(u)) /\ (Holds(u) => at'[u] = at[u])
    BY DEF Others, Holds, Inserts
  <1>2. \A b \in Buckets : ListInv(b)'
    BY DEF IInv, PairInv, ListInv, BucketIndex
  <1>3. ASSUME NEW u \in Threads PROVE PairOK(u)'
    <2>1. PairOK(u)
      BY DEF IInv, PairInv
    <2>2. u # t => pc'[u] = pc[u] /\ arg'[u] = arg[u] /\ at'[u] = at[u]
      BY DEF Others
    <2> QED
      BY <1>1, <2>1, <2>2 DEF PairOK, MyBucket, BucketIndex
  <1>4. OneHolder'
    BY <1>1 DEF IInv, PairInv, OneHolder
  <1>5. ASSUME NEW p \in Pairs, key[p] # NULL PROVE Placed(p)'
    <2>1. Placed(p)
      BY <1>5 DEF IInv, PairInv
    <2>2. freeing > 0 /\ faults > 0 => freeing' > 0 /\ faults' > 0
      BY <1>0
    <2> QED
      BY <1>1, <2>1, <2>2 DEF Placed
  <1> QED
    BY <1>2, <1>3, <1>4, <1>5 DEF PairInv, IInv

-----------------------------------------------------------------------------
(* Types *)

\* What a thread with the mutex of its bucket can rely on.
LEMMA InsideFacts ==
  ASSUME IInv, NEW t \in Threads, pc[t] # "idle"
  PROVE  /\ MyBucket(t) \in Buckets /\ buckets[MyBucket(t)] \in Seq(Pairs)
         /\ arg[t] \in Keys /\ freeing = -1
         /\ pc[t] \in Inside => mutexes[MyBucket(t)] = t
         /\ Holds(t) => at[t] \in Pairs
         /\ ListInv(MyBucket(t)) /\ PairOK(t)
  <1>1. CallOK(t) /\ PairOK(t)
    BY DEF IInv, CallInv, PairInv
  <1>2. arg[t] \in Keys /\ MyBucket(t) \in Buckets
    BY <1>1, BucketIndexInBuckets DEF CallOK, MyBucket
  <1> QED
    BY <1>1, <1>2 DEF CallOK, IInv, TypeInv, PairInv

LEMMA ContinueTypes ==
  ASSUME IInv, NEW t \in Threads, Continue(t)
  PROVE  TypeInv'
  <1>0. TypeInv /\ pc[t] # "idle"
    BY DEF IInv, Continue, InsertLock, InsertLink, InsertLinkFails, InsertCount,
           LookupLock, LookupFails, LookupNext, LookupEnd, DeleteUnlink, DeleteFree
  <1>a. /\ MyBucket(t) \in Buckets /\ buckets[MyBucket(t)] \in Seq(Pairs)
        /\ Range(buckets[MyBucket(t)]) \subseteq Pairs
        /\ Holds(t) => at[t] \in Pairs
        /\ pc[t] = "walk" /\ at[t] # NULL => at[t] \in Range(buckets[MyBucket(t)])
    BY <1>0, InsideFacts, RangeInSet DEF PairOK
  <1>1. CASE InsertLock(t)
    BY <1>0, <1>a, <1>1 DEF InsertLock, TypeInv, Goto, tableVars, boundVars
  <1>2. CASE InsertLink(t)
    <2>1. at[t] \in Pairs
      BY <1>a, <1>2 DEF InsertLink, Holds, Inserts
    <2>2. << at[t] >> \o buckets[MyBucket(t)] \in Seq(Pairs)
      BY <1>a, <2>1, PrependProperties
    <2>3. buckets' \in [Buckets -> Seq(Pairs)]
      BY <1>0, <2>2, <1>2 DEF InsertLink, TypeInv
    <2> QED
      BY <1>0, <1>2, <2>3 DEF InsertLink, TypeInv, Goto, boundVars
  <1>3. CASE InsertLinkFails(t)
    <2>1. at[t] \in Pairs
      BY <1>a, <1>3 DEF InsertLinkFails, Holds, Inserts
    <2> QED
      BY <1>0, <1>3, <2>1 DEF InsertLinkFails, TypeInv, Return, Fault
  <1>4. CASE InsertCount(t)
    BY <1>0, <1>a, <1>4 DEF InsertCount, TypeInv, Return, Unlock, boundVars
  <1>5. CASE LookupLock(t)
    <2>1. First(buckets[MyBucket(t)]) \in Pairs \cup {NULL}
      BY <1>a, FirstInRange
    <2> QED
      BY <1>0, <1>a, <1>5, <2>1 DEF LookupLock, TypeInv, Goto, tableVars, boundVars
  <1>6. CASE LookupFails(t)
    BY <1>0, <1>6 DEF LookupFails, TypeInv, Return, Fault, tableVars
  <1>7. CASE LookupNext(t)
    <2>1. After(buckets[MyBucket(t)], at[t]) \in Pairs \cup {NULL}
      BY <1>a, <1>7, AfterInRange DEF LookupNext
    <2> QED
      BY <1>0, <1>7, <2>1 DEF LookupNext, TypeInv, tableVars, boundVars
  <1>8. CASE LookupEnd(t)
    BY <1>0, <1>a, <1>8 DEF LookupEnd, TypeInv, Return, Unlock, tableVars, boundVars
  <1>9. CASE DeleteUnlink(t)
    <2>1. RemoveAt(buckets[MyBucket(t)], Position(buckets[MyBucket(t)], at[t])) \in Seq(Pairs)
      BY <1>a, <1>9, PositionProperties, RemoveAtProperties DEF DeleteUnlink, Matches
    <2>2. buckets' \in [Buckets -> Seq(Pairs)]
      BY <1>0, <1>a, <2>1, <1>9 DEF DeleteUnlink, TypeInv
    <2> QED
      BY <1>0, <1>9, <2>2 DEF DeleteUnlink, TypeInv, Goto, boundVars
  <1>10. CASE DeleteFree(t)
    <2>1. at[t] \in Pairs
      BY <1>a, <1>10 DEF DeleteFree, Holds
    <2> QED
      BY <1>0, <1>a, <1>10, <2>1 DEF DeleteFree, TypeInv, Return, Unlock, boundVars
  <1> QED
    BY <1>1, <1>2, <1>3, <1>4, <1>5, <1>6, <1>7, <1>8, <1>9, <1>10 DEF Continue

\* An insertion begins with a pair that nobody has used.
LEMMA InsertBeginPicks ==
  ASSUME NEW t \in Threads, NEW k \in Keys, InsertBegin(t, k)
  PROVE  \E p \in Pairs :
           /\ key[p] = NULL /\ key' = [key EXCEPT ![p] = k]
           /\ pc[t] = "idle" /\ freeing = -1
           /\ pc' = [pc EXCEPT ![t] = "lock"] /\ op' = [op EXCEPT ![t] = "insert"]
           /\ arg' = [arg EXCEPT ![t] = k] /\ at' = [at EXCEPT ![t] = p]
           /\ UNCHANGED << buckets, freed, mutexes, freeing, faults >>
  <1>1. PICK p : p = CHOOSE x \in Unused : TRUE
    OBVIOUS
  <1>2. p \in Unused
    BY <1>1 DEF InsertBegin
  <1>3. key' = [key EXCEPT ![p] = k] /\ at' = [at EXCEPT ![t] = p]
    BY <1>1 DEF InsertBegin
  <1>4. /\ pc[t] = "idle" /\ freeing = -1
        /\ pc' = [pc EXCEPT ![t] = "lock"] /\ op' = [op EXCEPT ![t] = "insert"]
        /\ arg' = [arg EXCEPT ![t] = k]
        /\ UNCHANGED << buckets, freed, mutexes, freeing, faults >>
    BY DEF InsertBegin, Call, Goto
  <1>5. p \in Pairs /\ key[p] = NULL
    BY <1>2 DEF Unused
  <1> QED
    BY <1>3, <1>4, <1>5

LEMMA TypeInvStep ==
  ASSUME IInv, [Next]_vars
  PROVE  TypeInv'
  <1>0. TypeInv /\ Capacity \in Nat
    BY TableAssumption DEF IInv
  <1>1. ASSUME NEW t \in Threads, InsertFails(t) \/ GetSize(t) PROVE TypeInv'
    BY <1>0, <1>1 DEF InsertFails, GetSize, TypeInv, Fault, tableVars
  <1>2. ASSUME NEW t \in Threads, NEW k \in Keys, InsertBegin(t, k) PROVE TypeInv'
    <2>1. PICK p \in Pairs :
             /\ key' = [key EXCEPT ![p] = k] /\ at' = [at EXCEPT ![t] = p]
             /\ pc' = [pc EXCEPT ![t] = "lock"] /\ op' = [op EXCEPT ![t] = "insert"]
             /\ arg' = [arg EXCEPT ![t] = k]
             /\ UNCHANGED << buckets, freed, mutexes, freeing, faults >>
      BY <1>2, InsertBeginPicks
    <2> QED
      BY <1>0, <1>2, <2>1 DEF TypeInv
  <1>3. ASSUME NEW t \in Threads, NEW k \in Keys, NEW o \in Lookups, LookupBegin(t, o, k)
        PROVE  TypeInv'
    BY <1>0, <1>3 DEF LookupBegin, Call, TypeInv, Goto, tableVars
  <1>4. CASE FreeBegin
    BY <1>0, <1>4 DEF FreeBegin, TypeInv, tableVars, threadVars, boundVars
  <1>5. CASE FreeBucket
    <2>1. freeing \in Buckets /\ freeing + 1 \in -1..Capacity /\ << >> \in Seq(Pairs)
      BY <1>0, <1>5 DEF FreeBucket, Buckets
    <2>2. Range(buckets[freeing]) \subseteq Pairs
      BY <1>0, <2>1, RangeInSet DEF TypeInv
    <2>3. faults' \in Nat /\ freed' \subseteq Pairs
      BY <1>0, <1>5, <2>2 DEF FreeBucket, Fault, TypeInv
    <2> QED
      BY <1>0, <1>5, <2>1, <2>3 DEF FreeBucket, TypeInv, threadVars
  <1>6. CASE UNCHANGED vars
    BY <1>0, <1>6 DEF vars, TypeInv, tableVars, threadVars, boundVars
  <1> QED
    BY <1>1, <1>2, <1>3, <1>4, <1>5, <1>6, ContinueTypes DEF Next

-----------------------------------------------------------------------------
(* The calls: whoever is inside a bucket has its mutex *)

\* A call that returns has nothing to show.
LEMMA ReturnIsCallOK ==
  ASSUME TypeInv, NEW t \in Threads, NEW a, Return(t, a)
  PROVE  Others(t) /\ CallOK(t)' /\ ~Holds(t)' /\ pc'[t] = "idle"
  <1>1. Others(t) /\ pc'[t] = "idle"
    BY DEF TypeInv, Return, Others
  <1> QED
    BY <1>1 DEF CallOK, Holds, Inserts, Inside

LEMMA ContinueCalls ==
  ASSUME IInv, NEW t \in Threads, Continue(t)
  PROVE  CallInv'
  <1>0. /\ TypeInv /\ pc[t] # "idle"
        /\ DOMAIN pc = Threads /\ DOMAIN op = Threads /\ DOMAIN arg = Threads
        /\ DOMAIN at = Threads /\ DOMAIN mutexes = Buckets
    BY DEF IInv, TypeInv, Continue, InsertLock, InsertLink, InsertLinkFails,
           InsertCount, LookupLock, LookupFails, LookupNext, LookupEnd,
           DeleteUnlink, DeleteFree
  <1>a. /\ MyBucket(t) \in Buckets /\ arg[t] \in Keys /\ freeing = -1
        /\ pc[t] \in Inside => mutexes[MyBucket(t)] = t
        /\ Holds(t) => at[t] \in Pairs
        /\ Inserts(t) => key[at[t]] = arg[t]
        /\ pc[t] = "walk" /\ at[t] # NULL => at[t] \in Pairs
    <2>1. CallOK(t)
      BY DEF IInv, CallInv
    <2>2. at[t] \in Pairs \cup {NULL}
      BY <1>0 DEF TypeInv
    <2> QED
      BY <1>0, <2>1, <2>2, InsideFacts DEF CallOK
  <1>b. NoThread \notin Threads
    BY TableAssumption
  <1> DEFINE Frees == \A b \in Buckets : mutexes[b] \in Threads \ {t} => mutexes'[b] = mutexes[b]
  <1>c. ASSUME pc[t] \in Inside, Unlock(t) PROVE Frees
    BY <1>0, <1>a, <1>c DEF Unlock
  <1>1. CASE InsertLock(t)
    <2>1. Others(t) /\ key' = key /\ freeing' = freeing
      BY <1>0, <1>1 DEF InsertLock, Others, Goto, tableVars
    <2>2. Frees
      BY <1>0, <1>b, <1>1 DEF InsertLock
    <2>3. CallOK(t)'
      BY <1>0, <1>a, <1>1
      DEF InsertLock, CallOK, MyBucket, Holds, Inserts, Goto, tableVars, Inside
    <2> QED
      BY <2>1, <2>2, <2>3, CallInvFrame
  <1>2. CASE InsertLink(t)
    <2>1. Others(t) /\ key' = key /\ freeing' = freeing /\ Frees
      BY <1>0, <1>2 DEF InsertLink, Others, Goto
    <2>2. CallOK(t)'
      BY <1>0, <1>a, <1>2
      DEF InsertLink, CallOK, MyBucket, Holds, Inserts, Goto, Inside
    <2> QED
      BY <2>1, <2>2, CallInvFrame
  <1>3. CASE InsertLinkFails(t)
    <2>1. Others(t) /\ CallOK(t)'
      BY <1>0, <1>3, ReturnIsCallOK DEF InsertLinkFails
    <2>2. key' = key /\ freeing' = freeing /\ Frees
      BY <1>3 DEF InsertLinkFails
    <2> QED
      BY <2>1, <2>2, CallInvFrame
  <1>4. CASE InsertCount(t)
    <2>1. Others(t) /\ CallOK(t)'
      BY <1>0, <1>4, ReturnIsCallOK DEF InsertCount
    <2>2. key' = key /\ freeing' = freeing /\ Frees
      BY <1>c, <1>4 DEF InsertCount, Inside
    <2> QED
      BY <2>1, <2>2, CallInvFrame
  <1>5. CASE LookupLock(t)
    <2>1. Others(t) /\ key' = key /\ freeing' = freeing
      BY <1>0, <1>5 DEF LookupLock, Others, Goto, tableVars
    <2>2. Frees
      BY <1>0, <1>b, <1>5 DEF LookupLock
    <2>3. CallOK(t)'
      BY <1>0, <1>a, <1>5
      DEF LookupLock, CallOK, MyBucket, Holds, Inserts, Goto, tableVars, Inside
    <2> QED
      BY <2>1, <2>2, <2>3, CallInvFrame
  <1>6. CASE LookupFails(t)
    <2>1. Others(t) /\ CallOK(t)'
      BY <1>0, <1>6, ReturnIsCallOK DEF LookupFails
    <2>2. key' = key /\ freeing' = freeing /\ Frees
      BY <1>6 DEF LookupFails, tableVars
    <2> QED
      BY <2>1, <2>2, CallInvFrame
  <1>7. CASE LookupNext(t)
    <2>1. Others(t) /\ key' = key /\ freeing' = freeing /\ Frees
      BY <1>0, <1>7 DEF LookupNext, Others, tableVars
    <2>2. CallOK(t)'
      BY <1>0, <1>a, <1>7
      DEF LookupNext, CallOK, MyBucket, Holds, Inserts, tableVars, Inside
    <2> QED
      BY <2>1, <2>2, CallInvFrame
  <1>8. CASE LookupEnd(t)
    <2>1. PICK a : Return(t, a)
      BY <1>8 DEF LookupEnd
    <2>2. Others(t) /\ CallOK(t)'
      BY <1>0, <2>1, ReturnIsCallOK
    <2>3. key' = key /\ freeing' = freeing /\ Frees
      BY <1>c, <1>8 DEF LookupEnd, tableVars, Inside
    <2> QED
      BY <2>2, <2>3, CallInvFrame
  <1>9. CASE DeleteUnlink(t)
    <2>1. Others(t) /\ key' = key /\ freeing' = freeing /\ Frees
      BY <1>0, <1>9 DEF DeleteUnlink, Others, Goto
    <2>2. CallOK(t)'
      BY <1>0, <1>a, <1>9
      DEF DeleteUnlink, Matches, CallOK, MyBucket, Holds, Inserts, Goto, Inside
    <2> QED
      BY <2>1, <2>2, CallInvFrame
  <1>10. CASE DeleteFree(t)
    <2>1. Others(t) /\ CallOK(t)'
      BY <1>0, <1>10, ReturnIsCallOK DEF DeleteFree
    <2>2. key' = key /\ freeing' = freeing /\ Frees
      BY <1>c, <1>10 DEF DeleteFree, Inside
    <2> QED
      BY <2>1, <2>2, CallInvFrame
  <1> QED
    BY <1>1, <1>2, <1>3, <1>4, <1>5, <1>6, <1>7, <1>8, <1>9, <1>10 DEF Continue

LEMMA CallInvStep ==
  ASSUME IInv, [Next]_vars
  PROVE  CallInv'
  <1>0. /\ TypeInv /\ CallInv
        /\ DOMAIN pc = Threads /\ DOMAIN op = Threads /\ DOMAIN arg = Threads
        /\ DOMAIN at = Threads /\ DOMAIN key = Pairs
    BY DEF IInv, TypeInv
  <1>1. CASE \/ \E t \in Threads : InsertFails(t) \/ GetSize(t)
             \/ UNCHANGED vars
    <2>1. UNCHANGED << pc, op, arg, at, key, mutexes, freeing >>
      BY <1>1 DEF InsertFails, GetSize, vars, tableVars, threadVars
    <2> QED
      BY <1>0, <2>1 DEF CallInv, CallOK, MyBucket, Holds, Inserts, BucketIndex
  <1>2. ASSUME NEW t \in Threads, NEW k \in Keys, InsertBegin(t, k) PROVE CallInv'
    <2>1. PICK p \in Pairs :
             /\ key[p] = NULL /\ key' = [key EXCEPT ![p] = k] /\ freeing = -1
             /\ pc' = [pc EXCEPT ![t] = "lock"] /\ op' = [op EXCEPT ![t] = "insert"]
             /\ arg' = [arg EXCEPT ![t] = k] /\ at' = [at EXCEPT ![t] = p]
             /\ UNCHANGED << mutexes, freeing >>
      BY <1>2, InsertBeginPicks
    <2>2. Others(t)
      BY <1>0, <2>1 DEF Others
    <2>3. CallOK(t)'
      BY <1>0, <1>2, <2>1 DEF CallOK, Holds, Inserts, Inside
    <2>4. \A x \in Pairs : key[x] # NULL => key'[x] = key[x]
      BY <1>0, <2>1
    <2> QED
      BY <1>2, <2>1, <2>2, <2>3, <2>4, CallInvFrame
  <1>3. ASSUME NEW t \in Threads, NEW k \in Keys, NEW o \in Lookups, LookupBegin(t, o, k)
        PROVE  CallInv'
    <2>1. Others(t) /\ UNCHANGED << key, mutexes, freeing >>
      BY <1>0, <1>3 DEF LookupBegin, Call, Others, Goto, tableVars
    <2>2. CallOK(t)'
      BY <1>0, <1>3 DEF LookupBegin, Call, Goto, CallOK, Holds, Inserts, Inside, Lookups
    <2> QED
      BY <1>3, <2>1, <2>2, CallInvFrame
  <1>4. CASE FreeBegin \/ FreeBucket
    <2>1. \A t \in Threads : pc[t] = "idle" /\ pc'[t] = "idle"
      <3>1. CASE FreeBegin
        BY <3>1 DEF FreeBegin, threadVars
      <3>2. CASE FreeBucket
        <4>1. freeing # -1
          BY <3>2, TableAssumption DEF FreeBucket, Buckets
        <4> QED
          BY <1>0, <3>2, <4>1 DEF FreeBucket, threadVars, CallInv, CallOK
      <3> QED
        BY <1>4, <3>1, <3>2
    <2> QED
      BY <2>1 DEF CallInv, CallOK, Holds, Inserts, Inside
  <1> QED
    BY <1>1, <1>2, <1>3, <1>4, ContinueCalls DEF Next

-----------------------------------------------------------------------------
(* The pairs *)

\* A thread that walks another bucket, or the same one, is not disturbed by
\* a thread that is inside bucket b.
LEMMA OtherBucket ==
  ASSUME IInv, NEW t \in Threads, NEW u \in Threads \ {t},
         pc[t] \in Inside, pc[u] \in Inside
  PROVE  MyBucket(u) # MyBucket(t)
  BY InsideFacts DEF Inside

LEMMA LinkPairs ==
  ASSUME IInv, NEW t \in Threads, InsertLink(t)
  PROVE  PairInv'
  <1>0. /\ DOMAIN pc = Threads /\ pc[t] = "link" /\ DOMAIN buckets = Buckets
        /\ UNCHANGED << key, freed, op, arg, at, freeing, faults >>
        /\ pc' = [pc EXCEPT ![t] = "count"]
    BY DEF InsertLink, IInv, TypeInv, Goto, boundVars
  <1>1. PICK c \in Buckets : c = MyBucket(t)
    BY <1>0, InsideFacts
  <1>2. PICK p \in Pairs : p = at[t]
    BY <1>0, InsideFacts DEF Holds, Inserts
  <1>3. /\ key[p] = arg[t] /\ key[p] # NULL /\ BucketIndex(key[p]) = c
        /\ p \notin freed /\ \A b \in Buckets : p \notin Range(buckets[b])
    BY <1>0, <1>1, <1>2 DEF IInv, CallInv, CallOK, PairInv, PairOK, Holds, Inserts, MyBucket
  <1>4. buckets[c] \in Seq(Pairs) /\ buckets' = [buckets EXCEPT ![c] = << p >> \o @]
    BY <1>1, <1>2 DEF InsertLink, IInv, TypeInv
  <1>5. /\ Range(buckets'[c]) = {p} \cup Range(buckets[c])
        /\ \A b \in Buckets \ {c} : buckets'[b] = buckets[b]
        /\ IsInjective(buckets[c]) => IsInjective(buckets'[c])
    BY <1>0, <1>3, <1>4, PrependProperties
  <1>6. /\ ~Holds(t)' /\ Holds(t)
        /\ \A u \in Threads \ {t} : (Holds(u)' <=> Holds(u)) /\ pc'[u] = pc[u]
    BY <1>0 DEF Holds, Inserts
  <1>7. ASSUME NEW b \in Buckets PROVE ListInv(b)'
    <2>1. ListInv(b)
      BY DEF IInv, PairInv
    <2> QED
      BY <1>0, <1>3, <1>5, <2>1 DEF ListInv, BucketIndex
  <1>8. ASSUME NEW u \in Threads PROVE PairOK(u)'
    <2>1. CASE u = t
      BY <1>0, <1>6, <2>1 DEF PairOK
    <2>2. CASE u # t
      <3>1. PairOK(u) /\ (Holds(u) => at[u] # p)
        BY <1>2, <1>6, <2>2 DEF IInv, PairInv, OneHolder
      <3>2. \A x \in Pairs, b \in Buckets : x # p => (x \in Range(buckets'[b]) <=> x \in Range(buckets[b]))
        BY <1>5
      <3>3. Holds(u) => at[u] \in Pairs
        BY DEF IInv, CallInv, CallOK
      <3>4. pc[u] = "walk" => MyBucket(u) \in Buckets /\ MyBucket(u)' = MyBucket(u)
        BY <1>0, InsideFacts DEF MyBucket, BucketIndex
      <3>5. \A b \in Buckets : Range(buckets[b]) \subseteq Range(buckets'[b])
        BY <1>5
      <3> QED
        BY <1>0, <1>6, <2>2, <3>1, <3>2, <3>3, <3>4, <3>5 DEF PairOK
    <2> QED
      BY <2>1, <2>2
  <1>9. OneHolder'
    BY <1>0, <1>6 DEF IInv, PairInv, OneHolder
  <1>10. ASSUME NEW x \in Pairs, key[x] # NULL PROVE Placed(x)'
    <2>1. CASE x = p
      BY <1>5, <2>1 DEF Placed
    <2>2. CASE x # p
      <3>1. Placed(x)
        BY <1>10 DEF IInv, PairInv
      <3>2. \A b \in Buckets : x \in Range(buckets[b]) => x \in Range(buckets'[b])
        BY <1>5
      <3>3. \A u \in Threads : Holds(u) /\ at[u] = x => Holds(u)' /\ at'[u] = x
        BY <1>0, <1>2, <1>6, <2>2
      <3> QED
        BY <1>0, <3>1, <3>2, <3>3 DEF Placed
    <2> QED
      BY <2>1, <2>2
  <1> QED
    BY <1>0, <1>7, <1>8, <1>9, <1>10 DEF PairInv, IInv

LEMMA UnlinkPairs ==
  ASSUME IInv, NEW t \in Threads, DeleteUnlink(t)
  PROVE  PairInv'
  <1>0. /\ DOMAIN pc = Threads /\ pc[t] = "walk" /\ DOMAIN buckets = Buckets
        /\ UNCHANGED << key, freed, op, arg, at, freeing, faults >>
        /\ pc' = [pc EXCEPT ![t] = "uncount"]
    BY DEF DeleteUnlink, IInv, TypeInv, Goto, boundVars
  <1>1. PICK c \in Buckets : c = MyBucket(t) /\ buckets[c] \in Seq(Pairs)
    BY <1>0, InsideFacts
  <1>2. PICK p \in Range(buckets[c]) : p = at[t]
    BY <1>0, <1>1, InsideFacts DEF DeleteUnlink, Matches, PairOK
  <1>3. /\ p \in Pairs /\ key[p] # NULL /\ p \notin freed /\ BucketIndex(key[p]) = c
        /\ IsInjective(buckets[c])
    BY <1>1, <1>2, RangeInSet DEF IInv, PairInv, ListInv
  <1>4. buckets' = [buckets EXCEPT ![c] = RemoveAt(@, Position(@, p))]
    BY <1>1, <1>2 DEF DeleteUnlink
  <1>5. /\ Range(buckets'[c]) = Range(buckets[c]) \ {p}
        /\ \A b \in Buckets \ {c} : buckets'[b] = buckets[b]
        /\ IsInjective(buckets'[c])
    <2>1. PICK k \in 1..Len(buckets[c]) : k = Position(buckets[c], p) /\ buckets[c][k] = p
      BY <1>1, <1>2, PositionProperties
    <2>2. buckets'[c] = RemoveAt(buckets[c], k)
      BY <1>0, <1>4, <2>1
    <2>3. IsInjective(RemoveAt(buckets[c], k)) /\ Range(RemoveAt(buckets[c], k)) = Range(buckets[c]) \ {p}
      BY <1>1, <1>3, <2>1, RemoveAtProperties
    <2> QED
      BY <1>0, <1>4, <2>2, <2>3
  <1>6. /\ ~Holds(t) /\ Holds(t)'
        /\ \A u \in Threads \ {t} : (Holds(u)' <=> Holds(u)) /\ pc'[u] = pc[u]
    BY <1>0 DEF Holds, Inserts
  <1>a. \A b \in Buckets : p \notin Range(buckets'[b])
    <2>1. \A b \in Buckets \ {c} : p \notin Range(buckets[b])
      BY <1>3 DEF IInv, PairInv, ListInv
    <2> QED
      BY <1>5, <2>1
  <1>7. ASSUME NEW b \in Buckets PROVE ListInv(b)'
    <2>1. ListInv(b)
      BY DEF IInv, PairInv
    <2> QED
      BY <1>0, <1>5, <2>1 DEF ListInv, BucketIndex
  <1>8. ASSUME NEW u \in Threads PROVE PairOK(u)'
    <2>1. CASE u = t
      BY <1>0, <1>2, <1>3, <1>a, <2>1 DEF PairOK
    <2>2. CASE u # t
      <3>1. PairOK(u)
        BY DEF IInv, PairInv
      <3>2. \A b \in Buckets : Range(buckets'[b]) \subseteq Range(buckets[b])
        BY <1>5
      <3>3. pc[u] = "walk" => MyBucket(u) \in Buckets \ {c} /\ MyBucket(u)' = MyBucket(u)
        BY <1>0, <1>1, <2>2, InsideFacts, OtherBucket DEF MyBucket, BucketIndex, Inside
      <3> QED
        BY <1>0, <1>5, <1>6, <2>2, <3>1, <3>2, <3>3 DEF PairOK
    <2> QED
      BY <2>1, <2>2
  <1>9. OneHolder'
    <2>1. \A u \in Threads : Holds(u) => at[u] # p
      BY <1>2 DEF IInv, PairInv, PairOK
    <2> QED
      BY <1>0, <1>2, <1>6, <2>1 DEF IInv, PairInv, OneHolder
  <1>10. ASSUME NEW x \in Pairs, key[x] # NULL PROVE Placed(x)'
    <2>1. CASE x = p
      BY <1>0, <1>2, <1>6, <2>1 DEF Placed
    <2>2. CASE x # p
      <3>1. Placed(x)
        BY <1>10 DEF IInv, PairInv
      <3>2. \A b \in Buckets : x \in Range(buckets[b]) => x \in Range(buckets'[b])
        BY <1>5, <2>2
      <3>3. \A u \in Threads : Holds(u) /\ at[u] = x => Holds(u)' /\ at'[u] = x
        BY <1>0, <1>6
      <3> QED
        BY <1>0, <3>1, <3>2, <3>3 DEF Placed
    <2> QED
      BY <2>1, <2>2
  <1> QED
    BY <1>0, <1>7, <1>8, <1>9, <1>10 DEF PairInv, IInv

\* A thread frees the pair it has in its hands.
LEMMA FreePairs ==
  ASSUME IInv, NEW t \in Threads, Holds(t), Others(t), ~Holds(t)', pc'[t] # "walk",
         freed' = freed \cup {at[t]}, UNCHANGED << buckets, key, freeing >>,
         faults' \in Nat, faults' >= faults
  PROVE  PairInv'
  <1>0. faults \in Nat
    BY DEF IInv, TypeInv
  <1>1. PICK p : p = at[t] /\ key[p] # NULL /\ freed' = freed \cup {p}
                 /\ \A b \in Buckets : p \notin Range(buckets[b])
    BY DEF IInv, PairInv, PairOK
  <1>2. \A u \in Threads \ {t} :
          /\ Holds(u)' <=> Holds(u)
          /\ pc'[u] = pc[u] /\ at'[u] = at[u] /\ MyBucket(u)' = MyBucket(u)
          /\ Holds(u) => at[u] # p
    BY <1>1 DEF Others, Holds, Inserts, MyBucket, BucketIndex, IInv, PairInv, OneHolder
  <1>3. \A b \in Buckets : ListInv(b)'
    BY <1>1 DEF IInv, PairInv, ListInv, BucketIndex
  <1>4. ASSUME NEW u \in Threads PROVE PairOK(u)'
    <2>1. PairOK(u)
      BY DEF IInv, PairInv
    <2> QED
      BY <1>1, <1>2, <2>1 DEF PairOK
  <1>5. OneHolder'
    BY <1>2 DEF IInv, PairInv, OneHolder
  <1>6. ASSUME NEW x \in Pairs, key[x] # NULL PROVE Placed(x)'
    <2>1. Placed(x)
      BY <1>6 DEF IInv, PairInv
    <2>2. CASE x = p
      BY <1>1, <2>2 DEF Placed
    <2>3. CASE x # p
      <3>1. \A u \in Threads : Holds(u) /\ at[u] = x => Holds(u)' /\ at'[u] = x
        BY <1>1, <1>2, <2>3
      <3>2. freeing > 0 /\ faults > 0 => freeing' > 0 /\ faults' > 0
        BY <1>0
      <3> QED
        BY <2>1, <3>1, <3>2 DEF Placed
    <2> QED
      BY <2>2, <2>3
  <1> QED
    BY <1>1, <1>3, <1>4, <1>5, <1>6 DEF PairInv, IInv

LEMMA BucketFreedPairs ==
  ASSUME IInv, FreeBucket
  PROVE  PairInv'
  <1>0. /\ freeing \in Buckets /\ DOMAIN buckets = Buckets /\ faults \in Nat
        /\ UNCHANGED << key, pc, op, arg, at >> /\ freeing' = freeing + 1
        /\ buckets' = [buckets EXCEPT ![freeing] = << >>]
        /\ freeing \in Nat /\ freeing' \in Nat /\ freeing' > 0
    BY TableAssumption DEF FreeBucket, IInv, TypeInv, threadVars, Buckets
  <1>1. PICK c \in Buckets : c = freeing
    BY <1>0
  <1>2. /\ \A b \in Buckets \ {c} : buckets'[b] = buckets[b]
        /\ buckets'[c] = << >> /\ Range(buckets'[c]) = {} /\ IsInjective(buckets'[c])
    <2>1. Range(<< >>) = {} /\ IsInjective(<< >>)
      BY DEF Range, IsInjective
    <2> QED
      BY <1>0, <1>1, <2>1
  <1>3. \A u \in Threads : pc[u] = "idle" /\ pc'[u] = "idle" /\ ~Holds(u) /\ ~Holds(u)'
    BY <1>0 DEF IInv, CallInv, CallOK, Holds, Inserts
  <1>4. /\ faults' \in Nat /\ faults' >= faults
        /\ \/ freed' = freed \cup Range(buckets[c])
           \/ freed' = freed /\ faults' > 0
    BY <1>0, <1>1 DEF FreeBucket, Fault
  <1>5. ASSUME NEW b \in Buckets PROVE ListInv(b)'
    <2>1. CASE b = c
      BY <1>2, <2>1 DEF ListInv
    <2>2. CASE b # c
      <3>1. ListInv(b) /\ ListInv(c) /\ buckets'[b] = buckets[b]
        BY <1>2, <2>2 DEF IInv, PairInv
      <3>2. \A p \in Range(buckets[b]) : p \notin Range(buckets[c])
        BY <2>2, <3>1 DEF ListInv
      <3>3. \A p \in Range(buckets[b]) : p \notin freed'
        BY <1>4, <3>1, <3>2 DEF ListInv
      <3> QED
        BY <1>0, <3>1, <3>3 DEF ListInv, BucketIndex
    <2> QED
      BY <2>1, <2>2
  <1>6. \A p \in freed' : key'[p] # NULL
    BY <1>0, <1>4 DEF IInv, PairInv, ListInv
  <1>7. ASSUME NEW x \in Pairs, key[x] # NULL PROVE Placed(x)'
    <2>1. Placed(x)
      BY <1>7 DEF IInv, PairInv
    <2>2. CASE freed' = freed /\ faults' > 0
      BY <1>0, <2>2 DEF Placed
    <2>3. CASE freed' = freed \cup Range(buckets[c])
      <3>1. freeing > 0 /\ faults > 0 => freeing' > 0 /\ faults' > 0
        BY <1>0, <1>4
      <3> QED
        BY <1>2, <1>3, <2>1, <2>3, <3>1 DEF Placed
    <2> QED
      BY <1>4, <2>2, <2>3
  <1> QED
    BY <1>0, <1>3, <1>5, <1>6, <1>7 DEF PairInv, PairOK, OneHolder

LEMMA BeginPairs ==
  ASSUME IInv, NEW t \in Threads, NEW k \in Keys, InsertBegin(t, k)
  PROVE  PairInv'
  <1>0. /\ DOMAIN pc = Threads /\ DOMAIN op = Threads /\ DOMAIN arg = Threads
        /\ DOMAIN at = Threads /\ DOMAIN key = Pairs /\ k # NULL
    BY TableAssumption DEF IInv, TypeInv
  <1>1. PICK p \in Pairs :
           /\ key[p] = NULL /\ key' = [key EXCEPT ![p] = k]
           /\ pc[t] = "idle" /\ freeing = -1
           /\ pc' = [pc EXCEPT ![t] = "lock"] /\ op' = [op EXCEPT ![t] = "insert"]
           /\ arg' = [arg EXCEPT ![t] = k] /\ at' = [at EXCEPT ![t] = p]
           /\ UNCHANGED << buckets, freed, mutexes, freeing, faults >>
    BY InsertBeginPicks
  <1>2. /\ p \notin freed /\ \A b \in Buckets : p \notin Range(buckets[b])
        /\ \A u \in Threads : Holds(u) => at[u] # p
    BY <1>1 DEF IInv, PairInv, ListInv, PairOK
  <1>3. /\ Holds(t)' /\ ~Holds(t) /\ at'[t] = p /\ pc'[t] = "lock" /\ key'[p] = k
        /\ \A u \in Threads \ {t} :
             (Holds(u)' <=> Holds(u)) /\ at'[u] = at[u] /\ pc'[u] = pc[u] /\ arg'[u] = arg[u]
    BY <1>0, <1>1 DEF Holds, Inserts
  <1>4. \A x \in Pairs : x # p => key'[x] = key[x]
    BY <1>0, <1>1
  <1>5. ASSUME NEW b \in Buckets PROVE ListInv(b)'
    <2>1. ListInv(b) /\ Range(buckets[b]) \subseteq Pairs
      BY RangeInSet DEF IInv, TypeInv, PairInv
    <2>2. \A x \in Range(buckets[b]) : key'[x] = key[x]
      BY <1>2, <1>4, <2>1
    <2> QED
      BY <1>1, <2>1, <2>2 DEF ListInv, BucketIndex
  <1>6. ASSUME NEW u \in Threads PROVE PairOK(u)'
    <2>1. CASE u = t
      BY <1>0, <1>1, <1>2, <1>3, <2>1 DEF PairOK
    <2>2. CASE u # t
      <3>1. PairOK(u) /\ CallOK(u)
        BY DEF IInv, PairInv, CallInv
      <3>2. Holds(u) => key'[at[u]] = key[at[u]]
        BY <1>2, <1>4, <3>1 DEF CallOK
      <3> QED
        BY <1>1, <1>3, <2>2, <3>1, <3>2 DEF PairOK, MyBucket, BucketIndex
    <2> QED
      BY <2>1, <2>2
  <1>7. OneHolder'
    BY <1>2, <1>3 DEF IInv, PairInv, OneHolder
  <1>8. \A x \in freed' : key'[x] # NULL
    BY <1>1, <1>2, <1>4 DEF IInv, PairInv, TypeInv
  <1>9. ASSUME NEW x \in Pairs, key'[x] # NULL PROVE Placed(x)'
    <2>1. CASE x = p
      BY <1>3, <2>1 DEF Placed
    <2>2. CASE x # p
      <3>1. Placed(x)
        BY <1>4, <1>9, <2>2 DEF IInv, PairInv
      <3>2. \A u \in Threads : Holds(u) => Holds(u)' /\ at'[u] = at[u]
        BY <1>3
      <3> QED
        BY <1>1, <3>1, <3>2 DEF Placed
    <2> QED
      BY <2>1, <2>2
  <1> QED
    BY <1>5, <1>6, <1>7, <1>8, <1>9 DEF PairInv

LEMMA ContinuePairs ==
  ASSUME IInv, NEW t \in Threads, Continue(t)
  PROVE  PairInv'
  <1>0. /\ TypeInv /\ pc[t] # "idle" /\ faults \in Nat
        /\ DOMAIN pc = Threads /\ DOMAIN op = Threads /\ DOMAIN arg = Threads
        /\ DOMAIN at = Threads
    BY DEF IInv, TypeInv, Continue, InsertLock, InsertLink, InsertLinkFails,
           InsertCount, LookupLock, LookupFails, LookupNext, LookupEnd,
           DeleteUnlink, DeleteFree
  <1>a. /\ buckets[MyBucket(t)] \in Seq(Pairs)
        /\ pc[t] = "walk" /\ at[t] # NULL => at[t] \in Range(buckets[MyBucket(t)])
    BY <1>0, InsideFacts DEF PairOK
  <1>1. CASE InsertLock(t)
    <2>1. /\ Others(t) /\ Holds(t) /\ Holds(t)' /\ at'[t] = at[t] /\ pc'[t] # "walk"
          /\ UNCHANGED << buckets, key, freed, freeing >>
          /\ faults' \in Nat /\ faults' >= faults
      BY <1>0, <1>1
      DEF InsertLock, Others, Holds, Inserts, Goto, tableVars, boundVars
    <2> QED
      BY <1>0, <2>1, PairInvFrame
  <1>3. CASE InsertLinkFails(t)
    <2>1. Others(t) /\ ~Holds(t)' /\ pc'[t] = "idle"
      BY <1>0, <1>3, ReturnIsCallOK DEF InsertLinkFails
    <2>2. /\ Holds(t) /\ freed' = freed \cup {at[t]} /\ UNCHANGED << buckets, key, freeing >>
          /\ faults' \in Nat /\ faults' >= faults
      BY <1>0, <1>3 DEF InsertLinkFails, Holds, Inserts, Fault
    <2> QED
      BY <2>1, <2>2, FreePairs
  <1>4. CASE InsertCount(t)
    <2>1. Others(t) /\ ~Holds(t)' /\ pc'[t] = "idle"
      BY <1>0, <1>4, ReturnIsCallOK DEF InsertCount
    <2>2. /\ ~Holds(t) /\ UNCHANGED << buckets, key, freed, freeing >>
          /\ faults' \in Nat /\ faults' >= faults
      BY <1>0, <1>4 DEF InsertCount, Holds, Inserts, boundVars
    <2> QED
      BY <1>0, <2>1, <2>2, PairInvFrame
  <1>5. CASE LookupLock(t)
    <2>1. /\ Others(t) /\ ~Holds(t) /\ ~Holds(t)' /\ MyBucket(t)' = MyBucket(t)
          /\ at'[t] = First(buckets[MyBucket(t)])
          /\ UNCHANGED << buckets, key, freed, freeing >>
          /\ faults' \in Nat /\ faults' >= faults
      BY <1>0, <1>5
      DEF LookupLock, Lookups, Others, Holds, Inserts, Goto, MyBucket, BucketIndex,
          tableVars, boundVars
    <2>2. at'[t] # NULL => at'[t] \in Range(buckets'[MyBucket(t)'])
      BY <1>a, <2>1, FirstInRange
    <2> QED
      BY <1>0, <2>1, <2>2, PairInvFrame
  <1>6. CASE LookupFails(t)
    <2>1. Others(t) /\ ~Holds(t)' /\ pc'[t] = "idle"
      BY <1>0, <1>6, ReturnIsCallOK DEF LookupFails
    <2>2. /\ ~Holds(t) /\ UNCHANGED << buckets, key, freed, freeing >>
          /\ faults' \in Nat /\ faults' >= faults
      BY <1>0, <1>6 DEF LookupFails, Lookups, Holds, Inserts, Fault, tableVars
    <2> QED
      BY <2>1, <2>2, PairInvFrame
  <1>7. CASE LookupNext(t)
    <2>1. /\ Others(t) /\ ~Holds(t) /\ ~Holds(t)' /\ MyBucket(t)' = MyBucket(t)
          /\ at'[t] = After(buckets[MyBucket(t)], at[t])
          /\ UNCHANGED << buckets, key, freed, freeing >>
          /\ faults' \in Nat /\ faults' >= faults
      BY <1>0, <1>7
      DEF LookupNext, Others, Holds, Inserts, MyBucket, BucketIndex, tableVars, boundVars
    <2>2. at'[t] # NULL => at'[t] \in Range(buckets'[MyBucket(t)'])
      BY <1>a, <1>7, <2>1, AfterInRange DEF LookupNext
    <2> QED
      BY <1>0, <2>1, <2>2, PairInvFrame
  <1>8. CASE LookupEnd(t)
    <2>1. PICK a : Return(t, a)
      BY <1>8 DEF LookupEnd
    <2>2. Others(t) /\ ~Holds(t)' /\ pc'[t] = "idle"
      BY <1>0, <2>1, ReturnIsCallOK
    <2>3. /\ ~Holds(t) /\ UNCHANGED << buckets, key, freed, freeing >>
          /\ faults' \in Nat /\ faults' >= faults
      BY <1>0, <1>8 DEF LookupEnd, Holds, Inserts, tableVars, boundVars
    <2> QED
      BY <1>0, <2>2, <2>3, PairInvFrame
  <1>10. CASE DeleteFree(t)
    <2>1. Others(t) /\ ~Holds(t)' /\ pc'[t] = "idle"
      BY <1>0, <1>10, ReturnIsCallOK DEF DeleteFree
    <2>2. /\ Holds(t) /\ freed' = freed \cup {at[t]}
          /\ UNCHANGED << buckets, key, freeing, faults >>
      BY <1>10 DEF DeleteFree, Holds, boundVars
    <2> QED
      BY <1>0, <2>1, <2>2, FreePairs
  <1> QED
    BY <1>1, <1>3, <1>4, <1>5, <1>6, <1>7, <1>8, <1>10, LinkPairs, UnlinkPairs
    DEF Continue

LEMMA PairInvStep ==
  ASSUME IInv, [Next]_vars
  PROVE  PairInv'
  <1>0. /\ TypeInv /\ faults \in Nat
        /\ DOMAIN pc = Threads /\ DOMAIN op = Threads /\ DOMAIN arg = Threads
        /\ DOMAIN at = Threads
    BY DEF IInv, TypeInv
  <1>1. CASE \/ \E t \in Threads : InsertFails(t) \/ GetSize(t)
             \/ FreeBegin \/ UNCHANGED vars
    <2>1. /\ UNCHANGED << pc, op, arg, at, key, buckets, freed >>
          /\ faults' \in Nat /\ faults' >= faults
          /\ freeing' = freeing \/ (freeing' = 0 /\ freeing = -1)
      BY <1>0, <1>1
      DEF InsertFails, GetSize, FreeBegin, Fault, vars, tableVars, threadVars, boundVars
    <2>2. CASE Threads = {}
      <3>1. \A b \in Buckets : ListInv(b)'
        BY <2>1 DEF IInv, PairInv, ListInv, BucketIndex
      <3>2. ASSUME NEW p \in Pairs, key[p] # NULL PROVE Placed(p)'
        <4>1. freeing > 0 /\ faults > 0 => freeing' > 0 /\ faults' > 0
          BY <1>0, <2>1 DEF TypeInv
        <4> QED
          BY <2>1, <2>2, <3>2, <4>1 DEF IInv, PairInv, Placed
      <3> QED
        BY <2>1, <2>2, <3>1, <3>2 DEF IInv, PairInv, OneHolder
    <2>3. CASE Threads # {}
      <3>1. PICK t \in Threads : TRUE
        BY <2>3
      <3>2. Others(t) /\ (Holds(t)' <=> Holds(t)) /\ MyBucket(t)' = MyBucket(t) /\ PairOK(t)
        BY <2>1 DEF Others, Holds, Inserts, MyBucket, BucketIndex, IInv, PairInv
      <3> QED
        BY <2>1, <3>2, PairInvFrame DEF PairOK
    <2> QED
      BY <2>2, <2>3
  <1>2. ASSUME NEW t \in Threads, NEW k \in Keys, NEW o \in Lookups, LookupBegin(t, o, k)
        PROVE  PairInv'
    <2>1. /\ Others(t) /\ ~Holds(t) /\ ~Holds(t)' /\ pc'[t] # "walk"
          /\ UNCHANGED << buckets, key, freed, freeing >>
          /\ faults' \in Nat /\ faults' >= faults
      BY <1>0, <1>2
      DEF LookupBegin, Lookups, Call, Others, Holds, Inserts, Goto, tableVars
    <2> QED
      BY <1>0, <1>2, <2>1, PairInvFrame
  <1> QED
    BY <1>1, <1>2, BeginPairs, ContinuePairs, BucketFreedPairs DEF Next

LEMMA Invariant == Spec => []IInv
  <1>1. Init => IInv
    <2> SUFFICES ASSUME Init PROVE IInv
      OBVIOUS
    <2>1. TypeInv
      BY TableAssumption DEF Init, TypeInv
    <2>2. CallInv
      BY DEF Init, CallInv, CallOK, Holds, Inserts, Inside
    <2>3. PairInv
      BY DEF Init, PairInv, ListInv, PairOK, OneHolder, Holds, Inserts, Range, IsInjective
    <2> QED
      BY <2>1, <2>2, <2>3 DEF IInv
  <1>2. IInv /\ [Next]_vars => IInv'
    BY TypeInvStep, CallInvStep, PairInvStep DEF IInv
  <1> QED
    BY <1>1, <1>2, PTL DEF Spec

-----------------------------------------------------------------------------
(* Theorems *)

\* Two threads are never inside the same bucket: from the lock to the
\* unlock of insert, get, contains and delete the list is one thread's.
BucketsExclusive ==
  \A t, u \in Threads :
    pc[t] \in Inside /\ pc[u] \in Inside /\ MyBucket(t) = MyBucket(u) => t = u

\* generic_hash_table_insert, _get, _contains and _delete exclude each other
\* on a bucket, the error paths included.
THEOREM BucketsAreExclusive == Spec => []BucketsExclusive
  <1>1. IInv => BucketsExclusive
    BY OtherBucket DEF BucketsExclusive
  <1> QED
    BY <1>1, Invariant, PTL

\* No pair is lost, freed twice or linked twice by insert, delete and free,
\* and the iterator of get, contains and delete stays in the list it walks,
\* for every number of threads and buckets and every hash function.
THEOREM PairsAreConserved == Spec => []PairsConserved
  <1>1. ASSUME IInv PROVE PairsConserved
    <2>1. ASSUME NEW b \in Buckets
          PROVE  /\ IsInjective(buckets[b])
                 /\ \A p \in Range(buckets[b]) : BucketIndex(key[p]) = b
      BY <1>1 DEF IInv, PairInv, ListInv
    <2>2. ASSUME NEW t \in Threads, pc[t] = "walk", at[t] # NULL
          PROVE  at[t] \in Range(buckets[MyBucket(t)])
      BY <1>1, <2>2 DEF IInv, PairInv, PairOK
    <2>3. ASSUME NEW p \in Pairs,
                 NEW hands, hands = { t \in Threads :
                    /\ at[t] = p
                    /\ \/ pc[t] \in {"link", "uncount"}
                       \/ pc[t] = "lock" /\ op[t] = "insert" }
          PROVE  IF key[p] = NULL THEN p \notin Linked \cup freed
                 ELSE IF p \in Linked THEN p \notin freed /\ hands = {}
                 ELSE IF p \in freed THEN hands = {}
                 ELSE Cardinality(hands) = 1 \/ (freeing > 0 /\ faults > 0)
      <3>1. hands = { t \in Threads : Holds(t) /\ at[t] = p }
        BY <2>3 DEF Holds, Inserts
      <3>2. p \in Linked <=> \E b \in Buckets : p \in Range(buckets[b])
        BY DEF Linked
      <3>3. key[p] = NULL => p \notin Linked \cup freed
        BY <1>1, <3>2 DEF IInv, PairInv, ListInv
      <3>4. p \in Linked => p \notin freed /\ hands = {}
        BY <1>1, <3>1, <3>2 DEF IInv, PairInv, ListInv, PairOK
      <3>5. p \in freed => hands = {}
        BY <1>1, <3>1 DEF IInv, PairInv, PairOK
      <3>6. ASSUME key[p] # NULL, p \notin Linked, p \notin freed, ~(freeing > 0 /\ faults > 0)
            PROVE  Cardinality(hands) = 1
        <4>1. PICK t \in Threads : Holds(t) /\ at[t] = p
          BY <1>1, <3>2, <3>6 DEF IInv, PairInv, Placed
        <4>2. hands = {t}
          BY <1>1, <3>1, <4>1 DEF IInv, PairInv, OneHolder
        <4> QED
          BY <4>2, FS_Singleton
      <3> QED
        BY <3>3, <3>4, <3>5, <3>6
    <2> QED
      BY <2>1, <2>2, <2>3 DEF PairsConserved
  <1> QED
    BY <1>1, Invariant, PTL

=============================================================================
