------------------------ MODULE GenericQueueSynProofs ------------------------
(***************************************************************************)
(* Proofs about GenericQueueSyn, for any number of threads and elements:   *)
(* data has one owner, and the queue is the one AtomicQueue specifies.     *)
(***************************************************************************)
EXTENDS GenericQueueSyn, SequenceLemmas

-----------------------------------------------------------------------------
(* Types, mutual exclusion, and the arguments of the calls.                *)

\* The places where a thread holds the mutex.
Critical == {"call", "get", "walk", "unlock"}

CallOK(o, x) ==
  \/ o \in {"enqueue", "contains"} /\ x \in Elements
  \/ o \in {"dequeue", "set_free_function"} /\ x \in BOOLEAN
  \/ /\ o \in {"is_empty", "size", "peek", "peek_rear", "clear", "for_each"}
     /\ x = NULL

CallInv ==
  /\ \A t \in Threads : pc[t] \in Critical <=> mutex = t
  /\ freeing # "no" => \A t \in Threads : pc[t] = "idle"
  /\ \A t \in Threads :
       /\ pc[t] # "idle" => CallOK(op[t], arg[t])
       /\ pc[t] = "get" => op[t] \in {"peek", "peek_rear"}
       /\ pc[t] = "walk" => op[t] \in Walks

TypeInv == TypeOK /\ CallInv

\* A call begins with an argument of its own.
LEMMA BeginIsCall ==
  ASSUME NEW t \in Threads, Begin(t)
  PROVE  \E o \in Ops, x \in Elements \cup {TRUE, FALSE, NULL} :
           /\ Call(t, o, x) /\ CallOK(o, x)
           /\ o = "enqueue" => x \notin Used
  BY DEF Begin, CallOK, Ops, generic_queue_syn_enqueue, generic_queue_syn_dequeue,
         generic_queue_syn_is_empty, generic_queue_syn_size, generic_queue_syn_peek,
         generic_queue_syn_peek_rear, generic_queue_syn_clear,
         generic_queue_syn_contains, generic_queue_syn_for_each,
         generic_queue_syn_set_free_function

\* In a list without repetitions, the element behind another is the next one.
LEMMA AfterNext ==
  ASSUME NEW q \in Seq(Elements), IsInjective(q), NEW k \in 1..Len(q)
  PROVE  After(q, q[k]) = IF k = Len(q) THEN NULL ELSE q[k + 1]
  <1>1. DOMAIN q = 1..Len(q)
    OBVIOUS
  <1>2. \A i \in 1..Len(q) : q[i] = q[k] => i = k
    BY <1>1 DEF IsInjective
  <1>3. (CHOOSE i \in 1..Len(q) : q[i] = q[k]) = k
    BY <1>2
  <1>4. PICK n \in Nat : n = Len(q)
    OBVIOUS
  <1>5. CASE k = n
    <2>1. ASSUME NEW i \in 1..(n - 1) PROVE q[i] # q[k]
      <3>1. i \in 1..n /\ i # n
        BY <1>4
      <3> QED
        BY <1>2, <1>4, <1>5, <3>1
    <2> QED
      BY <1>4, <1>5, <2>1 DEF After
  <1>6. CASE k # n
    <2>1. k \in 1..(n - 1)
      BY <1>4, <1>6
    <2> QED
      BY <1>3, <1>4, <1>6, <2>1 DEF After
  <1> QED
    BY <1>5, <1>6

\* It is in the list, if there is one.
LEMMA AfterType ==
  ASSUME NEW q \in Seq(Elements), IsInjective(q), NEW x
  PROVE  After(q, x) \in Range(q) \cup {NULL}
  <1>1. PICK n \in Nat : n = Len(q) /\ DOMAIN q = 1..n
    OBVIOUS
  <1>2. CASE \E i \in 1..(n - 1) : q[i] = x
    <2>1. PICK k \in 1..(n - 1) : q[k] = x
      BY <1>2
    <2>2. k \in 1..n /\ k + 1 \in 1..n /\ k # n
      BY <1>1
    <2>3. After(q, q[k]) = q[k + 1]
      BY <1>1, <2>2, AfterNext
    <2> QED
      BY <1>1, <2>1, <2>2, <2>3 DEF Range
  <1>3. CASE ~ \E i \in 1..(n - 1) : q[i] = x
    BY <1>1, <1>3 DEF After
  <1> QED
    BY <1>2, <1>3

LEMMA RangeType ==
  ASSUME NEW q \in Seq(Elements)
  PROVE  Range(q) \subseteq Elements
  <1>1. DOMAIN q = 1..Len(q) /\ \A i \in 1..Len(q) : q[i] \in Elements
    OBVIOUS
  <1> QED
    BY <1>1 DEF Range

LEMMA TypeInvInit == Init => TypeInv
  <1> SUFFICES ASSUME Init PROVE TypeInv
    OBVIOUS
  <1>1. TypeOK
    <2>1. list \in Seq(Elements) /\ seen \in [Threads -> Seq(Elements)]
      BY DEF Init
    <2>2. calls \in 0..MaxCalls /\ faults \in 0..MaxFaults
      BY QueueAssumption DEF Init
    <2> QED
      BY <2>1, <2>2 DEF Init, TypeOK, Ops
  <1>2. CallInv
    BY QueueAssumption DEF Init, CallInv, Critical
  <1> QED
    BY <1>1, <1>2 DEF TypeInv

LEMMA TypeInvBegin ==
  ASSUME TypeInv, NEW t \in Threads, Begin(t)
  PROVE  TypeInv'
  <1>1. PICK o \in Ops, x \in Elements \cup {TRUE, FALSE, NULL} :
          Call(t, o, x) /\ CallOK(o, x)
    BY BeginIsCall
  <1>2. TypeOK'
    <2>1. calls' \in 0..MaxCalls
      BY <1>1, QueueAssumption DEF Call, TypeInv, TypeOK
    <2>2. arg' \in [Threads -> Elements \cup {TRUE, FALSE, NULL}]
      BY <1>1 DEF Call, TypeInv, TypeOK
    <2> QED
      BY <1>1, <2>1, <2>2 DEF Call, TypeInv, TypeOK, Goto, listVars
  <1>3. CallInv'
    <2>1. DOMAIN pc = Threads /\ DOMAIN op = Threads /\ DOMAIN arg = Threads
      BY DEF TypeInv, TypeOK
    <2>2. /\ pc[t] = "idle" /\ freeing = "no" /\ pc' = [pc EXCEPT ![t] = "lock"]
          /\ op' = [op EXCEPT ![t] = o] /\ arg' = [arg EXCEPT ![t] = x]
          /\ UNCHANGED << mutex, freeing >>
      BY <1>1 DEF Call, Goto
    <2> QED
      BY <1>1, <2>1, <2>2 DEF TypeInv, CallInv, Critical
  <1> QED
    BY <1>2, <1>3 DEF TypeInv

LEMMA TypeInvContinue ==
  ASSUME TypeInv, IsInjective(list), NEW t \in Threads, Continue(t)
  PROVE  TypeInv'
  <1>0. /\ pc \in [Threads -> {"idle", "lock", "call", "get", "walk", "unlock"}]
        /\ list \in Seq(Elements) /\ mutex \in Threads \cup {NoThread}
        /\ at \in [Threads -> Elements \cup {NULL}]
        /\ seen \in [Threads -> Seq(Elements)]
        /\ DOMAIN op = Threads /\ DOMAIN arg = Threads
        /\ Len(list) \in Nat /\ \A i \in 1..Len(list) : list[i] \in Elements
        /\ faults \in 0..MaxFaults /\ MaxFaults \in Nat /\ NoThread \notin Threads
    BY QueueAssumption DEF TypeInv, TypeOK
  <1> USE DEF Goto, Result, In, listVars
  <1>1. CASE Lock(t)
    <2>1. TypeOK'
      BY <1>1 DEF Lock, TypeInv, TypeOK
    <2>2. CallInv'
      BY <1>0, <1>1 DEF Lock, TypeInv, CallInv, Critical
    <2> QED
      BY <2>1, <2>2 DEF TypeInv
  <1>2. CASE Unlock(t)
    <2>1. seen' \in [Threads -> Seq(Elements)]
      BY <1>0, <1>2 DEF Unlock
    <2>2. TypeOK'
      BY <1>2, <2>1 DEF Unlock, TypeInv, TypeOK
    <2>3. CallInv'
      BY <1>0, <1>2 DEF Unlock, TypeInv, CallInv, Critical
    <2> QED
      BY <2>2, <2>3 DEF TypeInv
  <1>3. CASE generic_queue_enqueue(t)
    <2>1. PICK x \in Elements : x = arg[t]
      BY <1>3 DEF generic_queue_enqueue, TypeInv, CallInv, CallOK
    <2>2. list' \in Seq(Elements)
      <3>1. list' = Append(list, x) \/ list' = list
        BY <1>3, <2>1 DEF generic_queue_enqueue
      <3> QED
        BY <1>0, <3>1, AppendProperties
    <2>3. faults' \in 0..MaxFaults
      BY <1>0, <1>3 DEF generic_queue_enqueue, Fault
    <2>4. TypeOK'
      BY <1>3, <2>2, <2>3 DEF generic_queue_enqueue, TypeInv, TypeOK
    <2>5. CallInv'
      BY <1>0, <1>3 DEF generic_queue_enqueue, TypeInv, CallInv, Critical
    <2> QED
      BY <2>4, <2>5 DEF TypeInv
  <1>4. CASE generic_queue_dequeue(t)
    <2>1. /\ list' \in Seq(Elements)
          /\ dequeued' \subseteq Elements /\ freed' \subseteq Elements
      <3>1. list # << >> => Head(list) \in Elements /\ Tail(list) \in Seq(Elements)
        BY <1>0, HeadAndTail
      <3>2. dequeued \subseteq Elements /\ freed \subseteq Elements
        BY DEF TypeInv, TypeOK
      <3> QED
        BY <1>0, <1>4, <3>1, <3>2 DEF generic_queue_dequeue
    <2>2. TypeOK'
      BY <1>4, <2>1 DEF generic_queue_dequeue, TypeInv, TypeOK
    <2>3. CallInv'
      BY <1>0, <1>4 DEF generic_queue_dequeue, TypeInv, CallInv, Critical
    <2> QED
      BY <2>2, <2>3 DEF TypeInv
  <1>5. CASE generic_queue_is_empty(t) \/ generic_queue_size(t) \/ PeekGet(t)
    <2>1. TypeOK'
      BY <1>5 DEF generic_queue_is_empty, generic_queue_size, PeekGet, TypeInv, TypeOK
    <2>2. CallInv'
      BY <1>0, <1>5
      DEF generic_queue_is_empty, generic_queue_size, PeekGet, TypeInv, CallInv,
          Critical
    <2> QED
      BY <2>1, <2>2 DEF TypeInv
  <1>6. CASE generic_queue_set_free_function(t)
    <2>1. free_function' \in BOOLEAN
      BY <1>6 DEF generic_queue_set_free_function, TypeInv, CallInv, CallOK
    <2>2. TypeOK'
      BY <1>6, <2>1 DEF generic_queue_set_free_function, TypeInv, TypeOK
    <2>3. CallInv'
      BY <1>0, <1>6 DEF generic_queue_set_free_function, TypeInv, CallInv, Critical
    <2> QED
      BY <2>2, <2>3 DEF TypeInv
  <1>7. CASE generic_queue_clear(t)
    <2>1. /\ list' \in Seq(Elements) /\ freed' \subseteq Elements
          /\ seen' \in [Threads -> Seq(Elements)]
      <3>1. CASE UNCHANGED << list, freed, seen >>
        BY <1>0, <3>1 DEF TypeInv, TypeOK
      <3>2. CASE /\ list # << >> /\ freed' = freed \cup {Head(list)}
                 /\ list' = Tail(list)
                 /\ seen' = [seen EXCEPT ![t] = Append(seen[t], Head(list))]
        <4>1. Head(list) \in Elements /\ Tail(list) \in Seq(Elements)
          BY <1>0, <3>2, HeadAndTail
        <4>2. Append(seen[t], Head(list)) \in Seq(Elements)
          BY <1>0, <4>1
        <4> QED
          BY <1>0, <3>2, <4>1, <4>2 DEF TypeInv, TypeOK
      <3> QED
        BY <1>7, <3>1, <3>2 DEF generic_queue_clear
    <2>2. TypeOK'
      BY <1>7, <2>1 DEF generic_queue_clear, TypeInv, TypeOK
    <2>3. CallInv'
      BY <1>0, <1>7 DEF generic_queue_clear, TypeInv, CallInv, Critical
    <2> QED
      BY <2>2, <2>3 DEF TypeInv
  <1>8. CASE PeekBegin(t)
    <2>1. at' \in [Threads -> Elements \cup {NULL}] /\ faults' \in 0..MaxFaults
      <3>1. list # << >> => Len(list) \in 1..Len(list) /\ 1 \in 1..Len(list)
        BY <1>0, EmptySeq
      <3>2. at' \in [Threads -> Elements \cup {NULL}]
        BY <1>0, <1>8, <3>1 DEF PeekBegin
      <3>3. faults' \in 0..MaxFaults
        BY <1>0, <1>8 DEF PeekBegin, Fault
      <3> QED
        BY <3>2, <3>3
    <2>2. TypeOK'
      BY <1>8, <2>1 DEF PeekBegin, TypeInv, TypeOK
    <2>3. CallInv'
      BY <1>0, <1>8 DEF PeekBegin, TypeInv, CallInv, Critical
    <2> QED
      BY <2>2, <2>3 DEF TypeInv
  <1>9. CASE WalkBegin(t)
    <2>1. at' \in [Threads -> Elements \cup {NULL}] /\ faults' \in 0..MaxFaults
      <3>1. First(list) \in Elements \cup {NULL}
        BY <1>0, HeadAndTail DEF First
      <3>2. at' \in [Threads -> Elements \cup {NULL}]
        BY <1>0, <1>9, <3>1 DEF WalkBegin
      <3>3. faults' \in 0..MaxFaults
        BY <1>0, <1>9 DEF WalkBegin, Fault
      <3> QED
        BY <3>2, <3>3
    <2>2. TypeOK'
      BY <1>9, <2>1 DEF WalkBegin, TypeInv, TypeOK
    <2>3. CallInv'
      BY <1>0, <1>9 DEF WalkBegin, TypeInv, CallInv, Critical
    <2> QED
      BY <2>2, <2>3 DEF TypeInv
  <1>10. After(list, at[t]) \in Elements \cup {NULL}
    BY <1>0, AfterType, RangeType
  <1>11. CASE ForEachStep(t)
    <2>1. /\ at' \in [Threads -> Elements \cup {NULL}]
          /\ seen' \in [Threads -> Seq(Elements)]
      <3>1. CASE WalkDone(t)
        BY <1>0, <1>11, <3>1 DEF ForEachStep
      <3>2. CASE ~WalkDone(t)
        <4>1. at[t] \in Elements
          BY <1>0, <3>2 DEF WalkDone
        <4>2. Append(seen[t], at[t]) \in Seq(Elements)
          BY <1>0, <4>1
        <4> QED
          BY <1>0, <1>10, <1>11, <3>2, <4>2 DEF ForEachStep
      <3> QED
        BY <3>1, <3>2
    <2>2. TypeOK'
      BY <1>11, <2>1 DEF ForEachStep, TypeInv, TypeOK
    <2>3. CallInv'
      BY <1>0, <1>11 DEF ForEachStep, TypeInv, CallInv, Critical
    <2> QED
      BY <2>2, <2>3 DEF TypeInv
  <1>12. CASE ContainsStep(t)
    <2>1. at' \in [Threads -> Elements \cup {NULL}]
      BY <1>0, <1>10, <1>12 DEF ContainsStep
    <2>2. faults' \in 0..MaxFaults
      BY <1>0, <1>12 DEF ContainsStep, Fault
    <2>3. TypeOK'
      BY <1>12, <2>1, <2>2 DEF ContainsStep, TypeInv, TypeOK
    <2>4. CallInv'
      BY <1>0, <1>12 DEF ContainsStep, TypeInv, CallInv, Critical
    <2> QED
      BY <2>3, <2>4 DEF TypeInv
  <1> QED
    BY <1>1, <1>2, <1>3, <1>4, <1>5, <1>6, <1>7, <1>8, <1>9, <1>11, <1>12
    DEF Continue

LEMMA TypeInvStep ==
  ASSUME TypeInv, IsInjective(list), [Next]_vars
  PROVE  TypeInv'
  <1>1. CASE FreeBegin
    BY <1>1 DEF FreeBegin, TypeInv, TypeOK, CallInv, listVars, threadVars
  <1>2. CASE generic_queue_syn_free
    <2>1. Range(list) \subseteq Elements /\ << >> \in Seq(Elements)
      BY RangeType DEF TypeInv, TypeOK
    <2> QED
      BY <1>2, <2>1
      DEF generic_queue_syn_free, TypeInv, TypeOK, CallInv, threadVars
  <1>3. CASE UNCHANGED vars
    BY <1>3 DEF TypeInv, TypeOK, CallInv, vars, listVars, threadVars
  <1> QED
    BY <1>1, <1>2, <1>3, TypeInvBegin, TypeInvContinue DEF Next

-----------------------------------------------------------------------------
(* Who owns an element.  One that is being enqueued is nobody else's.      *)

Placed ==
  /\ IsInjective(list)
  /\ Range(list) \cap (dequeued \cup freed \cup lost) = {}
  /\ dequeued \cap (freed \cup lost) = {} /\ freed \cap lost = {}
  /\ lost # {} => ~free_function /\ freeing = "done"

AtInList ==
  \A t \in Threads :
    pc[t] \in {"get", "walk"} /\ at[t] # NULL => at[t] \in Range(list)

ArgInv ==
  /\ \A t \in Threads : op[t] = "enqueue" /\ pc[t] \in {"lock", "call"} =>
       arg[t] \notin Range(list) \cup dequeued \cup freed \cup lost
  /\ \A t, u \in Threads :
       op[t] = "enqueue" /\ op[u] = "enqueue" /\ arg[t] = arg[u] => t = u

OwnerInv == Placed /\ AtInList /\ ArgInv

LEMMA OwnerInvInit == Init => OwnerInv
  <1> SUFFICES ASSUME Init PROVE OwnerInv
    OBVIOUS
  <1>1. Range(list) = {} /\ IsInjective(list)
    BY DEF Init, Range, IsInjective
  <1> QED
    BY <1>1, QueueAssumption DEF Init, Ops, OwnerInv, Placed, AtInList, ArgInv

LEMMA OwnerInvBegin ==
  ASSUME TypeInv, OwnerInv, NEW t \in Threads, Begin(t)
  PROVE  OwnerInv'
  <1>1. PICK o, x : Call(t, o, x) /\ (o = "enqueue" => x \notin Used)
    BY BeginIsCall
  <1>2. /\ pc[t] = "idle" /\ pc' = [pc EXCEPT ![t] = "lock"]
        /\ op' = [op EXCEPT ![t] = o] /\ arg' = [arg EXCEPT ![t] = x]
        /\ UNCHANGED << list, free_function, dequeued, freed, lost, at, freeing >>
    BY <1>1 DEF Call, Goto, listVars
  <1>3. DOMAIN pc = Threads /\ DOMAIN op = Threads /\ DOMAIN arg = Threads
    BY DEF TypeInv, TypeOK
  <1>4. Placed' /\ AtInList'
    BY <1>2, <1>3 DEF OwnerInv, Placed, AtInList
  <1>5. ArgInv'
    BY <1>1, <1>2, <1>3 DEF OwnerInv, ArgInv, Used
  <1> QED
    BY <1>4, <1>5 DEF OwnerInv

\* A step in the critical section that looks at the list and leaves it alone.
LEMMA OwnerInvLook ==
  ASSUME TypeInv, OwnerInv, NEW t \in Threads,
         UNCHANGED << list, free_function, dequeued, freed, lost, freeing, op, arg >>,
         \A u \in Threads \ {t} : pc'[u] = pc[u] /\ at'[u] = at[u],
         pc'[t] \in {"lock", "call"} => pc[t] \in {"lock", "call"},
         pc'[t] \in {"get", "walk"} /\ at'[t] # NULL => at'[t] \in Range(list)
  PROVE  OwnerInv'
  <1>1. Placed'
    BY DEF OwnerInv, Placed
  <1>2. AtInList'
    BY DEF OwnerInv, AtInList
  <1>3. ArgInv'
    BY DEF OwnerInv, ArgInv
  <1> QED
    BY <1>1, <1>2, <1>3 DEF OwnerInv

LEMMA OwnerInvContinue ==
  ASSUME TypeInv, OwnerInv, NEW t \in Threads, Continue(t)
  PROVE  OwnerInv'
  <1>0. /\ DOMAIN pc = Threads /\ DOMAIN op = Threads /\ DOMAIN arg = Threads
        /\ DOMAIN at = Threads /\ list \in Seq(Elements) /\ DOMAIN list = 1..Len(list)
        /\ Len(list) \in Nat /\ IsInjective(list) /\ NULL \notin Elements
        /\ freed \subseteq Elements /\ dequeued \subseteq Elements
        /\ lost \subseteq Elements
    BY QueueAssumption DEF TypeInv, TypeOK, OwnerInv, Placed
  <1>a. \A u \in Threads \ {t} : pc[t] \in Critical => pc[u] \notin Critical
    BY DEF TypeInv, CallInv
  <1>b. pc[t] = "call" => freeing = "no" /\ lost = {}
    BY DEF TypeInv, CallInv, OwnerInv, Placed
  <1> USE DEF Goto, Result, In, listVars
  <1>1. CASE Lock(t)
    BY <1>0, <1>1, OwnerInvLook DEF Lock
  <1>2. CASE Unlock(t)
    <2>1. Placed' /\ AtInList'
      BY <1>0, <1>2 DEF Unlock, OwnerInv, Placed, AtInList
    <2>2. ArgInv'
      BY <1>0, <1>2, QueueAssumption DEF Unlock, Ops, OwnerInv, ArgInv
    <2> QED
      BY <2>1, <2>2 DEF OwnerInv
  <1>3. CASE generic_queue_enqueue(t)
    <2>1. CASE UNCHANGED list
      BY <1>0, <1>3, <2>1, OwnerInvLook DEF generic_queue_enqueue
    <2>2. CASE list' = Append(list, arg[t])
      <3>1. PICK x \in Elements : x = arg[t]
        BY <1>3 DEF generic_queue_enqueue, TypeInv, CallInv, CallOK
      <3>2. x \notin Range(list) \cup dequeued \cup freed \cup lost
        BY <1>3, <3>1 DEF generic_queue_enqueue, OwnerInv, ArgInv
      <3>3. list' = Append(list, x)
        BY <2>2, <3>1
      <3>4. Range(list') = Range(list) \cup {x} /\ IsInjective(list')
        BY <1>0, <3>2, <3>3, RangeOfAppend, AppendKeepsInjective
      <3>5. Placed'
        BY <1>3, <3>2, <3>4 DEF generic_queue_enqueue, OwnerInv, Placed
      <3>6. AtInList'
        BY <1>0, <1>3, <3>4 DEF generic_queue_enqueue, OwnerInv, AtInList
      <3>7. ArgInv'
        BY <1>0, <1>3, <3>1, <3>4 DEF generic_queue_enqueue, OwnerInv, ArgInv
      <3> QED
        BY <3>5, <3>6, <3>7 DEF OwnerInv
    <2> QED
      BY <1>3, <2>1, <2>2 DEF generic_queue_enqueue
  <1>4. CASE generic_queue_dequeue(t)
    <2>1. CASE UNCHANGED << list, dequeued, freed >>
      BY <1>0, <1>4, <2>1, OwnerInvLook DEF generic_queue_dequeue
    <2>2. CASE ~UNCHANGED << list, dequeued, freed >>
      <3>0. list # << >>
        BY <1>4, <2>2 DEF generic_queue_dequeue
      <3>1. PICK x \in Elements : x = Head(list)
        BY <1>0, <3>0, HeadAndTail
      <3>2. /\ list' = Tail(list)
            /\ \/ dequeued' = dequeued \cup {x} /\ freed' = freed
               \/ dequeued' = dequeued /\ freed' = freed \cup {x}
        BY <1>4, <2>2, <3>1 DEF generic_queue_dequeue
      <3>3. /\ Range(list) = {x} \cup Range(list') /\ IsInjective(list')
            /\ x \notin Range(list')
        BY <1>0, <3>0, <3>1, <3>2, HeadAndTail
      <3>4. Placed'
        BY <1>b, <1>4, <3>2, <3>3 DEF generic_queue_dequeue, OwnerInv, Placed
      <3>5. AtInList'
        BY <1>0, <1>a, <1>4 DEF generic_queue_dequeue, AtInList, Critical
      <3>6. ArgInv'
        BY <1>0, <1>4, <3>2, <3>3 DEF generic_queue_dequeue, OwnerInv, ArgInv
      <3> QED
        BY <3>4, <3>5, <3>6 DEF OwnerInv
    <2> QED
      BY <2>1, <2>2
  <1>5. CASE generic_queue_is_empty(t) \/ generic_queue_size(t) \/ PeekGet(t)
    BY <1>0, <1>5, OwnerInvLook
    DEF generic_queue_is_empty, generic_queue_size, PeekGet
  <1>6. CASE generic_queue_set_free_function(t)
    <2>1. Placed'
      BY <1>b, <1>6 DEF generic_queue_set_free_function, OwnerInv, Placed
    <2>2. AtInList' /\ ArgInv'
      BY <1>0, <1>6 DEF generic_queue_set_free_function, OwnerInv, AtInList, ArgInv
    <2> QED
      BY <2>1, <2>2 DEF OwnerInv
  <1>7. CASE generic_queue_clear(t)
    <2>1. CASE UNCHANGED << list, freed >>
      BY <1>0, <1>7, <2>1, OwnerInvLook DEF generic_queue_clear
    <2>2. CASE list # << >> /\ freed' = freed \cup {Head(list)} /\ list' = Tail(list)
               /\ UNCHANGED pc
      <3>1. PICK x \in Elements : x = Head(list)
        BY <1>0, <2>2, HeadAndTail
      <3>2. /\ Range(list) = {x} \cup Range(list') /\ IsInjective(list')
            /\ x \notin Range(list')
        BY <1>0, <2>2, <3>1, HeadAndTail
      <3>3. Placed'
        BY <1>7, <2>2, <3>1, <3>2 DEF generic_queue_clear, OwnerInv, Placed
      <3>4. AtInList'
        BY <1>0, <1>a, <1>7, <2>2 DEF generic_queue_clear, AtInList, Critical
      <3>5. ArgInv'
        BY <1>0, <1>7, <2>2, <3>1, <3>2 DEF generic_queue_clear, OwnerInv, ArgInv
      <3> QED
        BY <3>3, <3>4, <3>5 DEF OwnerInv
    <2> QED
      BY <1>7, <2>1, <2>2 DEF generic_queue_clear
  <1>8. CASE PeekBegin(t)
    <2>1. list # << >> => list[1] \in Range(list) /\ list[Len(list)] \in Range(list)
      BY <1>0, EmptySeq DEF Range
    <2> QED
      BY <1>0, <1>8, <2>1, OwnerInvLook DEF PeekBegin
  <1>9. CASE WalkBegin(t)
    <2>1. First(list) # NULL => First(list) \in Range(list)
      BY <1>0, EmptySeq DEF First, Range
    <2> QED
      BY <1>0, <1>9, <2>1, OwnerInvLook DEF WalkBegin
  <1>10. After(list, at[t]) \in Range(list) \cup {NULL}
    BY <1>0, AfterType
  <1>11. CASE ForEachStep(t)
    BY <1>0, <1>10, <1>11, OwnerInvLook DEF ForEachStep
  <1>12. CASE ContainsStep(t)
    BY <1>0, <1>10, <1>12, OwnerInvLook DEF ContainsStep
  <1> QED
    BY <1>1, <1>2, <1>3, <1>4, <1>5, <1>6, <1>7, <1>8, <1>9, <1>11, <1>12
    DEF Continue

LEMMA OwnerInvStep ==
  ASSUME TypeInv, OwnerInv, [Next]_vars
  PROVE  OwnerInv'
  <1>1. CASE FreeBegin
    BY <1>1
    DEF FreeBegin, TypeInv, CallInv, OwnerInv, Placed, AtInList, ArgInv, listVars,
        threadVars
  <1>2. CASE generic_queue_syn_free
    <2>1. Range(list') = {} /\ IsInjective(list') /\ lost = {}
      BY <1>2 DEF generic_queue_syn_free, Range, IsInjective, OwnerInv, Placed
    <2>2. \A t \in Threads : pc'[t] = "idle"
      BY <1>2 DEF generic_queue_syn_free, TypeInv, CallInv, threadVars
    <2>3. Placed'
      BY <1>2, <2>1 DEF generic_queue_syn_free, OwnerInv, Placed
    <2>4. AtInList' /\ ArgInv'
      BY <1>2, <2>2
      DEF generic_queue_syn_free, OwnerInv, AtInList, ArgInv, threadVars
    <2> QED
      BY <2>3, <2>4 DEF OwnerInv
  <1>3. CASE UNCHANGED vars
    BY <1>3
    DEF vars, OwnerInv, Placed, AtInList, ArgInv, listVars, threadVars
  <1> QED
    BY <1>1, <1>2, <1>3, OwnerInvBegin, OwnerInvContinue DEF Next

LEMMA OwnerInvariant == Spec => [](TypeInv /\ OwnerInv)
  <1>1. TypeInv /\ OwnerInv /\ [Next]_vars => TypeInv' /\ OwnerInv'
    BY TypeInvStep, OwnerInvStep DEF OwnerInv, Placed
  <1> QED
    BY TypeInvInit, OwnerInvInit, <1>1, PTL DEF Spec

\* Every variable of the locked queue keeps its type.
THEOREM TypeCorrect == Spec => []TypeOK
  BY OwnerInvariant, PTL DEF TypeInv

\* The data given to generic_queue_syn_enqueue has one owner at all times, and
\* an iterator of a call is at an element of the list, whatever the other
\* threads do.
THEOREM DataHasOneOwner == Spec => []ElementsConserved
  <1>1. OwnerInv => ElementsConserved
    BY DEF OwnerInv, Placed, AtInList, ElementsConserved
  <1> QED
    BY <1>1, OwnerInvariant, PTL

-----------------------------------------------------------------------------
(* What the locals of a call in the critical section say about the list.   *)

\* A walk has passed k elements.
Passed(t, k) ==
  /\ at[t] = (IF k = Len(list) THEN NULL ELSE list[k + 1])
  /\ op[t] = "for_each" => Len(seen[t]) = k /\ \A i \in 1..k : seen[t][i] = list[i]
  /\ op[t] = "contains" => \A i \in 1..k : list[i] # arg[t]

Local(t) ==
  /\ pc[t] \in {"idle", "lock"} => seen[t] = << >>
  /\ pc[t] = "call" /\ op[t] # "clear" => seen[t] = << >>
  /\ pc[t] = "call" /\ seen[t] # << >> => free_function
  /\ pc[t] = "get" =>
       list # << >> /\ at[t] = list[IF op[t] = "peek" THEN 1 ELSE Len(list)]
  /\ pc[t] = "walk" => \E k \in 0..Len(list) : Passed(t, k)

LocalInv == \A t \in Threads : Local(t)

\* A step of another thread: it changes the list only while it has the mutex.
LEMMA LocalOfOthers ==
  ASSUME NEW u \in Threads, Local(u),
         pc'[u] = pc[u], op'[u] = op[u], arg'[u] = arg[u], at'[u] = at[u],
         seen'[u] = seen[u],
         pc[u] \in Critical => UNCHANGED << list, free_function >>
  PROVE  Local(u)'
  BY DEF Local, Passed, Critical

LEMMA LocalInvContinue ==
  ASSUME TypeInv, OwnerInv, LocalInv, NEW t \in Threads, Continue(t)
  PROVE  LocalInv'
  <1>0. /\ DOMAIN pc = Threads /\ DOMAIN op = Threads /\ DOMAIN arg = Threads
        /\ DOMAIN at = Threads /\ DOMAIN seen = Threads /\ list \in Seq(Elements)
        /\ Len(list) \in Nat /\ IsInjective(list) /\ NULL \notin Elements
        /\ seen[t] \in Seq(Elements)
        /\ \A k \in 1..Len(list) : list[k] \in Elements
    BY QueueAssumption DEF TypeInv, TypeOK, OwnerInv, Placed
  <1> USE DEF Goto, Result, In, listVars
  <1>a. ASSUME NEW u \in Threads \ {t} PROVE Local(u)'
    <2>1. /\ pc'[u] = pc[u] /\ op'[u] = op[u] /\ arg'[u] = arg[u] /\ at'[u] = at[u]
          /\ seen'[u] = seen[u]
      BY <1>0, <1>a
      DEF Continue, Lock, Unlock, generic_queue_enqueue, generic_queue_dequeue,
          generic_queue_is_empty, generic_queue_size,
          generic_queue_set_free_function, generic_queue_clear, PeekBegin, PeekGet,
          WalkBegin, ForEachStep, ContainsStep
    <2>2. ASSUME pc[u] \in Critical PROVE Lock(t)
      <3>1. pc[t] \notin Critical
        BY <1>a, <2>2 DEF TypeInv, CallInv
      <3> QED
        BY <3>1
        DEF Critical, Continue, Unlock, generic_queue_enqueue,
            generic_queue_dequeue, generic_queue_is_empty, generic_queue_size,
            generic_queue_set_free_function, generic_queue_clear, PeekBegin,
            PeekGet, WalkBegin, ForEachStep, ContainsStep
    <2>3. pc[u] \in Critical => UNCHANGED << list, free_function >>
      BY <2>2 DEF Lock
    <2> QED
      BY <2>1, <2>3, LocalOfOthers DEF LocalInv
  <1>b. Local(t)
    BY DEF LocalInv
  <1>1. CASE Lock(t)
    BY <1>0, <1>a, <1>b, <1>1 DEF Lock, LocalInv, Local
  <1>2. ASSUME pc'[t] = "unlock" PROVE LocalInv'
    BY <1>a, <1>2 DEF LocalInv, Local
  <1>3. CASE Unlock(t)
    BY <1>0, <1>a, <1>3 DEF Unlock, LocalInv, Local
  <1>4. CASE generic_queue_clear(t)
    <2>1. CASE pc'[t] = "unlock"
      BY <1>2, <2>1
    <2>2. CASE free_function /\ UNCHANGED << pc, op, free_function >>
      BY <1>a, <1>4, <2>2 DEF generic_queue_clear, LocalInv, Local
    <2> QED
      BY <1>0, <1>4, <2>1, <2>2 DEF generic_queue_clear
  <1>5. CASE PeekBegin(t)
    <2>1. CASE pc'[t] = "unlock"
      BY <1>2, <2>1
    <2>2. CASE /\ list # << >> /\ pc'[t] = "get"
               /\ at' = [at EXCEPT ![t] = IF op[t] = "peek" THEN list[1]
                                          ELSE list[Len(list)]]
      <3>1. /\ at'[t] = list[IF op[t] = "peek" THEN 1 ELSE Len(list)]
            /\ UNCHANGED << list, op >>
        BY <1>0, <1>5, <2>2 DEF PeekBegin
      <3>2. Local(t)'
        BY <2>2, <3>1 DEF Local
      <3> QED
        BY <1>a, <3>2 DEF LocalInv
    <2> QED
      BY <1>0, <1>5, <2>1, <2>2 DEF PeekBegin
  <1>6. CASE WalkBegin(t)
    <2>1. CASE pc'[t] = "unlock"
      BY <1>2, <2>1
    <2>2. CASE pc'[t] = "walk" /\ at' = [at EXCEPT ![t] = First(list)]
      <3>1. First(list) = (IF 0 = Len(list) THEN NULL ELSE list[0 + 1])
        BY <1>0, EmptySeq DEF First
      <3>2. seen[t] = << >>
        BY <1>b, <1>6 DEF WalkBegin, Walks, Local
      <3>3. at'[t] = First(list) /\ UNCHANGED << list, op, arg, seen >>
        BY <1>0, <1>6, <2>2 DEF WalkBegin
      <3>4. Passed(t, 0)'
        BY <3>1, <3>2, <3>3 DEF Passed
      <3>5. 0 \in 0..Len(list')
        BY <1>0, <3>3
      <3>6. Local(t)'
        BY <2>2, <3>4, <3>5 DEF Local
      <3> QED
        BY <1>a, <3>6 DEF LocalInv
    <2> QED
      BY <1>0, <1>6, <2>1, <2>2 DEF WalkBegin
  <1>7. ASSUME pc[t] = "walk", at[t] # NULL, UNCHANGED << list, pc, op, arg >>,
               at' = [at EXCEPT ![t] = After(list, at[t])],
               op[t] = "for_each" => seen' = [seen EXCEPT ![t] = Append(seen[t], at[t])],
               op[t] = "contains" => at[t] # arg[t]
        PROVE  LocalInv'
    <2>1. PICK k \in 0..Len(list) : Passed(t, k)
      BY <1>b, <1>7 DEF Local
    <2>2. k # Len(list) /\ at[t] = list[k + 1]
      BY <1>7, <2>1 DEF Passed
    <2>3. PICK j \in 1..Len(list) : j = k + 1
      BY <1>0, <2>2
    <2>4. at'[t] = IF j = Len(list) THEN NULL ELSE list[j + 1]
      <3>1. After(list, list[j]) = IF j = Len(list) THEN NULL ELSE list[j + 1]
        BY <1>0, AfterNext
      <3> QED
        BY <1>0, <1>7, <2>2, <2>3, <3>1
    <2>5. ASSUME op[t] = "for_each"
          PROVE  Len(seen'[t]) = j /\ \A i \in 1..j : seen'[t][i] = list[i]
      <3>1. Len(seen[t]) = k /\ \A i \in 1..k : seen[t][i] = list[i]
        BY <2>1, <2>5 DEF Passed
      <3>2. PICK x \in Elements : x = at[t] /\ x = list[j]
        BY <1>0, <2>2, <2>3
      <3>3. seen'[t] = Append(seen[t], x)
        BY <1>0, <1>7, <2>5, <3>2
      <3>4. /\ Len(seen'[t]) = k + 1 /\ seen'[t][k + 1] = x
            /\ \A i \in 1..k : seen'[t][i] = seen[t][i]
        BY <1>0, <3>1, <3>3
      <3> QED
        BY <2>3, <3>1, <3>2, <3>4
    <2>6. ASSUME op[t] = "contains" PROVE \A i \in 1..j : list[i] # arg[t]
      BY <1>7, <2>1, <2>2, <2>3, <2>6 DEF Passed
    <2>7. Passed(t, j)'
      BY <1>7, <2>4, <2>5, <2>6 DEF Passed
    <2>8. j \in 0..Len(list')
      BY <1>0, <1>7
    <2>9. Local(t)'
      BY <1>7, <2>7, <2>8 DEF Local
    <2> QED
      BY <1>a, <2>9 DEF LocalInv
  <1>8. CASE ForEachStep(t)
    <2>1. CASE WalkDone(t)
      BY <1>0, <1>2, <1>8, <2>1 DEF ForEachStep
    <2>2. CASE ~WalkDone(t)
      BY <1>7, <1>8, <2>2 DEF ForEachStep, WalkDone
    <2> QED
      BY <2>1, <2>2
  <1>9. CASE ContainsStep(t)
    <2>1. CASE pc'[t] = "unlock"
      BY <1>2, <2>1
    <2>2. CASE /\ at[t] \notin {NULL, arg[t]} /\ UNCHANGED pc
               /\ at' = [at EXCEPT ![t] = After(list, at[t])]
      BY <1>7, <1>9, <2>2 DEF ContainsStep
    <2> QED
      BY <1>0, <1>9, <2>1, <2>2 DEF ContainsStep
  <1> QED
    BY <1>0, <1>1, <1>2, <1>3, <1>4, <1>5, <1>6, <1>8, <1>9
    DEF Continue, generic_queue_enqueue, generic_queue_dequeue,
        generic_queue_is_empty, generic_queue_size,
        generic_queue_set_free_function, PeekGet

LEMMA LocalInvStep ==
  ASSUME TypeInv, OwnerInv, LocalInv, [Next]_vars
  PROVE  LocalInv'
  <1>1. ASSUME NEW t \in Threads, Begin(t) PROVE LocalInv'
    <2>1. PICK o, x : Call(t, o, x)
      BY <1>1, BeginIsCall
    <2>2. DOMAIN pc = Threads /\ DOMAIN op = Threads /\ DOMAIN arg = Threads
      BY DEF TypeInv, TypeOK
    <2>3. /\ pc[t] = "idle" /\ pc' = [pc EXCEPT ![t] = "lock"]
          /\ op' = [op EXCEPT ![t] = o] /\ arg' = [arg EXCEPT ![t] = x]
          /\ UNCHANGED << list, free_function, at, seen >>
      BY <2>1 DEF Call, Goto, listVars
    <2>4. Local(t)'
      BY <2>2, <2>3 DEF LocalInv, Local
    <2>5. ASSUME NEW u \in Threads \ {t} PROVE Local(u)'
      BY <2>2, <2>3, <2>5, LocalOfOthers DEF LocalInv
    <2> QED
      BY <2>4, <2>5 DEF LocalInv
  <1>2. CASE FreeBegin \/ generic_queue_syn_free \/ UNCHANGED vars
    <2>1. ASSUME NEW u \in Threads PROVE Local(u)'
      <3>1. UNCHANGED << pc, op, arg, at, seen >>
        BY <1>2 DEF FreeBegin, generic_queue_syn_free, vars, threadVars
      <3>2. pc[u] \in Critical => UNCHANGED << list, free_function >>
        BY <1>2
        DEF FreeBegin, generic_queue_syn_free, vars, listVars, TypeInv, CallInv,
            Critical
      <3> QED
        BY <3>1, <3>2, LocalOfOthers DEF LocalInv
    <2> QED
      BY <2>1 DEF LocalInv
  <1> QED
    BY <1>1, <1>2, LocalInvContinue DEF Next

LEMMA LocalInvariant == Spec => []LocalInv
  <1>1. Init => LocalInv
    BY DEF Init, LocalInv, Local
  <1>2. TypeInv /\ OwnerInv /\ LocalInv /\ [Next]_vars => LocalInv'
    BY LocalInvStep
  <1> QED
    BY <1>1, <1>2, OwnerInvariant, PTL DEF Spec

-----------------------------------------------------------------------------
(* The locked queue implements AtomicQueue: a call acts at one step, clear *)
(* when the list is empty and the walks when they reach their end, and all *)
(* other steps leave the atomic queue as it is.                            *)

Clearing(t) == op[t] = "clear" /\ pc[t] = "call"

\* The queue when no thread clears it, before and after a step.
LEMMA QueueIsList ==
  ASSUME list \in Seq(Elements), \A u \in Threads : ~Clearing(u)
  PROVE  Queue = list
  BY ConcatEmptySeq DEF Queue, Cleared, Clearing

LEMMA NextQueueIsList ==
  ASSUME list' \in Seq(Elements), \A u \in Threads : ~Clearing(u)'
  PROVE  Queue' = list'
  BY ConcatEmptySeq DEF Queue, Cleared, Clearing

\* The queue while thread t clears it.
LEMMA QueueIsCleared ==
  ASSUME NEW t \in Threads, Clearing(t), \A u \in Threads : Clearing(u) => u = t
  PROVE  Queue = seen[t] \o list
  <1>1. { u \in Threads : op[u] = "clear" /\ pc[u] = "call" } = {t}
    BY DEF Clearing
  <1> QED
    BY <1>1 DEF Queue, Cleared

LEMMA NextQueueIsCleared ==
  ASSUME NEW t \in Threads, Clearing(t)', \A u \in Threads : Clearing(u)' => u = t
  PROVE  Queue' = seen'[t] \o list'
  <1>1. { u \in Threads : op'[u] = "clear" /\ pc'[u] = "call" } = {t}
    BY DEF Clearing
  <1> QED
    BY <1>1 DEF Queue, Cleared

LEMMA ClearedUnchanged ==
  ASSUME list \in Seq(Elements), UNCHANGED << list, seen >>,
         \A u, v \in Threads : Clearing(u) /\ Clearing(v) => u = v,
         \A u \in Threads : Clearing(u)' <=> Clearing(u)
  PROVE  Queue' = Queue
  <1>1. CASE \A u \in Threads : ~Clearing(u)
    BY <1>1, QueueIsList, NextQueueIsList
  <1>2. CASE \E t \in Threads : Clearing(t)
    <2>1. PICK t \in Threads : Clearing(t)
      BY <1>2
    <2>2. Clearing(t)' /\ \A u \in Threads : (Clearing(u) => u = t) /\ (Clearing(u)' => u = t)
      BY <2>1
    <2>3. Queue = seen[t] \o list
      BY <2>1, <2>2, QueueIsCleared
    <2>4. Queue' = seen'[t] \o list'
      BY <2>2, NextQueueIsCleared
    <2> QED
      BY <2>3, <2>4
  <1> QED
    BY <1>1, <1>2

\* A thread's call is answered.
LEMMA AskedAnswered ==
  ASSUME NEW t \in Threads, pc'[t] = "unlock",
         \A u \in Threads \ {t} : pc'[u] = pc[u] /\ op'[u] = op[u] /\ arg'[u] = arg[u]
  PROVE  Asked' = [Asked EXCEPT ![t] = << >>]
  BY DEF Asked

\* A step of a thread that has the mutex and answers its call.
LEMMA AnswerStep ==
  ASSUME TypeInv, TypeInv', NEW t \in Threads, pc[t] \in {"call", "get", "walk"},
         NEW a, Result(t, a), UNCHANGED << op, arg, freeing >>
  PROVE  /\ A!Answer(t, a)
         /\ Asked[t] = << op[t], arg[t] >>
         /\ ~Clearing(t) => Queue = list
         /\ Queue' = list'
  <1>1. /\ DOMAIN pc = Threads /\ list \in Seq(Elements) /\ list' \in Seq(Elements)
    BY DEF TypeInv, TypeOK
  <1>2. \A u \in Threads \ {t} : ~Clearing(u)
    BY DEF TypeInv, CallInv, Critical, Clearing
  <1>3. ~Clearing(t) => Queue = list
    BY <1>1, <1>2, QueueIsList
  <1>4. Queue' = list'
    BY <1>1, <1>2, NextQueueIsList DEF Result, Goto, Clearing
  <1>5. Asked' = [Asked EXCEPT ![t] = << >>]
    BY <1>1, AskedAnswered DEF Result, Goto
  <1>6. Asked[t] = << op[t], arg[t] >>
    BY DEF Asked
  <1> QED
    BY <1>3, <1>4, <1>5, <1>6 DEF A!Answer, A!Idle, Result, Closed

\* A step of a thread that has the mutex, goes on and leaves the list alone.
LEMMA InnerStep ==
  ASSUME TypeInv, NEW t \in Threads, pc[t] \in Critical, pc'[t] \in Critical,
         pc[t] = "unlock" <=> pc'[t] = "unlock", ~Clearing(t), ~Clearing(t)',
         \A u \in Threads \ {t} : pc'[u] = pc[u],
         UNCHANGED << op, arg, list, free_function, answer, freeing >>
  PROVE  UNCHANGED A!queueVars
  <1>1. \A u \in Threads : ~Clearing(u) /\ ~Clearing(u)'
    BY DEF TypeInv, CallInv, Critical, Clearing
  <1>2. Queue = list /\ Queue' = list'
    BY <1>1, QueueIsList, NextQueueIsList DEF TypeInv, TypeOK
  <1>3. Asked' = Asked
    BY DEF Asked, Critical
  <1> QED
    BY <1>2, <1>3 DEF A!queueVars, Closed

LEMMA ContinueSimulated ==
  ASSUME TypeInv, TypeInv', OwnerInv, LocalInv, NEW t \in Threads, Continue(t)
  PROVE  A!Next \/ UNCHANGED A!queueVars
  <1> USE DEF Goto, In, listVars
  <1>0. /\ DOMAIN pc = Threads /\ DOMAIN op = Threads /\ DOMAIN arg = Threads
        /\ list \in Seq(Elements) /\ seen[t] \in Seq(Elements) /\ Len(list) \in Nat
        /\ DOMAIN list = 1..Len(list)
    BY DEF TypeInv, TypeOK
  <1>a. pc[t] # "idle" => CallOK(op[t], arg[t])
    BY DEF TypeInv, CallInv
  <1>b. Local(t)
    BY DEF LocalInv
  <1>c. \A u \in Threads \ {t} : pc[t] \in Critical => pc[u] \notin Critical
    BY DEF TypeInv, CallInv
  <1>1. CASE Lock(t)
    <2>1. \A u \in Threads : ~Clearing(u)
      BY <1>1, QueueAssumption DEF Lock, TypeInv, CallInv, Critical, Clearing
    <2>2. Queue = list
      BY <1>0, <2>1, QueueIsList
    <2>3. Asked' = Asked
      BY <1>0, <1>1 DEF Lock, Asked
    <2>4. Queue' = list'
      <3>1. CASE Clearing(t)'
        <4>1. Queue' = seen'[t] \o list'
          <5>1. \A u \in Threads : Clearing(u)' => u = t
            BY <1>0, <1>1, <2>1 DEF Lock, Clearing
          <5> QED
            BY <3>1, <5>1, NextQueueIsCleared
        <4>2. seen'[t] = << >> /\ list' = list
          BY <1>b, <1>1 DEF Lock, Local
        <4> QED
          BY <1>0, <4>1, <4>2, ConcatEmptySeq
      <3>2. CASE ~Clearing(t)'
        <4>1. \A u \in Threads : ~Clearing(u)'
          BY <1>0, <1>1, <2>1, <3>2 DEF Lock, Clearing
        <4> QED
          BY <1>0, <1>1, <4>1, NextQueueIsList DEF Lock
      <3> QED
        BY <3>1, <3>2
    <2> QED
      BY <1>1, <2>2, <2>3, <2>4 DEF Lock, A!queueVars, Closed
  <1>2. CASE Unlock(t)
    <2>1. \A u \in Threads : ~Clearing(u) /\ ~Clearing(u)'
      BY <1>0, <1>c, <1>2 DEF Unlock, Critical, Clearing
    <2>2. Queue = list /\ Queue' = list'
      BY <1>0, <1>2, <2>1, QueueIsList, NextQueueIsList DEF Unlock
    <2>3. Asked' = Asked
      BY <1>0, <1>2 DEF Unlock, Asked
    <2> QED
      BY <1>2, <2>2, <2>3 DEF Unlock, A!queueVars, Closed
  <1>3. CASE generic_queue_enqueue(t)
    <2>1. PICK x \in Elements : x = arg[t]
      BY <1>a, <1>3 DEF generic_queue_enqueue, CallOK
    <2>2. CASE list' = Append(list, arg[t]) /\ Result(t, << "done" >>)
      <3>1. A!Enqueue(t, x)
        BY <1>3, <2>1, <2>2, AnswerStep
        DEF generic_queue_enqueue, A!Enqueue, A!generic_queue_syn_enqueue, Clearing
      <3> QED
        BY <2>1, <3>1 DEF A!Next
    <2>3. CASE UNCHANGED list /\ Result(t, << "failed" >>)
      <3>1. A!Fail(t)
        BY <1>3, <2>3, AnswerStep
        DEF generic_queue_enqueue, A!Fail, A!Idle, Clearing
      <3> QED
        BY <3>1 DEF A!Next
    <2> QED
      BY <1>3, <2>2, <2>3 DEF generic_queue_enqueue
  <1>4. CASE generic_queue_dequeue(t)
    <2>0. op[t] = "dequeue" /\ pc[t] = "call" /\ ~Clearing(t) /\ arg[t] \in BOOLEAN
      BY <1>a, <1>4 DEF generic_queue_dequeue, CallOK, Clearing
    <2>1. CASE arg[t] = TRUE
      <3>1. /\ Result(t, << "data", A!generic_queue_syn_dequeue(list) >>)
            /\ list' = A!dequeued_queue(list)
        BY <1>4, <2>1
        DEF generic_queue_dequeue, A!generic_queue_syn_dequeue, A!dequeued_queue
      <3>2. A!Dequeue(t)
        BY <1>4, <2>0, <2>1, <3>1, AnswerStep DEF generic_queue_dequeue, A!Dequeue
      <3> QED
        BY <3>2 DEF A!Next
    <2>2. CASE arg[t] = FALSE
      <3>1. IF list # << >> /\ ~free_function
            THEN Result(t, << "failed" >>) /\ list' = list
            ELSE Result(t, << "done" >>) /\ list' = A!dequeued_queue(list)
        BY <1>4, <2>2 DEF generic_queue_dequeue, A!dequeued_queue
      <3>2. A!Discard(t)
        BY <1>4, <2>0, <2>2, <3>1, AnswerStep DEF generic_queue_dequeue, A!Discard
      <3> QED
        BY <3>2 DEF A!Next
    <2> QED
      BY <2>0, <2>1, <2>2
  <1>5. CASE generic_queue_is_empty(t)
    <2>1. A!Look(t)
      BY <1>5, AnswerStep
      DEF generic_queue_is_empty, A!Look, A!Idle, A!Seen,
          A!generic_queue_syn_is_empty, Clearing
    <2> QED
      BY <2>1 DEF A!Next
  <1>6. CASE generic_queue_size(t)
    <2>1. A!Look(t)
      BY <1>6, AnswerStep DEF generic_queue_size, A!Look, A!Idle, A!Seen, Clearing
    <2> QED
      BY <2>1 DEF A!Next
  <1>7. CASE generic_queue_set_free_function(t)
    <2>1. PICK f \in BOOLEAN : f = arg[t]
      BY <1>a, <1>7 DEF generic_queue_set_free_function, CallOK
    <2>2. A!SetFree(t, f)
      BY <1>7, <2>1, AnswerStep
      DEF generic_queue_set_free_function, A!SetFree, Clearing
    <2> QED
      BY <2>1, <2>2 DEF A!Next
  <1>8. CASE generic_queue_clear(t)
    <2>1. Clearing(t) /\ arg[t] = NULL /\ \A u \in Threads : Clearing(u) => u = t
      BY <1>a, <1>c, <1>8 DEF generic_queue_clear, CallOK, Clearing, Critical
    <2>2. Queue = seen[t] \o list
      BY <2>1, QueueIsCleared
    <2>3. CASE list = << >> /\ Result(t, << "done" >>) /\ UNCHANGED << list, freed, seen >>
      <3>1. Queue = seen[t]
        BY <1>0, <2>2, <2>3, ConcatEmptySeq
      <3>2. Queue # << >> => free_function
        BY <1>b, <1>8, <3>1 DEF generic_queue_clear, Local
      <3>3. A!Clear(t)
        BY <1>8, <2>1, <2>3, <3>2, AnswerStep DEF generic_queue_clear, A!Clear
      <3> QED
        BY <3>3 DEF A!Next
    <2>4. CASE /\ list # << >> /\ ~free_function /\ Result(t, << "failed" >>)
               /\ UNCHANGED << list, freed, seen >>
      <3>1. seen[t] = << >>
        BY <1>b, <1>8, <2>4 DEF generic_queue_clear, Local
      <3>2. Queue = list
        BY <1>0, <2>2, <3>1, ConcatEmptySeq
      <3>3. A!Clear(t)
        BY <1>8, <2>1, <2>4, <3>2, AnswerStep DEF generic_queue_clear, A!Clear
      <3> QED
        BY <3>3 DEF A!Next
    <2>5. CASE /\ list # << >> /\ list' = Tail(list)
               /\ seen' = [seen EXCEPT ![t] = Append(seen[t], Head(list))]
               /\ UNCHANGED << pc, answer >>
      <3>1. UNCHANGED << op, arg, free_function, freeing >>
        BY <1>8 DEF generic_queue_clear
      <3>2. Queue' = seen'[t] \o list'
        <4>1. Clearing(t)' /\ \A u \in Threads : Clearing(u)' => u = t
          BY <2>1, <2>5, <3>1 DEF Clearing
        <4> QED
          BY <4>1, NextQueueIsCleared
      <3>3. seen'[t] = Append(seen[t], Head(list))
        BY <2>5 DEF TypeInv, TypeOK
      <3>4. Queue' = Queue
        BY <1>0, <2>2, <2>5, <3>2, <3>3, MoveHead
      <3>5. Asked' = Asked
        BY <2>5, <3>1 DEF Asked
      <3> QED
        BY <2>5, <3>1, <3>4, <3>5 DEF A!queueVars, Closed
    <2> QED
      BY <1>8, <2>3, <2>4, <2>5 DEF generic_queue_clear
  <1>9. CASE PeekBegin(t)
    <2>1. op[t] \in {"peek", "peek_rear"} /\ ~Clearing(t)
      BY <1>9 DEF PeekBegin, Clearing
    <2>2. CASE list = << >> /\ Result(t, << "data", NULL >>)
      <3>1. A!Look(t)
        BY <1>9, <2>1, <2>2, AnswerStep
        DEF PeekBegin, A!Look, A!Idle, A!Seen, A!generic_queue_syn_dequeue, A!Back
      <3> QED
        BY <3>1 DEF A!Next
    <2>3. CASE Result(t, << "failed" >>)
      <3>1. A!Fail(t)
        BY <1>9, <2>1, <2>3, AnswerStep DEF PeekBegin, A!Fail, A!Idle
      <3> QED
        BY <3>1 DEF A!Next
    <2>4. CASE Goto(t, "get") /\ UNCHANGED answer
      BY <1>0, <1>9, <2>1, <2>4, InnerStep DEF PeekBegin, Critical, Clearing
    <2> QED
      BY <1>9, <2>2, <2>3, <2>4 DEF PeekBegin
  <1>10. CASE PeekGet(t)
    <2>1. op[t] \in {"peek", "peek_rear"} /\ ~Clearing(t)
      BY <1>10 DEF PeekGet, TypeInv, CallInv, Clearing
    <2>2. list # << >> /\ at[t] = list[IF op[t] = "peek" THEN 1 ELSE Len(list)]
      BY <1>b, <1>10 DEF PeekGet, Local
    <2>3. Head(list) = list[1]
      BY <1>0, <2>2, HeadAndTail
    <2>4. A!Look(t)
      BY <1>10, <2>1, <2>2, <2>3, AnswerStep
      DEF PeekGet, A!Look, A!Idle, A!Seen, A!generic_queue_syn_dequeue, A!Back
    <2> QED
      BY <2>4 DEF A!Next
  <1>11. CASE WalkBegin(t)
    <2>1. op[t] \in {"contains", "for_each"} /\ ~Clearing(t)
      BY <1>11 DEF WalkBegin, Walks, Clearing
    <2>2. CASE Result(t, << "failed" >>)
      <3>1. A!Fail(t)
        BY <1>11, <2>1, <2>2, AnswerStep DEF WalkBegin, A!Fail, A!Idle
      <3> QED
        BY <3>1 DEF A!Next
    <2>3. CASE Goto(t, "walk") /\ UNCHANGED answer
      BY <1>0, <1>11, <2>1, <2>3, InnerStep DEF WalkBegin, Critical, Clearing
    <2> QED
      BY <1>11, <2>2, <2>3 DEF WalkBegin
  <1>12. CASE ForEachStep(t)
    <2>1. op[t] = "for_each" /\ ~Clearing(t)
      BY <1>12 DEF ForEachStep, Clearing
    <2>2. CASE WalkDone(t)
      <3>1. PICK k \in 0..Len(list) : Passed(t, k)
        BY <1>b, <1>12 DEF ForEachStep, Local
      <3>2. k = Len(list)
        <4>1. SUFFICES ASSUME k # Len(list) PROVE FALSE
          OBVIOUS
        <4>2. list[k + 1] \in Elements /\ at[t] = list[k + 1]
          BY <1>0, <3>1, <4>1 DEF Passed
        <4> QED
          BY <2>2, <4>2, QueueAssumption DEF WalkDone
      <3>3. seen[t] = list
        BY <1>0, <2>1, <3>1, <3>2, SeqEqual DEF Passed
      <3>4. Result(t, << "each" >> \o list)
        BY <1>12, <2>2, <3>3 DEF ForEachStep
      <3>5. A!Look(t)
        BY <1>12, <2>1, <3>4, AnswerStep DEF ForEachStep, A!Look, A!Idle, A!Seen
      <3> QED
        BY <3>5 DEF A!Next
    <2>3. CASE ~WalkDone(t)
      BY <1>0, <1>12, <2>1, <2>3, InnerStep DEF ForEachStep, Critical, Clearing
    <2> QED
      BY <2>2, <2>3
  <1>13. CASE ContainsStep(t)
    <2>1. op[t] = "contains" /\ ~Clearing(t) /\ arg[t] \in Elements
      BY <1>a, <1>13 DEF ContainsStep, Clearing, CallOK
    <2>2. CASE at[t] \notin {NULL, arg[t]} /\ UNCHANGED << pc, answer >>
      BY <1>0, <1>13, <2>1, <2>2, InnerStep DEF ContainsStep, Critical, Clearing
    <2>3. CASE at[t] \in {NULL, arg[t]} /\ Result(t, << "contains", at[t] # NULL >>)
      <3>1. PICK k \in 0..Len(list) : Passed(t, k)
        BY <1>b, <1>13 DEF ContainsStep, Local
      <3>2. (at[t] # NULL) = (\E i \in DOMAIN list : list[i] = arg[t])
        <4>1. CASE k = Len(list)
          <5>1. at[t] = NULL /\ \A i \in DOMAIN list : list[i] # arg[t]
            BY <1>0, <2>1, <3>1, <4>1 DEF Passed
          <5> QED
            BY <5>1
        <4>2. CASE k # Len(list)
          <5>1. k + 1 \in DOMAIN list /\ at[t] = list[k + 1] /\ list[k + 1] \in Elements
            <6>1. PICK n \in Nat : n = Len(list) /\ DOMAIN list = 1..n
              BY <1>0
            <6>2. k \in 0..n /\ k # n
              BY <3>1, <4>2, <6>1
            <6>3. k + 1 \in 1..n
              BY <6>1, <6>2
            <6>4. list[k + 1] \in Elements
              BY <1>0, <6>1, <6>3
            <6> QED
              BY <3>1, <4>2, <6>1, <6>3, <6>4 DEF Passed
          <5>2. at[t] # NULL /\ at[t] = arg[t]
            BY <2>3, <5>1, QueueAssumption
          <5> QED
            BY <5>1, <5>2
        <4> QED
          BY <4>1, <4>2
      <3>3. /\ A!Answer(t, << "contains", at[t] # NULL >>)
            /\ Asked[t] = << "contains", arg[t] >> /\ Queue = list /\ Queue' = list'
        BY <1>13, <2>1, <2>3, AnswerStep DEF ContainsStep
      <3>4. A!Seen(Asked[t]) = << "contains", at[t] # NULL >>
        <4>1. A!Seen(<< "contains", arg[t] >>)
                = << "contains", \E i \in DOMAIN list : list[i] = arg[t] >>
          BY <3>3 DEF A!Seen
        <4> QED
          BY <3>2, <3>3, <4>1, Zenon
      <3>5. A!Look(t)
        BY <1>13, <3>3, <3>4 DEF ContainsStep, A!Look, A!Idle
      <3> QED
        BY <3>5 DEF A!Next
    <2>4. CASE Result(t, << "failed" >>)
      <3>1. A!Fail(t)
        BY <1>13, <2>1, <2>4, AnswerStep DEF ContainsStep, A!Fail, A!Idle
      <3> QED
        BY <3>1 DEF A!Next
    <2> QED
      BY <1>13, <2>2, <2>3, <2>4 DEF ContainsStep
  <1> QED
    BY <1>1, <1>2, <1>3, <1>4, <1>5, <1>6, <1>7, <1>8, <1>9, <1>10, <1>11, <1>12,
       <1>13
    DEF Continue

LEMMA StepSimulated ==
  ASSUME TypeInv, TypeInv', OwnerInv, LocalInv, [Next]_vars
  PROVE  [A!Next]_(A!queueVars)
  <1>0. /\ DOMAIN pc = Threads /\ DOMAIN op = Threads /\ DOMAIN arg = Threads
        /\ list \in Seq(Elements) /\ list' \in Seq(Elements)
    BY DEF TypeInv, TypeOK
  <1>a. \A u, v \in Threads : Clearing(u) /\ Clearing(v) => u = v
    BY DEF TypeInv, CallInv, Critical, Clearing
  <1>1. ASSUME NEW t \in Threads, Begin(t) PROVE A!Next
    <2>1. PICK o, x : Call(t, o, x) /\ CallOK(o, x)
      BY <1>1, BeginIsCall
    <2>2. << o, x >> \in A!Calls
      BY <2>1 DEF CallOK, A!Calls
    <2>3. /\ pc[t] = "idle" /\ freeing = "no" /\ pc' = [pc EXCEPT ![t] = "lock"]
          /\ op' = [op EXCEPT ![t] = o] /\ arg' = [arg EXCEPT ![t] = x]
          /\ UNCHANGED << list, free_function, seen, answer, freeing >>
      BY <2>1 DEF Call, Goto, listVars
    <2>4. Asked[t] = << >> /\ Asked' = [Asked EXCEPT ![t] = << o, x >>]
      BY <1>0, <2>3 DEF Asked
    <2>5. Queue' = Queue
      <3>1. \A u \in Threads : Clearing(u)' <=> Clearing(u)
        BY <1>0, <2>3 DEF Clearing
      <3> QED
        BY <1>0, <1>a, <2>3, <3>1, ClearedUnchanged
    <2>6. A!Ask(t, << o, x >>)
      BY <2>3, <2>4, <2>5 DEF A!Ask, A!Idle, Closed
    <2> QED
      BY <1>1, <2>2, <2>6 DEF A!Next
  <1>2. CASE FreeBegin \/ UNCHANGED vars
    <2>1. UNCHANGED << list, pc, op, arg, seen, free_function, answer >>
      BY <1>2 DEF FreeBegin, vars, listVars, threadVars
    <2>2. Queue' = Queue
      BY <1>0, <1>a, <2>1, ClearedUnchanged DEF Clearing
    <2>3. Asked' = Asked
      BY <2>1 DEF Asked
    <2>4. Closed' = Closed
      BY <1>2 DEF FreeBegin, vars, Closed
    <2> QED
      BY <2>1, <2>2, <2>3, <2>4 DEF A!queueVars
  <1>3. CASE generic_queue_syn_free
    <2>1. \A u \in Threads : pc[u] = "idle" /\ pc'[u] = "idle"
      BY <1>3 DEF generic_queue_syn_free, TypeInv, CallInv, threadVars
    <2>2. Queue' = << >>
      BY <1>0, <1>3, <2>1, NextQueueIsList DEF generic_queue_syn_free, Clearing
    <2>3. Asked' = Asked /\ \A u \in Threads : Asked[u] = << >>
      BY <2>1 DEF Asked
    <2>4. A!Close
      BY <1>3, <2>2, <2>3
      DEF generic_queue_syn_free, A!Close, A!Idle, Closed, threadVars
    <2> QED
      BY <2>4 DEF A!Next
  <1> QED
    BY <1>1, <1>2, <1>3, ContinueSimulated DEF Next

\* The queue of generic_queue_syn.c is the atomic FIFO queue that the thread
\* pool and the broker take it for: each call, the ones that walk the list
\* node by node too, acts at one moment with the answer of that moment.
THEOREM QueueIsAtomic == Spec => ImplementsAtomicQueue
  <1>1. Init => A!Init
    <2> SUFFICES ASSUME Init PROVE A!Init
      OBVIOUS
    <2>1. Cleared = << >> /\ Queue = << >>
      BY ConcatEmptySeq DEF Init, Cleared, Queue
    <2>2. Asked = [t \in Threads |-> << >>]
      BY DEF Init, Asked
    <2> QED
      BY <2>1, <2>2 DEF Init, A!Init, A!Idle, Closed
  <1>2. TypeInv /\ TypeInv' /\ OwnerInv /\ LocalInv /\ [Next]_vars
          => [A!Next]_(A!queueVars)
    BY StepSimulated
  <1> QED
    BY <1>1, <1>2, OwnerInvariant, LocalInvariant, PTL
    DEF Spec, ImplementsAtomicQueue, A!Spec

=============================================================================
