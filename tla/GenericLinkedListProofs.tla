---------------------- MODULE GenericLinkedListProofs ----------------------
(***************************************************************************)
(* Theorems about GenericLinkedList for any finite set of nodes and any    *)
(* sets of objects and iterators.                                          *)
(*                                                                         *)
(* The proofs see the list as a chain: the head guard at place 0, the      *)
(* elements of order, the tail guard behind them.  Insertion and removal,  *)
(* at an end or through an iterator, are one operation on the chain each.  *)
(***************************************************************************)
EXTENDS GenericLinkedList, SequenceLemmas, FiniteSetTheorems

Spots == Nodes \cup Guards

\* The node at place k of the chain of the sequence q.
NodeAt(q, k) == IF k = 0 THEN HeadGuard
                ELSE IF k <= Len(q) THEN q[k] ELSE TailGuard

\* The links nx and pv represent the sequence q.
LinkOK(q, nx, pv) ==
  /\ \A k \in 0..Len(q) :
       nx[NodeAt(q, k)] = NodeAt(q, k + 1) /\ pv[NodeAt(q, k + 1)] = NodeAt(q, k)
  /\ pv[HeadGuard] = NULL /\ nx[TailGuard] = NULL
  /\ \A n \in Nodes \ Range(q) : nx[n] = NULL /\ pv[n] = NULL

\* The places of a chain without repetition hold different nodes.
LEMMA NodeAtIsExact ==
  ASSUME NEW q \in Seq(Nodes)
  PROVE  /\ \A k \in 0..(Len(q) + 1) : NodeAt(q, k) \in Spots
         /\ \A n \in Range(q) \cup Guards : \E k \in 0..(Len(q) + 1) : n = NodeAt(q, k)
         /\ \A k \in 1..Len(q) : NodeAt(q, k) = q[k] /\ q[k] \in Nodes
         /\ NodeAt(q, 0) = HeadGuard /\ NodeAt(q, Len(q) + 1) = TailGuard
         /\ \A k \in 0..(Len(q) + 1) : NodeAt(q, k) \in Range(q) \cup Guards
         /\ IsInjective(q) => \A k, l \in 0..(Len(q) + 1) :
                                NodeAt(q, k) = NodeAt(q, l) => k = l
  <1>1. PICK len \in Nat : len = Len(q) /\ DOMAIN q = 1..len
    BY LenProperties
  <1>2. \A k \in 1..len : q[k] \in Nodes /\ NodeAt(q, k) = q[k]
    BY <1>1, ElementOfSeq DEF NodeAt
  <1>3. NodeAt(q, 0) = HeadGuard /\ NodeAt(q, len + 1) = TailGuard
    BY <1>1 DEF NodeAt
  <1>4. \A k \in 0..(len + 1) : k = 0 \/ k = len + 1 \/ k \in 1..len
    BY <1>1
  <1>5. \A n \in Range(q) : \E k \in 1..len : n = q[k]
    BY <1>1 DEF Range
  <1>6. \A k \in 1..len : q[k] \in Range(q)
    BY <1>1 DEF Range
  <1>7. \A n \in Range(q) \cup Guards : \E k \in 0..(len + 1) : n = NodeAt(q, k)
    BY <1>1, <1>2, <1>3, <1>5 DEF Guards
  <1>8. HeadGuard # TailGuard /\ HeadGuard \notin Nodes /\ TailGuard \notin Nodes
    BY ListAssumption DEF Guards
  <1>9. ASSUME IsInjective(q), NEW k \in 0..(len + 1), NEW l \in 0..(len + 1),
               NodeAt(q, k) = NodeAt(q, l)
        PROVE  k = l
    <2>1. \A i, j \in 1..len : q[i] = q[j] => i = j
      BY <1>1, <1>9 DEF IsInjective
    <2> QED BY <2>1, <1>2, <1>3, <1>4, <1>8, <1>9
  <1> QED BY <1>1, <1>2, <1>3, <1>4, <1>6, <1>7, <1>9 DEF Spots, Guards

\* A node linked in behind place k of the chain.
LEMMA LinkIn ==
  ASSUME NEW q \in Seq(Nodes), IsInjective(q), NEW n \in Nodes \ Range(q),
         NEW nx \in [Spots -> Spots \cup {NULL}], NEW pv \in [Spots -> Spots \cup {NULL}],
         LinkOK(q, nx, pv), NEW k \in 0..Len(q),
         NEW r \in Seq(Nodes), Len(r) = Len(q) + 1, Range(r) = Range(q) \cup {n},
         \A i \in 1..Len(r) :
           r[i] = IF i <= k THEN q[i] ELSE IF i = k + 1 THEN n ELSE q[i - 1],
         NEW nx2, nx2 = [nx EXCEPT ![n] = NodeAt(q, k + 1), ![NodeAt(q, k)] = n],
         NEW pv2, pv2 = [pv EXCEPT ![NodeAt(q, k + 1)] = n, ![n] = NodeAt(q, k)]
  PROVE  LinkOK(r, nx2, pv2)
  <1>1. PICK len \in Nat : len = Len(q) /\ Len(r) = len + 1
    BY LenProperties
  <1>2. \A i \in 0..(len + 2) :
          NodeAt(r, i) = IF i <= k THEN NodeAt(q, i)
                         ELSE IF i = k + 1 THEN n ELSE NodeAt(q, i - 1)
    BY <1>1 DEF NodeAt
  <1>3. /\ \A i \in 0..(len + 1) : NodeAt(q, i) \in Spots /\ NodeAt(q, i) # n
        /\ \A i, j \in 0..(len + 1) : NodeAt(q, i) = NodeAt(q, j) => i = j
        /\ NodeAt(q, 0) = HeadGuard /\ NodeAt(q, len + 1) = TailGuard
    <2>1. n \notin Range(q) \cup Guards
      BY ListAssumption DEF Guards
    <2> QED BY <2>1, <1>1, NodeAtIsExact
  <1>4. n \in Spots /\ NodeAt(q, k) # n /\ NodeAt(q, k + 1) # n
    BY <1>1, <1>3 DEF Spots
  <1>5. /\ nx2[n] = NodeAt(q, k + 1) /\ nx2[NodeAt(q, k)] = n
        /\ \A m \in Spots : m # n /\ m # NodeAt(q, k) => nx2[m] = nx[m]
    BY <1>1, <1>3, <1>4
  <1>6. /\ pv2[n] = NodeAt(q, k) /\ pv2[NodeAt(q, k + 1)] = n
        /\ \A m \in Spots : m # n /\ m # NodeAt(q, k + 1) => pv2[m] = pv[m]
    BY <1>1, <1>3, <1>4
  <1>7. ASSUME NEW i \in 0..(len + 1)
        PROVE  nx2[NodeAt(r, i)] = NodeAt(r, i + 1) /\ pv2[NodeAt(r, i + 1)] = NodeAt(r, i)
    <2>1. i + 1 \in 0..(len + 2) /\ i \in 0..(len + 2) /\ k \in 0..len
      BY <1>1
    <2>2. CASE i < k
      <3>1. /\ NodeAt(r, i) = NodeAt(q, i) /\ NodeAt(r, i + 1) = NodeAt(q, i + 1)
            /\ i \in 0..len /\ i # k /\ i + 1 # k + 1 /\ i + 1 \in 0..(len + 1)
            /\ k \in 0..(len + 1) /\ k + 1 \in 0..(len + 1) /\ i \in 0..(len + 1)
        BY <2>1, <2>2, <1>2
      <3>2. NodeAt(q, i) # NodeAt(q, k) /\ NodeAt(q, i + 1) # NodeAt(q, k + 1)
        BY <3>1, <1>3
      <3>3. nx2[NodeAt(q, i)] = nx[NodeAt(q, i)] /\ pv2[NodeAt(q, i + 1)] = pv[NodeAt(q, i + 1)]
        BY <3>1, <3>2, <1>3, <1>5, <1>6
      <3> QED BY <3>1, <3>3, <1>1 DEF LinkOK
    <2>3. CASE i = k
      <3>1. NodeAt(r, i) = NodeAt(q, k) /\ NodeAt(r, i + 1) = n
        BY <2>1, <2>3, <1>2
      <3> QED BY <3>1, <1>5, <1>6
    <2>4. CASE i = k + 1
      <3>1. NodeAt(r, i) = n /\ NodeAt(r, i + 1) = NodeAt(q, k + 1)
        BY <2>1, <2>4, <1>2
      <3> QED BY <3>1, <1>5, <1>6
    <2>5. CASE i > k + 1
      <3>0. i - 1 \in 0..len /\ i = (i - 1) + 1
        BY <2>1, <2>5
      <3>1. PICK j \in 0..len : i = j + 1 /\ i - 1 = j /\ (i + 1) - 1 = j + 1
        BY <3>0
      <3>a. ~(i <= k) /\ i # k + 1 /\ ~(i + 1 <= k) /\ i + 1 # k + 1
        BY <2>1, <2>5
      <3>b. NodeAt(r, i) = NodeAt(q, i - 1) /\ NodeAt(r, i + 1) = NodeAt(q, (i + 1) - 1)
        BY <2>1, <3>a, <1>2
      <3>2. /\ NodeAt(r, i) = NodeAt(q, j) /\ NodeAt(r, i + 1) = NodeAt(q, j + 1)
            /\ j # k /\ j + 1 # k + 1 /\ j + 1 \in 0..(len + 1) /\ j \in 0..(len + 1)
            /\ k \in 0..(len + 1) /\ k + 1 \in 0..(len + 1)
        BY <2>1, <2>5, <3>1, <3>b
      <3>3. NodeAt(q, j) # NodeAt(q, k) /\ NodeAt(q, j + 1) # NodeAt(q, k + 1)
        BY <3>2, <1>3
      <3>4. nx2[NodeAt(q, j)] = nx[NodeAt(q, j)] /\ pv2[NodeAt(q, j + 1)] = pv[NodeAt(q, j + 1)]
        BY <3>2, <3>3, <1>3, <1>5, <1>6
      <3> QED BY <3>1, <3>2, <3>4, <1>1 DEF LinkOK
    <2> QED BY <2>1, <2>2, <2>3, <2>4, <2>5
  <1>8. pv2[HeadGuard] = NULL /\ nx2[TailGuard] = NULL
    <2>1. 0 # k + 1 /\ len + 1 # k /\ 0 \in 0..(len + 1) /\ len + 1 \in 0..(len + 1)
          /\ k \in 0..(len + 1) /\ k + 1 \in 0..(len + 1)
      BY <1>1
    <2>2. /\ NodeAt(q, 0) # NodeAt(q, k + 1) /\ NodeAt(q, len + 1) # NodeAt(q, k)
          /\ NodeAt(q, 0) # n /\ NodeAt(q, len + 1) # n
      BY <2>1, <1>3
    <2> QED BY <2>2, <1>3, <1>5, <1>6 DEF LinkOK, Spots, Guards
  <1>9. ASSUME NEW m \in Nodes \ Range(r)
        PROVE  nx2[m] = NULL /\ pv2[m] = NULL
    <2>1. m \in Spots /\ m # n /\ m \in Nodes \ Range(q) /\ m \notin Guards
      BY ListAssumption DEF Spots
    <2>2. m # NodeAt(q, k) /\ m # NodeAt(q, k + 1)
      BY <2>1, <1>1, NodeAtIsExact
    <2> QED BY <2>1, <2>2, <1>5, <1>6 DEF LinkOK
  <1> QED BY <1>1, <1>7, <1>8, <1>9 DEF LinkOK

\* The chain without its place k.
LEMMA LinkOut ==
  ASSUME NEW q \in Seq(Nodes), IsInjective(q), NEW k \in 1..Len(q),
         NEW nx \in [Spots -> Spots \cup {NULL}], NEW pv \in [Spots -> Spots \cup {NULL}],
         LinkOK(q, nx, pv),
         NEW nx2, nx2 = [nx EXCEPT ![NodeAt(q, k - 1)] = NodeAt(q, k + 1), ![q[k]] = NULL],
         NEW pv2, pv2 = [pv EXCEPT ![NodeAt(q, k + 1)] = NodeAt(q, k - 1), ![q[k]] = NULL]
  PROVE  LinkOK(RemoveAt(q, k), nx2, pv2)
  <1> DEFINE r == RemoveAt(q, k)
  <1>1. PICK len \in Nat : len = Len(q) /\ Len(r) = len - 1 /\ k \in 1..len
    BY LenProperties, RemoveAtProperties
  <1>2. /\ \A i \in 1..(len - 1) : r[i] = IF i < k THEN q[i] ELSE q[i + 1]
        /\ Range(r) = Range(q) \ {q[k]}
    BY <1>1, RemoveAtProperties
  <1> HIDE DEF r
  <1>3. \A i \in 0..len :
          NodeAt(r, i) = IF i < k THEN NodeAt(q, i) ELSE NodeAt(q, i + 1)
    BY <1>1, <1>2 DEF NodeAt
  <1>4. /\ \A i \in 0..(len + 1) : NodeAt(q, i) \in Spots
        /\ \A i, j \in 0..(len + 1) : NodeAt(q, i) = NodeAt(q, j) => i = j
        /\ NodeAt(q, 0) = HeadGuard /\ NodeAt(q, len + 1) = TailGuard
        /\ NodeAt(q, k) = q[k]
    BY <1>1, NodeAtIsExact
  <1>5. /\ k - 1 \in 0..(len + 1) /\ k \in 0..(len + 1) /\ k + 1 \in 0..(len + 1)
        /\ k - 1 # k /\ k + 1 # k
    BY <1>1
  <1>6. /\ nx2[NodeAt(q, k - 1)] = NodeAt(q, k + 1) /\ nx2[q[k]] = NULL
        /\ \A m \in Spots : m # q[k] /\ m # NodeAt(q, k - 1) => nx2[m] = nx[m]
    BY <1>4, <1>5
  <1>7. /\ pv2[NodeAt(q, k + 1)] = NodeAt(q, k - 1) /\ pv2[q[k]] = NULL
        /\ \A m \in Spots : m # q[k] /\ m # NodeAt(q, k + 1) => pv2[m] = pv[m]
    BY <1>4, <1>5
  <1>8. ASSUME NEW i \in 0..(len - 1)
        PROVE  nx2[NodeAt(r, i)] = NodeAt(r, i + 1) /\ pv2[NodeAt(r, i + 1)] = NodeAt(r, i)
    <2>1. i + 1 \in 0..len /\ i \in 0..len
      BY <1>1
    <2>2. CASE i + 1 < k
      <3>1. /\ NodeAt(r, i) = NodeAt(q, i) /\ NodeAt(r, i + 1) = NodeAt(q, i + 1)
            /\ i # k - 1 /\ i # k /\ i + 1 # k + 1 /\ i + 1 # k /\ i + 1 \in 0..(len + 1)
            /\ i \in 0..(len + 1)
        BY <2>1, <2>2, <1>1, <1>3
      <3>2. /\ NodeAt(q, i) # NodeAt(q, k - 1) /\ NodeAt(q, i) # q[k]
            /\ NodeAt(q, i + 1) # NodeAt(q, k + 1) /\ NodeAt(q, i + 1) # q[k]
        BY <3>1, <1>4, <1>5
      <3>3. nx2[NodeAt(q, i)] = nx[NodeAt(q, i)] /\ pv2[NodeAt(q, i + 1)] = pv[NodeAt(q, i + 1)]
        BY <3>1, <3>2, <1>4, <1>6, <1>7
      <3> QED BY <2>1, <3>1, <3>3, <1>1 DEF LinkOK
    <2>3. CASE i + 1 = k
      <3>1. i = k - 1 /\ (i + 1) + 1 = k + 1 /\ i < k /\ ~(i + 1 < k)
        BY <2>3, <1>1
      <3>2. NodeAt(r, i) = NodeAt(q, k - 1) /\ NodeAt(r, i + 1) = NodeAt(q, k + 1)
        BY <2>1, <3>1, <1>3
      <3> QED BY <3>2, <1>6, <1>7
    <2>4. CASE i + 1 > k
      <3>0. ~(i < k) /\ ~(i + 1 < k) /\ i + 1 \in 0..len
        BY <2>1, <2>4, <1>1
      <3>1. PICK j \in 0..len : j = i + 1
        BY <3>0
      <3>2. NodeAt(r, i) = NodeAt(q, j) /\ NodeAt(r, i + 1) = NodeAt(q, j + 1)
        BY <2>1, <3>0, <3>1, <1>3
      <3>3. /\ j # k - 1 /\ j # k /\ j + 1 # k + 1 /\ j + 1 # k
            /\ j + 1 \in 0..(len + 1) /\ j \in 0..(len + 1)
        BY <2>4, <3>1, <1>1
      <3>4. /\ NodeAt(q, j) # NodeAt(q, k - 1) /\ NodeAt(q, j) # q[k]
            /\ NodeAt(q, j + 1) # NodeAt(q, k + 1) /\ NodeAt(q, j + 1) # q[k]
        BY <3>3, <1>4, <1>5
      <3>5. nx2[NodeAt(q, j)] = nx[NodeAt(q, j)] /\ pv2[NodeAt(q, j + 1)] = pv[NodeAt(q, j + 1)]
        BY <3>3, <3>4, <1>4, <1>6, <1>7
      <3> QED BY <3>2, <3>5, <1>1 DEF LinkOK
    <2> QED BY <2>1, <2>2, <2>3, <2>4, <1>1
  <1>9. pv2[HeadGuard] = NULL /\ nx2[TailGuard] = NULL
    <2>1. 0 # k + 1 /\ 0 # k /\ len + 1 # k - 1 /\ len + 1 # k
          /\ 0 \in 0..(len + 1) /\ len + 1 \in 0..(len + 1)
      BY <1>1
    <2>2. /\ NodeAt(q, 0) # NodeAt(q, k + 1) /\ NodeAt(q, len + 1) # NodeAt(q, k - 1)
          /\ NodeAt(q, 0) # q[k] /\ NodeAt(q, len + 1) # q[k]
      BY <2>1, <1>4, <1>5
    <2> QED BY <2>2, <1>4, <1>6, <1>7 DEF LinkOK, Spots, Guards
  <1>10. ASSUME NEW m \in Nodes \ Range(r)
         PROVE  nx2[m] = NULL /\ pv2[m] = NULL
    <2>1. CASE m = q[k]
      BY <2>1, <1>6, <1>7
    <2>2. CASE m # q[k]
      <3>1. m \in Spots /\ m \in Nodes \ Range(q) /\ m \notin Guards
        BY <2>2, <1>2, ListAssumption DEF Spots
      <3>2. m # NodeAt(q, k - 1) /\ m # NodeAt(q, k + 1)
        BY <3>1, <1>1, <1>5, NodeAtIsExact
      <3> QED BY <2>2, <3>1, <3>2, <1>6, <1>7 DEF LinkOK
    <2> QED BY <2>1, <2>2
  <1> QED BY <1>1, <1>8, <1>9, <1>10 DEF LinkOK, r

-----------------------------------------------------------------------------
(* Walks *)

\* f is the path that follows k links from node m, and fewer if it meets g.
IsPath(f, link, m, g, k) ==
  f = [l \in 0..k |-> IF l = 0 THEN m ELSE IF f[l - 1] = g THEN g ELSE link[f[l - 1]]]

\* Reached is the last node of a path that follows the links: its recursive
\* definition defines something.
LEMMA ReachedByPath ==
  ASSUME NEW link, NEW m, NEW g, NEW k \in Nat
  PROVE  \E f : Reached(link, m, g, k) = f[k] /\ IsPath(f, link, m, g, k)
  <1> DEFINE T == { n \in Nat : \E f : f = [l \in 0..n |->
                      IF l = 0 THEN m ELSE IF f[l - 1] = g THEN g ELSE link[f[l - 1]]] }
  <1>1. 0 \in T
    <2>1. [l \in 0..0 |-> m] = [l \in 0..0 |-> IF l = 0 THEN m
             ELSE IF [x \in 0..0 |-> m][l - 1] = g THEN g ELSE link[[x \in 0..0 |-> m][l - 1]]]
      OBVIOUS
    <2> QED BY <2>1
  <1>2. ASSUME NEW n \in Nat, n \in T
        PROVE  n + 1 \in T
    <2>1. PICK f : f = [l \in 0..n |-> IF l = 0 THEN m
                          ELSE IF f[l - 1] = g THEN g ELSE link[f[l - 1]]]
      BY <1>2
    <2> DEFINE h == [l \in 0..(n + 1) |-> IF l <= n THEN f[l]
                       ELSE IF f[n] = g THEN g ELSE link[f[n]]]
    <2>2. ASSUME NEW l \in 0..(n + 1)
          PROVE  h[l] = IF l = 0 THEN m ELSE IF h[l - 1] = g THEN g ELSE link[h[l - 1]]
      <3>1. CASE l = 0
        BY <2>1, <3>1
      <3>2. CASE l \in 1..n
        <4>1. h[l] = f[l] /\ h[l - 1] = f[l - 1] /\ l # 0 /\ l \in 0..n
          BY <3>2
        <4>2. f[l] = IF f[l - 1] = g THEN g ELSE link[f[l - 1]]
          BY <2>1, <4>1
        <4> QED BY <4>1, <4>2
      <3>3. CASE l = n + 1
        <4>1. h[l - 1] = f[n] /\ l # 0
          BY <3>3
        <4> QED BY <3>3, <4>1
      <3> QED BY <3>1, <3>2, <3>3
    <2>3. h = [l \in 0..(n + 1) |-> IF l = 0 THEN m
                 ELSE IF h[l - 1] = g THEN g ELSE link[h[l - 1]]]
      <3>1. DOMAIN h = 0..(n + 1) /\ h = [l \in 0..(n + 1) |-> h[l]]
        OBVIOUS
      <3> HIDE DEF h
      <3> QED BY <2>2, <3>1
    <2> HIDE DEF h
    <2> QED BY <2>3
  <1>3. k \in T
    <2> HIDE DEF T
    <2> QED BY <1>1, <1>2, NatSetInduction
  <1>4. \E f : f = [l \in 0..k |-> IF l = 0 THEN m
                      ELSE IF f[l - 1] = g THEN g ELSE link[f[l - 1]]]
    BY <1>3
  <1> HIDE DEF T
  <1> QED BY <1>4 DEF Reached, IsPath

\* iterator_advance goes k places towards the tail and stops there.
LEMMA ReachedForward ==
  ASSUME NEW q \in Seq(Nodes), IsInjective(q), NEW nx, NEW pv, LinkOK(q, nx, pv),
         NEW p \in 0..(Len(q) + 1), NEW k \in Nat
  PROVE  Reached(nx, NodeAt(q, p), TailGuard, k)
           = NodeAt(q, IF p + k > Len(q) + 1 THEN Len(q) + 1 ELSE p + k)
  <1>0. PICK f : Reached(nx, NodeAt(q, p), TailGuard, k) = f[k] /\ IsPath(f, nx, NodeAt(q, p), TailGuard, k)
    BY ReachedByPath
  <1>1. /\ Reached(nx, NodeAt(q, p), TailGuard, k) = f[k]
        /\ f = [l \in 0..k |-> IF l = 0 THEN NodeAt(q, p)
                  ELSE IF f[l - 1] = TailGuard THEN TailGuard ELSE nx[f[l - 1]]]
    BY <1>0 DEF IsPath
  <1>2. PICK len \in Nat : len = Len(q)
    BY LenProperties
  <1>3. /\ \A i, j \in 0..(len + 1) : NodeAt(q, i) = NodeAt(q, j) => i = j
        /\ NodeAt(q, len + 1) = TailGuard
    BY <1>2, NodeAtIsExact
  <1> DEFINE T == { n \in Nat : n <= k =>
                      f[n] = NodeAt(q, IF p + n > len + 1 THEN len + 1 ELSE p + n) }
  <1>4. 0 \in T
    BY <1>1, <1>2
  <1>5. ASSUME NEW n \in Nat, n \in T, n + 1 <= k
        PROVE  f[n + 1] = NodeAt(q, IF p + (n + 1) > len + 1 THEN len + 1 ELSE p + (n + 1))
    <2>1. f[n + 1] = IF f[n] = TailGuard THEN TailGuard ELSE nx[f[n]]
      <3>1. n + 1 \in 0..k /\ n + 1 # 0 /\ (n + 1) - 1 = n
        BY <1>5
      <3> QED BY <3>1, <1>1
    <2>2. f[n] = NodeAt(q, IF p + n > len + 1 THEN len + 1 ELSE p + n)
      BY <1>5
    <2>3. CASE p + n >= len + 1
      BY <2>1, <2>2, <2>3, <1>2, <1>3
    <2>4. CASE p + n < len + 1
      <3>1. PICK j \in 0..len : j = p + n /\ p + (n + 1) = j + 1
        BY <2>4, <1>2
      <3>2. f[n] = NodeAt(q, j) /\ ~(p + (n + 1) > len + 1)
        BY <2>2, <2>4, <3>1
      <3>3. NodeAt(q, j) # TailGuard
        <4>1. j # len + 1 /\ j \in 0..(len + 1) /\ len + 1 \in 0..(len + 1)
          OBVIOUS
        <4> QED BY <4>1, <1>3
      <3>4. nx[NodeAt(q, j)] = NodeAt(q, j + 1)
        BY <1>2 DEF LinkOK
      <3> QED BY <2>1, <3>1, <3>2, <3>3, <3>4
    <2> QED BY <2>3, <2>4, <1>2
  <1>6. k \in T
    <2>1. \A n \in Nat : n \in T => n + 1 \in T
      BY <1>5
    <2> HIDE DEF T
    <2> QED BY <2>1, <1>4, NatSetInduction
  <1> QED BY <1>1, <1>2, <1>6

\* iterator_reverse_advance goes k places towards the head and stops there.
LEMMA ReachedBackward ==
  ASSUME NEW q \in Seq(Nodes), IsInjective(q), NEW nx, NEW pv, LinkOK(q, nx, pv),
         NEW p \in 0..(Len(q) + 1), NEW k \in Nat
  PROVE  Reached(pv, NodeAt(q, p), HeadGuard, k) = NodeAt(q, IF p < k THEN 0 ELSE p - k)
  <1>0. PICK f : Reached(pv, NodeAt(q, p), HeadGuard, k) = f[k] /\ IsPath(f, pv, NodeAt(q, p), HeadGuard, k)
    BY ReachedByPath
  <1>1. /\ Reached(pv, NodeAt(q, p), HeadGuard, k) = f[k]
        /\ f = [l \in 0..k |-> IF l = 0 THEN NodeAt(q, p)
                  ELSE IF f[l - 1] = HeadGuard THEN HeadGuard ELSE pv[f[l - 1]]]
    BY <1>0 DEF IsPath
  <1>2. PICK len \in Nat : len = Len(q)
    BY LenProperties
  <1>3. /\ \A i, j \in 0..(len + 1) : NodeAt(q, i) = NodeAt(q, j) => i = j
        /\ NodeAt(q, 0) = HeadGuard
    BY <1>2, NodeAtIsExact
  <1> DEFINE T == { n \in Nat : n <= k => f[n] = NodeAt(q, IF p < n THEN 0 ELSE p - n) }
  <1>4. 0 \in T
    BY <1>1, <1>2
  <1>5. ASSUME NEW n \in Nat, n \in T, n + 1 <= k
        PROVE  f[n + 1] = NodeAt(q, IF p < n + 1 THEN 0 ELSE p - (n + 1))
    <2>1. f[n + 1] = IF f[n] = HeadGuard THEN HeadGuard ELSE pv[f[n]]
      <3>1. n + 1 \in 0..k /\ n + 1 # 0 /\ (n + 1) - 1 = n
        BY <1>5
      <3> QED BY <3>1, <1>1
    <2>2. f[n] = NodeAt(q, IF p < n THEN 0 ELSE p - n)
      BY <1>5
    <2>3. CASE p <= n
      BY <2>1, <2>2, <2>3, <1>2, <1>3
    <2>4. CASE p > n
      <3>0. p - (n + 1) \in 0..len /\ p - n = (p - (n + 1)) + 1
        BY <2>4, <1>2
      <3>1. PICK j \in 0..len : j = p - (n + 1) /\ p - n = j + 1
        BY <3>0
      <3>2. f[n] = NodeAt(q, j + 1) /\ ~(p < n + 1)
        BY <2>2, <2>4, <3>1, <1>2
      <3>3. NodeAt(q, j + 1) # HeadGuard
        <4>1. j + 1 # 0 /\ j + 1 \in 0..(len + 1) /\ 0 \in 0..(len + 1)
          OBVIOUS
        <4> QED BY <4>1, <1>3
      <3>4. pv[NodeAt(q, j + 1)] = NodeAt(q, j)
        BY <1>2 DEF LinkOK
      <3> QED BY <2>1, <3>1, <3>2, <3>3, <3>4
    <2> QED BY <2>3, <2>4, <1>2
  <1>6. k \in T
    <2>1. \A n \in Nat : n \in T => n + 1 \in T
      BY <1>5
    <2> HIDE DEF T
    <2> QED BY <2>1, <1>4, NatSetInduction
  <1> QED BY <1>1, <1>2, <1>6

\* No more elements than nodes.
LEMMA LengthBound ==
  ASSUME NEW q \in Seq(Nodes), IsInjective(q)
  PROVE  Len(q) <= Cardinality(Nodes) /\ Cardinality(Nodes) \in Nat
  <1>1. PICK len \in Nat : len = Len(q) /\ DOMAIN q = 1..len
    BY LenProperties
  <1>2. q \in [1..len -> Nodes]
    BY <1>1, LenProperties
  <1>3. q \in Injection(1..len, Nodes)
    BY <1>2 DEF Injection
  <1>4. IsFiniteSet(Nodes)
    BY ListAssumption
  <1>5. Cardinality(1..len) <= Cardinality(Nodes)
    BY <1>3, <1>4, FS_Injection
  <1>6. Cardinality(1..len) = len
    BY FS_Interval
  <1> QED BY <1>1, <1>4, <1>5, <1>6, FS_CardinalityType

\* The place at which a walk from place p towards place e ends.
Stop(q, p, e) == IF p <= e THEN e ELSE Len(q) + 1

\* A walk visits the places from p up to e, or up to the tail guard if e is
\* behind it.
LEMMA WalkIsRange ==
  ASSUME order \in Seq(Nodes), IsInjective(order), LinkOK(order, next, prev),
         NEW p \in 0..(Len(order) + 1), NEW e \in 0..(Len(order) + 1)
  PROVE  LET n == NodeAt(order, p)
             m == NodeAt(order, e)
             s == Stop(order, p, e)
         IN /\ Walk(n, m) = [k \in 1..(s - p) |-> NodeAt(order, p + (k - 1))]
            /\ s - p \in Nat /\ s \in 0..(Len(order) + 1)
            /\ Meets(n, m) <=> p <= e
  <1> DEFINE n == NodeAt(order, p)
             m == NodeAt(order, e)
             s == Stop(order, p, e)
             At(k) == Reached(next, n, TailGuard, k)
             stops == { k \in 0..(Cardinality(Nodes) + 1) : At(k) \in {m, TailGuard} }
  <1>1. PICK len \in Nat : len = Len(order) /\ len <= Cardinality(Nodes)
                           /\ Cardinality(Nodes) \in Nat
    BY LenProperties, LengthBound
  <1>2. /\ \A i, j \in 0..(len + 1) : NodeAt(order, i) = NodeAt(order, j) => i = j
        /\ NodeAt(order, len + 1) = TailGuard
    BY <1>1, NodeAtIsExact
  <1>3. \A k \in Nat : At(k) = NodeAt(order, IF p + k > len + 1 THEN len + 1 ELSE p + k)
    BY <1>1, ReachedForward
  <1>4. s \in 0..(len + 1) /\ p <= s /\ s - p \in Nat /\ s \in {e, len + 1}
        /\ (p <= e <=> s = e)
    BY <1>1 DEF Stop
  <1> HIDE DEF At, n, m, s
  <1>5. At(s - p) = NodeAt(order, s) /\ NodeAt(order, s) \in {m, TailGuard}
    <2>1. p + (s - p) = s /\ ~(s > len + 1)
      BY <1>1, <1>4
    <2> QED BY <2>1, <1>2, <1>3, <1>4 DEF m
  <1>6. s - p \in stops
    BY <1>1, <1>4, <1>5
  <1>7. ASSUME NEW k \in Nat, k < s - p
        PROVE  At(k) = NodeAt(order, p + k) /\ At(k) \notin {m, TailGuard}
    <2>1. /\ p + k \in 0..(len + 1) /\ ~(p + k > len + 1) /\ p + k # len + 1 /\ p + k # e
          /\ e \in 0..(len + 1) /\ len + 1 \in 0..(len + 1)
      BY <1>1, <1>4, <1>7 DEF s, Stop
    <2> QED BY <2>1, <1>2, <1>3 DEF m
  <1>8. Min(stops) = s - p
    <2>1. \A k \in stops : s - p <= k
      BY <1>1, <1>4, <1>7
    <2>2. \A x \in stops : (\A y \in stops : x <= y) => x = s - p
      BY <1>1, <1>4, <1>6, <2>1
    <2> HIDE DEF stops
    <2> QED BY <1>6, <2>1, <2>2 DEF Min
  <1>9. Walk(n, m) = [k \in 1..Min(stops) |-> At(k - 1)]
    BY DEF Walk, At
  <1> HIDE DEF stops
  <1>10. Walk(n, m) = [k \in 1..(s - p) |-> NodeAt(order, p + (k - 1))]
    <2>1. \A k \in 1..(s - p) : k - 1 \in Nat /\ k - 1 < s - p
      BY <1>4
    <2>2. \A k \in 1..(s - p) : At(k - 1) = NodeAt(order, p + (k - 1))
      BY <2>1, <1>7
    <2> QED BY <2>2, <1>8, <1>9
  <1>11. Len(Walk(n, m)) = s - p
    BY <1>4, <1>10
  <1>12. Meets(n, m) <=> p <= e
    <2>1. Meets(n, m) <=> NodeAt(order, s) = NodeAt(order, e)
      BY <1>5, <1>11 DEF Meets, At, m
    <2> QED BY <2>1, <1>1, <1>2, <1>4
  <1> QED BY <1>1, <1>4, <1>10, <1>12 DEF n, m, s

-----------------------------------------------------------------------------
(* The inductive invariant *)

\* The chain is linked and has no repetition while the list exists; a freed
\* list is empty and has no iterator.
ChainInv ==
  /\ IsInjective(order) /\ size = Len(order)
  /\ exists => LinkOK(order, next, prev)
  /\ ~exists => order = << >> /\ \A i \in Iterators : iter[i] = NULL
  /\ \A g \in Guards : data[g] = NULL

\* An object is in the list exactly if a node of it points there, and no
\* two nodes share an object.
OwnInv ==
  /\ \A d \in Data : where[d] = "list" <=> \E n \in Range(order) : data[n] = d
  /\ \A n, m \in Range(order) : data[n] = data[m] /\ data[n] # NULL => n = m

\* Iterators that are not stale are in the list, and stale ones are open.
IterInv ==
  /\ IteratorsLive
  /\ \A i \in stale : iter[i] # NULL

IInv == TypeOK /\ ChainInv /\ OwnInv /\ IterInv

\* What an insertion of node n with object d behind place k does.
Inserted(n, d, k) ==
  /\ exists /\ n \in Nodes \ Range(order) /\ StoredData(d)
  /\ data' = [data EXCEPT ![n] = d] /\ size' = size + 1
  /\ next' = [next EXCEPT ![n] = NodeAt(order, k + 1), ![NodeAt(order, k)] = n]
  /\ prev' = [prev EXCEPT ![NodeAt(order, k + 1)] = n, ![n] = NodeAt(order, k)]
  /\ order' \in Seq(Nodes) /\ Len(order') = Len(order) + 1
  /\ IsInjective(order') /\ Range(order') = Range(order) \cup {n}
  /\ \A i \in 1..Len(order') :
       order'[i] = IF i <= k THEN order[i] ELSE IF i = k + 1 THEN n ELSE order[i - 1]
  /\ UNCHANGED << freeFn, copyFn, iter, out, exists, stale >>

\* What the removal of place k does; the iterators in via move on.
Removed(k, via) ==
  /\ exists /\ Dispose(data[order[k]]) /\ FreeNode(order[k], Iterators \ via)
  /\ next' = [next EXCEPT ![NodeAt(order, k - 1)] = NodeAt(order, k + 1), ![order[k]] = NULL]
  /\ prev' = [prev EXCEPT ![NodeAt(order, k + 1)] = NodeAt(order, k - 1), ![order[k]] = NULL]
  /\ order' = RemoveAt(order, k)
  /\ iter' = [i \in Iterators |-> IF i \in via THEN NodeAt(order, k + 1) ELSE iter[i]]
  /\ \A i \in via : i \in Iterators /\ i \notin stale /\ iter[i] = order[k]
  /\ UNCHANGED << freeFn, copyFn, exists >>

LEMMA ChainEnds ==
  ASSUME TypeOK, ChainInv, exists
  PROVE  /\ next[HeadGuard] = NodeAt(order, 1)
         /\ prev[TailGuard] = NodeAt(order, Len(order))
         /\ \A k \in 1..Len(order) : next[order[k]] = NodeAt(order, k + 1)
                                     /\ prev[order[k]] = NodeAt(order, k - 1)
  <1>1. PICK len \in Nat : len = Len(order)
    BY LenProperties DEF TypeOK
  <1>2. /\ NodeAt(order, 0) = HeadGuard /\ NodeAt(order, len + 1) = TailGuard
        /\ \A k \in 1..len : NodeAt(order, k) = order[k]
    BY <1>1, NodeAtIsExact DEF TypeOK
  <1>3. \A k \in 0..len : next[NodeAt(order, k)] = NodeAt(order, k + 1)
                          /\ prev[NodeAt(order, k + 1)] = NodeAt(order, k)
    BY <1>1 DEF ChainInv, LinkOK
  <1>4. \A k \in 1..len : k - 1 \in 0..len /\ (k - 1) + 1 = k /\ k \in 0..len
    OBVIOUS
  <1>5. 0 \in 0..len /\ len \in 0..len /\ 0 + 1 = 1
    OBVIOUS
  <1>6. next[NodeAt(order, 0)] = NodeAt(order, 1) /\ prev[NodeAt(order, len + 1)] = NodeAt(order, len)
    BY <1>3, <1>5
  <1>7. ASSUME NEW k \in 1..len
        PROVE  next[order[k]] = NodeAt(order, k + 1) /\ prev[order[k]] = NodeAt(order, k - 1)
    <2>1. prev[NodeAt(order, (k - 1) + 1)] = NodeAt(order, k - 1)
      BY <1>3, <1>4
    <2> QED BY <2>1, <1>2, <1>3, <1>4
  <1> QED BY <1>1, <1>2, <1>6, <1>7

LEMMA InsertFirstInserts ==
  ASSUME TypeOK, ChainInv, NEW n \in Nodes, NEW d \in Data \cup {NULL},
         generic_linked_list_insert_first(n, d)
  PROVE  Inserted(n, d, 0)
  <1> USE DEF generic_linked_list_insert_first
  <1>1. NodeAt(order, 0) = HeadGuard /\ next[HeadGuard] = NodeAt(order, 0 + 1)
    BY ChainEnds DEF NodeAt
  <1>2. PICK len \in Nat : len = Len(order) /\ order \in Seq(Nodes)
    BY LenProperties DEF TypeOK
  <1>3. /\ order' \in Seq(Nodes) /\ Len(order') = len + 1
        /\ order'[1] = n /\ \A i \in 1..len : order'[i + 1] = order[i]
        /\ Range(order') = {n} \cup Range(order) /\ IsInjective(order')
    BY <1>2, PrependProperties DEF ChainInv
  <1>4. ASSUME NEW i \in 1..(len + 1)
        PROVE  order'[i] = IF i <= 0 THEN order[i] ELSE IF i = 0 + 1 THEN n ELSE order[i - 1]
    <2>1. CASE i = 1
      BY <2>1, <1>3
    <2>2. CASE i # 1
      <3>1. i - 1 \in 1..len /\ (i - 1) + 1 = i /\ ~(i <= 0) /\ i # 0 + 1
        BY <2>2
      <3> QED BY <3>1, <1>3
    <2> QED BY <2>1, <2>2
  <1> QED BY <1>1, <1>2, <1>3, <1>4 DEF Inserted

LEMMA InsertLastInserts ==
  ASSUME TypeOK, ChainInv, NEW n \in Nodes, NEW d \in Data \cup {NULL},
         generic_linked_list_insert_last(n, d)
  PROVE  Inserted(n, d, Len(order))
  <1> USE DEF generic_linked_list_insert_last
  <1>1. PICK len \in Nat : len = Len(order) /\ order \in Seq(Nodes)
    BY LenProperties DEF TypeOK
  <1>2. NodeAt(order, len + 1) = TailGuard /\ prev[TailGuard] = NodeAt(order, len)
    BY <1>1, ChainEnds, NodeAtIsExact
  <1>3. /\ order' \in Seq(Nodes) /\ Len(order') = len + 1
        /\ order'[len + 1] = n /\ \A i \in 1..len : order'[i] = order[i]
    BY <1>1, AppendProperties
  <1>4. Range(order') = Range(order) \cup {n} /\ IsInjective(order')
    BY <1>1, RangeOfAppend, AppendKeepsInjective DEF ChainInv
  <1>5. n # NodeAt(order, len) /\ n # TailGuard /\ TailGuard \in Spots
        /\ NodeAt(order, len) \in Spots /\ n \in Spots
    <2>1. n \notin Range(order) \cup Guards
      BY ListAssumption
    <2> QED BY <2>1, <1>1, NodeAtIsExact DEF Guards, Spots
  <1>6. next' = [next EXCEPT ![n] = TailGuard, ![NodeAt(order, len)] = n]
    BY <1>2, <1>5 DEF TypeOK, Spots
  <1>7. prev' = [prev EXCEPT ![TailGuard] = n, ![n] = NodeAt(order, len)]
    BY <1>2, <1>5 DEF TypeOK, Spots
  <1>8. \A i \in 1..(len + 1) :
          order'[i] = IF i <= len THEN order[i] ELSE IF i = len + 1 THEN n ELSE order[i - 1]
    BY <1>3
  <1> QED BY <1>1, <1>2, <1>3, <1>4, <1>6, <1>7, <1>8 DEF Inserted

LEMMA RemoveFirstRemoves ==
  ASSUME TypeOK, ChainInv, generic_linked_list_remove_first
  PROVE  Len(order) > 0 /\ Removed(1, {})
  <1> USE DEF generic_linked_list_remove_first
  <1>1. PICK len \in Nat : len = Len(order) /\ len > 0
    BY LenProperties DEF TypeOK, ChainInv
  <1>2. /\ NodeAt(order, 0) = HeadGuard /\ NodeAt(order, 1) = order[1]
        /\ next[HeadGuard] = order[1] /\ next[order[1]] = NodeAt(order, 1 + 1)
    <2>1. 1 \in 1..len
      BY <1>1
    <2> QED BY <2>1, <1>1, ChainEnds, NodeAtIsExact DEF TypeOK
  <1>3. iter' = [i \in Iterators |-> IF i \in {} THEN NodeAt(order, 1 + 1) ELSE iter[i]]
    BY DEF TypeOK
  <1>4. Iterators \ {} = Iterators /\ 1 - 1 = 0
    OBVIOUS
  <1> QED BY <1>1, <1>2, <1>3, <1>4 DEF Removed

LEMMA RemoveLastRemoves ==
  ASSUME TypeOK, ChainInv, generic_linked_list_remove_last
  PROVE  Len(order) > 0 /\ Removed(Len(order), {})
  <1> USE DEF generic_linked_list_remove_last
  <1>1. PICK len \in Nat : len = Len(order) /\ len > 0
    BY LenProperties DEF TypeOK, ChainInv
  <1>2. /\ NodeAt(order, len + 1) = TailGuard /\ prev[TailGuard] = order[len]
        /\ prev[order[len]] = NodeAt(order, len - 1)
    <2>1. len \in 1..len
      BY <1>1
    <2> QED BY <2>1, <1>1, ChainEnds, NodeAtIsExact DEF TypeOK
  <1>3. iter' = [i \in Iterators |-> IF i \in {} THEN NodeAt(order, len + 1) ELSE iter[i]]
    BY DEF TypeOK
  <1>4. Iterators \ {} = Iterators
    OBVIOUS
  <1> QED BY <1>1, <1>2, <1>3, <1>4 DEF Removed

\* The place of a node that is in the chain of q.
PlaceIn(q, n) == IF n = HeadGuard THEN 0 ELSE IF n = TailGuard THEN Len(q) + 1
                 ELSE CHOOSE k \in 1..Len(q) : q[k] = n

LEMMA PlaceInChain ==
  ASSUME NEW q \in Seq(Nodes), IsInjective(q)
  PROVE  \A k \in 0..(Len(q) + 1) : PlaceIn(q, NodeAt(q, k)) = k
  <1>1. PICK len \in Nat : len = Len(q) /\ DOMAIN q = 1..len
    BY LenProperties
  <1>2. /\ NodeAt(q, 0) = HeadGuard /\ NodeAt(q, len + 1) = TailGuard
        /\ \A k \in 1..len : NodeAt(q, k) = q[k] /\ q[k] \in Nodes
    BY <1>1, NodeAtIsExact
  <1>3. HeadGuard # TailGuard /\ HeadGuard \notin Nodes /\ TailGuard \notin Nodes
    BY ListAssumption DEF Guards
  <1>4. ASSUME NEW k \in 1..len
        PROVE  PlaceIn(q, q[k]) = k
    <2>1. PlaceIn(q, q[k]) = CHOOSE l \in 1..len : q[l] = q[k]
      BY <1>1, <1>2, <1>3 DEF PlaceIn
    <2>2. \A l \in 1..len : q[l] = q[k] => l = k
      BY <1>1 DEF IsInjective
    <2> QED BY <2>1, <2>2
  <1>5. PlaceIn(q, HeadGuard) = 0 /\ PlaceIn(q, TailGuard) = len + 1
    BY <1>1, <1>3 DEF PlaceIn
  <1>6. \A k \in 0..(len + 1) : k = 0 \/ k = len + 1 \/ k \in 1..len
    OBVIOUS
  <1> QED BY <1>1, <1>2, <1>4, <1>5, <1>6

LEMMA PositionIsPlace ==
  ASSUME order \in Seq(Nodes), IsInjective(order)
  PROVE  \A k \in 0..(Len(order) + 1) : Position(NodeAt(order, k)) = k
  BY PlaceInChain DEF Position, PlaceIn

LEMMA IteratorRemoves ==
  ASSUME TypeOK, ChainInv, IterInv, NEW i \in Iterators,
         generic_linked_list_iterator_remove(i)
  PROVE  \E k \in 1..Len(order) : iter[i] = order[k] /\ Removed(k, {i})
  <1> USE DEF generic_linked_list_iterator_remove
  <1>1. PICK len \in Nat : len = Len(order) /\ DOMAIN order = 1..len
    BY LenProperties DEF TypeOK
  <1>2. iter[i] \in Range(order)
    BY DEF IterInv, IteratorsLive, generic_linked_list_iterator_is_valid
  <1>3. PICK k \in 1..len : iter[i] = order[k]
    BY <1>1, <1>2 DEF Range
  <1>4. Position(order[k]) = k
    <2>1. NodeAt(order, k) = order[k] /\ k \in 0..(len + 1)
      BY <1>1, NodeAtIsExact DEF TypeOK
    <2> QED BY <2>1, <1>1, PositionIsPlace DEF TypeOK, ChainInv
  <1>5. next[order[k]] = NodeAt(order, k + 1) /\ prev[order[k]] = NodeAt(order, k - 1)
    BY <1>1, ChainEnds
  <1>6. iter' = [j \in Iterators |-> IF j \in {i} THEN NodeAt(order, k + 1) ELSE iter[j]]
    BY <1>3, <1>5 DEF TypeOK
  <1>7. \A j \in {i} : j \in Iterators /\ j \notin stale /\ iter[j] = order[k]
    BY <1>3 DEF Usable
  <1> QED BY <1>1, <1>3, <1>4, <1>5, <1>6, <1>7 DEF Removed

\* An insertion preserves the invariant.
LEMMA InsertedKeeps ==
  ASSUME IInv, NEW n \in Nodes, NEW d \in Data \cup {NULL}, NEW k \in 0..Len(order),
         Inserted(n, d, k)
  PROVE  IInv'
  <1> USE DEF Inserted
  <1>1. n \in Spots /\ n \notin Guards /\ n # NULL
    BY ListAssumption DEF Spots
  <1>2. PICK len \in Nat : len = Len(order) /\ order \in Seq(Nodes)
    BY LenProperties DEF IInv, TypeOK
  <1>3. NodeAt(order, k) \in Spots /\ NodeAt(order, k + 1) \in Spots
    <2>1. k \in 0..(len + 1) /\ k + 1 \in 0..(len + 1)
      BY <1>2
    <2> QED BY <2>1, <1>2, NodeAtIsExact
  <1>4. next \in [Spots -> Spots \cup {NULL}] /\ prev \in [Spots -> Spots \cup {NULL}]
    BY DEF IInv, TypeOK, Spots
  <1>5. next' \in [Spots -> Spots \cup {NULL}] /\ prev' \in [Spots -> Spots \cup {NULL}]
    BY <1>1, <1>3, <1>4
  <1>6. data \in [Spots -> Data \cup {NULL}] /\ where \in [Data -> {"outside", "list", "freed"}]
    BY DEF IInv, TypeOK, Spots
  <1>7. data' \in [Spots -> Data \cup {NULL}] /\ where' \in [Data -> {"outside", "list", "freed"}]
    BY <1>6, <1>1 DEF StoredData
  <1>8. TypeOK'
    <2>1. size' \in Nat
      BY DEF IInv, TypeOK
    <2>2. /\ freeFn' = freeFn /\ copyFn' = copyFn /\ exists' = exists /\ iter' = iter
          /\ out' = out /\ stale' = stale /\ order' \in Seq(Nodes)
      OBVIOUS
    <2> QED BY <2>1, <2>2, <1>5, <1>7 DEF IInv, TypeOK, Spots
  <1>9. LinkOK(order', next', prev')
    BY <1>2, <1>4, LinkIn DEF IInv, ChainInv
  <1>10. data'[n] = d /\ \A m \in Spots : m # n => data'[m] = data[m]
    BY <1>1, <1>6
  <1>11. ChainInv'
    <2>1. \A g \in Guards : data'[g] = NULL
      BY <1>1, <1>10 DEF IInv, ChainInv, Spots
    <2>2. size' = Len(order')
      BY <1>2 DEF IInv, ChainInv
    <2> QED BY <2>1, <2>2, <1>9 DEF ChainInv
  <1>12. Range(order) \subseteq Nodes /\ n \notin Range(order)
    BY <1>2, RangeOfSeq
  <1>13. \A m \in Range(order) : data'[m] = data[m]
    BY <1>10, <1>12 DEF Spots
  <1>14. OwnInv'
    <2>1. CASE d = NULL /\ UNCHANGED where
      <3>1. \A e \in Data : e # NULL
        BY ListAssumption
      <3> QED BY <2>1, <3>1, <1>10, <1>13 DEF IInv, OwnInv
    <2>2. CASE d \in Data /\ where[d] = "outside" /\ where' = [where EXCEPT ![d] = "list"]
      <3>1. \A m \in Range(order) : data[m] # d
        BY <2>2 DEF IInv, OwnInv
      <3>2. where'[d] = "list" /\ \A e \in Data : e # d => where'[e] = where[e]
        BY <2>2, <1>6
      <3>3. ASSUME NEW e \in Data
            PROVE  where'[e] = "list" <=> \E m \in Range(order') : data'[m] = e
        BY <3>1, <3>2, <1>10, <1>13 DEF IInv, OwnInv
      <3>4. \A m, l \in Range(order') : data'[m] = data'[l] /\ data'[m] # NULL => m = l
        BY <3>1, <1>10, <1>13 DEF IInv, OwnInv
      <3> QED BY <3>3, <3>4 DEF OwnInv
    <2> QED BY <2>1, <2>2 DEF StoredData
  <1>15. IterInv'
    BY DEF IInv, IterInv, IteratorsLive, Usable
  <1> QED BY <1>8, <1>11, <1>14, <1>15 DEF IInv

\* A removal preserves the invariant.
LEMMA RemovedKeeps ==
  ASSUME IInv, NEW k \in 1..Len(order), NEW via, Removed(k, via)
  PROVE  IInv'
  <1> USE DEF Removed, FreeNode
  <1>1. PICK len \in Nat : len = Len(order) /\ order \in Seq(Nodes) /\ DOMAIN order = 1..len
    BY LenProperties DEF IInv, TypeOK
  <1>2. /\ order' \in Seq(Nodes) /\ Len(order') = len - 1 /\ IsInjective(order')
        /\ Range(order') = Range(order) \ {order[k]}
    BY <1>1, RemoveAtProperties DEF IInv, ChainInv
  <1>3. /\ order[k] \in Nodes /\ order[k] \in Range(order)
        /\ NodeAt(order, k - 1) \in Spots /\ NodeAt(order, k + 1) \in Spots
        /\ NodeAt(order, k + 1) \in Range(order) \cup Guards
        /\ NodeAt(order, k + 1) # order[k]
    <2>1. k - 1 \in 0..(len + 1) /\ k + 1 \in 0..(len + 1) /\ k \in 0..(len + 1) /\ k + 1 # k
      BY <1>1
    <2>2. order[k] = NodeAt(order, k) /\ order[k] \in Nodes
      BY <1>1, NodeAtIsExact
    <2>3. order[k] \in Range(order)
      BY <1>1 DEF Range
    <2> QED BY <2>1, <2>2, <2>3, <1>1, NodeAtIsExact DEF IInv, ChainInv
  <1>4. next \in [Spots -> Spots \cup {NULL}] /\ prev \in [Spots -> Spots \cup {NULL}]
    BY DEF IInv, TypeOK, Spots
  <1>5. next' \in [Spots -> Spots \cup {NULL}] /\ prev' \in [Spots -> Spots \cup {NULL}]
    BY <1>3, <1>4
  <1>6. data \in [Spots -> Data \cup {NULL}] /\ where \in [Data -> {"outside", "list", "freed"}]
    BY DEF IInv, TypeOK, Spots
  <1>7. data' \in [Spots -> Data \cup {NULL}] /\ data[order[k]] \in Data \cup {NULL}
    BY <1>3, <1>6 DEF Spots
  <1>8. /\ where' \in [Data -> {"outside", "list", "freed"}]
        /\ \A e \in Data : IF e = data[order[k]] THEN where'[e] # "list" ELSE where'[e] = where[e]
    BY <1>6 DEF Dispose
  <1>9. out' \in Seq(Data \cup {NULL} \cup Nat)
    <2>1. out \in Seq(Data \cup {NULL} \cup Nat)
      BY DEF IInv, TypeOK
    <2>2. << data[order[k]] >> \in Seq(Data \cup {NULL} \cup Nat)
      BY <1>7
    <2> QED BY <2>1, <2>2 DEF Dispose
  <1>10. iter' \in [Iterators -> Nodes \cup Guards \cup {NULL}]
    BY <1>3 DEF IInv, TypeOK, Spots
  <1>11. TypeOK'
    <2>1. size' \in Nat
      BY <1>1 DEF IInv, ChainInv
    <2>2. stale' \subseteq Iterators
      BY DEF IInv, TypeOK
    <2> QED BY <2>1, <2>2, <1>2, <1>5, <1>7, <1>8, <1>9, <1>10 DEF IInv, TypeOK, Spots
  <1>12. LinkOK(order', next', prev')
    BY <1>1, <1>4, LinkOut DEF IInv, ChainInv
  <1>13. \A m \in Spots : m # order[k] => data'[m] = data[m]
    BY <1>6
  <1>14. ChainInv'
    <2>1. \A g \in Guards : data'[g] = NULL
      BY <1>3, <1>13, ListAssumption DEF IInv, ChainInv, Spots
    <2>2. size' = Len(order')
      BY <1>1, <1>2 DEF IInv, ChainInv
    <2> QED BY <2>1, <2>2, <1>2, <1>12 DEF ChainInv
  <1>15. OwnInv'
    <2>1. \A m \in Range(order') : m \in Range(order) /\ m # order[k] /\ data'[m] = data[m]
      <3>1. Range(order) \subseteq Nodes
        BY <1>1, RangeOfSeq
      <3> QED BY <3>1, <1>2, <1>13 DEF Spots
    <2>2. ASSUME NEW e \in Data
          PROVE  where'[e] = "list" <=> \E m \in Range(order') : data'[m] = e
      <3>0. e # NULL
        BY ListAssumption
      <3>1. CASE e = data[order[k]]
        <4>1. \A m \in Range(order') : data'[m] # e
          BY <2>1, <3>0, <3>1, <1>3 DEF IInv, OwnInv
        <4> QED BY <4>1, <3>1, <1>8
      <3>2. CASE e # data[order[k]]
        <4>1. where'[e] = "list" <=> \E m \in Range(order) : data[m] = e
          BY <3>2, <1>8 DEF IInv, OwnInv
        <4>2. \A m \in Range(order) : data[m] = e => m \in Range(order')
          BY <3>2, <1>2
        <4> QED BY <4>1, <4>2, <2>1
      <3> QED BY <3>1, <3>2
    <2>3. \A m, l \in Range(order') : data'[m] = data'[l] /\ data'[m] # NULL => m = l
      BY <2>1 DEF IInv, OwnInv
    <2> QED BY <2>2, <2>3 DEF OwnInv
  <1>16. IterInv'
    <2>1. \A i \in Iterators : iter'[i] = IF i \in via THEN NodeAt(order, k + 1) ELSE iter[i]
      OBVIOUS
    <2>2. ASSUME NEW i \in Iterators, iter'[i] # NULL, i \notin stale'
          PROVE  iter'[i] \in Range(order') \cup Guards
      <3>1. CASE i \in via
        BY <2>1, <3>1, <1>2, <1>3
      <3>2. CASE i \notin via
        <4>1. iter'[i] = iter[i] /\ i \notin stale /\ iter[i] # order[k]
          BY <2>1, <2>2, <3>2
        <4> QED BY <2>2, <4>1, <1>2 DEF IInv, IterInv, IteratorsLive, Usable
      <3> QED BY <3>1, <3>2
    <2>3. ASSUME NEW i \in stale'
          PROVE  iter'[i] # NULL
      <3>1. i \in Iterators /\ i \notin via
        BY <2>3 DEF IInv, TypeOK
      <3>2. order[k] # NULL
        BY <1>3, ListAssumption
      <3> QED BY <2>1, <2>3, <3>1, <3>2 DEF IInv, IterInv
    <2> QED BY <2>2, <2>3 DEF IterInv, IteratorsLive, Usable
  <1> QED BY <1>11, <1>14, <1>15, <1>16 DEF IInv

\* The steps that move iterators or yield a result leave the list alone.
LEMMA IterFrameKeeps ==
  ASSUME IInv, UNCHANGED iterFrame
  PROVE  /\ OwnInv' /\ (IsInjective(order) /\ size = Len(order))'
         /\ (exists => LinkOK(order, next, prev))'
         /\ exists => ChainInv'
  <1>1. /\ next' = next /\ prev' = prev /\ data' = data /\ size' = size /\ order' = order
        /\ exists' = exists /\ where' = where
    BY DEF iterFrame, linkVars
  <1>2. OwnInv'
    BY <1>1 DEF IInv, OwnInv
  <1>3. (IsInjective(order) /\ size = Len(order))'
    BY <1>1 DEF IInv, ChainInv
  <1>4. (exists => LinkOK(order, next, prev))'
    BY <1>1 DEF IInv, ChainInv, LinkOK, NodeAt
  <1>5. exists => ChainInv'
    BY <1>1, <1>3, <1>4 DEF IInv, ChainInv
  <1> QED BY <1>2, <1>3, <1>4, <1>5

\* An iterator placed at a guard or at a node of the list.
LEMMA PlaceKeeps ==
  ASSUME IInv, exists, NEW i \in Iterators, i \notin stale, NEW n \in Range(order) \cup Guards,
         Place(i, n)
  PROVE  IInv'
  <1> USE DEF Place
  <1>1. OwnInv' /\ ChainInv'
    BY IterFrameKeeps
  <1>2. /\ next' = next /\ prev' = prev /\ data' = data /\ size' = size /\ order' = order
        /\ exists' = exists /\ where' = where /\ freeFn' = freeFn /\ copyFn' = copyFn
        /\ out' = out /\ stale' = stale
    BY DEF iterFrame, linkVars
  <1>3. n \in Nodes \cup Guards /\ n # NULL
    BY RangeOfSeq, ListAssumption DEF IInv, TypeOK
  <1>4. iter' \in [Iterators -> Nodes \cup Guards \cup {NULL}]
    BY <1>3 DEF IInv, TypeOK
  <1>5. TypeOK'
    BY <1>2, <1>4 DEF IInv, TypeOK
  <1>6. IterInv'
    BY <1>2, <1>3 DEF IInv, TypeOK, IterInv, IteratorsLive, Usable
  <1> QED BY <1>1, <1>5, <1>6 DEF IInv

\* A call that yields a result.
LEMMA YieldsKeeps ==
  ASSUME IInv, exists, NEW result \in Seq(Data \cup {NULL} \cup Nat), Yields(result)
  PROVE  IInv'
  <1> USE DEF Yields
  <1>1. OwnInv' /\ ChainInv'
    BY IterFrameKeeps
  <1>2. /\ next' = next /\ prev' = prev /\ data' = data /\ size' = size /\ order' = order
        /\ exists' = exists /\ where' = where /\ freeFn' = freeFn /\ copyFn' = copyFn
        /\ iter' = iter /\ stale' = stale
    BY DEF iterFrame, linkVars
  <1>3. TypeOK'
    BY <1>2 DEF IInv, TypeOK
  <1>4. IterInv'
    BY <1>2 DEF IInv, IterInv, IteratorsLive, Usable
  <1> QED BY <1>1, <1>3, <1>4 DEF IInv

\* The place of a usable iterator.
LEMMA UsablePlace ==
  ASSUME IInv, NEW i \in Iterators, Usable(i)
  PROVE  \E p \in 0..(Len(order) + 1) : iter[i] = NodeAt(order, p)
  BY NodeAtIsExact DEF IInv, TypeOK, IterInv, IteratorsLive

\* The nodes next to a usable iterator, on the side where there is one.
LEMMA Neighbours ==
  ASSUME IInv, exists, NEW p \in 0..(Len(order) + 1)
  PROVE  /\ NodeAt(order, p) # TailGuard =>
              p \in 0..Len(order) /\ next[NodeAt(order, p)] = NodeAt(order, p + 1)
         /\ NodeAt(order, p) # HeadGuard =>
              p \in 1..(Len(order) + 1) /\ prev[NodeAt(order, p)] = NodeAt(order, p - 1)
  <1>1. PICK len \in Nat : len = Len(order)
    BY LenProperties DEF IInv, TypeOK
  <1>2. NodeAt(order, 0) = HeadGuard /\ NodeAt(order, len + 1) = TailGuard
    BY <1>1, NodeAtIsExact DEF IInv, TypeOK
  <1>3. \A k \in 0..len : next[NodeAt(order, k)] = NodeAt(order, k + 1)
                          /\ prev[NodeAt(order, k + 1)] = NodeAt(order, k)
    BY <1>1 DEF IInv, ChainInv, LinkOK
  <1>4. ASSUME NodeAt(order, p) # TailGuard
        PROVE  p \in 0..len
    BY <1>1, <1>2, <1>4
  <1>5. ASSUME NodeAt(order, p) # HeadGuard
        PROVE  p \in 1..(len + 1) /\ p - 1 \in 0..len /\ (p - 1) + 1 = p
    BY <1>1, <1>2, <1>5
  <1>6. ASSUME NodeAt(order, p) # HeadGuard
        PROVE  prev[NodeAt(order, (p - 1) + 1)] = NodeAt(order, p - 1)
    BY <1>3, <1>5, <1>6
  <1>7. ASSUME NodeAt(order, p) # HeadGuard
        PROVE  prev[NodeAt(order, p)] = NodeAt(order, p - 1)
    BY <1>5, <1>6, <1>7
  <1> QED BY <1>1, <1>3, <1>4, <1>5, <1>7

-----------------------------------------------------------------------------
(* What the iterator calls do in terms of places *)

\* A chain that exists, for the lemmas about walks.
LEMMA ChainExists ==
  ASSUME IInv, exists
  PROVE  order \in Seq(Nodes) /\ IsInjective(order) /\ LinkOK(order, next, prev)
  BY DEF IInv, TypeOK, ChainInv

LEMMA OpenPlaces ==
  ASSUME IInv, NEW i \in Iterators, Open(i)
  PROVE  \E x \in {0, 1, Len(order), Len(order) + 1} : Place(i, NodeAt(order, x))
  BY ChainEnds, NodeAtIsExact DEF Open, IInv, TypeOK

LEMMA NextPlaces ==
  ASSUME IInv, NEW i \in Iterators, generic_linked_list_iterator_next(i)
  PROVE  \E p \in 0..Len(order) : iter[i] = NodeAt(order, p) /\ Place(i, NodeAt(order, p + 1))
  BY UsablePlace, Neighbours DEF generic_linked_list_iterator_next

LEMMA PrevPlaces ==
  ASSUME IInv, NEW i \in Iterators, generic_linked_list_iterator_prev(i)
  PROVE  \E p \in 1..(Len(order) + 1) :
           iter[i] = NodeAt(order, p) /\ Place(i, NodeAt(order, p - 1))
  BY UsablePlace, Neighbours DEF generic_linked_list_iterator_prev

LEMMA AdvancePlaces ==
  ASSUME IInv, NEW i \in Iterators, NEW k \in Nat, generic_linked_list_iterator_advance(i, k)
  PROVE  \E p \in 0..(Len(order) + 1) :
           /\ iter[i] = NodeAt(order, p)
           /\ Place(i, NodeAt(order, IF p + k > Len(order) + 1 THEN Len(order) + 1 ELSE p + k))
  <1> USE DEF generic_linked_list_iterator_advance
  <1>1. PICK p \in 0..(Len(order) + 1) : iter[i] = NodeAt(order, p)
    BY UsablePlace
  <1>2. Reached(next, NodeAt(order, p), TailGuard, k)
          = NodeAt(order, IF p + k > Len(order) + 1 THEN Len(order) + 1 ELSE p + k)
    BY ReachedForward, ChainExists
  <1> QED BY <1>1, <1>2

LEMMA ReverseAdvancePlaces ==
  ASSUME IInv, NEW i \in Iterators, NEW k \in Nat,
         generic_linked_list_iterator_reverse_advance(i, k)
  PROVE  \E p \in 0..(Len(order) + 1) :
           iter[i] = NodeAt(order, p) /\ Place(i, NodeAt(order, IF p < k THEN 0 ELSE p - k))
  <1> USE DEF generic_linked_list_iterator_reverse_advance
  <1>1. PICK p \in 0..(Len(order) + 1) : iter[i] = NodeAt(order, p)
    BY UsablePlace
  <1>2. Reached(prev, NodeAt(order, p), HeadGuard, k) = NodeAt(order, IF p < k THEN 0 ELSE p - k)
    BY ReachedBackward, ChainExists
  <1> QED BY <1>1, <1>2

\* The places of the elements a walk from place p towards place e visits.
Visited(p, e) == { k \in 1..Len(order) : p <= k /\ k < Stop(order, p, e) }

\* The place at which such a walk finds d, or its end.
Hits(p, e, d) == { k \in Visited(p, e) : data[order[k]] = d }
Found(p, e, d) == IF Hits(p, e, d) = {} THEN e ELSE Min(Hits(p, e, d))

LEMMA DistanceYields ==
  ASSUME IInv, NEW i \in Iterators, NEW j \in Iterators,
         generic_linked_list_iterator_distance(i, j)
  PROVE  \E p, e \in 0..(Len(order) + 1) :
           /\ iter[i] = NodeAt(order, p) /\ iter[j] = NodeAt(order, e) /\ p <= e
           /\ Yields(<< IF p = 0 /\ e > 0 THEN e - 1 ELSE e - p >>)
  <1> USE DEF generic_linked_list_iterator_distance
  <1>1. PICK p \in 0..(Len(order) + 1) : iter[i] = NodeAt(order, p)
    BY UsablePlace
  <1>2. PICK e \in 0..(Len(order) + 1) : iter[j] = NodeAt(order, e)
    BY UsablePlace
  <1>3. PICK len \in Nat : len = Len(order)
    BY LenProperties, ChainExists
  <1> DEFINE walk == Walk(iter[i], iter[j])
             s == Stop(order, p, e)
  <1>4. /\ walk = [k \in 1..(s - p) |-> NodeAt(order, p + (k - 1))]
        /\ s - p \in Nat /\ s \in 0..(len + 1) /\ p <= e
    BY <1>1, <1>2, <1>3, WalkIsRange, ChainExists
  <1>5. s = e
    BY <1>4 DEF Stop
  <1>6. Yields(<< Cardinality({ k \in 1..Len(walk) : walk[k] # HeadGuard }) >>)
    OBVIOUS
  <1> HIDE DEF walk, s
  <1>7. Len(walk) = e - p /\ e - p \in Nat
    BY <1>4, <1>5
  <1>8. \A k \in 1..(e - p) : walk[k] # HeadGuard <=> p + (k - 1) # 0
    <2>1. \A k \in 1..(e - p) : walk[k] = NodeAt(order, p + (k - 1))
      BY <1>4, <1>5
    <2>2. \A k \in 1..(e - p) : p + (k - 1) \in 0..(len + 1)
      BY <1>3, <1>7
    <2>3. \A l \in 0..(len + 1) : NodeAt(order, l) # HeadGuard <=> l # 0
      <3>1. NodeAt(order, 0) = HeadGuard /\ 0 \in 0..(len + 1)
        BY <1>3, NodeAtIsExact, ChainExists
      <3> QED BY <3>1, <1>3, NodeAtIsExact, ChainExists
    <2> QED BY <2>1, <2>2, <2>3
  <1>9. { k \in 1..Len(walk) : walk[k] # HeadGuard } = { k \in 1..(e - p) : p + (k - 1) # 0 }
    BY <1>7, <1>8
  <1>10. Cardinality({ k \in 1..(e - p) : p + (k - 1) # 0 })
           = IF p = 0 /\ e > 0 THEN e - 1 ELSE e - p
    <2>1. CASE p = 0 /\ e > 0
      <3>1. { k \in 1..(e - p) : p + (k - 1) # 0 } = 2..e
        BY <2>1, <1>3
      <3>2. 2 \in Int /\ e \in Int /\ e \in Nat
        BY <1>3
      <3>3. Cardinality(2..e) = IF 2 > e THEN 0 ELSE e - 2 + 1
        BY <3>2, FS_Interval
      <3>4. Cardinality(2..e) = e - 1
        BY <2>1, <3>2, <3>3
      <3> QED BY <2>1, <3>1, <3>4
    <2>2. CASE ~(p = 0 /\ e > 0)
      <3>1. { k \in 1..(e - p) : p + (k - 1) # 0 } = 1..(e - p)
        BY <2>2, <1>3, <1>7
      <3>2. PICK l \in Nat : l = e - p /\ 1 \in Int /\ l \in Int
        BY <1>7
      <3>3. Cardinality(1..l) = IF 1 > l THEN 0 ELSE l - 1 + 1
        BY <3>2, FS_Interval
      <3>4. Cardinality(1..l) = l
        BY <3>2, <3>3
      <3> QED BY <2>2, <3>1, <3>2, <3>4
    <2> QED BY <2>1, <2>2
  <1> QED BY <1>1, <1>2, <1>4, <1>6, <1>9, <1>10

\* The smallest element of a set of naturals.
LEMMA MinOfNats ==
  ASSUME NEW S \in SUBSET Nat, S # {}
  PROVE  Min(S) \in S /\ \A x \in S : Min(S) <= x
  <1>1. \E x \in S : \A y \in S : x <= y
    <2> DEFINE Lt == OpToRel(<, Nat)
    <2>1. IsWellFoundedOn(Lt, Nat)
      BY NatLessThanWellFounded
    <2>2. \A x, y \in Nat : y < x => << y, x >> \in Lt
      BY DEF OpToRel
    <2> HIDE DEF Lt
    <2>3. PICK x \in S : \A y \in S : << y, x >> \notin Lt
      BY <2>1, WFMin
    <2>4. ASSUME NEW y \in S
          PROVE  x <= y
      <3>1. x \in Nat /\ y \in Nat /\ ~(y < x)
        BY <2>2, <2>3
      <3> QED BY <3>1
    <2> QED BY <2>4
  <1> QED BY <1>1 DEF Min

LEMMA FindPlaces ==
  ASSUME IInv, NEW i \in Iterators, NEW j \in Iterators, NEW h \in Iterators, NEW d \in Data,
         generic_linked_list_iterator_find(i, j, d, h)
  PROVE  \E p, e \in 0..(Len(order) + 1) :
           /\ iter[i] = NodeAt(order, p) /\ iter[j] = NodeAt(order, e)
           /\ Place(h, NodeAt(order, Found(p, e, d)))
  <1> USE DEF generic_linked_list_iterator_find
  <1>1. PICK p \in 0..(Len(order) + 1) : iter[i] = NodeAt(order, p)
    BY UsablePlace
  <1>2. PICK e \in 0..(Len(order) + 1) : iter[j] = NodeAt(order, e)
    BY UsablePlace
  <1>3. PICK len \in Nat : len = Len(order)
    BY LenProperties, ChainExists
  <1> DEFINE walk == Walk(iter[i], iter[j])
             s == Stop(order, p, e)
             found == { k \in 1..Len(walk) : walk[k] # HeadGuard /\ data[walk[k]] = d }
             hits == Hits(p, e, d)
  <1>4. /\ walk = [k \in 1..(s - p) |-> NodeAt(order, p + (k - 1))]
        /\ s - p \in Nat /\ s \in 0..(len + 1)
    BY <1>1, <1>2, <1>3, WalkIsRange, ChainExists
  <1>5. Place(h, IF found = {} THEN iter[j] ELSE walk[Min(found)])
    OBVIOUS
  <1>6. hits = { k \in 1..len : p <= k /\ k < s /\ data[order[k]] = d }
    BY <1>3 DEF Hits, Visited
  <1> HIDE DEF walk, s
  <1>7. /\ Len(walk) = s - p
        /\ \A k \in 1..(s - p) : walk[k] = NodeAt(order, p + (k - 1))
    BY <1>4
  <1>8. /\ \A l \in 0..(len + 1) : NodeAt(order, l) # HeadGuard <=> l # 0
        /\ \A l \in 1..len : NodeAt(order, l) = order[l]
    <2>1. NodeAt(order, 0) = HeadGuard /\ 0 \in 0..(len + 1)
      BY <1>3, NodeAtIsExact, ChainExists
    <2> QED BY <2>1, <1>3, NodeAtIsExact, ChainExists
  <1>9. ASSUME NEW k \in found
        PROVE  p + (k - 1) \in hits /\ walk[k] = NodeAt(order, p + (k - 1))
    <2>1. k \in 1..(s - p) /\ walk[k] # HeadGuard /\ data[walk[k]] = d
      BY <1>7
    <2>2. PICK l \in Nat : l = p + (k - 1)
      BY <2>1, <1>3
    <2>3. l \in 0..(len + 1) /\ l < s /\ p <= l /\ walk[k] = NodeAt(order, l)
      BY <2>1, <2>2, <1>3, <1>4, <1>7
    <2>4. l # 0 /\ l \in 1..len
      BY <2>1, <2>3, <1>3, <1>4, <1>8
    <2> QED BY <2>1, <2>2, <2>3, <2>4, <1>6, <1>8
  <1>10. ASSUME NEW l \in hits
         PROVE  (l - p) + 1 \in found /\ p + (((l - p) + 1) - 1) = l
    <2>1. l \in 1..len /\ p <= l /\ l < s /\ data[order[l]] = d
      BY <1>6
    <2>2. PICK k \in Nat : k = (l - p) + 1 /\ k \in 1..(s - p) /\ p + (k - 1) = l
      BY <2>1, <1>3, <1>4
    <2>3. walk[k] = order[l] /\ walk[k] # HeadGuard
      <3>1. walk[k] = NodeAt(order, l) /\ l # 0 /\ l \in 0..(len + 1)
        BY <2>1, <2>2, <1>7
      <3> QED BY <2>1, <3>1, <1>8
    <2> QED BY <2>1, <2>2, <2>3, <1>7
  <1>11. CASE hits = {}
    <2>1. found = {}
      BY <1>9, <1>11
    <2> QED BY <2>1, <1>1, <1>2, <1>5, <1>11 DEF Found
  <1>12. CASE hits # {}
    <2>1. found # {} /\ found \subseteq Nat /\ hits \subseteq Nat
      BY <1>6, <1>10, <1>12
    <2> HIDE DEF found, hits
    <2>2. PICK k \in Nat : k = Min(found) /\ k \in found /\ \A x \in found : k <= x
      BY <2>1, MinOfNats
    <2>3. PICK l \in Nat : l = Min(hits) /\ l \in hits /\ \A x \in hits : l <= x
      BY <2>1, <1>12, MinOfNats
    <2>4. p + (k - 1) = l
      <3>1. l <= p + (k - 1)
        BY <2>2, <2>3, <1>9
      <3>2. k <= (l - p) + 1
        BY <2>2, <2>3, <1>10
      <3> QED BY <3>1, <3>2, <1>3
    <2>5. walk[k] = NodeAt(order, l)
      BY <2>2, <2>4, <1>9
    <2> QED BY <2>1, <2>2, <2>3, <2>5, <1>1, <1>2, <1>5, <1>12 DEF hits, Found
  <1> QED BY <1>11, <1>12

LEMMA ForEachYields ==
  ASSUME IInv, NEW i \in Iterators, NEW j \in Iterators,
         generic_linked_list_iterator_for_each(i, j)
  PROVE  \E p, e \in 0..(Len(order) + 1) :
           /\ iter[i] = NodeAt(order, p) /\ iter[j] = NodeAt(order, e)
           /\ Stop(order, p, e) - p \in Nat /\ Stop(order, p, e) \in 0..(Len(order) + 1)
           /\ Yields([k \in 1..(Stop(order, p, e) - p) |-> data[NodeAt(order, p + (k - 1))]])
  <1> USE DEF generic_linked_list_iterator_for_each
  <1>1. PICK p \in 0..(Len(order) + 1) : iter[i] = NodeAt(order, p)
    BY UsablePlace
  <1>2. PICK e \in 0..(Len(order) + 1) : iter[j] = NodeAt(order, e)
    BY UsablePlace
  <1> DEFINE walk == Walk(iter[i], iter[j])
             s == Stop(order, p, e)
  <1>3. /\ walk = [k \in 1..(s - p) |-> NodeAt(order, p + (k - 1))]
        /\ s - p \in Nat /\ s \in 0..(Len(order) + 1)
    BY <1>1, <1>2, WalkIsRange, ChainExists
  <1>4. Yields([k \in 1..Len(walk) |-> data[walk[k]]])
    OBVIOUS
  <1> HIDE DEF walk
  <1>5. [k \in 1..Len(walk) |-> data[walk[k]]] = [k \in 1..(s - p) |-> data[NodeAt(order, p + (k - 1))]]
    BY <1>3
  <1> QED BY <1>1, <1>2, <1>3, <1>4, <1>5

-----------------------------------------------------------------------------
(* The invariant holds *)

LEMMA NodesAreLive ==
  ASSUME IInv, NEW k \in 0..(Len(order) + 1)
  PROVE  NodeAt(order, k) \in Range(order) \cup Guards
  BY NodeAtIsExact DEF IInv, TypeOK

LEMMA InitKeeps == Init => IInv
  <1> SUFFICES ASSUME Init PROVE IInv
    OBVIOUS
  <1> USE DEF Init
  <1>0. /\ HeadGuard # TailGuard /\ HeadGuard \notin Nodes /\ TailGuard \notin Nodes
        /\ HeadGuard \in Spots /\ TailGuard \in Spots
    BY ListAssumption DEF Guards, Spots
  <1>1. order \in Seq(Nodes) /\ Len(order) = 0 /\ Range(order) = {} /\ IsInjective(order)
    BY DEF Range, IsInjective
  <1>2. /\ next \in [Spots -> Spots \cup {NULL}] /\ prev \in [Spots -> Spots \cup {NULL}]
        /\ data \in [Spots -> Data \cup {NULL}]
    BY <1>0 DEF Spots
  <1>3. TypeOK
    <2>1. /\ size \in Nat /\ freeFn \in BOOLEAN /\ copyFn \in BOOLEAN /\ exists \in BOOLEAN
          /\ iter \in [Iterators -> Nodes \cup Guards \cup {NULL}]
          /\ stale \subseteq Iterators /\ where \in [Data -> {"outside", "list", "freed"}]
      OBVIOUS
    <2>2. out \in Seq(Data \cup {NULL} \cup Nat)
      OBVIOUS
    <2> QED BY <2>1, <2>2, <1>1, <1>2 DEF TypeOK, Spots
  <1>4. ChainInv
    <2>1. /\ next[HeadGuard] = TailGuard /\ prev[TailGuard] = HeadGuard
          /\ prev[HeadGuard] = NULL /\ next[TailGuard] = NULL
          /\ \A n \in Nodes : next[n] = NULL /\ prev[n] = NULL
      BY <1>0 DEF Spots
    <2>2. NodeAt(order, 0) = HeadGuard /\ NodeAt(order, 1) = TailGuard
      BY <1>1 DEF NodeAt
    <2>3. \A k \in 0..Len(order) : k = 0 /\ k + 1 = 1
      BY <1>1
    <2>4. LinkOK(order, next, prev)
      BY <2>1, <2>2, <2>3 DEF LinkOK
    <2>5. \A g \in Guards : data[g] = NULL
      BY DEF Guards
    <2> QED BY <2>4, <2>5, <1>1 DEF ChainInv
  <1>5. OwnInv
    BY <1>1 DEF OwnInv
  <1>6. IterInv
    BY DEF IterInv, IteratorsLive, Usable
  <1> QED BY <1>3, <1>4, <1>5, <1>6 DEF IInv

LEMMA FreeKeeps ==
  ASSUME IInv, generic_linked_list_free
  PROVE  IInv'
  <1> USE DEF generic_linked_list_free
  <1>1. order' \in Seq(Nodes) /\ Len(order') = 0 /\ Range(order') = {} /\ IsInjective(order')
    BY DEF Range, IsInjective
  <1>2. where' \in [Data -> {"outside", "list", "freed"}] /\ \A d \in Data : where'[d] # "list"
    BY DEF IInv, TypeOK
  <1>3. TypeOK'
    <2>1. /\ next' \in [Nodes \cup Guards -> Nodes \cup Guards \cup {NULL}]
          /\ prev' \in [Nodes \cup Guards -> Nodes \cup Guards \cup {NULL}]
          /\ data' \in [Nodes \cup Guards -> Data \cup {NULL}]
          /\ size' \in Nat /\ exists' \in BOOLEAN
      OBVIOUS
    <2> QED BY <2>1, <1>1, <1>2 DEF IInv, TypeOK
  <1>4. ChainInv'
    BY <1>1 DEF ChainInv, Guards
  <1>5. OwnInv'
    BY <1>1, <1>2 DEF OwnInv
  <1>6. IterInv'
    BY DEF IInv, IterInv, IteratorsLive, Usable
  <1> QED BY <1>3, <1>4, <1>5, <1>6 DEF IInv

LEMMA IteratorFreeKeeps ==
  ASSUME IInv, NEW i \in Iterators, generic_linked_list_iterator_free(i)
  PROVE  IInv'
  <1> USE DEF generic_linked_list_iterator_free
  <1>1. /\ next' = next /\ prev' = prev /\ data' = data /\ size' = size /\ order' = order
        /\ exists' = exists /\ where' = where /\ freeFn' = freeFn /\ copyFn' = copyFn
        /\ out' = out
    BY DEF iterFrame, linkVars
  <1>2. /\ iter' \in [Iterators -> Nodes \cup Guards \cup {NULL}]
        /\ iter'[i] = NULL /\ \A j \in Iterators : j # i => iter'[j] = iter[j]
    BY DEF IInv, TypeOK
  <1>3. TypeOK'
    BY <1>1, <1>2 DEF IInv, TypeOK
  <1>4. ChainInv'
    <2>1. (exists => LinkOK(order, next, prev))'
      BY <1>1, IterFrameKeeps
    <2> QED BY <2>1, <1>1, <1>2 DEF IInv, ChainInv
  <1>5. OwnInv'
    BY IterFrameKeeps
  <1>6. IterInv'
    <2>1. \A j \in Iterators : iter'[j] # NULL /\ j \notin stale' => j # i /\ j \notin stale
      BY <1>2
    <2>2. IteratorsLive'
      BY <2>1, <1>1, <1>2 DEF IInv, IterInv, IteratorsLive, Usable
    <2>3. \A j \in stale' : j \in stale /\ j # i /\ j \in Iterators
      BY DEF IInv, TypeOK
    <2> QED BY <2>2, <2>3, <1>2 DEF IInv, IterInv
  <1> QED BY <1>3, <1>4, <1>5, <1>6 DEF IInv

\* The calls that change neither the list nor an iterator.
LEMMA SettingsKeep ==
  ASSUME IInv, UNCHANGED << linkVars, iter, exists, where, stale >>,
         freeFn' \in BOOLEAN, copyFn' \in BOOLEAN, out' \in Seq(Data \cup {NULL} \cup Nat)
  PROVE  IInv'
  <1>1. /\ next' = next /\ prev' = prev /\ data' = data /\ size' = size /\ order' = order
        /\ exists' = exists /\ where' = where /\ iter' = iter /\ stale' = stale
    BY DEF linkVars
  <1>2. TypeOK'
    BY <1>1 DEF IInv, TypeOK
  <1>3. ChainInv'
    BY <1>1 DEF IInv, ChainInv, LinkOK, NodeAt
  <1>4. OwnInv' /\ IterInv'
    BY <1>1 DEF IInv, OwnInv, IterInv, IteratorsLive, Usable
  <1> QED BY <1>2, <1>3, <1>4 DEF IInv

LEMMA StepKeeps == IInv /\ [Next]_vars => IInv'
  <1> SUFFICES ASSUME IInv, [Next]_vars PROVE IInv'
    OBVIOUS
  <1>0. TypeOK /\ ChainInv /\ IterInv
    BY DEF IInv
  <1>1. ASSUME NEW n \in Nodes, NEW d \in Data \cup {NULL},
               generic_linked_list_insert_first(n, d)
        PROVE  IInv'
    <2>1. 0 \in 0..Len(order)
      BY LenProperties, <1>0 DEF TypeOK
    <2> QED BY <1>0, <1>1, <2>1, InsertFirstInserts, InsertedKeeps
  <1>2. ASSUME NEW n \in Nodes, NEW d \in Data \cup {NULL},
               generic_linked_list_insert_last(n, d)
        PROVE  IInv'
    <2>1. Len(order) \in 0..Len(order)
      BY LenProperties, <1>0 DEF TypeOK
    <2> QED BY <1>0, <1>2, <2>1, InsertLastInserts, InsertedKeeps
  <1>3. CASE generic_linked_list_remove_first
    <2>1. 1 \in 1..Len(order) /\ Removed(1, {})
      BY LenProperties, <1>0, <1>3, RemoveFirstRemoves DEF TypeOK
    <2> QED BY <2>1, RemovedKeeps
  <1>4. CASE generic_linked_list_remove_last
    <2>1. Len(order) \in 1..Len(order) /\ Removed(Len(order), {})
      BY LenProperties, <1>0, <1>4, RemoveLastRemoves DEF TypeOK
    <2> QED BY <2>1, RemovedKeeps
  <1>5. CASE RemoveNothing
    <2>1. out' \in Seq(Data \cup {NULL} \cup Nat)
      BY <1>5 DEF RemoveNothing
    <2> QED BY <2>1, <1>0, <1>5, SettingsKeep DEF RemoveNothing, TypeOK
  <1>6. CASE generic_linked_list_free
    BY <1>6, FreeKeeps
  <1>7. ASSUME NEW set \in BOOLEAN,
               \/ generic_linked_list_set_free_function(set)
               \/ generic_linked_list_set_copy_function(set)
        PROVE  IInv'
    BY <1>0, <1>7, SettingsKeep DEF TypeOK, generic_linked_list_set_free_function,
         generic_linked_list_set_copy_function
  <1>8. ASSUME NEW i \in Iterators, Open(i)
        PROVE  IInv'
    <2>1. PICK x \in {0, 1, Len(order), Len(order) + 1} : Place(i, NodeAt(order, x))
      BY <1>8, OpenPlaces
    <2>2. x \in 0..(Len(order) + 1)
      BY LenProperties, <1>0 DEF TypeOK
    <2>3. exists /\ i \notin stale
      BY <1>0, <1>8 DEF Open, IterInv
    <2> QED BY <2>1, <2>2, <2>3, NodesAreLive, PlaceKeeps
  <1>9. ASSUME NEW i \in Iterators, generic_linked_list_iterator_free(i)
        PROVE  IInv'
    BY <1>9, IteratorFreeKeeps
  <1>10. ASSUME NEW i \in Iterators, generic_linked_list_iterator_next(i)
         PROVE  IInv'
    <2>1. PICK p \in 0..Len(order) : Place(i, NodeAt(order, p + 1))
      BY <1>10, NextPlaces
    <2>2. p + 1 \in 0..(Len(order) + 1)
      BY LenProperties, <1>0 DEF TypeOK
    <2>3. exists /\ i \notin stale
      BY <1>10 DEF generic_linked_list_iterator_next, Usable
    <2> QED BY <2>1, <2>2, <2>3, NodesAreLive, PlaceKeeps
  <1>11. ASSUME NEW i \in Iterators, generic_linked_list_iterator_prev(i)
         PROVE  IInv'
    <2>1. PICK p \in 1..(Len(order) + 1) : Place(i, NodeAt(order, p - 1))
      BY <1>11, PrevPlaces
    <2>2. p - 1 \in 0..(Len(order) + 1)
      BY LenProperties, <1>0 DEF TypeOK
    <2>3. exists /\ i \notin stale
      BY <1>11 DEF generic_linked_list_iterator_prev, Usable
    <2> QED BY <2>1, <2>2, <2>3, NodesAreLive, PlaceKeeps
  <1>12. ASSUME NEW i \in Iterators, generic_linked_list_iterator_get(i)
         PROVE  IInv'
    <2> DEFINE d == IF generic_linked_list_iterator_is_valid(i) THEN data[iter[i]] ELSE NULL
    <2>1. exists /\ Yields(<< d >>) /\ iter[i] \in Nodes \cup Guards
      BY <1>0, <1>12 DEF generic_linked_list_iterator_get, Usable, TypeOK
    <2>2. d \in Data \cup {NULL}
      BY <1>0, <2>1 DEF TypeOK
    <2>3. << d >> \in Seq(Data \cup {NULL} \cup Nat)
      BY <2>2
    <2> QED BY <2>1, <2>3, YieldsKeeps
  <1>13. ASSUME NEW i \in Iterators, generic_linked_list_iterator_remove(i)
         PROVE  IInv'
    BY <1>0, <1>13, IteratorRemoves, RemovedKeeps
  <1>14. ASSUME NEW i \in Iterators, NEW k \in Nat, generic_linked_list_iterator_advance(i, k)
         PROVE  IInv'
    <2>1. PICK p \in 0..(Len(order) + 1) :
            Place(i, NodeAt(order, IF p + k > Len(order) + 1 THEN Len(order) + 1 ELSE p + k))
      BY <1>14, AdvancePlaces
    <2>2. (IF p + k > Len(order) + 1 THEN Len(order) + 1 ELSE p + k) \in 0..(Len(order) + 1)
      BY LenProperties, <1>0 DEF TypeOK
    <2>3. exists /\ i \notin stale
      BY <1>14 DEF generic_linked_list_iterator_advance, Usable
    <2> QED BY <2>1, <2>2, <2>3, NodesAreLive, PlaceKeeps
  <1>15. ASSUME NEW i \in Iterators, NEW k \in Nat,
                generic_linked_list_iterator_reverse_advance(i, k)
         PROVE  IInv'
    <2>1. PICK p \in 0..(Len(order) + 1) :
            Place(i, NodeAt(order, IF p < k THEN 0 ELSE p - k))
      BY <1>15, ReverseAdvancePlaces
    <2>2. (IF p < k THEN 0 ELSE p - k) \in 0..(Len(order) + 1)
      BY LenProperties, <1>0 DEF TypeOK
    <2>3. exists /\ i \notin stale
      BY <1>15 DEF generic_linked_list_iterator_reverse_advance, Usable
    <2> QED BY <2>1, <2>2, <2>3, NodesAreLive, PlaceKeeps
  <1>16. ASSUME NEW i \in Iterators, NEW j \in Iterators,
                generic_linked_list_iterator_distance(i, j)
         PROVE  IInv'
    <2>1. PICK p, e \in 0..(Len(order) + 1) :
            p <= e /\ Yields(<< IF p = 0 /\ e > 0 THEN e - 1 ELSE e - p >>)
      BY <1>16, DistanceYields
    <2>2. (IF p = 0 /\ e > 0 THEN e - 1 ELSE e - p) \in Nat
      BY <2>1, LenProperties, <1>0 DEF TypeOK
    <2>3. << IF p = 0 /\ e > 0 THEN e - 1 ELSE e - p >> \in Seq(Data \cup {NULL} \cup Nat)
      BY <2>2
    <2>4. exists
      BY <1>16 DEF generic_linked_list_iterator_distance
    <2> QED BY <2>1, <2>3, <2>4, YieldsKeeps
  <1>17. ASSUME NEW i \in Iterators, NEW j \in Iterators,
                generic_linked_list_iterator_for_each(i, j)
         PROVE  IInv'
    <2>1. PICK p, e \in 0..(Len(order) + 1) :
            /\ Stop(order, p, e) - p \in Nat /\ Stop(order, p, e) \in 0..(Len(order) + 1)
            /\ Yields([k \in 1..(Stop(order, p, e) - p) |-> data[NodeAt(order, p + (k - 1))]])
      BY <1>17, ForEachYields
    <2> DEFINE s == Stop(order, p, e)
               result == [k \in 1..(s - p) |-> data[NodeAt(order, p + (k - 1))]]
    <2>2. ASSUME NEW k \in 1..(s - p)
          PROVE  data[NodeAt(order, p + (k - 1))] \in Data \cup {NULL} \cup Nat
      <3>1. p + (k - 1) \in 0..(Len(order) + 1)
        <4>1. Len(order) \in Nat
          BY LenProperties, <1>0 DEF TypeOK
        <4> HIDE DEF s
        <4> QED BY <2>1, <4>1 DEF s
      <3>2. NodeAt(order, p + (k - 1)) \in Nodes \cup Guards
        BY <3>1, NodeAtIsExact, <1>0 DEF TypeOK, Spots
      <3> QED BY <3>2, <1>0 DEF TypeOK
    <2>3. result \in Seq(Data \cup {NULL} \cup Nat)
      <3>1. PICK l \in Nat : l = s - p
        BY <2>1
      <3> HIDE DEF s
      <3>2. result = [k \in 1..l |-> data[NodeAt(order, p + (k - 1))]]
        BY <3>1
      <3> QED BY <2>2, <3>1, <3>2
    <2>4. exists
      BY <1>17 DEF generic_linked_list_iterator_for_each
    <2> QED BY <2>1, <2>3, <2>4, YieldsKeeps
  <1>18. ASSUME NEW i \in Iterators, NEW j \in Iterators, NEW h \in Iterators, NEW d \in Data,
                generic_linked_list_iterator_find(i, j, d, h)
         PROVE  IInv'
    <2>1. PICK p, e \in 0..(Len(order) + 1) : Place(h, NodeAt(order, Found(p, e, d)))
      BY <1>18, FindPlaces
    <2>2. Found(p, e, d) \in 0..(Len(order) + 1)
      <3>1. /\ Hits(p, e, d) \in SUBSET Nat
            /\ \A y \in Hits(p, e, d) : y \in 0..(Len(order) + 1)
        BY LenProperties, <1>0 DEF TypeOK, Hits, Visited
      <3> QED BY <3>1, MinOfNats DEF Found
    <2>3. exists /\ h \notin stale
      BY <1>0, <1>18 DEF generic_linked_list_iterator_find, IterInv
    <2> QED BY <2>1, <2>2, <2>3, NodesAreLive, PlaceKeeps
  <1>19. CASE UNCHANGED vars
    BY <1>0, <1>19, SettingsKeep DEF vars, TypeOK
  <1>20. ASSUME NEW k \in 0..(Cardinality(Nodes) + 1)
         PROVE  k \in Nat
    BY ListAssumption, FS_CardinalityType
  <1>21. CASE Next
    BY <1>21, <1>1, <1>2, <1>3, <1>4, <1>5, <1>6, <1>7, <1>8, <1>9, <1>10, <1>11, <1>12,
       <1>13, <1>14, <1>15, <1>16, <1>17, <1>18, <1>20 DEF Next
  <1> QED BY <1>19, <1>21

LEMMA Invariance == Spec => []IInv
  BY InitKeeps, StepKeeps, PTL DEF Spec

\* Every reachable state of the list is well typed: no call follows a link
\* that is not there, also not the walks of advance, find, distance and
\* for_each.
THEOREM TypeCorrect == Spec => []TypeOK
  <1>1. IInv => TypeOK
    BY DEF IInv
  <1> QED BY <1>1, Invariance, PTL

LEMMA ChainIsLinked == IInv => WellLinked
  <1> SUFFICES ASSUME IInv, exists
               PROVE  /\ \A k \in 1..(Len(Chain) - 1) :
                           next[Chain[k]] = Chain[k + 1] /\ prev[Chain[k + 1]] = Chain[k]
                      /\ prev[HeadGuard] = NULL /\ next[TailGuard] = NULL
                      /\ \A k, l \in 1..Len(order) : order[k] = order[l] => k = l
                      /\ size = Len(order)
                      /\ \A n \in Nodes \ Range(order) : next[n] = NULL /\ prev[n] = NULL
    BY DEF WellLinked
  <1>1. PICK len \in Nat : len = Len(order) /\ DOMAIN order = 1..len /\ order \in Seq(Nodes)
    BY LenProperties, ChainExists
  <1>2. Len(Chain) = len + 2 /\ \A k \in 1..(len + 2) : Chain[k] = NodeAt(order, k - 1)
    <2> DEFINE S == Nodes \cup Guards
               a == << HeadGuard >> \o order
    <2>1. /\ << HeadGuard >> \in Seq(S) /\ order \in Seq(S) /\ << TailGuard >> \in Seq(S)
          /\ Len(<< HeadGuard >>) = 1 /\ Len(<< TailGuard >>) = 1
      BY <1>1 DEF Guards
    <2>2. /\ a \in Seq(S) /\ Len(a) = len + 1 /\ a[1] = HeadGuard
          /\ \A k \in 1..len : a[k + 1] = order[k]
      BY <2>1, <1>1, PrependProperties DEF Guards
    <2> HIDE DEF a
    <2>3. /\ Len(a \o << TailGuard >>) = len + 2
          /\ \A k \in 1..(len + 1) : (a \o << TailGuard >>)[k] = a[k]
          /\ (a \o << TailGuard >>)[len + 2] = TailGuard
      BY <2>1, <2>2
    <2>4. Chain = a \o << TailGuard >>
      BY DEF Chain, a
    <2>5. ASSUME NEW k \in 1..(len + 2)
          PROVE  Chain[k] = NodeAt(order, k - 1)
      <3>1. CASE k = 1
        BY <2>2, <2>3, <2>4, <3>1 DEF NodeAt
      <3>2. CASE k \in 2..(len + 1)
        <4>1. PICK l \in 1..len : k = l + 1 /\ k - 1 = l
          <5>1. k - 1 \in 1..len /\ k = (k - 1) + 1
            BY <3>2
          <5> QED BY <5>1
        <4> QED BY <2>2, <2>3, <2>4, <3>2, <4>1, <1>1 DEF NodeAt
      <3>3. CASE k = len + 2
        <4>1. k - 1 = len + 1
          BY <3>3
        <4> QED BY <2>3, <2>4, <3>3, <4>1, <1>1 DEF NodeAt
      <3> QED BY <3>1, <3>2, <3>3
    <2> QED BY <2>3, <2>4, <2>5
  <1>3. ASSUME NEW k \in 1..(len + 1)
        PROVE  next[Chain[k]] = Chain[k + 1] /\ prev[Chain[k + 1]] = Chain[k]
    <2>1. PICK l \in 0..len : k - 1 = l /\ (k + 1) - 1 = l + 1
      <3>1. k - 1 \in 0..len /\ (k + 1) - 1 = (k - 1) + 1
        OBVIOUS
      <3> QED BY <3>1
    <2>2. Chain[k] = NodeAt(order, l) /\ Chain[k + 1] = NodeAt(order, l + 1)
      <3>1. k \in 1..(len + 2) /\ k + 1 \in 1..(len + 2)
        OBVIOUS
      <3> QED BY <3>1, <2>1, <1>2
    <2> QED BY <2>2, <1>1, ChainExists DEF LinkOK
  <1>4. \A k, l \in 1..len : order[k] = order[l] => k = l
    BY <1>1, ChainExists DEF IsInjective
  <1>5. Len(Chain) - 1 = len + 1
    BY <1>2
  <1> QED BY <1>1, <1>3, <1>4, <1>5, ChainExists DEF LinkOK, IInv, ChainInv

\* Whatever mixture of insertions and removals made a list, its links
\* represent the sequence in both directions and _size is its length.
THEOREM LinksAreConsistent == Spec => []WellLinked
  BY ChainIsLinked, Invariance, PTL

LEMMA ObjectsHaveOneNode == IInv => Ownership
  <1> SUFFICES ASSUME IInv, NEW d \in Data
               PROVE  Cardinality({ n \in Range(order) : data[n] = d })
                        = IF where[d] = "list" THEN 1 ELSE 0
    BY DEF Ownership
  <1> DEFINE holders == { n \in Range(order) : data[n] = d }
  <1>1. CASE where[d] = "list"
    <2>1. PICK n \in Range(order) : data[n] = d
      BY <1>1 DEF IInv, OwnInv
    <2>2. holders = {n}
      BY <2>1, ListAssumption DEF IInv, OwnInv
    <2> QED BY <2>2, <1>1, FS_Singleton
  <1>2. CASE where[d] # "list"
    <2>1. holders = {}
      BY <1>2 DEF IInv, OwnInv
    <2> QED BY <2>1, <1>2, FS_EmptySet
  <1> QED BY <1>1, <1>2

\* An object the list was given is in one node of it until it is handed out
\* or freed, and this happens once.
THEOREM ObjectsHaveOneOwner == Spec => []Ownership
  BY ObjectsHaveOneNode, Invariance, PTL

\* An iterator nobody pulled the node away from is at a guard or a node of
\* the list, whatever other iterators have removed.
THEOREM IteratorsStayInTheList == Spec => []IteratorsLive
  <1>1. IInv => IteratorsLive
    BY DEF IInv, IterInv
  <1> QED BY <1>1, Invariance, PTL

-----------------------------------------------------------------------------
(* The list implements IteratedList *)

\* The abstract list in terms of places.
LEMMA ElementsAre ==
  ASSUME IInv
  PROVE  /\ Elements \in Seq(Data \cup {NULL}) /\ Len(Elements) = Len(order)
         /\ \A k \in 1..Len(order) : Elements[k] = data[order[k]]
  <1>1. PICK len \in Nat : len = Len(order)
    BY LenProperties DEF IInv, TypeOK
  <1>2. \A k \in 1..len : data[order[k]] \in Data \cup {NULL}
    BY <1>1, NodeAtIsExact DEF IInv, TypeOK
  <1>3. Elements = [k \in 1..len |-> data[order[k]]]
    BY <1>1 DEF Elements
  <1> QED BY <1>1, <1>2, <1>3

LEMMA PlacesAre ==
  ASSUME IInv, NEW i \in Iterators
  PROVE  /\ ~Usable(i) => Places[i] = NULL
         /\ \A p \in 0..(Len(order) + 1) :
              Usable(i) /\ iter[i] = NodeAt(order, p) => Places[i] = p /\ p # NULL
         /\ Usable(i) => \E p \in 0..(Len(order) + 1) :
                           p \in Nat /\ iter[i] = NodeAt(order, p) /\ Places[i] = p /\ p # NULL
         /\ Places[i] # NULL <=> Usable(i)
         /\ iter[i] = NULL => ~Usable(i)
  <1>1. \A p \in 0..(Len(order) + 1) : p \in Nat /\ p # NULL /\ Position(NodeAt(order, p)) = p
    BY LenProperties, PositionIsPlace, ListAssumption DEF IInv, TypeOK, ChainInv
  <1>2. Places[i] = IF Usable(i) THEN Position(iter[i]) ELSE NULL
    BY DEF Places
  <1>3. \A p \in 0..(Len(order) + 1) :
          Usable(i) /\ iter[i] = NodeAt(order, p) => Places[i] = p /\ p # NULL
    BY <1>1, <1>2
  <1>4. Usable(i) => \E p \in 0..(Len(order) + 1) :
                       p \in Nat /\ iter[i] = NodeAt(order, p) /\ Places[i] = p /\ p # NULL
    BY <1>1, <1>3, UsablePlace
  <1> QED BY <1>2, <1>3, <1>4 DEF Usable

\* An iterator that is placed.
LEMMA PlaceMaps ==
  ASSUME IInv, exists, NEW i \in Iterators, i \notin stale,
         NEW x \in 0..(Len(order) + 1), Place(i, NodeAt(order, x))
  PROVE  /\ Elements' = Elements /\ out' = out
         /\ Places' = [Places EXCEPT ![i] = x]
  <1> USE DEF Place
  <1>1. IInv'
    BY NodesAreLive, PlaceKeeps
  <1>2. order' = order /\ data' = data /\ stale' = stale /\ out' = out
    BY DEF iterFrame, linkVars
  <1>3. Elements' = Elements
    BY <1>2 DEF Elements
  <1>4. iter'[i] = NodeAt(order, x) /\ \A j \in Iterators : j # i => iter'[j] = iter[j]
    BY DEF IInv, TypeOK
  <1>5. iter'[i] # NULL
    BY <1>4, NodesAreLive, RangeOfSeq, ListAssumption DEF IInv, TypeOK
  <1>6. Position(NodeAt(order, x)) = x
    BY PositionIsPlace DEF IInv, TypeOK, ChainInv
  <1>7. Places' = [j \in Iterators |-> IF Usable(j)' THEN Position(iter[j])' ELSE NULL]
    BY DEF Places
  <1>8. \A n : Position(n)' = IF n = HeadGuard THEN 0 ELSE IF n = TailGuard THEN Len(order) + 1
                              ELSE CHOOSE k \in 1..Len(order) : order[k] = n
    BY <1>2 DEF Position
  <1>9. Places'[i] = x
    BY <1>2, <1>4, <1>5, <1>6, <1>7 DEF Usable, Position
  <1>10. \A j \in Iterators : j # i => Places'[j] = Places[j]
    BY <1>2, <1>4, <1>7 DEF Places, Usable, Position
  <1>11. DOMAIN Places' = Iterators /\ DOMAIN Places = Iterators
    BY DEF Places
  <1>12. Places' = [Places EXCEPT ![i] = x]
    <2>1. PICK f : f = Places' /\ f = [j \in Iterators |-> f[j]]
      BY <1>7
    <2>2. PICK g : g = Places /\ g = [j \in Iterators |-> g[j]]
      BY DEF Places
    <2>3. f = [g EXCEPT ![i] = x]
      BY <2>1, <2>2, <1>9, <1>10
    <2> QED BY <2>1, <2>2, <2>3
  <1> QED BY <1>2, <1>3, <1>12

\* A call that yields a result.
LEMMA YieldsMaps ==
  ASSUME NEW result, Yields(result)
  PROVE  Elements' = Elements /\ Places' = Places /\ out' = result
  <1>1. order' = order /\ data' = data /\ stale' = stale /\ iter' = iter /\ out' = result
    BY DEF Yields, iterFrame, linkVars
  <1> QED BY <1>1 DEF Elements, Places, Usable, Position

LEMMA OpenRefines ==
  ASSUME IInv, NEW i \in Iterators, Open(i)
  PROVE  L!Open(i)
  <1>1. PICK x \in {0, 1, Len(order), Len(order) + 1} : Place(i, NodeAt(order, x))
    BY OpenPlaces
  <1>2. x \in 0..(Len(order) + 1)
    BY LenProperties DEF IInv, TypeOK
  <1>3. exists /\ i \notin stale /\ iter[i] = NULL
    BY DEF Open, IInv, IterInv
  <1>4. Elements' = Elements /\ out' = out /\ Places' = [Places EXCEPT ![i] = x]
    BY <1>1, <1>2, <1>3, PlaceMaps
  <1>5. Places[i] = NULL
    BY <1>3, PlacesAre
  <1> QED BY <1>1, <1>4, <1>5, ElementsAre DEF L!Open, L!Usable

LEMMA AdvanceRefines ==
  ASSUME IInv, exists, NEW i \in Iterators, Usable(i), NEW k \in Nat,
         NEW p \in 0..(Len(order) + 1), iter[i] = NodeAt(order, p),
         Place(i, NodeAt(order, IF p + k > Len(order) + 1 THEN Len(order) + 1 ELSE p + k))
  PROVE  L!Next \/ UNCHANGED L!listVars
  <1>1. PICK len \in Nat : len = Len(order) /\ p \in 0..(len + 1)
    BY LenProperties DEF IInv, TypeOK
  <1>2. PICK x \in 0..(len + 1) : x = IF p + k > len + 1 THEN len + 1 ELSE p + k
    <2>1. (IF p + k > len + 1 THEN len + 1 ELSE p + k) \in 0..(len + 1)
      BY <1>1
    <2> QED BY <2>1
  <1>3. i \notin stale /\ Place(i, NodeAt(order, x))
    BY <1>1, <1>2 DEF Usable
  <1>4. /\ Elements' = Elements /\ out' = out
        /\ Places' = [Places EXCEPT ![i] = x]
    BY <1>1, <1>3, PlaceMaps
  <1>5. Places[i] = p /\ p # NULL /\ Len(Elements) = len /\ i \in DOMAIN Places
    BY <1>1, PlacesAre, ElementsAre DEF Places
  <1>6. CASE k = 0
    <2>1. x = p
      BY <1>1, <1>2, <1>6
    <2>2. Places' = Places
      BY <2>1, <1>4, <1>5 DEF Places
    <2> QED BY <2>2, <1>4 DEF L!listVars
  <1>7. CASE k > 0
    <2>1. PICK n \in 1..(len + 1) : x = IF p + n > len + 1 THEN len + 1 ELSE p + n
      <3>1. CASE k <= len + 1
        <4>1. k \in 1..(len + 1)
          BY <3>1, <1>1, <1>7
        <4> QED BY <4>1, <1>2
      <3>2. CASE k > len + 1
        <4>1. x = len + 1 /\ x = IF p + (len + 1) > len + 1 THEN len + 1 ELSE p + (len + 1)
          BY <3>2, <1>1, <1>2
        <4> QED BY <4>1
      <3> QED BY <3>1, <3>2
    <2>2. Places' = [Places EXCEPT ![i] = IF @ + n > Len(Elements) + 1 THEN Len(Elements) + 1
                                          ELSE @ + n]
      BY <2>1, <1>4, <1>5
    <2>3. L!Advance(i, n)
      BY <2>2, <1>4, <1>5 DEF L!Advance, L!Usable
    <2> QED BY <2>3, <1>5 DEF L!Next
  <1> QED BY <1>6, <1>7

LEMMA ReverseAdvanceRefines ==
  ASSUME IInv, exists, NEW i \in Iterators, Usable(i), NEW k \in Nat,
         NEW p \in 0..(Len(order) + 1), iter[i] = NodeAt(order, p),
         Place(i, NodeAt(order, IF p < k THEN 0 ELSE p - k))
  PROVE  L!Next \/ UNCHANGED L!listVars
  <1>1. PICK len \in Nat : len = Len(order) /\ p \in 0..(len + 1)
    BY LenProperties DEF IInv, TypeOK
  <1>2. PICK x \in 0..(len + 1) : x = IF p < k THEN 0 ELSE p - k
    <2>1. (IF p < k THEN 0 ELSE p - k) \in 0..(len + 1)
      BY <1>1
    <2> QED BY <2>1
  <1>3. i \notin stale /\ Place(i, NodeAt(order, x))
    BY <1>1, <1>2 DEF Usable
  <1>4. /\ Elements' = Elements /\ out' = out
        /\ Places' = [Places EXCEPT ![i] = x]
    BY <1>1, <1>3, PlaceMaps
  <1>5. Places[i] = p /\ p # NULL /\ Len(Elements) = len /\ i \in DOMAIN Places
    BY <1>1, PlacesAre, ElementsAre DEF Places
  <1>6. CASE k = 0
    <2>1. x = p
      BY <1>1, <1>2, <1>6
    <2>2. Places' = Places
      BY <2>1, <1>4, <1>5 DEF Places
    <2> QED BY <2>2, <1>4 DEF L!listVars
  <1>7. CASE k > 0
    <2>1. PICK n \in 1..(len + 1) : x = IF p < n THEN 0 ELSE p - n
      <3>1. CASE k <= len + 1
        BY <3>1, <1>2, <1>7
      <3>2. CASE k > len + 1
        <4>1. x = 0 /\ x = IF p < len + 1 THEN 0 ELSE p - (len + 1)
          BY <3>2, <1>1, <1>2
        <4> QED BY <4>1
      <3> QED BY <3>1, <3>2
    <2>2. Places' = [Places EXCEPT ![i] = IF @ < n THEN 0 ELSE @ - n]
      BY <2>1, <1>4, <1>5
    <2>3. L!ReverseAdvance(i, n)
      BY <2>2, <1>4, <1>5 DEF L!ReverseAdvance, L!Usable
    <2> QED BY <2>3, <1>5 DEF L!Next
  <1> QED BY <1>6, <1>7

LEMMA GetRefines ==
  ASSUME IInv, NEW i \in Iterators, generic_linked_list_iterator_get(i)
  PROVE  L!Get(i)
  <1> USE DEF generic_linked_list_iterator_get
  <1>1. PICK p \in 0..(Len(order) + 1) :
          p \in Nat /\ iter[i] = NodeAt(order, p) /\ Places[i] = p /\ p # NULL
    BY PlacesAre
  <1>2. PICK len \in Nat : len = Len(order)
    BY LenProperties DEF IInv, TypeOK
  <1>3. generic_linked_list_iterator_is_valid(i) <=> p \in 1..len
    <2>1. /\ NodeAt(order, 0) = HeadGuard /\ NodeAt(order, len + 1) = TailGuard
          /\ \A k \in 1..len : NodeAt(order, k) \in Nodes
      BY <1>2, NodeAtIsExact DEF IInv, TypeOK
    <2>2. p \in 1..len \/ p = 0 \/ p = len + 1
      BY <1>1, <1>2
    <2>3. ~(0 \in 1..len) /\ ~(len + 1 \in 1..len)
      OBVIOUS
    <2> QED BY <2>1, <2>2, <2>3, <1>1, ListAssumption DEF Guards, generic_linked_list_iterator_is_valid
  <1>4. p \in 1..len => data[iter[i]] = Elements[p]
    <2>1. p \in 1..len => NodeAt(order, p) = order[p]
      BY <1>2, NodeAtIsExact DEF IInv, TypeOK
    <2> QED BY <2>1, <1>1, <1>2, ElementsAre
  <1>5. out' = << IF p \in 1..len THEN Elements[p] ELSE NULL >>
        /\ Elements' = Elements /\ Places' = Places
    BY <1>3, <1>4, YieldsMaps
  <1> QED BY <1>1, <1>2, <1>5, ElementsAre DEF L!Get, L!Usable

\* The elements between two iterators, in terms of places.
LEMMA BetweenIsVisited ==
  ASSUME IInv, NEW i \in Iterators, NEW j \in Iterators,
         NEW p \in 0..(Len(order) + 1), NEW e \in 0..(Len(order) + 1),
         Places[i] = p, Places[j] = e
  PROVE  L!Between(i, j) = Visited(p, e)
  <1>1. PICK len \in Nat : len = Len(order) /\ Len(Elements) = len
    BY LenProperties, ElementsAre DEF IInv, TypeOK
  <1>2. \A k \in 1..len : (p <= k /\ (p <= e => k < e)) <=> (p <= k /\ k < Stop(order, p, e))
    BY <1>1 DEF Stop
  <1> QED BY <1>1, <1>2 DEF L!Between, Visited

LEMMA DistanceRefines ==
  ASSUME IInv, NEW i \in Iterators, NEW j \in Iterators,
         generic_linked_list_iterator_distance(i, j)
  PROVE  L!Distance(i, j)
  <1> USE DEF generic_linked_list_iterator_distance
  <1>1. PICK p, e \in 0..(Len(order) + 1) :
          /\ iter[i] = NodeAt(order, p) /\ iter[j] = NodeAt(order, e) /\ p <= e
          /\ Yields(<< IF p = 0 /\ e > 0 THEN e - 1 ELSE e - p >>)
    BY DistanceYields
  <1>2. PICK len \in Nat : len = Len(order)
    BY LenProperties DEF IInv, TypeOK
  <1>3. Places[i] = p /\ Places[j] = e /\ p # NULL /\ e # NULL
    BY <1>1, PlacesAre
  <1>4. L!Between(i, j) = Visited(p, e)
    BY <1>3, BetweenIsVisited
  <1>5. Cardinality(Visited(p, e)) = IF p = 0 /\ e > 0 THEN e - 1 ELSE e - p
    <2>0. p \in Int /\ e \in Int /\ e - 1 \in Int /\ 1 \in Int /\ p \in Nat /\ e \in Nat
      BY <1>2
    <2>1. Visited(p, e) = { k \in 1..len : p <= k /\ k < e }
      BY <1>1, <1>2 DEF Visited, Stop
    <2>2. CASE p = 0
      <3>1. Visited(p, e) = 1..(e - 1)
        BY <2>0, <2>1, <2>2, <1>2
      <3>2. Cardinality(1..(e - 1)) = IF 1 > e - 1 THEN 0 ELSE (e - 1) - 1 + 1
        BY <2>0, FS_Interval
      <3>3. Cardinality(1..(e - 1)) = IF p = 0 /\ e > 0 THEN e - 1 ELSE e - p
        BY <2>0, <2>2, <3>2
      <3> QED BY <3>1, <3>3
    <2>3. CASE p > 0
      <3>1. Visited(p, e) = p..(e - 1)
        BY <2>0, <2>1, <2>3, <1>2
      <3>2. Cardinality(p..(e - 1)) = IF p > e - 1 THEN 0 ELSE (e - 1) - p + 1
        BY <2>0, FS_Interval
      <3>3. Cardinality(p..(e - 1)) = IF p = 0 /\ e > 0 THEN e - 1 ELSE e - p
        BY <2>0, <2>3, <3>2, <1>1
      <3> QED BY <3>1, <3>3
    <2> QED BY <2>0, <2>2, <2>3
  <1>6. Elements' = Elements /\ Places' = Places
        /\ out' = << IF p = 0 /\ e > 0 THEN e - 1 ELSE e - p >>
    BY <1>1, YieldsMaps
  <1>7. out' = << Cardinality(L!Between(i, j)) >>
    BY <1>4, <1>5, <1>6
  <1>8. Places[i] # NULL /\ Places[j] # NULL /\ Places[i] <= Places[j]
    BY <1>1, <1>3
  <1>9. Cardinality(L!Between(i, j)) = L!Cardinality(L!Between(i, j))
    BY DEF Cardinality, L!Cardinality
  <1> QED BY <1>6, <1>7, <1>8, <1>9 DEF L!Distance, L!Usable

LEMMA FindRefines ==
  ASSUME IInv, NEW i \in Iterators, NEW j \in Iterators, NEW h \in Iterators, NEW d \in Data,
         generic_linked_list_iterator_find(i, j, d, h)
  PROVE  L!Find(i, j, d, h)
  <1> USE DEF generic_linked_list_iterator_find
  <1>1. PICK p, e \in 0..(Len(order) + 1) :
          /\ iter[i] = NodeAt(order, p) /\ iter[j] = NodeAt(order, e)
          /\ Place(h, NodeAt(order, Found(p, e, d)))
    BY FindPlaces
  <1>2. Places[i] = p /\ Places[j] = e /\ p # NULL /\ e # NULL /\ Places[h] = NULL
    BY <1>1, PlacesAre
  <1>3. L!Between(i, j) = Visited(p, e)
    BY <1>2, BetweenIsVisited
  <1>4. \A k \in Visited(p, e) : Elements[k] = data[order[k]]
    BY ElementsAre DEF Visited
  <1>5. { k \in L!Between(i, j) : Elements[k] = d } = Hits(p, e, d)
    BY <1>3, <1>4 DEF Hits
  <1>6. Found(p, e, d) \in 0..(Len(order) + 1)
    <2>1. /\ Hits(p, e, d) \in SUBSET Nat
          /\ \A y \in Hits(p, e, d) : y \in 0..(Len(order) + 1)
      BY LenProperties DEF IInv, TypeOK, Hits, Visited
    <2> QED BY <2>1, MinOfNats DEF Found
  <1>7. exists /\ h \notin stale
    BY DEF IInv, IterInv
  <1>8. Elements' = Elements /\ out' = out /\ Places' = [Places EXCEPT ![h] = Found(p, e, d)]
    BY <1>1, <1>6, <1>7, PlaceMaps
  <1>9. Found(p, e, d) = IF Hits(p, e, d) = {} THEN Places[j]
                         ELSE CHOOSE k \in Hits(p, e, d) : \A l \in Hits(p, e, d) : k <= l
    BY <1>2 DEF Found, Min
  <1> QED BY <1>2, <1>5, <1>8, <1>9 DEF L!Find, L!Usable

LEMMA ForEachRefines ==
  ASSUME IInv, NEW i \in Iterators, NEW j \in Iterators,
         generic_linked_list_iterator_for_each(i, j)
  PROVE  L!ForEach(i, j)
  <1> USE DEF generic_linked_list_iterator_for_each
  <1>1. PICK p, e \in 0..(Len(order) + 1) :
          /\ iter[i] = NodeAt(order, p) /\ iter[j] = NodeAt(order, e)
          /\ Stop(order, p, e) - p \in Nat /\ Stop(order, p, e) \in 0..(Len(order) + 1)
          /\ Yields([k \in 1..(Stop(order, p, e) - p) |-> data[NodeAt(order, p + (k - 1))]])
    BY ForEachYields
  <1>2. Places[i] = p /\ Places[j] = e /\ p # NULL /\ e # NULL
    BY <1>1, PlacesAre
  <1>3. PICK len \in Nat : len = Len(order) /\ p \in 0..(len + 1)
    BY LenProperties DEF IInv, TypeOK
  <1>4. PICK s \in 0..(len + 1) : /\ s = Stop(order, p, e) /\ s - p \in Nat
                                  /\ s = IF p <= e THEN e ELSE len + 1
    BY <1>1, <1>3 DEF Stop
  <1>5. /\ Elements \in Seq(Data \cup {NULL}) /\ Len(Elements) = len
        /\ \A k \in 1..len : NodeAt(order, k) = order[k] /\ Elements[k] = data[order[k]]
        /\ NodeAt(order, 0) = HeadGuard /\ data[HeadGuard] = NULL
    BY <1>3, ElementsAre, NodeAtIsExact DEF IInv, TypeOK, ChainInv, Guards
  <1> DEFINE first == IF p = 0 THEN 1 ELSE p
             part == SubSeq(Elements, first, s - 1)
             start == IF p = 0 /\ s # 0 THEN << NULL >> ELSE << >>
             result == [k \in 1..(s - p) |-> data[NodeAt(order, p + (k - 1))]]
  <1>6. result = start \o part
    <2>1. CASE s = p
      <3>1. part = << >> /\ start = << >>
        BY <2>1, <1>3, <1>5
      <3>2. result = << >>
        BY <2>1, <1>3
      <3> HIDE DEF part, start, result
      <3> QED BY <3>1, <3>2
    <2>2. CASE s > p /\ p > 0
      <3>1. part = [k \in 1..(s - p) |-> Elements[p + (k - 1)]]
        <4>1. part = [k \in 1..(s - 1 - p + 1) |-> Elements[p + k - 1]]
          BY <2>2, <1>3, <1>5
        <4>2. s - 1 - p + 1 = s - p /\ \A k \in 1..(s - p) : p + k - 1 = p + (k - 1)
          BY <1>3
        <4> QED BY <4>1, <4>2
      <3>2. \A k \in 1..(s - p) : data[NodeAt(order, p + (k - 1))] = Elements[p + (k - 1)]
        <4>1. \A k \in 1..(s - p) : p + (k - 1) \in 1..len
          BY <2>2, <1>3
        <4> QED BY <4>1, <1>5
      <3>3. result = part
        BY <3>1, <3>2
      <3>4. start = << >>
        BY <2>2
      <3>5. part \in Seq(Data \cup {NULL})
        <4>1. \A k \in 1..(s - p) : Elements[p + (k - 1)] \in Data \cup {NULL}
          <5>1. \A k \in 1..(s - p) : p + (k - 1) \in 1..len
            BY <2>2, <1>3
          <5>2. \A k \in 1..len : Elements[k] \in Data \cup {NULL}
            BY <1>5, ElementOfSeq
          <5> QED BY <5>1, <5>2
        <4>2. PICK l \in Nat : l = s - p
          BY <1>4
        <4> HIDE DEF part
        <4>3. part = [k \in 1..l |-> Elements[p + (k - 1)]]
          BY <3>1, <4>2
        <4> QED BY <4>1, <4>2, <4>3
      <3> HIDE DEF part, start, result
      <3> QED BY <3>3, <3>4, <3>5
    <2>3. CASE s > p /\ p = 0
      <3>1. PICK l \in Nat : l = s - 1 /\ l \in 0..len /\ s - p = l + 1
        BY <2>3, <1>3
      <3>2. part = [k \in 1..l |-> Elements[k]]
        <4>1. part = [k \in 1..(l - 1 + 1) |-> Elements[1 + k - 1]]
          BY <2>3, <3>1, <1>5
        <4>2. l - 1 + 1 = l /\ \A k \in 1..l : 1 + k - 1 = k
          OBVIOUS
        <4> QED BY <4>1, <4>2
      <3>3. part \in Seq(Data \cup {NULL}) /\ Len(part) = l
        <4>1. \A k \in 1..l : Elements[k] \in Data \cup {NULL}
          BY <3>1, <1>5, ElementOfSeq
        <4> HIDE DEF part
        <4> QED BY <3>2, <4>1
      <3>4. start = << NULL >>
        BY <2>3
      <3> HIDE DEF part, start
      <3>5. /\ Len(start \o part) = l + 1 /\ (start \o part)[1] = NULL
            /\ \A k \in 1..l : (start \o part)[k + 1] = part[k]
            /\ start \o part \in Seq(Data \cup {NULL})
        BY <3>3, <3>4, PrependProperties
      <3>6. /\ result = [k \in 1..(l + 1) |-> result[k]]
            /\ \A k \in 1..(l + 1) : result[k] = data[NodeAt(order, k - 1)]
        <4>1. \A k \in 1..(l + 1) : p + (k - 1) = k - 1
          BY <2>3
        <4>2. result = [k \in 1..(l + 1) |-> data[NodeAt(order, k - 1)]]
          BY <3>1, <4>1
        <4> HIDE DEF result
        <4> QED BY <4>2
      <3> HIDE DEF result
      <3>7. PICK t \in Seq(Data \cup {NULL}) : t = start \o part
        BY <3>5
      <3>8. /\ Len(t) = l + 1 /\ t[1] = NULL /\ \A k \in 1..l : t[k + 1] = part[k]
            /\ t = [k \in 1..(l + 1) |-> t[k]]
        <4>1. Len(t) = l + 1 /\ t[1] = NULL /\ \A k \in 1..l : t[k + 1] = part[k]
          BY <3>5, <3>7
        <4>2. t = [k \in 1..Len(t) |-> t[k]]
          BY LenProperties
        <4> QED BY <4>1, <4>2
      <3>9. ASSUME NEW k \in 1..(l + 1)
            PROVE  result[k] = t[k]
        <4>2. CASE k = 1
          BY <4>2, <3>6, <3>8, <1>5
        <4>3. CASE k > 1
          <5>1. PICK m \in 1..l : k = m + 1 /\ k - 1 = m
            <6>1. k - 1 \in 1..l /\ k = (k - 1) + 1
              BY <4>3
            <6> QED BY <6>1
          <5>2. result[k] = Elements[m]
            <6>1. m \in 1..len
              BY <3>1
            <6>2. result[k] = data[NodeAt(order, m)]
              BY <5>1, <3>6
            <6> QED BY <6>1, <6>2, <1>5
          <5> QED BY <5>1, <5>2, <3>2, <3>8
        <4> QED BY <4>2, <4>3
      <3> QED BY <3>6, <3>7, <3>8, <3>9
    <2>4. s = p \/ (s > p /\ p > 0) \/ (s > p /\ p = 0)
      BY <1>3, <1>4
    <2> HIDE DEF result, start, part
    <2> QED BY <2>1, <2>2, <2>3, <2>4
  <1>7. out' = result /\ Elements' = Elements /\ Places' = Places
    BY <1>1, <1>4, YieldsMaps
  <1>8. out' = start \o SubSeq(Elements, first, s - 1)
    BY <1>6, <1>7
  <1> QED BY <1>2, <1>3, <1>4, <1>5, <1>7, <1>8 DEF L!ForEach, L!Usable

\* Where a usable iterator is after a step.
LEMMA PlacesNext ==
  ASSUME IInv', NEW i \in Iterators
  PROVE  /\ ~Usable(i)' => Places'[i] = NULL
         /\ \A p \in 0..(Len(order') + 1) :
              Usable(i)' /\ iter'[i] = NodeAt(order', p) => Places'[i] = p
  <1>1. \A p \in 0..(Len(order') + 1) : PlaceIn(order', NodeAt(order', p)) = p
    BY PlaceInChain DEF IInv, TypeOK, ChainInv
  <1>2. Places'[i] = IF Usable(i)' THEN PlaceIn(order', iter'[i]) ELSE NULL
    BY DEF Places, Position, PlaceIn
  <1> QED BY <1>1, <1>2

\* An insertion behind place k, in terms of places.
InsertMapped(d, k) ==
  /\ Len(Elements') = Len(order) + 1 /\ Elements' \in Seq(Data \cup {NULL})
  /\ \A j \in 1..(Len(order) + 1) :
       Elements'[j] = IF j <= k THEN Elements[j] ELSE IF j = k + 1 THEN d
                      ELSE Elements[j - 1]
  /\ \A i \in Iterators :
       /\ ~Usable(i) => Places[i] = NULL /\ Places'[i] = NULL
       /\ Usable(i) => \E p \in 0..(Len(order) + 1) :
            Places[i] = p /\ p # NULL /\ Places'[i] = IF p <= k THEN p ELSE p + 1
  /\ out' = out

LEMMA InsertMaps ==
  ASSUME IInv, NEW n \in Nodes, NEW d \in Data \cup {NULL}, NEW k \in 0..Len(order),
         Inserted(n, d, k)
  PROVE  InsertMapped(d, k)
  <1> USE DEF Inserted
  <1>1. IInv'
    BY InsertedKeeps
  <1>2. PICK len \in Nat : len = Len(order) /\ Len(order') = len + 1 /\ k \in 0..len
    BY LenProperties DEF IInv, TypeOK
  <1>3. /\ Elements \in Seq(Data \cup {NULL}) /\ Len(Elements) = len
        /\ \A j \in 1..len : Elements[j] = data[order[j]]
    BY <1>2, ElementsAre
  <1>4. Elements' = [j \in 1..(len + 1) |-> data'[order'[j]]]
    BY <1>2 DEF Elements
  <1>5. \A j \in 1..(len + 1) : data'[order'[j]] \in Data \cup {NULL}
    BY <1>1, <1>2, NodeAtIsExact DEF IInv, TypeOK
  <1>6. Elements' \in Seq(Data \cup {NULL}) /\ Len(Elements') = len + 1
    BY <1>4, <1>5
  <1>7. data'[n] = d /\ \A j \in 1..len : data'[order[j]] = data[order[j]]
    <2>1. \A j \in 1..len : order[j] \in Nodes /\ order[j] # n
      <3>1. DOMAIN order = 1..len
        BY <1>2, LenProperties DEF IInv, TypeOK
      <3> QED BY <3>1, <1>2, NodeAtIsExact DEF IInv, TypeOK, Range
    <2> QED BY <2>1 DEF IInv, TypeOK
  <1>8. ASSUME NEW j \in 1..(len + 1)
        PROVE  Elements'[j] = IF j <= k THEN Elements[j] ELSE IF j = k + 1 THEN d
                              ELSE Elements[j - 1]
    <2>1. /\ Elements'[j] = data'[order'[j]]
          /\ order'[j] = IF j <= k THEN order[j] ELSE IF j = k + 1 THEN n ELSE order[j - 1]
      BY <1>2, <1>4
    <2>2. CASE j <= k
      <3>1. j \in 1..len
        BY <2>2, <1>2
      <3> QED BY <2>1, <2>2, <3>1, <1>3, <1>7
    <2>3. CASE j = k + 1
      <3>1. ~(j <= k)
        BY <2>3, <1>2
      <3> QED BY <2>1, <2>3, <3>1, <1>7
    <2>4. CASE j > k + 1
      <3>1. j - 1 \in 1..len /\ ~(j <= k) /\ j # k + 1
        BY <2>4, <1>2
      <3> QED BY <2>1, <3>1, <1>3, <1>7
    <2> QED BY <2>2, <2>3, <2>4, <1>2
  <1>9. \A p \in 0..(len + 1) : NodeAt(order', IF p <= k THEN p ELSE p + 1) = NodeAt(order, p)
    <2>1. \A j \in 1..(len + 1) :
            order'[j] = IF j <= k THEN order[j] ELSE IF j = k + 1 THEN n ELSE order[j - 1]
      BY <1>2
    <2> QED BY <2>1, <1>2 DEF NodeAt
  <1>10. ASSUME NEW i \in Iterators, Usable(i)
         PROVE  \E p \in 0..(len + 1) :
                  Places[i] = p /\ p # NULL /\ Places'[i] = IF p <= k THEN p ELSE p + 1
    <2>1. PICK p \in 0..(len + 1) : iter[i] = NodeAt(order, p) /\ Places[i] = p /\ p # NULL
      BY <1>2, <1>10, PlacesAre
    <2>2. PICK x \in 0..(len + 2) : x = IF p <= k THEN p ELSE p + 1
      <3>1. (IF p <= k THEN p ELSE p + 1) \in 0..(len + 2)
        BY <1>2
      <3> QED BY <3>1
    <2>3. Usable(i)' /\ iter'[i] = NodeAt(order', x)
      BY <2>1, <2>2, <1>9, <1>10 DEF Usable
    <2>4. x \in 0..(Len(order') + 1)
      BY <1>2
    <2>5. Places'[i] = x
      BY <2>3, <2>4, <1>1, PlacesNext
    <2> QED BY <2>1, <2>2, <2>5
  <1>11. ASSUME NEW i \in Iterators, ~Usable(i)
         PROVE  Places[i] = NULL /\ Places'[i] = NULL
    <2>1. ~Usable(i)'
      BY <1>11 DEF Usable
    <2> QED BY <2>1, <1>1, <1>11, PlacesAre, PlacesNext
  <1> QED BY <1>2, <1>6, <1>8, <1>10, <1>11 DEF InsertMapped

LEMMA InsertFirstRefines ==
  ASSUME IInv, NEW n \in Nodes, NEW d \in Data \cup {NULL},
         generic_linked_list_insert_first(n, d)
  PROVE  L!InsertFirst(d)
  <1>1. PICK len \in Nat : len = Len(order) /\ Len(Elements) = len
                           /\ Elements \in Seq(Data \cup {NULL})
    BY LenProperties, ElementsAre DEF IInv, TypeOK
  <1>2. 0 \in 0..Len(order) /\ Inserted(n, d, 0)
    BY <1>1, InsertFirstInserts DEF IInv
  <1>a. InsertMapped(d, 0)
    BY <1>2, InsertMaps
  <1>3. /\ Len(Elements') = len + 1 /\ Elements' \in Seq(Data \cup {NULL})
        /\ \A j \in 1..(len + 1) : Elements'[j] = IF j <= 0 THEN Elements[j]
             ELSE IF j = 0 + 1 THEN d ELSE Elements[j - 1]
        /\ \A i \in Iterators :
             /\ ~Usable(i) => Places[i] = NULL /\ Places'[i] = NULL
             /\ Usable(i) => \E p \in 0..(len + 1) :
                  Places[i] = p /\ p # NULL /\ Places'[i] = IF p <= 0 THEN p ELSE p + 1
        /\ out' = out
    BY <1>1, <1>a DEF InsertMapped
  <1>4. PICK t \in Seq(Data \cup {NULL}) : t = << d >> \o Elements
    BY <1>1, PrependProperties
  <1>5. Len(t) = len + 1 /\ t[1] = d /\ \A j \in 1..len : t[j + 1] = Elements[j]
    BY <1>1, <1>4, PrependProperties
  <1>6. PICK u \in Seq(Data \cup {NULL}) : u = Elements'
    BY <1>3
  <1>7. ASSUME NEW j \in 1..(len + 1)
        PROVE  u[j] = t[j]
    <2>1. CASE j = 1
      BY <2>1, <1>3, <1>5, <1>6
    <2>2. CASE j > 1
      <3>1. j - 1 \in 1..len /\ (j - 1) + 1 = j /\ ~(j <= 0) /\ j # 0 + 1
        BY <2>2
      <3>2. u[j] = Elements[j - 1]
        BY <3>1, <1>3, <1>6
      <3> QED BY <3>1, <3>2, <1>5
    <2> QED BY <2>1, <2>2
  <1>8. u = t
    <2>1. Len(u) = len + 1
      BY <1>3, <1>6
    <2> QED BY <2>1, <1>5, <1>7, SeqEqual
  <1>9. \A i \in Iterators : Places'[i] = IF Places[i] \in {NULL, 0} THEN Places[i]
                                          ELSE Places[i] + 1
    BY <1>1, <1>3
  <1>10. Places' = [i \in Iterators |-> IF Places[i] \in {NULL, 0} THEN Places[i]
                                        ELSE Places[i] + 1]
    <2>1. PICK f : f = Places' /\ f = [i \in Iterators |-> f[i]]
      BY DEF Places
    <2> QED BY <2>1, <1>9
  <1> QED BY <1>3, <1>4, <1>6, <1>8, <1>10 DEF L!InsertFirst

LEMMA InsertLastRefines ==
  ASSUME IInv, NEW n \in Nodes, NEW d \in Data \cup {NULL},
         generic_linked_list_insert_last(n, d)
  PROVE  L!InsertLast(d)
  <1>1. PICK len \in Nat : len = Len(order) /\ Len(Elements) = len
                           /\ Elements \in Seq(Data \cup {NULL})
    BY LenProperties, ElementsAre DEF IInv, TypeOK
  <1>2. len \in 0..Len(order) /\ Inserted(n, d, len)
    BY <1>1, InsertLastInserts DEF IInv
  <1>a. InsertMapped(d, len)
    BY <1>2, InsertMaps
  <1>3. /\ Len(Elements') = len + 1 /\ Elements' \in Seq(Data \cup {NULL})
        /\ \A j \in 1..(len + 1) : Elements'[j] = IF j <= len THEN Elements[j]
             ELSE IF j = len + 1 THEN d ELSE Elements[j - 1]
        /\ \A i \in Iterators :
             /\ ~Usable(i) => Places[i] = NULL /\ Places'[i] = NULL
             /\ Usable(i) => \E p \in 0..(len + 1) :
                  Places[i] = p /\ p # NULL /\ Places'[i] = IF p <= len THEN p ELSE p + 1
        /\ out' = out
    BY <1>1, <1>a DEF InsertMapped
  <1>4. PICK t \in Seq(Data \cup {NULL}) : t = Append(Elements, d)
    BY <1>1, AppendProperties
  <1>5. Len(t) = len + 1 /\ t[len + 1] = d /\ \A j \in 1..len : t[j] = Elements[j]
    BY <1>1, <1>4, AppendProperties
  <1>6. PICK u \in Seq(Data \cup {NULL}) : u = Elements'
    BY <1>3
  <1>7. \A j \in 1..(len + 1) : u[j] = t[j]
    BY <1>3, <1>5, <1>6
  <1>8. u = t
    <2>1. Len(u) = len + 1
      BY <1>3, <1>6
    <2> QED BY <2>1, <1>5, <1>7, SeqEqual
  <1>9. \A i \in Iterators : Places'[i] = IF Places[i] = len + 1 THEN len + 2 ELSE Places[i]
    <2>1. len + 1 # NULL
      BY ListAssumption
    <2> QED BY <2>1, <1>1, <1>3
  <1>10. Places' = [i \in Iterators |-> IF Places[i] = len + 1 THEN len + 2 ELSE Places[i]]
    <2>1. PICK f : f = Places' /\ f = [i \in Iterators |-> f[i]]
      BY DEF Places
    <2> QED BY <2>1, <1>9
  <1> QED BY <1>1, <1>3, <1>4, <1>6, <1>8, <1>10 DEF L!InsertLast

LEMMA RemoveRefines ==
  ASSUME IInv, NEW k \in 1..Len(order), NEW via, Removed(k, via)
  PROVE  L!Remove(k, via)
  <1> USE DEF Removed
  <1>1. IInv'
    BY RemovedKeeps
  <1>2. PICK len \in Nat : len = Len(order) /\ k \in 1..len /\ order \in Seq(Nodes)
                           /\ IsInjective(order)
    BY LenProperties DEF IInv, TypeOK, ChainInv
  <1>3. /\ Elements \in Seq(Data \cup {NULL}) /\ Len(Elements) = len
        /\ \A j \in 1..len : Elements[j] = data[order[j]]
    BY <1>2, ElementsAre
  <1>4. /\ order' \in Seq(Nodes) /\ Len(order') = len - 1
        /\ \A j \in 1..(len - 1) : order'[j] = IF j < k THEN order[j] ELSE order[j + 1]
    BY <1>2, RemoveAtProperties
  <1>5. \A i, j \in 0..(len + 1) : NodeAt(order, i) = NodeAt(order, j) => i = j
    BY <1>2, NodeAtIsExact
  <1>6. \A j \in 1..len : NodeAt(order, j) = order[j] /\ order[j] \in Nodes
    BY <1>2, NodeAtIsExact
  <1>7. Elements' = RemoveAt(Elements, k)
    <2>1. PICK t \in Seq(Data \cup {NULL}) : t = RemoveAt(Elements, k)
      BY <1>2, <1>3, RemoveAtProperties
    <2>2. Len(t) = len - 1 /\ \A j \in 1..(len - 1) : t[j] = IF j < k THEN Elements[j] ELSE Elements[j + 1]
      BY <2>1, <1>2, <1>3, RemoveAtProperties
    <2>3. Elements' = [j \in 1..(len - 1) |-> data'[order'[j]]]
      BY <1>4 DEF Elements
    <2>4. \A j \in 1..len : j # k => data'[order[j]] = data[order[j]]
      <3>1. \A j \in 1..len : j # k => order[j] # order[k]
        <4>1. \A j \in 1..len : j \in 0..(len + 1) /\ k \in 0..(len + 1)
          BY <1>2
        <4> QED BY <4>1, <1>2, <1>5, <1>6
      <3> QED BY <3>1, <1>6 DEF FreeNode, IInv, TypeOK
    <2>5. ASSUME NEW j \in 1..(len - 1)
          PROVE  data'[order'[j]] = t[j]
      <3>1. CASE j < k
        <4>1. j \in 1..len /\ j # k
          BY <3>1
        <4> QED BY <3>1, <4>1, <2>2, <2>4, <1>3, <1>4
      <3>2. CASE ~(j < k)
        <4>1. j + 1 \in 1..len /\ j + 1 # k
          BY <3>2, <1>2
        <4>2. PICK m \in 1..len : m = j + 1 /\ m # k
          BY <4>1
        <4>3. order'[j] = order[m] /\ t[j] = Elements[m]
          BY <3>2, <4>2, <2>2, <1>4
        <4> QED BY <4>2, <4>3, <2>4, <1>3
      <3> QED BY <3>1, <3>2
    <2>6. t = [j \in 1..(len - 1) |-> t[j]]
      <3>1. t = [j \in 1..Len(t) |-> t[j]]
        BY LenProperties
      <3> QED BY <3>1, <2>2
    <2> QED BY <2>1, <2>3, <2>5, <2>6
  <1>8. Elements' = SubSeq(Elements, 1, k - 1) \o SubSeq(Elements, k + 1, Len(Elements))
    BY <1>7 DEF RemoveAt
  <1>9. \A p \in 0..len : NodeAt(order', p) = IF p < k THEN NodeAt(order, p) ELSE NodeAt(order, p + 1)
    BY <1>2, <1>4 DEF NodeAt
  <1>10. ASSUME NEW i \in Iterators
         PROVE  Places'[i] = IF Places[i] = NULL \/ (Places[i] = k /\ i \notin via) THEN NULL
                             ELSE IF Places[i] > k THEN Places[i] - 1 ELSE Places[i]
    <2>0. iter'[i] = IF i \in via THEN NodeAt(order, k + 1) ELSE iter[i]
      OBVIOUS
    <2>1. CASE ~Usable(i)
      <3>1. i \notin via /\ ~Usable(i)'
        <4>1. i \notin via
          BY <2>1, <1>6, ListAssumption, <1>2 DEF Usable
        <4> QED BY <2>0, <2>1, <4>1 DEF Usable, FreeNode
      <3> QED BY <2>1, <3>1, <1>1, PlacesAre, PlacesNext
    <2>2. CASE Usable(i)
      <3>1. PICK p \in 0..(len + 1) : iter[i] = NodeAt(order, p) /\ Places[i] = p /\ p # NULL
        BY <2>2, <1>2, PlacesAre
      <3>2. p = k <=> iter[i] = order[k]
        <4>1. k \in 0..(len + 1)
          BY <1>2
        <4> QED BY <3>1, <4>1, <1>2, <1>5, <1>6
      <3>3. CASE i \in via
        <4>1. p = k /\ i \notin stale /\ iter'[i] = NodeAt(order, k + 1)
          BY <2>0, <3>2, <3>3
        <4>2. k \in 0..len /\ k \in 0..(Len(order') + 1) /\ ~(k < k) /\ ~(k > k)
          BY <1>2, <1>4
        <4>3. iter'[i] = NodeAt(order', k)
          BY <4>1, <4>2, <1>9
        <4>4. i \notin stale'
          BY <3>3, <4>1 DEF FreeNode
        <4>5. iter'[i] # NULL
          <5>1. k + 1 \in 0..(Len(order) + 1)
            BY <1>2
          <5> QED BY <4>1, <5>1, NodeAtIsExact, ListAssumption, <1>2 DEF Spots
        <4>6. Places'[i] = k
          BY <4>2, <4>3, <4>4, <4>5, <1>1, PlacesNext DEF Usable
        <4> QED BY <3>1, <3>3, <4>1, <4>2, <4>6
      <3>4. CASE i \notin via /\ p = k
        <4>1. i \in stale'
          BY <3>2, <3>4 DEF FreeNode
        <4>2. Places'[i] = NULL
          BY <4>1, <1>1, PlacesNext DEF Usable
        <4> QED BY <3>1, <3>4, <4>2
      <3>5. CASE i \notin via /\ p # k
        <4>1. iter'[i] = iter[i] /\ i \notin stale' /\ Usable(i)'
          BY <2>0, <2>2, <3>2, <3>5 DEF FreeNode, Usable
        <4>2. CASE p < k
          <5>1. p \in 0..len /\ p \in 0..(Len(order') + 1) /\ ~(p > k)
            BY <4>2, <1>2, <1>4
          <5>2. iter'[i] = NodeAt(order', p)
            BY <3>1, <4>1, <4>2, <5>1, <1>9
          <5>3. Places'[i] = p
            BY <4>1, <5>1, <5>2, <1>1, PlacesNext
          <5> QED BY <3>1, <3>5, <5>1, <5>3
        <4>3. CASE p > k
          <5>1. PICK x \in 0..len : x = p - 1 /\ x + 1 = p
            <6>1. p - 1 \in 0..len /\ (p - 1) + 1 = p
              BY <4>3, <1>2
            <6> QED BY <6>1
          <5>2. x \in 0..(Len(order') + 1) /\ ~(x < k)
            BY <4>3, <5>1, <1>2, <1>4
          <5>3. iter'[i] = NodeAt(order', x)
            BY <3>1, <4>1, <5>1, <5>2, <1>9
          <5>4. Places'[i] = x
            BY <4>1, <5>2, <5>3, <1>1, PlacesNext
          <5> QED BY <3>1, <3>5, <4>3, <5>1, <5>4
        <4> QED BY <3>5, <4>2, <4>3, <1>2
      <3> QED BY <3>3, <3>4, <3>5
    <2> QED BY <2>1, <2>2
  <1>11. Places' = [i \in Iterators |->
                      IF Places[i] = NULL \/ (Places[i] = k /\ i \notin via) THEN NULL
                      ELSE IF Places[i] > k THEN Places[i] - 1 ELSE Places[i]]
    <2>1. PICK f : f = Places' /\ f = [i \in Iterators |-> f[i]]
      BY DEF Places
    <2> QED BY <2>1, <1>10
  <1>12. out' \in {out, << Elements[k] >>}
    BY <1>2, <1>3 DEF Dispose
  <1> QED BY <1>8, <1>11, <1>12 DEF L!Remove

LEMMA RemovalsRefine ==
  ASSUME IInv,
         \/ generic_linked_list_remove_first \/ generic_linked_list_remove_last
         \/ \E i \in Iterators : generic_linked_list_iterator_remove(i)
  PROVE  L!Next
  <1>0. TypeOK /\ ChainInv /\ IterInv
    BY DEF IInv
  <1>1. PICK len \in Nat : len = Len(order) /\ Len(Elements) = len /\ (len > 0 => Elements # << >>)
    <2>1. Len(order) \in Nat /\ Len(Elements) = Len(order)
      BY LenProperties, ElementsAre, <1>0 DEF TypeOK
    <2>2. Len(Elements) > 0 => Elements # << >>
      OBVIOUS
    <2> QED BY <2>1, <2>2
  <1>2. CASE generic_linked_list_remove_first
    <2>1. len > 0 /\ Removed(1, {})
      BY <1>0, <1>1, <1>2, RemoveFirstRemoves
    <2>2. L!Remove(1, {})
      BY <2>1, <1>1, RemoveRefines
    <2> QED BY <2>1, <2>2, <1>1 DEF L!Next, L!RemoveFirst
  <1>3. CASE generic_linked_list_remove_last
    <2>1. len > 0 /\ Removed(len, {})
      BY <1>0, <1>1, <1>3, RemoveLastRemoves
    <2>2. len \in 1..Len(order)
      BY <2>1, <1>1
    <2>3. L!Remove(len, {})
      BY <2>1, <2>2, RemoveRefines
    <2> QED BY <2>1, <2>3, <1>1 DEF L!Next, L!RemoveLast
  <1>4. ASSUME NEW i \in Iterators, generic_linked_list_iterator_remove(i)
        PROVE  L!Next
    <2>1. PICK k \in 1..Len(order) : iter[i] = order[k] /\ Removed(k, {i})
      BY <1>0, <1>4, IteratorRemoves
    <2>2. L!Remove(k, {i})
      BY <2>1, RemoveRefines
    <2>3. Places[i] = k
      <3>1. NodeAt(order, k) = order[k] /\ k \in 0..(Len(order) + 1)
        BY <1>0, <1>1, NodeAtIsExact DEF TypeOK
      <3>2. Usable(i)
        BY <1>4 DEF generic_linked_list_iterator_remove
      <3> QED BY <2>1, <3>1, <3>2, PlacesAre
    <2>4. L!RemoveAtIterator(i)
      BY <2>2, <2>3, <1>1 DEF L!RemoveAtIterator
    <2> QED BY <2>4 DEF L!Next
  <1> QED BY <1>2, <1>3, <1>4

\* Every step of the list is a step of the sequence or leaves it alone.
LEMMA StepRefines ==
  ASSUME IInv, [Next]_vars
  PROVE  L!Next \/ UNCHANGED L!listVars
  <1>0. TypeOK /\ ChainInv /\ IterInv
    BY DEF IInv
  <1>1. ASSUME NEW n \in Nodes, NEW d \in Data \cup {NULL},
               \/ generic_linked_list_insert_first(n, d)
               \/ generic_linked_list_insert_last(n, d)
        PROVE  L!Next
    BY <1>1, InsertFirstRefines, InsertLastRefines DEF L!Next
  <1>2. CASE RemoveNothing
    <2>1. Len(order) = 0
      BY <1>0, <1>2 DEF RemoveNothing, ChainInv
    <2>2. Elements = << >>
      BY <2>1, ElementsAre, EmptySeq
    <2>3. Elements' = Elements /\ Places' = Places /\ out' = << NULL >>
      <3>1. order' = order /\ data' = data /\ stale' = stale /\ iter' = iter /\ out' = << NULL >>
        BY <1>2 DEF RemoveNothing, linkVars
      <3> QED BY <3>1 DEF Elements, Places, Usable, Position
    <2> QED BY <2>2, <2>3 DEF L!Next, L!RemoveNothing
  <1>3. CASE generic_linked_list_free
    <2>1. Elements' = << >> /\ out' = out
      BY <1>3 DEF generic_linked_list_free, Elements
    <2>2. \A i \in Iterators : Places[i] = NULL /\ ~Usable(i) /\ ~Usable(i)'
      BY <1>3 DEF generic_linked_list_free, Places, Usable
    <2>3. Places' = [i \in Iterators |-> NULL] /\ Places = [i \in Iterators |-> NULL]
      BY <2>2 DEF Places
    <2> QED BY <2>1, <2>2, <2>3 DEF L!Next, L!Clear, L!Usable
  <1>4. ASSUME NEW set \in BOOLEAN,
               \/ generic_linked_list_set_free_function(set)
               \/ generic_linked_list_set_copy_function(set)
        PROVE  UNCHANGED L!listVars
    <2>1. order' = order /\ data' = data /\ stale' = stale /\ iter' = iter /\ out' = out
      BY <1>4 DEF generic_linked_list_set_free_function, generic_linked_list_set_copy_function,
           linkVars
    <2> QED BY <2>1 DEF L!listVars, Elements, Places, Usable, Position
  <1>5. ASSUME NEW i \in Iterators, Open(i)
        PROVE  L!Next
    BY <1>5, OpenRefines DEF L!Next
  <1>6. ASSUME NEW i \in Iterators, generic_linked_list_iterator_free(i)
        PROVE  L!Next
    <2>1. order' = order /\ data' = data /\ out' = out /\ stale' = stale \ {i}
      BY <1>6 DEF generic_linked_list_iterator_free, iterFrame, linkVars
    <2>2. iter'[i] = NULL /\ \A j \in Iterators : j # i => iter'[j] = iter[j]
      BY <1>0, <1>6 DEF generic_linked_list_iterator_free, TypeOK
    <2>3. Elements' = Elements
      BY <2>1 DEF Elements
    <2>4. Places'[i] = NULL /\ \A j \in Iterators : j # i => Places'[j] = Places[j]
      <3>1. ~Usable(i)'
        BY <2>2 DEF Usable
      <3>2. Places'[i] = NULL
        BY <3>1 DEF Places
      <3>3. ASSUME NEW j \in Iterators, j # i
            PROVE  Places'[j] = Places[j]
        <4>1. iter'[j] = iter[j] /\ (j \in stale' <=> j \in stale)
          BY <2>1, <2>2, <3>3
        <4>2. Usable(j)' <=> Usable(j)
          BY <4>1 DEF Usable
        <4>3. Position(iter[j])' = Position(iter[j])
          BY <2>1, <4>1 DEF Position
        <4>4. Places'[j] = IF Usable(j)' THEN Position(iter[j])' ELSE NULL
          BY DEF Places
        <4>5. Places[j] = IF Usable(j) THEN Position(iter[j]) ELSE NULL
          BY DEF Places
        <4> QED BY <4>2, <4>3, <4>4, <4>5
      <3> QED BY <3>2, <3>3
    <2>5. Places' = [Places EXCEPT ![i] = NULL]
      <3>1. PICK f : f = Places' /\ f = [j \in Iterators |-> f[j]]
        BY DEF Places
      <3>2. PICK g : g = Places /\ g = [j \in Iterators |-> g[j]]
        BY DEF Places
      <3>3. f = [g EXCEPT ![i] = NULL]
        BY <3>1, <3>2, <2>4
      <3> QED BY <3>1, <3>2, <3>3
    <2>6. L!Close(i)
      BY <2>1, <2>3, <2>5 DEF L!Close
    <2> QED BY <2>6 DEF L!Next
  <1>7. ASSUME NEW i \in Iterators, generic_linked_list_iterator_next(i)
        PROVE  L!Next \/ UNCHANGED L!listVars
    <2>1. exists /\ Usable(i)
      BY <1>7 DEF generic_linked_list_iterator_next
    <2>2. PICK p \in 0..Len(order) : iter[i] = NodeAt(order, p) /\ Place(i, NodeAt(order, p + 1))
      BY <1>7, NextPlaces
    <2>3. /\ p \in 0..(Len(order) + 1)
          /\ p + 1 = IF p + 1 > Len(order) + 1 THEN Len(order) + 1 ELSE p + 1
      BY LenProperties, <1>0 DEF TypeOK
    <2>4. Place(i, NodeAt(order, IF p + 1 > Len(order) + 1 THEN Len(order) + 1 ELSE p + 1))
      BY <2>2, <2>3
    <2>5. 1 \in Nat
      OBVIOUS
    <2> QED BY <2>1, <2>2, <2>3, <2>4, <2>5, AdvanceRefines
  <1>8. ASSUME NEW i \in Iterators, generic_linked_list_iterator_prev(i)
        PROVE  L!Next \/ UNCHANGED L!listVars
    <2>1. exists /\ Usable(i)
      BY <1>8 DEF generic_linked_list_iterator_prev
    <2>2. PICK p \in 1..(Len(order) + 1) :
            iter[i] = NodeAt(order, p) /\ Place(i, NodeAt(order, p - 1))
      BY <1>8, PrevPlaces
    <2>3. p \in 0..(Len(order) + 1) /\ p - 1 = IF p < 1 THEN 0 ELSE p - 1
      BY LenProperties, <1>0 DEF TypeOK
    <2>4. Place(i, NodeAt(order, IF p < 1 THEN 0 ELSE p - 1))
      BY <2>2, <2>3
    <2>5. 1 \in Nat
      OBVIOUS
    <2> QED BY <2>1, <2>2, <2>3, <2>4, <2>5, ReverseAdvanceRefines
  <1>9. ASSUME NEW i \in Iterators, generic_linked_list_iterator_get(i)
        PROVE  L!Next
    BY <1>9, GetRefines DEF L!Next
  <1>10. ASSUME \/ generic_linked_list_remove_first \/ generic_linked_list_remove_last
                \/ \E i \in Iterators : generic_linked_list_iterator_remove(i)
         PROVE  L!Next
    BY <1>10, RemovalsRefine
  <1>11. ASSUME NEW i \in Iterators, NEW k \in Nat,
                \/ generic_linked_list_iterator_advance(i, k)
                \/ generic_linked_list_iterator_reverse_advance(i, k)
         PROVE  L!Next \/ UNCHANGED L!listVars
    <2>1. exists /\ Usable(i)
      BY <1>11 DEF generic_linked_list_iterator_advance, generic_linked_list_iterator_reverse_advance
    <2>2. CASE generic_linked_list_iterator_advance(i, k)
      BY <2>1, <2>2, AdvancePlaces, AdvanceRefines
    <2>3. CASE generic_linked_list_iterator_reverse_advance(i, k)
      BY <2>1, <2>3, ReverseAdvancePlaces, ReverseAdvanceRefines
    <2> QED BY <1>11, <2>2, <2>3
  <1>12. ASSUME NEW i \in Iterators, NEW j \in Iterators,
                \/ generic_linked_list_iterator_distance(i, j)
                \/ generic_linked_list_iterator_for_each(i, j)
         PROVE  L!Next
    BY <1>12, DistanceRefines, ForEachRefines DEF L!Next
  <1>13. ASSUME NEW i \in Iterators, NEW j \in Iterators, NEW h \in Iterators, NEW d \in Data,
                generic_linked_list_iterator_find(i, j, d, h)
         PROVE  L!Next
    BY <1>13, FindRefines DEF L!Next
  <1>14. CASE UNCHANGED vars
    <2>1. order' = order /\ data' = data /\ stale' = stale /\ iter' = iter /\ out' = out
      BY <1>14 DEF vars, linkVars
    <2> QED BY <2>1 DEF L!listVars, Elements, Places, Usable, Position
  <1>15. ASSUME NEW k \in 0..(Cardinality(Nodes) + 1)
         PROVE  k \in Nat
    BY ListAssumption, FS_CardinalityType
  <1>16. CASE Next
    BY <1>16, <1>1, <1>2, <1>3, <1>4, <1>5, <1>6, <1>7, <1>8, <1>9, <1>10, <1>11, <1>12,
       <1>13, <1>15 DEF Next
  <1> QED BY <1>14, <1>16

LEMMA InitRefines == Init => L!Init
  <1> SUFFICES ASSUME Init PROVE L!Init
    OBVIOUS
  <1>1. Elements = << >> /\ out = << >>
    BY DEF Init, Elements
  <1>2. Places = [i \in Iterators |-> NULL]
    BY DEF Init, Places, Usable
  <1> QED BY <1>1, <1>2 DEF L!Init

\* The list with its guards and links implements a sequence, and its
\* iterators are positions in it: an iterator stays at its element whatever
\* happens elsewhere, and find, distance, advance and for_each are what they
\* are on a sequence.
THEOREM ListIsASequence == Spec => ImplementsIteratedList
  <1>1. IInv /\ [Next]_vars => [L!Next]_(L!listVars)
    <2> SUFFICES ASSUME IInv, [Next]_vars PROVE [L!Next]_(L!listVars)
      OBVIOUS
    <2>1. L!Next \/ UNCHANGED L!listVars
      BY StepRefines
    <2> QED BY <2>1
  <1> QED BY <1>1, InitRefines, Invariance, PTL DEF Spec, ImplementsIteratedList, L!Spec

=============================================================================
