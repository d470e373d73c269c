--------------------------- MODULE SequenceLemmas ---------------------------
(***************************************************************************)
(* Facts about sequences and their ranges that the proofs about lists,     *)
(* queues and logs share, and induction over the naturals for sets.        *)
(***************************************************************************)
EXTENDS Integers, SequencesExt, TLAPS, SequenceTheorems, WellFoundedInduction,
        NaturalsInduction

\* Induction for a set: one that holds 0 and with n also n + 1 holds every
\* natural number.  The fact P holds for all n when { n \in Nat : P(n) } is
\* such a set.
LEMMA NatSetInduction ==
  ASSUME NEW T, 0 \in T, \A n \in Nat : n \in T => n + 1 \in T
  PROVE  Nat \subseteq T
  <1> DEFINE Lt == OpToRel(<, Nat)
             B == Nat \ T
  <1>1. IsWellFoundedOn(Lt, Nat)
    BY NatLessThanWellFounded
  <1>2. \A x, y \in Nat : y < x => << y, x >> \in Lt
    BY DEF OpToRel
  <1>3. SUFFICES ASSUME B # {} PROVE FALSE
    OBVIOUS
  <1>4. PICK x \in B : \A y \in B : << y, x >> \notin Lt
    <2> HIDE DEF Lt
    <2>1. B \subseteq Nat
      OBVIOUS
    <2> HIDE DEF B
    <2> QED BY <1>1, <1>3, <2>1, WFMin
  <1>5. x # 0 /\ x \in Nat
    OBVIOUS
  <1>6. x - 1 \in Nat /\ x - 1 < x /\ (x - 1) + 1 = x
    BY <1>5
  <1> HIDE DEF Lt
  <1>7. x - 1 \in T
    BY <1>2, <1>4, <1>5, <1>6
  <1> QED BY <1>6, <1>7

\* The elements of a sequence after Append.
LEMMA RangeOfAppend ==
  ASSUME NEW S, NEW q \in Seq(S), NEW x \in S
  PROVE  Range(Append(q, x)) = Range(q) \cup {x}
  <1>1. /\ DOMAIN q = 1..Len(q) /\ Len(q) \in Nat
        /\ DOMAIN Append(q, x) = 1..(Len(q) + 1)
        /\ \A i \in 1..Len(q) : Append(q, x)[i] = q[i]
        /\ Append(q, x)[Len(q) + 1] = x
    OBVIOUS
  <1>2. 1..(Len(q) + 1) = 1..Len(q) \cup {Len(q) + 1}
    BY <1>1
  <1> QED
    BY <1>1, <1>2 DEF Range

\* Append keeps a sequence free of repetitions.
LEMMA AppendKeepsInjective ==
  ASSUME NEW S, NEW q \in Seq(S), NEW x \in S, IsInjective(q), x \notin Range(q)
  PROVE  IsInjective(Append(q, x))
  <1>1. /\ DOMAIN q = 1..Len(q) /\ Len(q) \in Nat
        /\ DOMAIN Append(q, x) = 1..(Len(q) + 1)
        /\ \A i \in 1..Len(q) : Append(q, x)[i] = q[i]
        /\ Append(q, x)[Len(q) + 1] = x
    OBVIOUS
  <1>2. \A i \in 1..Len(q) : q[i] # x
    BY <1>1 DEF Range
  <1> SUFFICES ASSUME NEW i \in 1..(Len(q) + 1), NEW j \in 1..(Len(q) + 1),
                      Append(q, x)[i] = Append(q, x)[j]
               PROVE  i = j
    BY <1>1 DEF IsInjective
  <1>3. CASE i \in 1..Len(q) /\ j \in 1..Len(q)
    BY <1>1, <1>3 DEF IsInjective
  <1>4. CASE i = Len(q) + 1 \/ j = Len(q) + 1
    BY <1>1, <1>2, <1>4
  <1> QED
    BY <1>1, <1>3, <1>4

\* A sequence is its head and its tail.
LEMMA HeadAndTail ==
  ASSUME NEW S, NEW q \in Seq(S), q # << >>
  PROVE  /\ Head(q) = q[1] /\ Head(q) \in S /\ Tail(q) \in Seq(S)
         /\ Len(q) \in Nat \ {0} /\ Len(Tail(q)) = Len(q) - 1
         /\ \A i \in 1..(Len(q) - 1) : Tail(q)[i] = q[i + 1]
         /\ Range(q) = {Head(q)} \cup Range(Tail(q))
         /\ IsInjective(q) => IsInjective(Tail(q)) /\ Head(q) \notin Range(Tail(q))
  <1>1. /\ Head(q) = q[1] /\ Head(q) \in S /\ Tail(q) \in Seq(S)
        /\ Len(q) \in Nat \ {0} /\ Len(Tail(q)) = Len(q) - 1
        /\ DOMAIN q = 1..Len(q) /\ DOMAIN Tail(q) = 1..(Len(q) - 1)
        /\ \A i \in 1..(Len(q) - 1) : Tail(q)[i] = q[i + 1]
    BY HeadTailProperties, EmptySeq
  <1>2. Range(q) = {Head(q)} \cup Range(Tail(q))
    <2>1. Range(Tail(q)) = { q[i + 1] : i \in 1..(Len(q) - 1) }
      BY <1>1 DEF Range
    <2>2. ASSUME NEW x \in Range(q) PROVE x \in {Head(q)} \cup Range(Tail(q))
      <3>1. PICK i \in 1..Len(q) : x = q[i]
        BY <1>1, <2>2 DEF Range
      <3>2. CASE i = 1
        BY <1>1, <3>1, <3>2
      <3>3. CASE i # 1
        <4>1. i - 1 \in 1..(Len(q) - 1) /\ q[(i - 1) + 1] = x
          BY <1>1, <3>1, <3>3
        <4> QED
          BY <2>1, <4>1
      <3> QED
        BY <3>2, <3>3
    <2>3. ASSUME NEW i \in 1..(Len(q) - 1) PROVE q[i + 1] \in Range(q)
      <3>1. i + 1 \in DOMAIN q
        BY <1>1
      <3> QED
        BY <3>1 DEF Range
    <2>4. Head(q) \in Range(q)
      BY <1>1 DEF Range
    <2> QED
      BY <2>1, <2>2, <2>3, <2>4
  <1>3. ASSUME IsInjective(q)
        PROVE  IsInjective(Tail(q)) /\ Head(q) \notin Range(Tail(q))
    <2>1. ASSUME NEW i \in 1..(Len(q) - 1), NEW j \in 1..(Len(q) - 1),
                 Tail(q)[i] = Tail(q)[j]
          PROVE  i = j
      <3>1. i + 1 \in DOMAIN q /\ j + 1 \in DOMAIN q /\ q[i + 1] = q[j + 1]
        BY <1>1, <2>1
      <3>2. i + 1 = j + 1
        BY <1>3, <3>1 DEF IsInjective
      <3> QED
        BY <1>1, <3>2
    <2>2. ASSUME NEW i \in 1..(Len(q) - 1) PROVE Tail(q)[i] # q[1]
      <3>1. i + 1 \in DOMAIN q /\ 1 \in DOMAIN q /\ i + 1 # 1
        BY <1>1
      <3> QED
        BY <1>1, <1>3, <3>1 DEF IsInjective
    <2> QED
      BY <1>1, <2>1, <2>2 DEF IsInjective, Range
  <1> QED
    BY <1>1, <1>2, <1>3

\* A sequence with an element put before it.
LEMMA PrependProperties ==
  ASSUME NEW S, NEW q \in Seq(S), NEW x \in S
  PROVE  /\ << x >> \o q \in Seq(S) /\ Len(<< x >> \o q) = Len(q) + 1
         /\ (<< x >> \o q)[1] = x
         /\ \A i \in 1..Len(q) : (<< x >> \o q)[i + 1] = q[i]
         /\ Range(<< x >> \o q) = {x} \cup Range(q)
         /\ IsInjective(q) /\ x \notin Range(q) => IsInjective(<< x >> \o q)
  <1> DEFINE r == << x >> \o q
  <1>1. PICK n \in Nat : n = Len(q) /\ DOMAIN q = 1..n
    OBVIOUS
  <1>2. /\ r \in Seq(S) /\ Len(r) = n + 1 /\ DOMAIN r = 1..(n + 1) /\ r[1] = x
        /\ \A i \in 1..n : r[i + 1] = q[i]
    <2>1. << x >> \in Seq(S) /\ Len(<< x >>) = 1 /\ << x >>[1] = x
      OBVIOUS
    <2>2. /\ r \in Seq(S) /\ Len(r) = 1 + n
          /\ \A i \in 1..(1 + n) : r[i] = IF i <= 1 THEN << x >>[i] ELSE q[i - 1]
      BY <1>1, <2>1, ConcatProperties
    <2>3. ASSUME NEW i \in 1..n PROVE r[i + 1] = q[i]
      <3>1. i + 1 \in 1..(1 + n) /\ ~(i + 1 <= 1) /\ (i + 1) - 1 = i
        BY <1>1
      <3> QED
        BY <2>2, <3>1
    <2> HIDE DEF r
    <2>4. Len(r) = n + 1 /\ DOMAIN r = 1..(n + 1)
      BY <1>1, <2>2
    <2> QED
      BY <1>1, <2>1, <2>2, <2>3, <2>4
  <1> HIDE DEF r
  <1>3. \A i \in 1..(n + 1) : i = 1 \/ (i - 1 \in 1..n /\ r[i] = q[i - 1])
    <2>1. \A i \in 1..(n + 1) : i = 1 \/ (i - 1 \in 1..n /\ (i - 1) + 1 = i)
      BY <1>1
    <2> QED
      BY <1>2, <2>1
  <1>4. Range(r) = {x} \cup Range(q)
    <2>1. ASSUME NEW i \in 1..(n + 1) PROVE r[i] \in {x} \cup Range(q)
      BY <1>1, <1>2, <1>3 DEF Range
    <2>2. ASSUME NEW i \in 1..n PROVE q[i] \in Range(r)
      <3>1. i + 1 \in DOMAIN r
        BY <1>1, <1>2
      <3> QED
        BY <1>2, <3>1 DEF Range
    <2>3. x \in Range(r)
      BY <1>1, <1>2 DEF Range
    <2> QED
      BY <1>1, <1>2, <2>1, <2>2, <2>3 DEF Range
  <1>5. ASSUME IsInjective(q), x \notin Range(q) PROVE IsInjective(r)
    <2>1. \A i \in 1..n : q[i] # x
      BY <1>1, <1>5 DEF Range
    <2> SUFFICES ASSUME NEW i \in 1..(n + 1), NEW j \in 1..(n + 1), r[i] = r[j]
                 PROVE  i = j
      BY <1>2 DEF IsInjective
    <2>2. CASE i # 1 /\ j # 1
      <3>1. i - 1 \in 1..n /\ j - 1 \in 1..n /\ q[i - 1] = q[j - 1]
        BY <1>3, <2>2
      <3>2. i - 1 = j - 1
        BY <1>1, <1>5, <3>1 DEF IsInjective
      <3> QED
        BY <1>1, <3>2
    <2>3. CASE i = 1 \/ j = 1
      BY <1>2, <1>3, <2>1, <2>3
    <2> QED
      BY <2>2, <2>3
  <1> QED
    BY <1>1, <1>2, <1>4, <1>5 DEF r

\* A sequence with the element at position k taken out.
LEMMA RemoveAtProperties ==
  ASSUME NEW S, NEW q \in Seq(S), NEW k \in 1..Len(q)
  PROVE  /\ RemoveAt(q, k) \in Seq(S) /\ Len(RemoveAt(q, k)) = Len(q) - 1
         /\ \A i \in 1..(Len(q) - 1) :
              RemoveAt(q, k)[i] = IF i < k THEN q[i] ELSE q[i + 1]
         /\ IsInjective(q) => /\ IsInjective(RemoveAt(q, k))
                              /\ Range(RemoveAt(q, k)) = Range(q) \ {q[k]}
  <1> DEFINE r == RemoveAt(q, k)
  <1>1. PICK n \in Nat : n = Len(q) /\ DOMAIN q = 1..n
    OBVIOUS
  <1>2. k \in 1..n /\ n - 1 \in Nat
    BY <1>1
  <1>3. /\ r \in Seq(S) /\ Len(r) = n - 1 /\ DOMAIN r = 1..(n - 1)
        /\ \A i \in 1..(n - 1) : r[i] = IF i < k THEN q[i] ELSE q[i + 1]
    <2> DEFINE a == SubSeq(q, 1, k - 1)
               b == SubSeq(q, k + 1, n)
    <2>1. /\ a \in Seq(S) /\ Len(a) = k - 1
          /\ \A i \in 1..(k - 1) : a[i] = q[i]
      <3>1. \A i \in 1..(k - 1) : q[i] \in S
        BY <1>1, <1>2
      <3>2. /\ a \in Seq(S) /\ Len(a) = (IF 1 <= k - 1 THEN (k - 1) - 1 + 1 ELSE 0)
            /\ \A i \in 1..((k - 1) - 1 + 1) : a[i] = q[1 + i - 1]
        <4>1. 1 \in Int /\ k - 1 \in Int
          BY <1>2
        <4> QED
          BY <3>1, <4>1, SubSeqProperties
      <3> HIDE DEF a
      <3>3. \A i \in 1..(k - 1) : i \in 1..((k - 1) - 1 + 1) /\ 1 + i - 1 = i
        BY <1>2
      <3>4. (IF 1 <= k - 1 THEN (k - 1) - 1 + 1 ELSE 0) = k - 1
        BY <1>2
      <3> QED
        BY <3>2, <3>3, <3>4
    <2>2. /\ b \in Seq(S) /\ Len(b) = n - k
          /\ \A i \in 1..(n - k) : b[i] = q[k + i]
      <3>1. \A i \in (k + 1)..n : q[i] \in S
        BY <1>1, <1>2
      <3>2. /\ b \in Seq(S) /\ Len(b) = (IF k + 1 <= n THEN n - (k + 1) + 1 ELSE 0)
            /\ \A i \in 1..(n - (k + 1) + 1) : b[i] = q[(k + 1) + i - 1]
        <4>1. k + 1 \in Int /\ n \in Int
          BY <1>2
        <4> QED
          BY <3>1, <4>1, SubSeqProperties
      <3> HIDE DEF b
      <3>3. \A i \in 1..(n - k) : i \in 1..(n - (k + 1) + 1) /\ (k + 1) + i - 1 = k + i
        BY <1>2
      <3>4. (IF k + 1 <= n THEN n - (k + 1) + 1 ELSE 0) = n - k
        BY <1>2
      <3> QED
        BY <3>2, <3>3, <3>4
    <2>3. r = a \o b
      BY <1>1 DEF RemoveAt
    <2> HIDE DEF a, b, r
    <2>4. /\ r \in Seq(S) /\ Len(r) = Len(a) + Len(b)
          /\ \A i \in 1..(Len(a) + Len(b)) :
               r[i] = IF i <= Len(a) THEN a[i] ELSE b[i - Len(a)]
      BY <2>1, <2>2, <2>3, ConcatProperties
    <2>5. Len(a) + Len(b) = n - 1
      BY <1>2, <2>1, <2>2
    <2>6. ASSUME NEW i \in 1..(n - 1)
          PROVE  r[i] = IF i < k THEN q[i] ELSE q[i + 1]
      <3>1. CASE i < k
        <4>1. i \in 1..(k - 1) /\ i <= Len(a)
          BY <1>2, <2>1, <3>1
        <4> QED
          BY <2>1, <2>4, <2>5, <3>1, <4>1
      <3>2. CASE ~(i < k)
        <4>1. i - (k - 1) \in 1..(n - k) /\ ~(i <= k - 1) /\ k + (i - (k - 1)) = i + 1
          BY <1>2, <3>2
        <4>2. r[i] = b[i - (k - 1)]
          BY <2>1, <2>4, <2>5, <4>1
        <4>3. b[i - (k - 1)] = q[i + 1]
          BY <2>2, <4>1
        <4> QED
          BY <3>2, <4>2, <4>3
      <3> QED
        BY <3>1, <3>2
    <2>7. Len(r) = n - 1
      BY <2>4, <2>5
    <2>8. DOMAIN r = 1..(n - 1)
      BY <2>4, <2>7
    <2> QED
      BY <2>4, <2>6, <2>7, <2>8
  <1> HIDE DEF r
  <1>4. ASSUME IsInjective(q) PROVE IsInjective(r) /\ Range(r) = Range(q) \ {q[k]}
    <2>1. \A i, j \in 1..n : q[i] = q[j] => i = j
      BY <1>1, <1>4 DEF IsInjective
    <2>2. \A i \in 1..(n - 1) :
            \/ i < k /\ i \in 1..n /\ r[i] = q[i]
            \/ ~(i < k) /\ i + 1 \in 1..n /\ i + 1 > k /\ r[i] = q[i + 1]
      BY <1>2, <1>3
    <2>3. IsInjective(r)
      <3> SUFFICES ASSUME NEW i \in 1..(n - 1), NEW j \in 1..(n - 1), r[i] = r[j]
                   PROVE  i = j
        BY <1>3 DEF IsInjective
      <3>1. CASE i < k /\ j < k
        BY <2>1, <2>2, <3>1
      <3>2. CASE i < k /\ ~(j < k)
        <4>1. i = j + 1
          BY <2>1, <2>2, <3>2
        <4> QED
          BY <1>2, <3>2, <4>1
      <3>3. CASE ~(i < k) /\ j < k
        <4>1. i + 1 = j
          BY <2>1, <2>2, <3>3
        <4> QED
          BY <1>2, <3>3, <4>1
      <3>4. CASE ~(i < k) /\ ~(j < k)
        <4>1. i + 1 = j + 1
          BY <2>1, <2>2, <3>4
        <4> QED
          BY <1>2, <4>1
      <3> QED
        BY <3>1, <3>2, <3>3, <3>4
    <2>4. ASSUME NEW i \in 1..(n - 1) PROVE r[i] \in Range(q) \ {q[k]}
      <3>1. CASE i < k
        <4>1. i \in 1..n /\ r[i] = q[i] /\ i # k
          BY <1>2, <2>2, <3>1
        <4> QED
          BY <1>1, <1>2, <2>1, <4>1 DEF Range
      <3>2. CASE ~(i < k)
        <4>1. i + 1 \in 1..n /\ r[i] = q[i + 1] /\ i + 1 # k
          BY <1>2, <2>2, <3>2
        <4> QED
          BY <1>1, <1>2, <2>1, <4>1 DEF Range
      <3> QED
        BY <3>1, <3>2
    <2>5. ASSUME NEW j \in 1..n, j # k PROVE q[j] \in Range(r)
      <3>1. CASE j < k
        <4>1. j \in 1..(n - 1)
          BY <1>2, <3>1
        <4> QED
          BY <1>3, <3>1, <4>1 DEF Range
      <3>2. CASE ~(j < k)
        <4>1. j - 1 \in 1..(n - 1) /\ ~(j - 1 < k) /\ (j - 1) + 1 = j
          BY <1>2, <2>5, <3>2
        <4>2. r[j - 1] = q[j]
          BY <1>3, <4>1
        <4> QED
          BY <1>3, <4>1, <4>2 DEF Range
      <3> QED
        BY <3>1, <3>2
    <2> QED
      BY <1>1, <1>3, <2>3, <2>4, <2>5 DEF Range
  <1> QED
    BY <1>1, <1>3, <1>4 DEF r

\* A list with its first element moved to the end of another.
LEMMA MoveHead ==
  ASSUME NEW S, NEW p \in Seq(S), NEW q \in Seq(S), q # << >>
  PROVE  Append(p, Head(q)) \o Tail(q) = p \o q
  <1>1. /\ Head(q) = q[1] /\ Head(q) \in S /\ Tail(q) \in Seq(S)
        /\ Len(q) \in Nat \ {0} /\ Len(Tail(q)) = Len(q) - 1
        /\ \A i \in 1..(Len(q) - 1) : Tail(q)[i] = q[i + 1]
    BY HeadAndTail
  <1> DEFINE a == Append(p, Head(q))
  <1>2. /\ a \in Seq(S) /\ Len(a) = Len(p) + 1 /\ a[Len(p) + 1] = q[1]
        /\ \A i \in 1..Len(p) : a[i] = p[i]
    BY <1>1
  <1> HIDE DEF a
  <1>0. Len(p) \in Nat /\ Len(q) \in Nat /\ Len(q) > 0
    BY <1>1, LenProperties
  <1>3. PICK m, n : m \in Nat /\ n \in Nat /\ m = Len(p) /\ n = Len(q) /\ n > 0
    BY <1>0
  <1>4. /\ a \o Tail(q) \in Seq(S) /\ Len(a \o Tail(q)) = m + n
        /\ \A i \in 1..(m + n) : (a \o Tail(q))[i] =
              IF i <= m + 1 THEN a[i] ELSE Tail(q)[i - (m + 1)]
    <2>1. Len(a) = m + 1 /\ Len(Tail(q)) = n - 1 /\ (m + 1) + (n - 1) = m + n
      BY <1>1, <1>2, <1>3
    <2>2. /\ a \o Tail(q) \in Seq(S)
          /\ Len(a \o Tail(q)) = Len(a) + Len(Tail(q))
          /\ \A i \in 1..(Len(a) + Len(Tail(q))) : (a \o Tail(q))[i] =
                IF i <= Len(a) THEN a[i] ELSE Tail(q)[i - Len(a)]
      BY <1>1, <1>2, ConcatProperties
    <2> QED
      BY <1>3, <2>1, <2>2
  <1>5. /\ p \o q \in Seq(S) /\ Len(p \o q) = m + n
        /\ \A i \in 1..(m + n) : (p \o q)[i] = IF i <= m THEN p[i] ELSE q[i - m]
    BY <1>3, ConcatProperties
  <1>6. ASSUME NEW i \in 1..(m + n) PROVE (a \o Tail(q))[i] = (p \o q)[i]
    <2>1. CASE i <= m
      BY <1>2, <1>3, <1>4, <1>5, <2>1
    <2>2. CASE i = m + 1
      BY <1>2, <1>3, <1>4, <1>5, <2>2
    <2>3. CASE i > m + 1
      <3>1. i - (m + 1) \in 1..(n - 1) /\ (i - (m + 1)) + 1 = i - m
        BY <1>3, <1>6, <2>3
      <3>2. Tail(q)[i - (m + 1)] = q[i - m]
        BY <1>1, <1>3, <3>1
      <3> QED
        BY <1>3, <1>4, <1>5, <1>6, <2>3, <3>2
    <2>4. i <= m \/ i = m + 1 \/ i > m + 1
      BY <1>3, <1>6
    <2> QED
      BY <2>1, <2>2, <2>3, <2>4
  <1> QED
    BY <1>4, <1>5, <1>6, SeqEqual DEF a

\* Appending to the second of two lists appends to both.
LEMMA ConcatAppend ==
  ASSUME NEW S, NEW p \in Seq(S), NEW q \in Seq(S), NEW x \in S
  PROVE  p \o Append(q, x) = Append(p \o q, x)
  <1>1. PICK m, n : m \in Nat /\ n \in Nat /\ m = Len(p) /\ n = Len(q)
    BY LenProperties
  <1>2. /\ Append(q, x) \in Seq(S) /\ Len(Append(q, x)) = n + 1
        /\ \A i \in 1..n : Append(q, x)[i] = q[i]
        /\ Append(q, x)[n + 1] = x
    BY <1>1
  <1>3. /\ p \o q \in Seq(S) /\ Len(p \o q) = m + n
        /\ \A i \in 1..(m + n) : (p \o q)[i] = IF i <= m THEN p[i] ELSE q[i - m]
    BY <1>1, ConcatProperties
  <1> DEFINE a == Append(q, x)
             c == p \o q
  <1>4. /\ p \o a \in Seq(S) /\ Len(p \o a) = m + (n + 1)
        /\ \A i \in 1..(m + (n + 1)) : (p \o a)[i] = IF i <= m THEN p[i] ELSE a[i - m]
    <2>1. a \in Seq(S) /\ Len(a) = n + 1
      BY <1>2
    <2> HIDE DEF a
    <2>2. /\ p \o a \in Seq(S) /\ Len(p \o a) = Len(p) + Len(a)
          /\ \A i \in 1..(Len(p) + Len(a)) : (p \o a)[i] =
                IF i <= Len(p) THEN p[i] ELSE a[i - Len(p)]
      BY <2>1, ConcatProperties
    <2> QED
      BY <1>1, <2>1, <2>2
  <1>5. /\ Append(c, x) \in Seq(S) /\ Len(Append(c, x)) = m + n + 1
        /\ \A i \in 1..(m + n) : Append(c, x)[i] = c[i]
        /\ Append(c, x)[m + n + 1] = x
    <2>1. c \in Seq(S) /\ Len(c) = m + n
      BY <1>3
    <2> HIDE DEF c
    <2> QED
      BY <1>1, <2>1
  <1>6. ASSUME NEW i \in 1..(m + n + 1) PROVE (p \o a)[i] = Append(c, x)[i]
    <2>0. /\ i \in Int /\ (i <= m + n => i \in 1..(m + n)) /\ (i <= m + n \/ i = m + n + 1)
          /\ (i > m /\ i <= m + n => i - m \in 1..n)
          /\ (i = m + n + 1 => i - m = n + 1 /\ ~(i <= m))
      BY <1>1, <1>6
    <2>a. (p \o a)[i] = IF i <= m THEN p[i] ELSE a[i - m]
      BY <1>1, <1>4, <1>6
    <2>1. CASE i <= m + n
      <3>1. Append(c, x)[i] = IF i <= m THEN p[i] ELSE q[i - m]
        BY <1>3, <1>5, <2>0, <2>1
      <3>2. CASE i <= m
        BY <2>a, <3>1, <3>2
      <3>3. CASE i > m
        BY <1>1, <1>2, <2>0, <2>a, <2>1, <3>1, <3>3
      <3> QED
        BY <1>1, <2>0, <3>2, <3>3
    <2>2. CASE i = m + n + 1
      BY <1>2, <1>5, <2>0, <2>a, <2>2
    <2> QED
      BY <2>0, <2>1, <2>2
  <1>7. Len(p \o a) = Len(Append(c, x)) /\ Len(p \o a) = m + n + 1
    BY <1>1, <1>4, <1>5
  <1> QED
    BY <1>4, <1>5, <1>6, <1>7, SeqEqual DEF a, c

=============================================================================
