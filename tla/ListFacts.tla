------------------------------ MODULE ListFacts ------------------------------
(***************************************************************************)
(* Induction over the numbers, and what it says of the operator of Lists.  *)
(***************************************************************************)
EXTENDS Lists, Integers, SequencesExt, FiniteSetTheorems, SequenceTheorems,
        WellFoundedInduction, TLAPS

\* The intervals that begin at zero are finite, and strict inclusion between
\* finite sets is well-founded, so one of them is the smallest.
LEMMA SmallestNumber ==
    ASSUME NEW S \in SUBSET Nat, S # {}
    PROVE  Min(S) \in S /\ \A x \in S : Min(S) <= x
<1> DEFINE T == {0..x : x \in S}
<1>1. T \subseteq FiniteSubsetsOf(Nat) /\ T # {}
  <2>1. \A x \in S : 0..x \subseteq Nat /\ IsFiniteSet(0..x)
    BY FS_Interval
  <2>2. QED
    BY <2>1 DEF FiniteSubsetsOf
<1>2. PICK t \in T : \A u \in T : ~(<<u, t>> \in StrictSubsetOrdering(Nat))
  BY <1>1, FS_StrictSubsetOrderingWellFounded, WFMin
<1>3. PICK m \in S : t = 0..m
  OBVIOUS
<1>4. ASSUME NEW x \in S
      PROVE  m <= x
  <2>1. SUFFICES ASSUME ~(m <= x)
                 PROVE  FALSE
    OBVIOUS
  <2>2. 0..x \subseteq 0..m /\ m \in 0..m /\ m \notin 0..x
    BY <2>1
  <2>3. <<0..x, 0..m>> \in StrictSubsetOrdering(Nat)
    BY <2>2 DEF StrictSubsetOrdering
  <2>4. QED
    BY <1>2, <1>3, <2>3
<1>5. QED
  BY <1>4 DEF Min

\* Induction: a set of numbers is all of them.
LEMMA Induction ==
    ASSUME NEW S, 0 \in S, \A n \in Nat : n \in S => n + 1 \in S
    PROVE  Nat \subseteq S
<1> DEFINE T == Nat \ S
<1>1. SUFFICES ASSUME T # {}
               PROVE  FALSE
  OBVIOUS
<1>2. Min(T) \in T /\ \A x \in T : Min(T) <= x
  BY <1>1, SmallestNumber
<1> DEFINE m == Min(T)
<1> HIDE DEF m
<1>3. m \in Nat /\ m \notin S /\ \A x \in Nat \ S : m <= x
  BY <1>2 DEF m
<1>4. m - 1 \in Nat /\ ~(m <= m - 1)
  BY <1>3
<1>5. m - 1 \in S
  BY <1>3, <1>4
<1>6. QED
  BY <1>3, <1>4, <1>5

LEMMA LargestNumber ==
    ASSUME NEW n \in Nat, NEW S \in SUBSET (1..n), S # {}
    PROVE  Max(S) \in S /\ \A x \in S : Max(S) >= x
<1> DEFINE T == {n - x : x \in S}
<1>1. T \in SUBSET Nat /\ T # {}
  <2>1. \A x \in S : n - x \in Nat
    BY \A x \in S : x \in 1..n
  <2>2. QED
    BY <2>1
<1>2. PICK m \in S : n - m = Min(T)
  BY <1>1, SmallestNumber
<1>3. \A x \in S : n - m <= n - x
  BY <1>1, <1>2, SmallestNumber
<1>4. \A x \in S : m >= x
  BY <1>3, \A x \in S : x \in 1..n
<1>5. QED
  BY <1>4 DEF Max

LEMMA AsSequence ==
    ASSUME NEW S, NEW n \in Nat, NEW f, f \in [1..n -> S]
    PROVE  f \in Seq(S)
BY SeqDef
-----------------------------------------------------------------------------
(* Sequences and their elements.                                           *)

\* A sequence has the elements of its head and its tail.
LEMMA HeadAndTail ==
    ASSUME NEW S, NEW s \in Seq(S), s # <<>>
    PROVE  /\ Head(s) \in S /\ Tail(s) \in Seq(S)
           /\ ToSet(s) = {Head(s)} \cup ToSet(Tail(s))
<1>1. Head(s) = s[1] /\ Head(s) \in S /\ 1 \in DOMAIN s
  OBVIOUS
<1>2. /\ Tail(s) \in Seq(S) /\ Len(Tail(s)) = Len(s) - 1
      /\ \A i \in 1..(Len(s) - 1) : Tail(s)[i] = s[i + 1]
  OBVIOUS
<1>3. ASSUME NEW x \in ToSet(s) PROVE x \in {Head(s)} \cup ToSet(Tail(s))
  <2>1. PICK i \in 1..Len(s) : s[i] = x
    BY <1>3 DEF ToSet
  <2>2. CASE i = 1
    BY <2>1, <2>2, <1>1
  <2>3. CASE i # 1
    <3>1. i - 1 \in 1..(Len(s) - 1) /\ Tail(s)[i - 1] = x
      BY <2>1, <2>3, <1>2
    <3>2. i - 1 \in DOMAIN Tail(s)
      BY <3>1, <1>2
    <3>3. QED
      BY <3>1, <3>2 DEF ToSet
  <2>4. QED
    BY <2>2, <2>3
<1>4. ToSet(Tail(s)) \subseteq ToSet(s)
  BY <1>2 DEF ToSet
<1>5. Head(s) \in ToSet(s)
  BY <1>1 DEF ToSet
<1>6. QED
  BY <1>1, <1>2, <1>3, <1>4, <1>5

\* Appending adds an element, concatenation adds them all.
LEMMA AppendElement ==
    ASSUME NEW S, NEW s \in Seq(S), NEW x \in S
    PROVE  Append(s, x) \in Seq(S) /\ ToSet(Append(s, x)) = ToSet(s) \cup {x}
<1>1. /\ Append(s, x) \in Seq(S) /\ Len(Append(s, x)) = Len(s) + 1
      /\ Append(s, x)[Len(s) + 1] = x
      /\ \A i \in 1..Len(s) : Append(s, x)[i] = s[i]
  OBVIOUS
<1>2. QED
  BY <1>1 DEF ToSet

LEMMA ConcatElements ==
    ASSUME NEW S, NEW s \in Seq(S), NEW t \in Seq(S)
    PROVE  s \o t \in Seq(S) /\ ToSet(s \o t) = ToSet(s) \cup ToSet(t)
<1>1. /\ s \o t \in Seq(S) /\ Len(s \o t) = Len(s) + Len(t)
      /\ \A i \in 1..Len(s) : (s \o t)[i] = s[i]
      /\ \A i \in 1..Len(t) : (s \o t)[Len(s) + i] = t[i]
  OBVIOUS
<1>2. ASSUME NEW x \in ToSet(s \o t) PROVE x \in ToSet(s) \cup ToSet(t)
  <2>1. PICK i \in 1..(Len(s) + Len(t)) : (s \o t)[i] = x
    BY <1>1, <1>2 DEF ToSet
  <2>2. CASE i \in 1..Len(s)
    BY <2>1, <2>2, <1>1 DEF ToSet
  <2>3. CASE i \notin 1..Len(s)
    <3>1. i - Len(s) \in 1..Len(t) /\ t[i - Len(s)] = x
      BY <2>1, <2>3, <1>1
    <3>2. QED
      BY <3>1 DEF ToSet
  <2>4. QED
    BY <2>2, <2>3
<1>3. ToSet(s) \subseteq ToSet(s \o t)
  BY <1>1 DEF ToSet
<1>4. ToSet(t) \subseteq ToSet(s \o t)
  <2>1. ASSUME NEW i \in 1..Len(t) PROVE t[i] \in ToSet(s \o t)
    <3>1. Len(s) + i \in 1..Len(s \o t)
      BY <1>1
    <3>2. QED
      BY <3>1, <1>1 DEF ToSet
  <2>2. DOMAIN t = 1..Len(t)
    BY LenProperties
  <2>3. QED
    BY <2>1, <2>2, Zenon DEF ToSet
<1>5. QED
  BY <1>1, <1>2, <1>3, <1>4

LEMMA EmptyElements == ToSet(<<>>) = {}
BY DEF ToSet
-----------------------------------------------------------------------------
(* Kept: a sublist in the order of the list. *)

IsKept(s, positions, n, f) ==
    f = [i \in 0..n |-> IF i = 0 THEN <<>>
                        ELSE IF i \in positions THEN Append(f[i - 1], s[i]) ELSE f[i - 1]]

LEMMA KeptExists ==
    ASSUME NEW s, NEW positions, NEW n \in Nat
    PROVE  \E f : IsKept(s, positions, n, f)
<1> DEFINE S == {m \in Nat : \E f : IsKept(s, positions, m, f)}
<1>1. 0 \in S
  <2>1. IsKept(s, positions, 0, [i \in 0..0 |-> <<>>])
    BY DEF IsKept
  <2>2. QED
    BY <2>1
<1>2. ASSUME NEW m \in Nat, m \in S
      PROVE  m + 1 \in S
  <2>1. PICK f : IsKept(s, positions, m, f)
    BY <1>2
  <2> DEFINE g == [i \in 0..(m + 1) |->
                     IF i = 0 THEN <<>>
                     ELSE IF i \in positions THEN Append(f[i - 1], s[i]) ELSE f[i - 1]]
  <2>2. \A i \in 0..m : i \in 0..(m + 1) /\ g[i] = f[i]
    <3>1. \A i \in 0..m : f[i] = IF i = 0 THEN <<>>
                                 ELSE IF i \in positions THEN Append(f[i - 1], s[i]) ELSE f[i - 1]
      BY <2>1 DEF IsKept
    <3>2. 0..m \subseteq 0..(m + 1)
      OBVIOUS
    <3>3. QED
      BY <3>1, <3>2
  <2>3. \A i \in 0..(m + 1) : i # 0 => i - 1 \in 0..m
    OBVIOUS
  <2>4. \A i \in 0..(m + 1) : i # 0 => g[i - 1] = f[i - 1]
    BY <2>2, <2>3
  <2>5. IsKept(s, positions, m + 1, g)
    BY <2>4 DEF IsKept
  <2>6. QED
    BY <2>5
<1>3. QED
  BY <1>1, <1>2, Induction

LEMMA KeptRecursion ==
    ASSUME NEW S, NEW s \in Seq(S), NEW positions
    PROVE  \E f : /\ Kept(s, positions) = f[Len(s)] /\ f[0] = <<>>
                  /\ \A i \in 1..Len(s) :
                       f[i] = IF i \in positions THEN Append(f[i - 1], s[i]) ELSE f[i - 1]
<1>1. Len(s) \in Nat
  BY LenProperties
<1> DEFINE h == CHOOSE f : IsKept(s, positions, Len(s), f)
<1>2. IsKept(s, positions, Len(s), h)
  BY <1>1, KeptExists
<1>3. Kept(s, positions) = h[Len(s)]
  BY DEF Kept, IsKept
<1> HIDE DEF h
<1>4. \A i \in 0..Len(s) : h[i] = IF i = 0 THEN <<>>
        ELSE IF i \in positions THEN Append(h[i - 1], s[i]) ELSE h[i - 1]
  BY <1>2 DEF IsKept
<1>5. \A i \in 1..Len(s) : i \in 0..Len(s) /\ i # 0
  BY <1>1
<1>6. 0 \in 0..Len(s)
  BY <1>1
<1>7. QED
  BY <1>3, <1>4, <1>5, <1>6

\* at says where each element of t comes from.
Places(at, t, s, positions) ==
    /\ at \in [1..Len(t) -> positions]
    /\ \A j \in 1..Len(t) : t[j] = s[at[j]]
    /\ \A j, k \in 1..Len(t) : j < k => at[j] < at[k]
    /\ \A p \in positions : \E j \in 1..Len(t) : at[j] = p

LEMMA KeptPlaces ==
    ASSUME NEW S, NEW s \in Seq(S), NEW positions, \A p \in positions : p \in 1..Len(s)
    PROVE  /\ Kept(s, positions) \in Seq(S)
           /\ \E at : Places(at, Kept(s, positions), s, positions)
<1>1. /\ Len(s) \in Nat /\ \A i \in 1..Len(s) : s[i] \in S
      /\ \A p \in positions : p \in Nat /\ 1 <= p /\ p <= Len(s)
  <2>1. Len(s) \in Nat /\ \A i \in 1..Len(s) : s[i] \in S
    BY LenProperties
  <2>2. \A p \in positions : p \in 1..Len(s)
    OBVIOUS
  <2>3. QED
    BY <2>1, <2>2
<1>2. PICK f : /\ Kept(s, positions) = f[Len(s)] /\ f[0] = <<>>
               /\ \A i \in 1..Len(s) :
                    f[i] = IF i \in positions THEN Append(f[i - 1], s[i]) ELSE f[i - 1]
  BY KeptRecursion
<1> DEFINE Upto(m) == {p \in positions : p <= m}
           Q(m) == m <= Len(s) => f[m] \in Seq(S) /\ \E at : Places(at, f[m], s, Upto(m))
           P == {m \in Nat : Q(m)}
<1>3. \A m \in Nat : /\ Upto(m) \subseteq positions
                     /\ \A p \in positions : p \in Upto(m) <=> p <= m
  OBVIOUS
<1> HIDE DEF Upto
<1>4. Q(0)
  <2>1. Upto(0) = {}
    BY <1>1, <1>3
  <2>2. Len(<<>>) = 0 /\ <<>> \in Seq(S)
    BY EmptySeq
  <2>3. Places(<<>>, <<>>, s, {})
    BY <2>2 DEF Places
  <2>4. QED
    BY <1>2, <2>1, <2>3, <2>2
<1>5. ASSUME NEW m \in Nat, Q(m)
      PROVE  Q(m + 1)
  <2>1. SUFFICES ASSUME m + 1 <= Len(s)
                 PROVE  f[m + 1] \in Seq(S) /\ \E at : Places(at, f[m + 1], s, Upto(m + 1))
    OBVIOUS
  <2>2. m <= Len(s) /\ m + 1 \in 1..Len(s) /\ (m + 1) - 1 = m
    BY <1>1, <2>1
  <2>3. f[m] \in Seq(S) /\ \E at : Places(at, f[m], s, Upto(m))
    BY <1>5, <2>2
  <2> DEFINE t == f[m]
  <2>4. PICK at : Places(at, t, s, Upto(m))
    BY <2>3
  <2>5. f[m + 1] = IF m + 1 \in positions THEN Append(t, s[m + 1]) ELSE t
    BY <1>2, <2>2
  <2>6. t \in Seq(S) /\ Len(t) \in Nat
    BY <2>3, LenProperties
  <2> HIDE DEF t
  <2>7. CASE m + 1 \notin positions
    <3>1. Upto(m + 1) = Upto(m)
      <4>1. \A p \in positions : p <= m + 1 <=> p <= m
        BY <2>7, <1>1
      <4>2. m + 1 \in Nat
        OBVIOUS
      <4>3. Upto(m + 1) \subseteq Upto(m) /\ Upto(m) \subseteq Upto(m + 1)
        BY <4>1, <4>2, <1>3
      <4>4. QED
        BY <4>3
    <3>2. QED
      BY <2>3, <2>4, <2>5, <2>6, <2>7, <3>1
  <2>8. CASE m + 1 \in positions
    <3> DEFINE u == Append(t, s[m + 1])
               bt == [j \in 1..(Len(t) + 1) |-> IF j = Len(t) + 1 THEN m + 1 ELSE at[j]]
    <3>1. s[m + 1] \in S
      BY <1>1, <2>2
    <3>2. /\ u \in Seq(S) /\ Len(u) = Len(t) + 1 /\ u[Len(t) + 1] = s[m + 1]
          /\ \A j \in 1..Len(t) : u[j] = t[j]
      BY <3>1, <2>6, AppendProperties
    <3> HIDE DEF u
    <3>3. \A p \in Upto(m + 1) : p \in Upto(m) \/ p = m + 1
      BY <1>1, <1>3
    <3>4. Upto(m) \subseteq Upto(m + 1) /\ m + 1 \in Upto(m + 1)
      <4>1. \A p \in positions : p <= m => p <= m + 1
        BY <1>1
      <4>2. QED
        BY <4>1, <1>3, <2>8
    <3>5. \A j \in 1..Len(t) : /\ j \in 1..(Len(t) + 1) /\ j # Len(t) + 1
                               /\ bt[j] = at[j] /\ at[j] \in Upto(m)
      BY <2>4, <2>6 DEF Places
    <3>6. Len(t) + 1 \in 1..(Len(t) + 1) /\ bt[Len(t) + 1] = m + 1
      BY <2>6
    <3>7. \A j \in 1..(Len(t) + 1) : j \in 1..Len(t) \/ j = Len(t) + 1
      BY <2>6
    <3>8. bt \in [1..Len(u) -> Upto(m + 1)]
      BY <3>2, <3>4, <3>5, <3>6, <3>7
    <3>9. \A j \in 1..Len(u) : u[j] = s[bt[j]]
      BY <2>4, <3>2, <3>5, <3>6, <3>7 DEF Places
    <3>10. \A j, k \in 1..Len(u) : j < k => bt[j] < bt[k]
      <4>1. \A j \in 1..Len(t) : at[j] \in Nat /\ at[j] < m + 1
        <5>1. \A p \in Upto(m) : p \in Nat /\ p < m + 1
          BY <1>1, <1>3
        <5>2. QED
          BY <3>5, <5>1
      <4>2. \A j, k \in 1..Len(t) : j < k => at[j] < at[k]
        BY <2>4 DEF Places
      <4> HIDE DEF bt
      <4>3. \A j, k \in 1..Len(u) : j < k => j \in 1..Len(t)
        BY <3>2, <2>6
      <4>4. QED
        BY <3>2, <3>5, <3>6, <3>7, <4>1, <4>2, <4>3
    <3>11. \A p \in Upto(m + 1) : \E j \in 1..Len(u) : bt[j] = p
      BY <2>4, <3>2, <3>3, <3>5, <3>6 DEF Places
    <3> HIDE DEF bt
    <3>12. Places(bt, u, s, Upto(m + 1))
      BY <3>8, <3>9, <3>10, <3>11 DEF Places
    <3>13. QED
      BY <2>5, <2>8, <3>2, <3>12 DEF u
  <2>9. QED
    BY <2>7, <2>8
<1>6. Q(Len(s))
  <2> HIDE DEF Q
  <2>1. 0 \in P /\ \A m \in Nat : m \in P => m + 1 \in P
    BY <1>4, <1>5
  <2> HIDE DEF P
  <2>2. Nat \subseteq P
    BY <2>1, Induction
  <2>3. QED
    BY <1>1, <2>2 DEF P
<1>7. Upto(Len(s)) = positions
  BY <1>1, <1>3
<1>8. QED
  BY <1>1, <1>2, <1>6, <1>7

\* The sublist has the elements at the positions, as many as there are ...
LEMMA KeptElements ==
    ASSUME NEW S, NEW s \in Seq(S), NEW positions, \A p \in positions : p \in 1..Len(s)
    PROVE  /\ Kept(s, positions) \in Seq(S)
           /\ ToSet(Kept(s, positions)) = {s[p] : p \in positions}
<1> DEFINE t == Kept(s, positions)
<1>1. PICK at : t \in Seq(S) /\ Places(at, t, s, positions)
  BY KeptPlaces
<1> HIDE DEF t
<1>2. DOMAIN t = 1..Len(t)
  BY <1>1, LenProperties
<1>3. ToSet(t) \subseteq {s[p] : p \in positions}
  BY <1>1, <1>2 DEF ToSet, Places
<1>4. ASSUME NEW p \in positions
      PROVE  s[p] \in ToSet(t)
  <2>1. PICK j \in 1..Len(t) : at[j] = p
    BY <1>1 DEF Places
  <2>2. t[j] = s[p]
    BY <1>1, <2>1 DEF Places
  <2>3. QED
    BY <1>2, <2>2 DEF ToSet
<1>5. QED
  BY <1>1, <1>3, <1>4 DEF t

LEMMA KeptLength ==
    ASSUME NEW S, NEW s \in Seq(S), NEW positions, \A p \in positions : p \in 1..Len(s)
    PROVE  IsFiniteSet(positions) /\ Len(Kept(s, positions)) = Cardinality(positions)
<1> DEFINE t == Kept(s, positions)
<1>1. PICK at : t \in Seq(S) /\ Places(at, t, s, positions)
  BY KeptPlaces
<1> HIDE DEF t
<1>2. Len(t) \in Nat
  BY <1>1, LenProperties
<1>3. at \in Bijection(1..Len(t), positions)
  <2>1. \A j, k \in 1..Len(t) : at[j] = at[k] => j = k
    <3>1. \A j, k \in 1..Len(t) : j < k \/ k < j \/ j = k
      BY <1>2
    <3>2. \A j \in 1..Len(t) : at[j] \in Int
      <4>1. \A p \in positions : p \in Int
        OBVIOUS
      <4>2. QED
        BY <1>1, <4>1 DEF Places
    <3>3. QED
      BY <1>1, <3>1, <3>2 DEF Places
  <2>2. QED
    BY <1>1, <2>1 DEF Places, Bijection, Injection, Surjection, IsInjective
<1>4. ExistsBijection(1..Len(t), positions)
  BY <1>3 DEF ExistsBijection
<1>5. QED
  BY <1>2, <1>4, FS_NatBijection, FS_CountingElements DEF t

\* ... and none twice if they differ.
LEMMA KeptInjective ==
    ASSUME NEW S, NEW s \in Seq(S), NEW positions, \A p \in positions : p \in 1..Len(s),
           \A p, q \in positions : p < q => s[p] # s[q]
    PROVE  IsInjective(Kept(s, positions))
<1> DEFINE t == Kept(s, positions)
<1>1. PICK at : t \in Seq(S) /\ Places(at, t, s, positions)
  BY KeptPlaces
<1> HIDE DEF t
<1>2. DOMAIN t = 1..Len(t) /\ Len(t) \in Nat
  BY <1>1, LenProperties
<1>3. ASSUME NEW j \in 1..Len(t), NEW k \in 1..Len(t), j < k
      PROVE  t[j] # t[k]
  <2>1. at[j] \in positions /\ at[k] \in positions /\ at[j] < at[k]
    BY <1>1, <1>3, Zenon DEF Places
  <2>2. s[at[j]] # s[at[k]]
    BY <2>1, Zenon
  <2>3. QED
    BY <1>1, <2>2, Zenon DEF Places
<1>4. \A j, k \in 1..Len(t) : j < k \/ k < j \/ j = k
  BY <1>2
<1>5. QED
  BY <1>2, <1>3, <1>4 DEF IsInjective, t
=============================================================================
