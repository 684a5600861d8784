----------------------------- MODULE PlanProofs -----------------------------
(***************************************************************************)
(* Theorems about Plan, for lists of any length, any number of axes and    *)
(* values, and every width of an int.                                      *)
(***************************************************************************)
EXTENDS Plan, ListFacts
-----------------------------------------------------------------------------
(* Arithmetic.                                                             *)

LEMMA ProductOfNats == ASSUME NEW a \in Nat, NEW b \in Nat PROVE a * b \in Nat
OBVIOUS

LEMMA Division ==
    ASSUME NEW a \in Nat, NEW n \in Nat \ {0}
    PROVE  a \div n \in Nat /\ a % n \in 0..(n - 1) /\ a = n * (a \div n) + (a % n)
OBVIOUS

LEMMA DivisionIs ==
    ASSUME NEW n \in Nat \ {0}, NEW q \in Nat, NEW r \in Nat, r < n
    PROVE  (n * q + r) \div n = q /\ (n * q + r) % n = r
OBVIOUS

LEMMA DivideBound ==
    ASSUME NEW c \in Nat, NEW m \in Nat, NEW n \in Nat \ {0}
    PROVE  c > m \div n <=> c * n > m
OBVIOUS

LEMMA DisjointUnion ==
    ASSUME NEW S, NEW T, IsFiniteSet(S), IsFiniteSet(T), S \cap T = {}
    PROVE  /\ IsFiniteSet(S \cup T) /\ Cardinality(S) \in Nat /\ Cardinality(T) \in Nat
           /\ Cardinality(S \cup T) = Cardinality(S) + Cardinality(T)
<1>1. Cardinality(S \cap T) = 0
  BY FS_EmptySet
<1>2. /\ IsFiniteSet(S \cup T)
      /\ Cardinality(S \cup T) = Cardinality(S) + Cardinality(T) - Cardinality(S \cap T)
  BY FS_Union
<1>3. Cardinality(S) \in Nat /\ Cardinality(T) \in Nat
  BY FS_CardinalityType
<1>4. QED
  BY <1>1, <1>2, <1>3

\* Where the stride takes its i-th URL.
StrideAt(i, len, keep) == ((i - 1) * len) \div keep + 1

\* Two picks are the whole part of len / keep apart, or one more.
LEMMA StrideGap ==
    ASSUME NEW len \in Nat, NEW keep \in Nat \ {0}, NEW i \in Nat \ {0}
    PROVE  /\ StrideAt(i, len, keep) \in Nat
           /\ StrideAt(i + 1, len, keep) - StrideAt(i, len, keep) \in
                {len \div keep, len \div keep + 1}
<1> DEFINE a == (i - 1) * len
<1>1. a \in Nat /\ i * len = a + len
  OBVIOUS
<1> HIDE DEF a
<1>2. (a + len) \div keep - a \div keep \in {len \div keep, len \div keep + 1}
  <2>1. /\ a = keep * (a \div keep) + (a % keep) /\ a % keep \in 0..(keep - 1)
        /\ a \div keep \in Nat
    BY <1>1, Division
  <2>2. /\ len = keep * (len \div keep) + (len % keep) /\ len % keep \in 0..(keep - 1)
        /\ len \div keep \in Nat
    BY Division
  <2> DEFINE qa == a \div keep
             ql == len \div keep
             ra == a % keep
             rl == len % keep
  <2>3. /\ qa \in Nat /\ ql \in Nat /\ ra \in 0..(keep - 1) /\ rl \in 0..(keep - 1)
        /\ a = keep * qa + ra /\ len = keep * ql + rl
    BY <2>1, <2>2
  <2> HIDE DEF qa, ql, ra, rl
  <2>4. a + len = keep * (qa + ql) + (ra + rl)
    BY <2>3
  <2>5. CASE ra + rl < keep
    <3>1. (a + len) \div keep = qa + ql
      BY <2>3, <2>4, <2>5, DivisionIs
    <3>2. QED
      BY <2>3, <3>1 DEF qa, ql
  <2>6. CASE ra + rl >= keep
    <3>1. a + len = keep * (qa + ql + 1) + (ra + rl - keep) /\ ra + rl - keep < keep
      BY <2>3, <2>4, <2>6
    <3>2. (a + len) \div keep = qa + ql + 1
      BY <2>3, <2>6, <3>1, DivisionIs
    <3>3. QED
      BY <2>3, <3>2 DEF qa, ql
  <2>7. QED
    BY <2>3, <2>5, <2>6
<1>3. a \div keep \in Nat /\ (a + len) \div keep \in Nat
  BY <1>1, Division
<1>4. StrideAt(i, len, keep) = a \div keep + 1 /\ StrideAt(i + 1, len, keep) = (a + len) \div keep + 1
  BY <1>1 DEF StrideAt, a
<1>5. len \div keep \in Nat
  BY Division
<1>6. QED
  BY <1>2, <1>3, <1>4, <1>5

\* A stride picks different positions of the list, in order.
LEMMA StridePositions ==
    ASSUME NEW len \in Nat, NEW keep \in 1..len
    PROVE  /\ \A i \in 1..keep : StrideAt(i, len, keep) \in 1..len
           /\ \A i, j \in 1..keep :
                i < j => StrideAt(i, len, keep) < StrideAt(j, len, keep)
           /\ StrideAt(1, len, keep) = 1 /\ StrideAt(keep + 1, len, keep) = len + 1
<1>1. ASSUME NEW i \in 1..keep
      PROVE  StrideAt(i, len, keep) \in 1..len
  <2>1. (i - 1) * len \in Nat /\ (i - 1) * len < len * keep
    OBVIOUS
  <2>2. ((i - 1) * len) \div keep \in Nat /\ ~(len * keep <= (i - 1) * len)
    BY <2>1, Division
  <2>3. ((i - 1) * len) \div keep < len
    BY <2>1, <2>2
  <2>4. QED
    BY <2>2, <2>3 DEF StrideAt
<1>2. ASSUME NEW i \in 1..keep, NEW j \in 1..keep, i < j
      PROVE  StrideAt(i, len, keep) < StrideAt(j, len, keep)
  <2> DEFINE a == (i - 1) * len
             b == (j - 1) * len
  <2>1. a \in Nat /\ b \in Nat /\ a + keep <= b
    <3>1. i - 1 \in Nat /\ j - 1 \in Nat /\ (i - 1) + 1 <= j - 1
      BY <1>2
    <3>2. \A x, y \in Nat : x + 1 <= y => x * len + len <= y * len
      OBVIOUS
    <3>3. a + len <= b
      BY <3>1, <3>2
    <3>4. a \in Nat /\ b \in Nat
      BY <3>1, ProductOfNats
    <3>5. QED
      BY <3>3, <3>4
  <2> HIDE DEF a, b
  <2>2. a \div keep < b \div keep
    BY <2>1
  <2>3. a \div keep \in Nat /\ b \div keep \in Nat
    BY <2>1, Division
  <2>4. QED
    BY <2>2, <2>3 DEF StrideAt, a, b
<1>3. StrideAt(1, len, keep) = 1 /\ StrideAt(keep + 1, len, keep) = len + 1
  <2>1. (1 - 1) * len = keep * 0 + 0 /\ (keep + 1 - 1) * len = keep * len + 0
    OBVIOUS
  <2>2. (keep * 0 + 0) \div keep = 0 /\ (keep * len + 0) \div keep = len
    BY DivisionIs
  <2>3. QED
    BY <2>1, <2>2 DEF StrideAt
<1>4. QED
  BY <1>1, <1>2, <1>3
-----------------------------------------------------------------------------
(* The order of the list.                                                  *)

Before(u, v) ==
    \/ u \in priority /\ v \notin priority
    \/ (u \in priority <=> v \in priority) /\ u < v

Ordered(s) == \A i, k \in 1..Len(s) : i < k => Before(s[i], s[k])

\* at says where t takes its elements from, without changing their order.
Within(at, t, s) ==
    /\ at \in [1..Len(t) -> 1..Len(s)]
    /\ \A j \in 1..Len(t) : t[j] = s[at[j]]
    /\ \A j, k \in 1..Len(t) : j < k => at[j] < at[k]

Sublist(t, s) == \E at : Within(at, t, s)

LEMMA SublistOrdered ==
    ASSUME NEW s, NEW t, Sublist(t, s), Ordered(s)
    PROVE  Ordered(t)
<1>1. PICK at : Within(at, t, s)
  BY DEF Sublist
<1>2. QED
  BY <1>1 DEF Within, Ordered

LEMMA OrderedDiffer ==
    ASSUME NEW S \in SUBSET Nat, NEW s \in Seq(S), Ordered(s),
           NEW i \in 1..Len(s), NEW k \in 1..Len(s), s[i] = s[k]
    PROVE  i = k
<1>1. Len(s) \in Nat /\ s[i] \in Nat /\ s[k] \in Nat
  BY LenProperties, ElementOfSeq
<1>2. i < k \/ k < i \/ i = k
  BY <1>1
<1>3. \A n \in Nat : ~(n < n)
  OBVIOUS
<1>4. ~Before(s[i], s[k]) /\ ~Before(s[k], s[i])
  BY <1>1, <1>3 DEF Before
<1>5. QED
  BY <1>2, <1>4 DEF Ordered

\* A list kept at some positions is a sublist.
LEMMA KeptSublist ==
    ASSUME NEW S, NEW s \in Seq(S), NEW positions, \A p \in positions : p \in 1..Len(s)
    PROVE  Kept(s, positions) \in Seq(S) /\ Sublist(Kept(s, positions), s)
<1> DEFINE t == Kept(s, positions)
<1>1. PICK at : t \in Seq(S) /\ Places(at, t, s, positions)
  BY KeptPlaces
<1> HIDE DEF t
<1>2. \A j \in 1..Len(t) : at[j] \in positions /\ at[j] \in 1..Len(s)
  BY <1>1 DEF Places
<1>3. at \in [1..Len(t) -> 1..Len(s)]
  BY <1>1, <1>2 DEF Places
<1>4. Within(at, t, s)
  BY <1>1, <1>3 DEF Places, Within
<1>5. QED
  BY <1>1, <1>4 DEF Sublist, t

\* The numbered URLs are in the order of the sitemap, and prioritising them
\* loses none.
LEMMA PriorityOrdered ==
    ASSUME NEW n \in Nat, NEW s, s = [i \in 1..n |-> i]
    PROVE  /\ PriorityOrder(s) \in Seq(1..n) /\ Len(PriorityOrder(s)) = n
           /\ Ordered(PriorityOrder(s))
<1>1. s \in Seq(1..n) /\ Len(s) = n /\ DOMAIN s = 1..n /\ \A i \in 1..n : s[i] = i
  BY AsSequence, LenProperties
<1> DEFINE with == WithPriority(s)
           without == DOMAIN s \ WithPriority(s)
           a == Kept(s, with)
           b == Kept(s, without)
<1>2. /\ \A p \in with : p \in 1..Len(s) /\ p \in priority
      /\ \A p \in without : p \in 1..Len(s) /\ p \notin priority
      /\ with \cup without = 1..n /\ with \cap without = {}
  BY <1>1 DEF WithPriority
<1> HIDE DEF with, without
<1>3. /\ IsFiniteSet(with) /\ Len(a) = Cardinality(with)
      /\ IsFiniteSet(without) /\ Len(b) = Cardinality(without)
  BY <1>1, <1>2, KeptLength
<1>4. PICK at : a \in Seq(1..n) /\ Places(at, a, s, with)
  BY <1>1, <1>2, KeptPlaces
<1>5. PICK bt : b \in Seq(1..n) /\ Places(bt, b, s, without)
  BY <1>1, <1>2, KeptPlaces
<1>6. PriorityOrder(s) = a \o b
  BY DEF PriorityOrder, with, without
<1> HIDE DEF a, b
<1>7. /\ Len(a) \in Nat /\ Len(b) \in Nat
      /\ a \o b \in Seq(1..n) /\ Len(a \o b) = Len(a) + Len(b)
      /\ \A i \in 1..(Len(a) + Len(b)) :
           (a \o b)[i] = IF i <= Len(a) THEN a[i] ELSE b[i - Len(a)]
  BY <1>4, <1>5, LenProperties, ConcatProperties
<1>8. Len(a) + Len(b) = n
  <2>1. Cardinality(with \cup without) = Cardinality(with) + Cardinality(without)
    BY <1>2, <1>3, DisjointUnion
  <2>2. Cardinality(1..n) = n
    <3>1. Cardinality(1..n) = IF n < 1 THEN 0 ELSE n - 1 + 1
      BY FS_Interval
    <3>2. QED
      BY <3>1
  <2>3. QED
    BY <1>2, <1>3, <2>1, <2>2
<1>9. /\ \A i \in 1..Len(a) : a[i] \in with /\ a[i] \in 1..n /\ a[i] = at[i]
      /\ \A i \in 1..Len(b) : b[i] \in without /\ b[i] \in 1..n /\ b[i] = bt[i]
  BY <1>1, <1>2, <1>4, <1>5 DEF Places
<1>10. ASSUME NEW i \in 1..Len(a \o b), NEW k \in 1..Len(a \o b), i < k
       PROVE  Before((a \o b)[i], (a \o b)[k])
  <2>1. CASE k <= Len(a)
    <3>1. i \in 1..Len(a) /\ k \in 1..Len(a)
      BY <1>7, <1>10, <2>1
    <3>2. (a \o b)[i] = a[i] /\ (a \o b)[k] = a[k]
      BY <1>7, <3>1
    <3>3. at[i] < at[k]
      BY <1>4, <1>10, <3>1 DEF Places
    <3>4. QED
      BY <1>2, <1>9, <3>1, <3>2, <3>3 DEF Before
  <2>2. CASE i > Len(a)
    <3>1. i - Len(a) \in 1..Len(b) /\ k - Len(a) \in 1..Len(b) /\ i - Len(a) < k - Len(a)
      BY <1>7, <1>10, <2>2
    <3>2. (a \o b)[i] = b[i - Len(a)] /\ (a \o b)[k] = b[k - Len(a)]
      BY <1>7, <1>10, <2>2
    <3>3. bt[i - Len(a)] < bt[k - Len(a)]
      BY <1>5, <3>1 DEF Places
    <3>4. QED
      BY <1>2, <1>9, <3>1, <3>2, <3>3 DEF Before
  <2>3. CASE i <= Len(a) /\ k > Len(a)
    <3>1. i \in 1..Len(a) /\ k - Len(a) \in 1..Len(b)
      BY <1>7, <2>3
    <3>2. (a \o b)[i] = a[i] /\ (a \o b)[k] = b[k - Len(a)]
      BY <1>7, <2>3
    <3>3. QED
      BY <1>2, <1>9, <3>1, <3>2 DEF Before
  <2>4. k <= Len(a) \/ i > Len(a) \/ (i <= Len(a) /\ k > Len(a))
    BY <1>7
  <2>5. QED
    BY <2>1, <2>2, <2>3, <2>4, Zenon
<1>11. QED
  BY <1>6, <1>7, <1>8, <1>10 DEF Ordered

LEMMA ShareIsNat ==
    ASSUME NEW n \in Nat, NEW percent \in 0..Whole
    PROVE  (n * percent) \div Whole \in Nat
<1>1. PercentUnit \in Nat \ {0}
  BY PlanAssumption
<1>2. Whole \in Nat \ {0}
  BY <1>1 DEF Whole
<1>3. n * percent \in Nat
  <2>1. percent \in Nat
    BY <1>2
  <2>2. QED
    BY <2>1, ProductOfNats
<1>4. \A x \in Nat, y \in Nat \ {0} : x \div y \in Nat
  OBVIOUS
<1> HIDE DEF Whole
<1>5. QED
  BY <1>2, <1>3, <1>4, Zenon

LEMMA KeepCounts ==
    ASSUME NEW s, Len(s) \in Nat, sampling \in SamplingType
    PROVE  Keep(s) \in Nat \ {0}
<1>1. sampling.percent \in 0..Whole
  BY DEF SamplingType
<1>2. (Len(s) * sampling.percent) \div Whole \in Nat
  BY <1>1, ShareIsNat
<1>3. QED
  BY <1>2 DEF Keep

\* What is kept of a list is a sublist of it.
LEMMA SamplesAreSublists ==
    ASSUME NEW S, NEW s \in Seq(S), NEW t \in Samples(s),
           sampling \in SamplingType
    PROVE  t \in Seq(S) /\ Sublist(t, s) /\ Len(t) <= Len(s)
<1>1. /\ Len(s) \in Nat /\ DOMAIN s = 1..Len(s) /\ \A i \in 1..Len(s) : s[i] \in S
      /\ sampling.firstN \in Nat
  BY LenProperties DEF SamplingType
<1>2. Keep(s) \in Nat \ {0}
  BY <1>1, KeepCounts
<1>3. CASE t = s
  <2>1. Within([j \in 1..Len(s) |-> j], s, s)
    BY <1>1 DEF Within
  <2>2. QED
    BY <1>1, <1>3, <2>1 DEF Sublist
<1>4. CASE Keep(s) < Len(s) /\ t \in Picks(s, Keep(s))
  <2>1. PICK picked \in SUBSET DOMAIN s :
          Cardinality(picked) = Keep(s) /\ t = Kept(s, picked)
    BY <1>4 DEF Picks, kSubset
  <2>2. \A p \in picked : p \in 1..Len(s)
    BY <1>1
  <2>3. t \in Seq(S) /\ Sublist(t, s)
    BY <2>1, <2>2, KeptSublist
  <2>4. Len(t) = Keep(s)
    BY <2>1, <2>2, KeptLength
  <2>5. QED
    BY <1>1, <1>2, <1>4, <2>3, <2>4
<1>5. CASE Keep(s) < Len(s) /\ t = Stride(s, Keep(s))
  <2> DEFINE keep == Keep(s)
             at == [j \in 1..keep |-> StrideAt(j, Len(s), keep)]
  <2>1. keep \in 1..Len(s)
    BY <1>1, <1>2, <1>5
  <2>2. t = [j \in 1..keep |-> s[StrideAt(j, Len(s), keep)]]
    BY <1>5 DEF Stride, StrideAt
  <2> HIDE DEF keep
  <2>3. /\ \A j \in 1..keep : StrideAt(j, Len(s), keep) \in 1..Len(s)
        /\ \A j, k \in 1..keep : j < k => StrideAt(j, Len(s), keep) < StrideAt(k, Len(s), keep)
    BY <1>1, <2>1, StridePositions
  <2>4. t \in [1..keep -> S]
    BY <1>1, <2>2, <2>3
  <2>5. t \in Seq(S) /\ Len(t) = keep
    BY <1>1, <2>1, <2>2, <2>4, AsSequence, LenProperties
  <2>6. Within(at, t, s)
    BY <2>2, <2>3, <2>5 DEF Within
  <2>7. QED
    BY <1>1, <2>1, <2>5, <2>6 DEF Sublist
<1>6. CASE sampling.firstN > 0 /\ sampling.firstN < Len(s) /\ t = SubSeq(s, 1, sampling.firstN)
  <2> DEFINE n == sampling.firstN
             at == [j \in 1..n |-> j]
  <2>1. n \in Nat /\ n >= 1 /\ n < Len(s) /\ t = SubSeq(s, 1, n)
    BY <1>1, <1>6
  <2> HIDE DEF n
  <2>2. \A i \in 1..n : i \in 1..Len(s) /\ s[i] \in S
    BY <1>1, <2>1
  <2>3. /\ t \in Seq(S) /\ Len(t) = n - 1 + 1
        /\ \A i \in 1..(n - 1 + 1) : t[i] = s[1 + i - 1]
    BY <2>1, <2>2, SubSeqProperties
  <2>4. n - 1 + 1 = n /\ \A i \in 1..n : 1 + i - 1 = i
    BY <2>1
  <2>5. Len(t) = n /\ \A i \in 1..n : t[i] = s[i]
    BY <2>3, <2>4
  <2>6. Within(at, t, s)
    BY <2>2, <2>5 DEF Within
  <2>7. QED
    BY <1>1, <2>1, <2>3, <2>5, <2>6 DEF Sublist
<1>7. QED
  BY <1>1, <1>2, <1>3, <1>4, <1>5, <1>6 DEF Samples
-----------------------------------------------------------------------------
(* Combinations.                                                           *)

\* Where a combination comes from: the one it extends, and the value added.
Row(k, n) == (k - 1) \div n + 1
Col(k, n) == ((k - 1) % n) + 1

LEMMA Slots ==
    ASSUME NEW len \in Nat, NEW n \in Nat
    PROVE  /\ \A k \in 1..(len * n) :
                /\ Row(k, n) \in 1..len /\ Col(k, n) \in 1..n
                /\ k = n * (Row(k, n) - 1) + Col(k, n)
           /\ \A q \in 1..len, r \in 1..n :
                \E k \in 1..(len * n) : Row(k, n) = q /\ Col(k, n) = r
<1>1. ASSUME NEW k \in 1..(len * n)
      PROVE  /\ Row(k, n) \in 1..len /\ Col(k, n) \in 1..n
             /\ k = n * (Row(k, n) - 1) + Col(k, n)
  <2>1. n \in Nat \ {0}
    <3>1. len * 0 = 0
      OBVIOUS
    <3>2. n # 0
      BY <3>1
    <3>3. QED
      BY <3>2
  <2>2. k - 1 \in Nat /\ k - 1 < len * n
    BY ProductOfNats
  <2> DEFINE x == k - 1
             q == x \div n
             r == x % n
  <2>3. x \in Nat /\ q \in Nat /\ r \in 0..(n - 1) /\ x = n * q + r /\ x < len * n
    BY <2>1, <2>2, Division
  <2> HIDE DEF q, r
  <2>4. q < len
    BY <2>1, <2>3
  <2>5. q + 1 \in 1..len /\ r + 1 \in 1..n /\ k = n * (q + 1 - 1) + (r + 1)
    BY <2>1, <2>3, <2>4
  <2>6. QED
    BY <2>5 DEF q, r, Row, Col
<1>2. ASSUME NEW q \in 1..len, NEW r \in 1..n
      PROVE  \E k \in 1..(len * n) : Row(k, n) = q /\ Col(k, n) = r
  <2> DEFINE k == n * (q - 1) + (r - 1) + 1
  <2>1. n \in Nat \ {0} /\ q - 1 \in Nat /\ r - 1 \in Nat /\ r - 1 < n
    OBVIOUS
  <2>2. n * (q - 1) \in Nat /\ n * (q - 1) + n <= len * n
    BY <2>1, ProductOfNats
  <2>3. k \in 1..(len * n) /\ k - 1 = n * (q - 1) + (r - 1)
    BY <2>1, <2>2
  <2>4. (k - 1) \div n = q - 1 /\ (k - 1) % n = r - 1
    BY <2>1, <2>3, DivisionIs
  <2>5. Row(k, n) = q /\ Col(k, n) = r
    BY <2>4 DEF Row, Col
  <2> HIDE DEF k
  <2>6. QED
    BY <2>3, <2>5
<1>3. QED
  BY <1>1, <1>2

\* c takes a value of each of the first m axes.
Picked(a, m, c) == c \in Seq(STRING) /\ Len(c) = m /\ \A i \in 1..m : c[i] \in ToSet(a[i])

\* s lists what may be picked, each once.
Level(a, m, s) ==
    /\ s \in Seq(Seq(STRING))
    /\ \A k \in 1..Len(s) : Picked(a, m, s[k])
    /\ \A k, l \in 1..Len(s) : s[k] = s[l] => k = l
    /\ \A c : Picked(a, m, c) => \E k \in 1..Len(s) : s[k] = c

Extended(s, values) ==
    [k \in 1..(Len(s) * Len(values)) |->
        Append(s[Row(k, Len(values))], values[Col(k, Len(values))])]

LEMMA LevelStep ==
    ASSUME NEW a \in Seq(Seq(STRING)), NEW m \in Nat, m + 1 \in 1..Len(a),
           IsInjective(a[m + 1]), NEW s, Level(a, m, s)
    PROVE  /\ Level(a, m + 1, Extended(s, a[m + 1]))
           /\ Len(Extended(s, a[m + 1])) = Len(s) * Len(a[m + 1])
<1> DEFINE values == a[m + 1]
           n == Len(values)
           t == Extended(s, values)
           q(k) == Row(k, n)
           r(k) == Col(k, n)
<1>1. /\ values \in Seq(STRING) /\ DOMAIN values = 1..n /\ n \in Nat
      /\ \A i \in 1..n : values[i] \in STRING
  BY ElementOfSeq, LenProperties
<1>2. Len(s) \in Nat /\ \A k \in 1..Len(s) : s[k] \in Seq(STRING) /\ Len(s[k]) = m
  BY LenProperties DEF Level, Picked
<1>3. /\ \A k \in 1..(Len(s) * n) : q(k) \in 1..Len(s) /\ r(k) \in 1..n
      /\ \A k \in 1..(Len(s) * n) : k = n * (q(k) - 1) + r(k)
      /\ \A x \in 1..Len(s), y \in 1..n : \E k \in 1..(Len(s) * n) : q(k) = x /\ r(k) = y
  BY <1>1, <1>2, Slots, Zenon
<1>4. t = [k \in 1..(Len(s) * n) |-> Append(s[q(k)], values[r(k)])]
  BY DEF Extended
<1>5. \A k, l \in 1..(Len(s) * n) : q(k) = q(l) /\ r(k) = r(l) => k = l
  BY <1>3, Zenon
<1> HIDE DEF values, n, t, q, r
<1>6. \A k \in 1..(Len(s) * n) :
        /\ t[k] \in Seq(STRING) /\ Len(t[k]) = m + 1 /\ t[k][m + 1] = values[r(k)]
        /\ \A i \in 1..m : t[k][i] = s[q(k)][i]
  <2>1. ASSUME NEW k \in 1..(Len(s) * n)
        PROVE  /\ t[k] \in Seq(STRING) /\ Len(t[k]) = m + 1 /\ t[k][m + 1] = values[r(k)]
               /\ \A i \in 1..m : t[k][i] = s[q(k)][i]
    <3>1. s[q(k)] \in Seq(STRING) /\ Len(s[q(k)]) = m /\ values[r(k)] \in STRING
      BY <1>1, <1>2, <1>3
    <3>2. t[k] = Append(s[q(k)], values[r(k)])
      BY <1>4
    <3>3. QED
      BY <3>1, <3>2, AppendProperties
  <2>2. QED
    BY <2>1
<1>7. t \in Seq(Seq(STRING)) /\ Len(t) = Len(s) * n
  <2>1. Len(s) * n \in Nat
    BY <1>1, <1>2, ProductOfNats
  <2>2. t \in [1..(Len(s) * n) -> Seq(STRING)]
    BY <1>4, <1>6
  <2> DEFINE size == Len(s) * n
  <2> HIDE DEF size
  <2>3. size \in Nat /\ t \in [1..size -> Seq(STRING)]
    BY <2>1, <2>2 DEF size
  <2>4. t \in Seq(Seq(STRING)) /\ Len(t) = size
    BY <2>3, AsSequence, LenProperties
  <2>5. QED
    BY <2>4 DEF size
<1>8. \A i \in 1..(m + 1) : i \in 1..m \/ i = m + 1
  OBVIOUS
<1>9. m + 1 \in 1..(m + 1) /\ \A i \in 1..m : i \in 1..(m + 1)
  OBVIOUS
<1>10. \A k \in 1..Len(t) : Picked(a, m + 1, t[k])
  <2>1. ASSUME NEW k \in 1..Len(t)
        PROVE  \A i \in 1..(m + 1) : t[k][i] \in ToSet(a[i])
    <3>1. k \in 1..(Len(s) * n) /\ q(k) \in 1..Len(s) /\ r(k) \in DOMAIN values
      BY <1>1, <1>3, <1>7
    <3>2. \A i \in 1..m : s[q(k)][i] \in ToSet(a[i])
      BY <3>1 DEF Level, Picked
    <3>3. values[r(k)] \in ToSet(a[m + 1])
      BY <3>1 DEF ToSet, values
    <3>4. QED
      BY <1>6, <1>8, <3>1, <3>2, <3>3
  <2>2. QED
    BY <1>6, <1>7, <2>1 DEF Picked
<1>11. ASSUME NEW k \in 1..Len(t), NEW l \in 1..Len(t), t[k] = t[l]
       PROVE  k = l
  <2>1. k \in 1..(Len(s) * n) /\ l \in 1..(Len(s) * n)
    BY <1>7
  <2>2. q(k) \in 1..Len(s) /\ q(l) \in 1..Len(s) /\ r(k) \in 1..n /\ r(l) \in 1..n
    BY <1>3, <2>1
  <2>3. \A i \in 1..m : s[q(k)][i] = s[q(l)][i]
    BY <1>6, <1>11, <2>1
  <2>4. s[q(k)] = s[q(l)]
    BY <1>2, <2>2, <2>3, SeqEqual
  <2>5. q(k) = q(l)
    BY <2>2, <2>4 DEF Level
  <2>6. values[r(k)] = values[r(l)]
    BY <1>6, <1>11, <2>1
  <2>7. r(k) = r(l)
    BY <1>1, <2>2, <2>6 DEF IsInjective, values
  <2>8. QED
    BY <1>5, <2>1, <2>5, <2>7
<1>12. ASSUME NEW c, Picked(a, m + 1, c)
       PROVE  \E k \in 1..Len(t) : t[k] = c
  <2> DEFINE front == [i \in 1..m |-> c[i]]
  <2>1. c \in Seq(STRING) /\ Len(c) = m + 1 /\ \A i \in 1..(m + 1) : c[i] \in STRING /\ c[i] \in ToSet(a[i])
    BY <1>12, ElementOfSeq DEF Picked
  <2>2. front \in Seq(STRING) /\ Len(front) = m /\ \A i \in 1..m : front[i] = c[i]
    <3>1. front \in [1..m -> STRING]
      BY <1>9, <2>1
    <3>2. QED
      BY <3>1, AsSequence, LenProperties
  <2> HIDE DEF front
  <2>3. Picked(a, m, front)
    BY <1>9, <2>1, <2>2 DEF Picked
  <2>4. PICK x \in 1..Len(s) : s[x] = front
    BY <2>3 DEF Level
  <2>5. PICK y \in 1..n : values[y] = c[m + 1]
    BY <1>1, <1>9, <2>1 DEF ToSet, values
  <2>6. PICK k \in 1..(Len(s) * n) : q(k) = x /\ r(k) = y
    BY <1>3
  <2>7. /\ t[k] \in Seq(STRING) /\ Len(t[k]) = m + 1 /\ t[k][m + 1] = c[m + 1]
        /\ \A i \in 1..m : t[k][i] = c[i]
    BY <1>6, <2>2, <2>4, <2>5, <2>6
  <2>8. \A i \in 1..(m + 1) : t[k][i] = c[i]
    BY <1>8, <2>7
  <2>9. t[k] = c
    BY <2>1, <2>7, <2>8, SeqEqual
  <2>10. QED
    BY <1>7, <2>9
<1>13. Level(a, m + 1, t)
  BY <1>7, <1>10, <1>11, <1>12 DEF Level
<1>14. QED
  BY <1>7, <1>13 DEF t, n, values

IsExpansion(a, n, f) ==
    f = [i \in 0..n |-> IF i = 0 THEN <<<<>>>> ELSE Extended(f[i - 1], a[i])]

LEMMA ExpansionExists ==
    ASSUME NEW a, NEW n \in Nat
    PROVE  \E f : IsExpansion(a, n, f)
<1> DEFINE S == {m \in Nat : \E f : IsExpansion(a, m, f)}
<1>1. 0 \in S
  <2>1. IsExpansion(a, 0, [i \in 0..0 |-> <<<<>>>>])
    BY DEF IsExpansion
  <2>2. QED
    BY <2>1
<1>2. ASSUME NEW m \in Nat, m \in S
      PROVE  m + 1 \in S
  <2>1. PICK f : IsExpansion(a, m, f)
    BY <1>2
  <2> DEFINE g == [i \in 0..(m + 1) |-> IF i = 0 THEN <<<<>>>> ELSE Extended(f[i - 1], a[i])]
  <2>2. \A i \in 0..m : i \in 0..(m + 1) /\ g[i] = f[i]
    <3>1. \A i \in 0..m : f[i] = IF i = 0 THEN <<<<>>>> ELSE Extended(f[i - 1], a[i])
      BY <2>1 DEF IsExpansion
    <3>2. 0..m \subseteq 0..(m + 1)
      OBVIOUS
    <3>3. QED
      BY <3>1, <3>2
  <2>3. \A i \in 0..(m + 1) : i # 0 => i - 1 \in 0..m
    OBVIOUS
  <2>4. \A i \in 0..(m + 1) : i # 0 => g[i - 1] = f[i - 1]
    BY <2>2, <2>3
  <2>5. IsExpansion(a, m + 1, g)
    BY <2>4 DEF IsExpansion
  <2>6. QED
    BY <2>5
<1>3. QED
  BY <1>1, <1>2, Induction

LEMMA ExpandRecursion ==
    ASSUME NEW a \in Seq(Seq(STRING)), \A i \in 1..Len(a) : IsInjective(a[i])
    PROVE  \E f : /\ Expand(a) = f[Len(a)]
                  /\ \A m \in 0..Len(a) : Level(a, m, f[m])
                  /\ Len(f[0]) = 1
                  /\ \A m \in 1..Len(a) : Len(f[m]) = Len(f[m - 1]) * Len(a[m])
<1>1. Len(a) \in Nat
  BY LenProperties
<1> DEFINE f == CHOOSE g : IsExpansion(a, Len(a), g)
<1>2. IsExpansion(a, Len(a), f)
  BY <1>1, ExpansionExists
<1>3. Expand(a) = f[Len(a)]
  BY DEF Expand, IsExpansion, Extended, Row, Col
<1> HIDE DEF f
<1>4. \A i \in 0..Len(a) : f[i] = IF i = 0 THEN <<<<>>>> ELSE Extended(f[i - 1], a[i])
  BY <1>2 DEF IsExpansion
<1>5. f[0] = <<<<>>>> /\ \A m \in 1..Len(a) : f[m] = Extended(f[m - 1], a[m])
  <2>1. 0 \in 0..Len(a) /\ \A m \in 1..Len(a) : m \in 0..Len(a) /\ m # 0
    BY <1>1
  <2>2. QED
    BY <1>4, <2>1
<1>6. Level(a, 0, f[0]) /\ Len(f[0]) = 1
  <2>1. <<>> \in Seq(STRING) /\ Len(<<>>) = 0
    OBVIOUS
  <2>2. f[0] \in Seq(Seq(STRING)) /\ Len(f[0]) = 1 /\ f[0][1] = <<>>
    BY <1>5, <2>1
  <2>3. \A k \in 1..1 : k = 1
    OBVIOUS
  <2>4. Picked(a, 0, <<>>)
    BY <2>1 DEF Picked
  <2>5. ASSUME NEW c, Picked(a, 0, c)
        PROVE  c = <<>>
    <3>1. c \in Seq(STRING) /\ Len(c) = 0
      BY <2>5 DEF Picked
    <3>2. QED
      BY <3>1, EmptySeq
  <2>6. QED
    BY <2>2, <2>3, <2>4, <2>5 DEF Level
<1> DEFINE Q(m) == m <= Len(a) => Level(a, m, f[m])
           P == {m \in Nat : Q(m)}
<1>7. Q(0)
  BY <1>6
<1>8. ASSUME NEW m \in Nat, m + 1 \in 1..Len(a), Level(a, m, f[m])
      PROVE  Level(a, m + 1, f[m + 1]) /\ Len(f[m + 1]) = Len(f[m]) * Len(a[m + 1])
  <2>1. f[m + 1] = Extended(f[m], a[m + 1])
    <3>1. (m + 1) - 1 = m
      OBVIOUS
    <3>2. QED
      BY <1>5, <1>8, <3>1
  <2>2. QED
    BY <1>8, <2>1, LevelStep
<1>9. ASSUME NEW m \in Nat, Q(m)
      PROVE  Q(m + 1)
  <2>1. SUFFICES ASSUME m + 1 <= Len(a)
                 PROVE  Level(a, m + 1, f[m + 1])
    OBVIOUS
  <2>2. m <= Len(a) /\ m + 1 \in 1..Len(a)
    BY <1>1, <2>1
  <2>3. QED
    BY <1>8, <1>9, <2>2
<1>10. \A m \in Nat : Q(m)
  <2> HIDE DEF Q
  <2>1. 0 \in P /\ \A m \in Nat : m \in P => m + 1 \in P
    BY <1>7, <1>9
  <2> HIDE DEF P
  <2>2. Nat \subseteq P
    BY <2>1, Induction
  <2>3. QED
    BY <2>2 DEF P
<1>11. \A m \in 0..Len(a) : Level(a, m, f[m])
  BY <1>1, <1>10
<1>12. ASSUME NEW m \in 1..Len(a)
       PROVE  Len(f[m]) = Len(f[m - 1]) * Len(a[m])
  <2>1. m - 1 \in Nat /\ (m - 1) + 1 = m /\ m - 1 \in 0..Len(a)
    BY <1>1
  <2>2. Level(a, m - 1, f[m - 1])
    BY <1>11, <2>1
  <2> DEFINE l == m - 1
  <2>3. l \in Nat /\ l + 1 = m /\ l + 1 \in 1..Len(a) /\ Level(a, l, f[l])
    BY <2>1, <2>2
  <2> HIDE DEF l
  <2>4. Len(f[l + 1]) = Len(f[l]) * Len(a[l + 1])
    BY <1>8, <2>3
  <2>5. QED
    BY <2>3, <2>4 DEF l
<1>13. QED
  BY <1>3, <1>6, <1>11, <1>12

\* The largest int stands for every number beyond it.
Capped(x) == IF x > MaxInt THEN MaxInt ELSE x

CountStep(count, n) ==
    IF n = 0 THEN 0 ELSE IF count > MaxInt \div n THEN MaxInt ELSE count * n

\* One factor of comboCount: what was capped stays so.
LEMMA CountFactor ==
    ASSUME NEW size \in Nat \ {0}, NEW n \in Nat \ {0}
    PROVE  CountStep(Capped(size), n) = Capped(size * n) /\ size * n \in Nat \ {0}
<1>1. MaxInt \in Nat \ {0}
  BY PlanAssumption
<1>2. size * n \in Nat /\ size * n >= size /\ size * n >= n
  BY ProductOfNats
<1> DEFINE c == Capped(size)
<1>3. c \in Nat /\ c <= MaxInt /\ (size <= MaxInt => c = size) /\ (size > MaxInt => c = MaxInt)
  BY <1>1 DEF Capped
<1> HIDE DEF c
<1>4. CountStep(c, n) = IF c * n > MaxInt THEN MaxInt ELSE c * n
  BY <1>1, <1>3, DivideBound DEF CountStep
<1>5. CASE size <= MaxInt
  BY <1>2, <1>3, <1>4, <1>5 DEF Capped, c
<1>6. CASE size > MaxInt
  <2>1. c * n \in Nat /\ c * n >= MaxInt
    BY <1>1, <1>3, <1>6
  <2>2. CountStep(c, n) = MaxInt
    BY <1>1, <1>4, <2>1
  <2>3. Capped(size * n) = MaxInt
    BY <1>1, <1>2, <1>6 DEF Capped
  <2>4. QED
    BY <1>2, <2>2, <2>3 DEF c
<1>7. QED
  BY <1>1, <1>5, <1>6

IsCount(a, n, c) ==
    c = [i \in 0..n |-> IF i = 0 THEN 1 ELSE CountStep(c[i - 1], Len(a[i]))]

LEMMA CountExists ==
    ASSUME NEW a, NEW n \in Nat
    PROVE  \E c : IsCount(a, n, c)
<1> DEFINE S == {m \in Nat : \E c : IsCount(a, m, c)}
<1>1. 0 \in S
  <2>1. IsCount(a, 0, [i \in 0..0 |-> 1])
    BY DEF IsCount
  <2>2. QED
    BY <2>1
<1>2. ASSUME NEW m \in Nat, m \in S
      PROVE  m + 1 \in S
  <2>1. PICK c : IsCount(a, m, c)
    BY <1>2
  <2> DEFINE g == [i \in 0..(m + 1) |-> IF i = 0 THEN 1 ELSE CountStep(c[i - 1], Len(a[i]))]
  <2>2. \A i \in 0..m : i \in 0..(m + 1) /\ g[i] = c[i]
    <3>1. \A i \in 0..m : c[i] = IF i = 0 THEN 1 ELSE CountStep(c[i - 1], Len(a[i]))
      BY <2>1 DEF IsCount
    <3>2. 0..m \subseteq 0..(m + 1)
      OBVIOUS
    <3>3. QED
      BY <3>1, <3>2
  <2>3. \A i \in 0..(m + 1) : i # 0 => i - 1 \in 0..m
    OBVIOUS
  <2>4. \A i \in 0..(m + 1) : i # 0 => g[i - 1] = c[i - 1]
    BY <2>2, <2>3
  <2>5. IsCount(a, m + 1, g)
    BY <2>4 DEF IsCount
  <2>6. QED
    BY <2>5
<1>3. QED
  BY <1>1, <1>2, Induction

\* comboCount is the number of combinations forEachCombo makes, as long as
\* an int holds it.
LEMMA CountIsCapped ==
    ASSUME NEW a \in Seq(Seq(STRING)), \A i \in 1..Len(a) : IsInjective(a[i]) /\ a[i] # <<>>
    PROVE  /\ Len(Expand(a)) \in Nat \ {0}
           /\ ComboCount(a) = Capped(Len(Expand(a)))
<1>1. Len(a) \in Nat /\ \A i \in 1..Len(a) : a[i] \in Seq(STRING)
  BY LenProperties, ElementOfSeq
<1>2. \A i \in 1..Len(a) : Len(a[i]) \in Nat \ {0}
  BY <1>1, LenProperties, EmptySeq
<1>3. PICK f : /\ Expand(a) = f[Len(a)]
               /\ Len(f[0]) = 1
               /\ \A m \in 1..Len(a) : Len(f[m]) = Len(f[m - 1]) * Len(a[m])
  BY ExpandRecursion
<1> DEFINE c == CHOOSE g : IsCount(a, Len(a), g)
<1>4. IsCount(a, Len(a), c)
  BY <1>1, CountExists
<1>5. ComboCount(a) = c[Len(a)]
  BY DEF ComboCount, IsCount, CountStep
<1> HIDE DEF c
<1>6. c[0] = 1 /\ \A m \in 1..Len(a) : c[m] = CountStep(c[m - 1], Len(a[m]))
  <2>1. \A i \in 0..Len(a) : c[i] = IF i = 0 THEN 1 ELSE CountStep(c[i - 1], Len(a[i]))
    BY <1>4 DEF IsCount
  <2>2. 0 \in 0..Len(a) /\ \A m \in 1..Len(a) : m \in 0..Len(a) /\ m # 0
    BY <1>1
  <2>3. QED
    BY <2>1, <2>2
<1> DEFINE Q(m) == m <= Len(a) => Len(f[m]) \in Nat \ {0} /\ c[m] = Capped(Len(f[m]))
           P == {m \in Nat : Q(m)}
<1>7. Q(0)
  <2>1. Capped(1) = 1
    BY PlanAssumption DEF Capped
  <2>2. QED
    BY <1>3, <1>6, <2>1
<1>8. ASSUME NEW m \in Nat, Q(m)
      PROVE  Q(m + 1)
  <2>1. SUFFICES ASSUME m + 1 <= Len(a)
                 PROVE  Len(f[m + 1]) \in Nat \ {0} /\ c[m + 1] = Capped(Len(f[m + 1]))
    OBVIOUS
  <2>2. m + 1 \in 1..Len(a) /\ (m + 1) - 1 = m /\ m <= Len(a)
    BY <1>1, <2>1
  <2>3. Len(f[m]) \in Nat \ {0} /\ c[m] = Capped(Len(f[m])) /\ Len(a[m + 1]) \in Nat \ {0}
    BY <1>2, <1>8, <2>2
  <2>4. /\ Len(f[m + 1]) = Len(f[m]) * Len(a[m + 1])
        /\ c[m + 1] = CountStep(c[m], Len(a[m + 1]))
    BY <1>3, <1>6, <2>2
  <2>5. QED
    BY <2>3, <2>4, CountFactor
<1>9. \A m \in Nat : Q(m)
  <2> HIDE DEF Q
  <2>1. 0 \in P /\ \A m \in Nat : m \in P => m + 1 \in P
    BY <1>7, <1>8
  <2> HIDE DEF P
  <2>2. Nat \subseteq P
    BY <2>1, Induction
  <2>3. QED
    BY <2>2 DEF P
<1>10. QED
  BY <1>1, <1>3, <1>5, <1>9
-----------------------------------------------------------------------------
(* What a URL gets.                                                        *)

LEMMA ShapeOf ==
    ASSUME NEW u, shape[u] \in Shapes
    PROVE  /\ shape[u] \in Seq(Seq(STRING)) /\ DOMAIN shape[u] = 1..Len(shape[u])
           /\ \A i \in 1..Len(shape[u]) : IsInjective(shape[u][i])
<1>1. shape[u] \in Seq(Seq(STRING)) /\ \A i \in DOMAIN shape[u] : IsInjective(shape[u][i])
  BY PlanAssumption
<1>2. DOMAIN shape[u] = 1..Len(shape[u])
  BY <1>1, LenProperties
<1>3. QED
  BY <1>1, <1>2

\* The combinations of a URL are those picked from all its axes.
LEMMA CombosArePicked ==
    ASSUME NEW u, shape[u] \in Shapes
    PROVE  \A c : c \in Combos(u) <=> Picked(shape[u], Len(shape[u]), c)
<1> DEFINE a == shape[u]
           n == Len(a)
           All == UNION {ToSet(a[i]) : i \in DOMAIN a}
<1>1. /\ a \in Seq(Seq(STRING)) /\ DOMAIN a = 1..n /\ n \in Nat
      /\ \A i \in 1..n : a[i] \in Seq(STRING)
  BY ShapeOf, LenProperties, ElementOfSeq
<1>2. \A i \in 1..n : ToSet(a[i]) \subseteq STRING /\ ToSet(a[i]) \subseteq All
  <2>1. ASSUME NEW i \in 1..n
        PROVE  ToSet(a[i]) \subseteq STRING /\ ToSet(a[i]) \subseteq All
    <3>1. a[i] \in [1..Len(a[i]) -> STRING] /\ DOMAIN a[i] = 1..Len(a[i])
      BY <1>1, LenProperties
    <3>2. QED
      BY <1>1, <3>1 DEF ToSet
  <2>2. QED
    BY <2>1
<1>3. Combos(u) = {c \in [1..n -> All] : \A i \in DOMAIN c : c[i] \in ToSet(a[i])}
  BY <1>1 DEF Combos
<1> HIDE DEF a, All, n
<1>4. ASSUME NEW c \in Combos(u)
      PROVE  Picked(a, n, c)
  <2>1. c \in [1..n -> All] /\ \A i \in 1..n : c[i] \in ToSet(a[i])
    BY <1>3
  <2>2. c \in [1..n -> STRING]
    BY <1>2, <2>1
  <2>3. c \in Seq(STRING) /\ Len(c) = n
    BY <1>1, <2>2, AsSequence, LenProperties
  <2>4. QED
    BY <2>1, <2>3 DEF Picked
<1>5. ASSUME NEW c, Picked(a, n, c)
      PROVE  c \in Combos(u)
  <2>1. c \in [1..n -> STRING] /\ DOMAIN c = 1..n /\ \A i \in 1..n : c[i] \in ToSet(a[i])
    BY <1>5, LenProperties DEF Picked
  <2>2. c \in [1..n -> All]
    BY <1>2, <2>1
  <2>3. QED
    BY <1>3, <2>1, <2>2
<1>6. QED
  BY <1>4, <1>5 DEF a, n

\* A sequence without repetitions has as many elements as places.
LEMMA ElementsCounted ==
    ASSUME NEW S, NEW s \in Seq(S), IsInjective(s)
    PROVE  IsFiniteSet(ToSet(s)) /\ Cardinality(ToSet(s)) = Len(s) /\ Len(s) \in Nat
<1>1. Len(s) \in Nat /\ DOMAIN s = 1..Len(s) /\ s \in [1..Len(s) -> S]
  BY LenProperties
<1>2. s \in Bijection(1..Len(s), ToSet(s))
  BY <1>1 DEF Bijection, Injection, Surjection, IsInjective, ToSet
<1>3. ExistsBijection(1..Len(s), ToSet(s))
  BY <1>2 DEF ExistsBijection
<1>4. QED
  BY <1>1, <1>3, FS_NatBijection, FS_CountingElements

JobSet(u) == {<<u, c>> : c \in Combos(u)}

\* The jobs of a URL are its combinations, each once, and comboCount counts
\* them.
THEOREM JobsOfURL ==
    ASSUME NEW u, shape[u] \in Shapes
    PROVE  /\ JobsOf(u) \in Seq({u} \X Seq(STRING)) /\ IsInjective(JobsOf(u))
           /\ ToSet(JobsOf(u)) = JobSet(u)
           /\ IsFiniteSet(JobSet(u)) /\ Cardinality(JobSet(u)) \in Nat
           /\ IsFiniteSet(Combos(u)) /\ Cardinality(Combos(u)) = Cardinality(JobSet(u))
           /\ HasJobs(u) => /\ Cardinality(JobSet(u)) > 0
                            /\ ComboCount(shape[u]) = Capped(Cardinality(JobSet(u)))
<1> DEFINE a == shape[u]
           s == Expand(a)
           t == JobsOf(u)
<1>1. /\ a \in Seq(Seq(STRING)) /\ DOMAIN a = 1..Len(a) /\ Len(a) \in Nat
      /\ \A i \in 1..Len(a) : IsInjective(a[i])
  BY ShapeOf, LenProperties
<1>2. Level(a, Len(a), s)
  <2>1. Len(a) \in 0..Len(a)
    BY <1>1
  <2>2. QED
    BY <1>1, <2>1, ExpandRecursion
<1>3. \A c : c \in Combos(u) <=> Picked(a, Len(a), c)
  BY CombosArePicked
<1>4. t = [k \in 1..Len(s) |-> <<u, s[k]>>]
  BY DEF JobsOf
<1>5. HasJobs(u) => Len(s) \in Nat \ {0} /\ ComboCount(a) = Capped(Len(s))
  <2>1. ASSUME HasJobs(u)
        PROVE  \A i \in 1..Len(a) : IsInjective(a[i]) /\ a[i] # <<>>
    BY <1>1, <2>1 DEF HasJobs
  <2>2. QED
    BY <1>1, <2>1, CountIsCapped
<1> HIDE DEF a, s, t
<1>6. /\ s \in Seq(Seq(STRING)) /\ Len(s) \in Nat /\ DOMAIN s = 1..Len(s)
      /\ \A k \in 1..Len(s) : s[k] \in Seq(STRING) /\ s[k] \in Combos(u)
      /\ \A k, l \in 1..Len(s) : s[k] = s[l] => k = l
      /\ \A c \in Combos(u) : \E k \in 1..Len(s) : s[k] = c
  BY <1>2, <1>3, LenProperties, ElementOfSeq DEF Level
<1> DEFINE n == Len(s)
<1> HIDE DEF n
<1>7. /\ n \in Nat /\ DOMAIN s = 1..n
      /\ \A k \in 1..n : s[k] \in Seq(STRING) /\ s[k] \in Combos(u)
      /\ \A k, l \in 1..n : s[k] = s[l] => k = l
      /\ \A c \in Combos(u) : \E k \in 1..n : s[k] = c
  BY <1>6 DEF n
<1>8. IsInjective(s) /\ ToSet(s) = Combos(u)
  <2>1. IsInjective(s)
    BY <1>7 DEF IsInjective
  <2>2. ToSet(s) \subseteq Combos(u) /\ Combos(u) \subseteq ToSet(s)
    BY <1>7 DEF ToSet
  <2>3. QED
    BY <2>1, <2>2
<1>9. t \in Seq({u} \X Seq(STRING)) /\ DOMAIN t = 1..Len(s) /\ Len(t) = Len(s)
  <2>1. t \in [1..n -> {u} \X Seq(STRING)] /\ n \in Nat
    BY <1>4, <1>7 DEF n
  <2>2. t \in Seq({u} \X Seq(STRING)) /\ DOMAIN t = 1..n /\ Len(t) = n
    BY <2>1, AsSequence, LenProperties
  <2>3. QED
    BY <2>2 DEF n
<1>10. IsInjective(t)
  <2>1. ASSUME NEW k \in 1..Len(s), NEW l \in 1..Len(s), t[k] = t[l]
        PROVE  k = l
    <3>1. s[k] = s[l]
      BY <1>4, <2>1
    <3>2. QED
      BY <1>6, <3>1
  <2>2. QED
    BY <1>9, <2>1 DEF IsInjective
<1>11. ToSet(t) = JobSet(u)
  <2>1. DOMAIN t = 1..n /\ \A k \in 1..n : t[k] = <<u, s[k]>>
    BY <1>4, <1>9 DEF n
  <2>2. ASSUME NEW k \in 1..n PROVE t[k] \in JobSet(u)
    BY <1>7, <2>1 DEF JobSet
  <2>3. ASSUME NEW c \in Combos(u) PROVE <<u, c>> \in ToSet(t)
    <3>1. PICK k \in 1..n : s[k] = c
      BY <1>7
    <3>2. t[k] = <<u, c>> /\ k \in DOMAIN t
      BY <2>1, <3>1
    <3>3. QED
      BY <3>2 DEF ToSet
  <2>4. ToSet(t) \subseteq JobSet(u)
    BY <2>1, <2>2 DEF ToSet
  <2>5. JobSet(u) \subseteq ToSet(t)
    BY <2>3 DEF JobSet
  <2>6. QED
    BY <2>4, <2>5
<1>12. /\ IsFiniteSet(JobSet(u)) /\ Cardinality(JobSet(u)) = Len(s)
       /\ IsFiniteSet(Combos(u)) /\ Cardinality(Combos(u)) = Len(s)
  BY <1>6, <1>8, <1>9, <1>10, <1>11, ElementsCounted
<1>13. QED
  BY <1>5, <1>6, <1>9, <1>10, <1>11, <1>12 DEF a, t
-----------------------------------------------------------------------------
(* The invariant.                                                          *)

URLs == 1..Len(urls)

Inputs ==
    /\ Len(urls) \in Nat /\ urls = [i \in 1..Len(urls) |-> i]
    /\ priority \in SUBSET URLs /\ shape \in [URLs -> Shapes]
    /\ sampling \in Samplings /\ guard \in Guards
    /\ pc \in {"prioritise", "sample", "examine", "submit", "refused", "nothing", "submitted"}

PlanType ==
    [urls : Seq(URLs), combos : Seq(1..MaxInt), totalJobs : -(MaxInt + 1)..MaxInt,
     sampledOut : Nat, skippedNoApplicable : Nat, skippedComboCap : Nat]

\* Where the URLs went, in the list and out of it.
Books ==
    /\ list \in Seq(URLs) /\ plan \in PlanType /\ pos \in 0..Len(list)
    /\ pc = "prioritise" => list = urls
    /\ pc # "prioritise" => Ordered(list)
    /\ Len(list) + plan.sampledOut = Len(urls)
    /\ pc \in {"prioritise", "sample"} => pos = 0 /\ plan.sampledOut = 0
    /\ Len(plan.urls) + plan.skippedNoApplicable + plan.skippedComboCap =
         IF pc \in {"submit", "refused", "nothing", "submitted"} THEN Len(list) ELSE pos

\* The plan is part of the list examined so far, in its order, and what its
\* URLs give is counted as far as an int can.
Counts ==
    /\ Ordered(plan.urls)
    /\ pc \in {"prioritise", "sample", "examine"} =>
         \A i \in 1..Len(plan.urls) : \E j \in 1..pos : plan.urls[i] = list[j]
    /\ \A i \in 1..Len(plan.urls) :
         HasJobs(plan.urls[i]) /\ ~OverComboCap(ComboCount(shape[plan.urls[i]]))
    /\ IsFiniteSet(Planned)
    /\ RealTotal <= MaxInt => plan.totalJobs = RealTotal

PlannedUpTo(n) == UNION {JobSet(plan.urls[i]) : i \in 1..n}

\* What has been submitted is what the URLs up to pos give.
Submitted ==
    /\ jobs \in Seq(URLs \X Seq(STRING)) /\ IsInjective(jobs)
    /\ pc \in {"prioritise", "sample", "examine"} => jobs = <<>>
    /\ ToSet(jobs) = IF pc \in {"submit", "submitted"} THEN PlannedUpTo(pos) ELSE {}
    /\ pc = "submit" => pos < Len(plan.urls)
    /\ pc = "submitted" => pos = Len(plan.urls)
    /\ pc \in {"submit", "submitted"} => ~OverMaxJobs

PlanInv == Inputs /\ Books /\ Counts /\ Submitted

LEMMA Limits ==
    /\ MaxInt \in Nat \ {0}
    /\ sampling \in Samplings =>
         sampling \in SamplingType
    /\ guard \in Guards => guard.maxJobs \in 0..MaxInt /\ guard.maxCombos \in 0..MaxInt
BY PlanAssumption

LEMMA InitInv == Init => PlanInv
<1> SUFFICES ASSUME Init PROVE PlanInv
  OBVIOUS
<1>1. PICK n \in 0..MaxURLs :
        /\ urls = [i \in 1..n |-> i] /\ priority \in SUBSET (1..n) /\ shape \in [1..n -> Shapes]
        /\ sampling \in Samplings /\ guard \in Guards /\ pc = "prioritise" /\ list = urls
        /\ pos = 0 /\ jobs = <<>>
        /\ plan = [urls |-> <<>>, combos |-> <<>>, totalJobs |-> 0, sampledOut |-> 0,
                   skippedNoApplicable |-> 0, skippedComboCap |-> 0]
  BY DEF Init
<1>2. n \in Nat
  BY PlanAssumption
<1>3. urls \in Seq(1..n) /\ Len(urls) = n
  <2>1. urls \in [1..n -> 1..n]
    BY <1>1
  <2>2. QED
    BY <1>2, <2>1, AsSequence, LenProperties
<1>4. Inputs
  BY <1>1, <1>2, <1>3 DEF Inputs, URLs
<1>5. /\ Len(plan.urls) = 0 /\ plan.urls = <<>> /\ plan.totalJobs = 0 /\ plan.sampledOut = 0
      /\ plan.skippedNoApplicable = 0 /\ plan.skippedComboCap = 0
  BY <1>1
<1>6. plan \in PlanType
  <2>1. <<>> \in Seq(URLs) /\ <<>> \in Seq(1..MaxInt) /\ 0 \in -(MaxInt + 1)..MaxInt
    BY Limits
  <2>2. QED
    BY <1>1, <2>1 DEF PlanType
<1>7. Books
  BY <1>1, <1>2, <1>3, <1>5, <1>6 DEF Books, URLs
<1>8. Planned = {}
  <2>1. ToSet(plan.urls) = {}
    BY <1>5, EmptyElements
  <2>2. QED
    BY <2>1 DEF Planned
<1>9. Counts
  <2>1. IsFiniteSet(Planned) /\ RealTotal = 0
    BY <1>8, FS_EmptySet DEF RealTotal
  <2>2. QED
    BY <1>5, <2>1 DEF Counts, Ordered
<1>10. Submitted
  <2>1. <<>> \in Seq(URLs \X Seq(STRING)) /\ ToSet(<<>>) = {} /\ IsInjective(<<>>)
    BY EmptyElements DEF IsInjective
  <2>2. QED
    BY <1>1, <2>1 DEF Submitted
<1>11. QED
  BY <1>4, <1>7, <1>9, <1>10 DEF PlanInv

\* What the URLs give depends on their shapes only.
LEMMA SameCombos ==
    ASSUME shape' = shape
    PROVE  /\ \A u : Combos(u)' = Combos(u)
           /\ \A u : JobSet(u)' = JobSet(u)
           /\ \A u : HasJobs(u)' = HasJobs(u)
           /\ plan'.urls = plan.urls => Planned' = Planned /\ RealTotal' = RealTotal
           /\ plan'.urls = plan.urls => \A n : PlannedUpTo(n)' = PlannedUpTo(n)
<1>1. ASSUME NEW u
      PROVE  Combos(u)' = Combos(u) /\ JobSet(u)' = JobSet(u) /\ HasJobs(u)' = HasJobs(u)
  BY DEF Combos, JobSet, HasJobs
<1>2. ASSUME plan'.urls = plan.urls
      PROVE  Planned' = Planned /\ RealTotal' = RealTotal
  BY <1>2 DEF Planned, RealTotal, Combos
<1>3. ASSUME plan'.urls = plan.urls, NEW n
      PROVE  PlannedUpTo(n)' = PlannedUpTo(n)
  BY <1>3 DEF PlannedUpTo, JobSet, Combos
<1>4. QED
  BY <1>1, <1>2, <1>3

\* Before the list is examined the plan is empty.
LEMMA NothingYet ==
    ASSUME PlanInv, pc \in {"prioritise", "sample"}
    PROVE  /\ pos = 0 /\ plan.sampledOut = 0 /\ jobs = <<>> /\ plan.urls = <<>>
           /\ Len(plan.urls) = 0 /\ plan.skippedNoApplicable = 0 /\ plan.skippedComboCap = 0
           /\ Len(list) = Len(urls) /\ list \in Seq(URLs) /\ Len(urls) \in Nat
           /\ plan \in PlanType
<1>1. /\ plan \in PlanType /\ pos = 0 /\ plan.sampledOut = 0 /\ list \in Seq(URLs)
      /\ Len(plan.urls) + plan.skippedNoApplicable + plan.skippedComboCap = pos
      /\ Len(list) + plan.sampledOut = Len(urls) /\ Len(urls) \in Nat
  BY DEF PlanInv, Books, Inputs
<1>2. /\ plan.urls \in Seq(URLs) /\ Len(plan.urls) \in Nat
      /\ plan.skippedNoApplicable \in Nat /\ plan.skippedComboCap \in Nat
      /\ Len(list) \in Nat
  BY <1>1, LenProperties DEF PlanType
<1>3. Len(plan.urls) = 0 /\ plan.skippedNoApplicable = 0 /\ plan.skippedComboCap = 0
  BY <1>1, <1>2
<1>4. plan.urls = <<>>
  BY <1>2, <1>3, EmptySeq
<1>5. QED
  BY <1>1, <1>2, <1>3, <1>4 DEF PlanInv, Submitted

\* As long as the plan is not touched and nothing is submitted.
LEMMA EarlyStep ==
    ASSUME PlanInv, pc \in {"prioritise", "sample"}, pc' \in {"sample", "examine"},
           UNCHANGED <<inputVars, pos, jobs>>, plan'.urls = plan.urls,
           plan'.totalJobs = plan.totalJobs
    PROVE  Inputs' /\ Counts' /\ Submitted'
<1>1. Inputs'
  BY DEF PlanInv, Inputs, inputVars, URLs
<1>2. shape' = shape /\ plan.urls = <<>> /\ Len(plan.urls) = 0 /\ jobs = <<>> /\ URLs' = URLs
  BY NothingYet DEF inputVars, URLs
<1>3. Planned' = Planned /\ RealTotal' = RealTotal
  BY <1>2, SameCombos
<1>4. Counts'
  <2>1. Ordered(plan.urls)'
    BY <1>2 DEF Ordered
  <2>2. QED
    BY <1>2, <1>3, <2>1 DEF PlanInv, Counts
<1>5. Submitted'
  BY <1>2 DEF PlanInv, Submitted
<1>6. QED
  BY <1>1, <1>4, <1>5

LEMMA PrioritiseInv == PlanInv /\ Prioritise => PlanInv'
<1> SUFFICES ASSUME PlanInv, Prioritise PROVE PlanInv'
  OBVIOUS
<1>1. /\ pc = "prioritise" /\ pc' = "sample" /\ list' = PriorityOrder(list) /\ list = urls
      /\ UNCHANGED <<inputVars, pos, plan, jobs>> /\ urls' = urls /\ priority' = priority
  BY DEF Prioritise, PlanInv, Books, inputVars
<1>2. Inputs' /\ Counts' /\ Submitted'
  BY <1>1, EarlyStep
<1>3. /\ list' \in Seq(URLs) /\ Len(list') = Len(urls) /\ Ordered(list')
  BY <1>1, PriorityOrdered DEF PlanInv, Inputs, URLs
<1>4. Ordered(list)' /\ URLs' = URLs
  BY <1>1, <1>3 DEF Ordered, Before, URLs
<1>5. Books'
  <2>1. /\ pos = 0 /\ plan.sampledOut = 0 /\ Len(plan.urls) = 0 /\ Len(urls) \in Nat
        /\ plan.skippedNoApplicable = 0 /\ plan.skippedComboCap = 0 /\ plan \in PlanType
    BY <1>1, NothingYet
  <2>2. PlanType' = PlanType
    BY <1>4 DEF PlanType
  <2>3. QED
    BY <1>1, <1>3, <1>4, <2>1, <2>2 DEF Books
<1>6. QED
  BY <1>2, <1>5 DEF PlanInv

LEMMA SampleInv == PlanInv /\ Sample => PlanInv'
<1> SUFFICES ASSUME PlanInv, Sample PROVE PlanInv'
  OBVIOUS
<1>1. PICK s \in Samples(list) :
        list' = s /\ plan' = [plan EXCEPT !.sampledOut = Len(list) - Len(s)]
  BY DEF Sample
<1>2. /\ pc = "sample" /\ pc' = "examine" /\ UNCHANGED <<inputVars, pos, jobs>>
      /\ urls' = urls /\ priority' = priority
  BY DEF Sample, inputVars
<1>3. /\ pos = 0 /\ plan.sampledOut = 0 /\ Len(plan.urls) = 0 /\ plan.urls = <<>>
      /\ plan.skippedNoApplicable = 0 /\ plan.skippedComboCap = 0 /\ plan \in PlanType
      /\ list \in Seq(URLs) /\ Len(list) = Len(urls) /\ Len(urls) \in Nat
  BY <1>2, NothingYet
<1>4. s \in Seq(URLs) /\ Sublist(s, list) /\ Len(s) <= Len(list) /\ Len(s) \in Nat
  <2>1. sampling \in SamplingType
    BY Limits DEF PlanInv, Inputs
  <2>2. QED
    BY <1>3, <2>1, SamplesAreSublists, LenProperties
<1>5. Ordered(s)
  BY <1>2, <1>4, SublistOrdered DEF PlanInv, Books
<1>6. Ordered(list)' /\ URLs' = URLs
  BY <1>1, <1>2, <1>5 DEF Ordered, Before, URLs
<1>7. Len(list) - Len(s) \in Nat
  BY <1>3, <1>4
<1>8. /\ plan' \in PlanType /\ plan'.sampledOut = Len(list) - Len(s)
      /\ plan'.urls = plan.urls /\ plan'.totalJobs = plan.totalJobs
      /\ plan'.skippedNoApplicable = 0 /\ plan'.skippedComboCap = 0
  BY <1>1, <1>3, <1>7 DEF PlanType
<1>9. Inputs' /\ Counts' /\ Submitted'
  BY <1>2, <1>8, EarlyStep
<1>10. Books'
  <2>1. PlanType' = PlanType
    BY <1>6 DEF PlanType
  <2>2. Len(list') + plan'.sampledOut = Len(urls')
    BY <1>1, <1>2, <1>3, <1>4, <1>8
  <2>3. list' \in Seq(URLs)' /\ plan' \in PlanType' /\ pos' \in 0..Len(list') /\ pos' = 0
    BY <1>1, <1>2, <1>3, <1>4, <1>6, <1>8, <2>1
  <2>4. Len(plan'.urls) + plan'.skippedNoApplicable + plan'.skippedComboCap = pos'
    BY <1>2, <1>3, <1>8
  <2>5. QED
    BY <1>2, <1>6, <2>2, <2>3, <2>4 DEF Books
<1>11. QED
  BY <1>9, <1>10 DEF PlanInv

\* The URL that is examined next.
LEMMA NextURL ==
    ASSUME PlanInv, Examine, NEW u, u = list[pos + 1]
    PROVE  /\ pos \in Nat /\ pos + 1 \in 1..Len(list) /\ Len(list) \in Nat
           /\ u \in URLs /\ u \in Nat /\ shape[u] \in Shapes /\ Ordered(list)
           /\ \A j \in 1..pos : /\ j \in 1..Len(list) /\ list[j] \in Nat /\ list[j] # u
                                /\ Before(list[j], u)
<1>1. /\ list \in Seq(URLs) /\ Len(list) \in Nat /\ pos \in 0..Len(list) /\ pos < Len(list)
      /\ Ordered(list) /\ shape \in [URLs -> Shapes]
  BY LenProperties DEF Examine, PlanInv, Books, Inputs
<1>2. pos \in Nat /\ pos + 1 \in 1..Len(list)
  BY <1>1
<1>3. u \in URLs
  BY <1>1, <1>2, ElementOfSeq
<1>4. URLs \in SUBSET Nat
  BY DEF PlanInv, Inputs, URLs
<1>5. ASSUME NEW j \in 1..pos
      PROVE  /\ j \in 1..Len(list) /\ list[j] \in Nat /\ list[j] # u /\ Before(list[j], u)
  <2>1. j \in 1..Len(list) /\ j < pos + 1 /\ j # pos + 1
    BY <1>1, <1>2
  <2>2. list[j] \in Nat
    BY <1>1, <1>4, <2>1, ElementOfSeq
  <2>3. list[j] # u
    BY <1>1, <1>2, <1>4, <2>1, OrderedDiffer
  <2>4. Before(list[j], u)
    BY <1>1, <1>2, <2>1 DEF Ordered
  <2>5. QED
    BY <2>1, <2>2, <2>3, <2>4
<1>6. QED
  BY <1>1, <1>2, <1>3, <1>4, <1>5

\* Adding a URL adds its jobs to the count, unless an int cannot hold them.
LEMMA AddURLCounts ==
    ASSUME PlanInv, Examine, NEW u, u = list[pos + 1], AddURL(u)
    PROVE  /\ plan' \in PlanType /\ plan'.urls = Append(plan.urls, u)
           /\ plan'.sampledOut = plan.sampledOut
           /\ plan'.skippedNoApplicable = plan.skippedNoApplicable
           /\ plan'.skippedComboCap = plan.skippedComboCap
           /\ IsFiniteSet(Planned') /\ (RealTotal' <= MaxInt => plan'.totalJobs = RealTotal')
<1> DEFINE count == ComboCount(shape[u])
           real == Cardinality(JobSet(u))
<1>1. /\ plan \in PlanType /\ plan.urls \in Seq(URLs) /\ plan.combos \in Seq(1..MaxInt)
      /\ plan.totalJobs \in -(MaxInt + 1)..MaxInt
  BY DEF PlanInv, Books, PlanType
<1>2. u \in URLs /\ shape[u] \in Shapes /\ HasJobs(u)
  BY NextURL DEF AddURL
<1>3. /\ IsFiniteSet(JobSet(u)) /\ real \in Nat /\ real > 0 /\ count = Capped(real)
  BY <1>2, JobsOfURL
<1>4. MaxInt \in Nat \ {0}
  BY Limits
<1>5. plan' = [plan EXCEPT !.urls = Append(@, u), !.combos = Append(@, count),
                           !.totalJobs = Wrap(@ + count)]
  BY DEF AddURL
<1> HIDE DEF count, real
<1>6. count \in 1..MaxInt
  BY <1>3, <1>4 DEF Capped
<1>7. Wrap(plan.totalJobs + count) \in -(MaxInt + 1)..MaxInt
  BY <1>1, <1>4, <1>6 DEF Wrap
<1>8. /\ Append(plan.urls, u) \in Seq(URLs) /\ Append(plan.combos, count) \in Seq(1..MaxInt)
      /\ ToSet(Append(plan.urls, u)) = ToSet(plan.urls) \cup {u}
  BY <1>1, <1>2, <1>6, AppendProperties, AppendElement
<1>9. /\ plan' \in PlanType /\ plan'.urls = Append(plan.urls, u)
      /\ plan'.totalJobs = Wrap(plan.totalJobs + count)
      /\ plan'.sampledOut = plan.sampledOut
      /\ plan'.skippedNoApplicable = plan.skippedNoApplicable
      /\ plan'.skippedComboCap = plan.skippedComboCap
  BY <1>1, <1>5, <1>7, <1>8 DEF PlanType
<1>10. shape' = shape
  BY DEF Examine, inputVars
<1>11. Planned' = Planned \cup JobSet(u)
  <2>1. Planned' = UNION {{<<v, c>> : c \in Combos(v)} : v \in ToSet(plan.urls) \cup {u}}
    BY <1>8, <1>9, <1>10 DEF Planned, Combos
  <2>2. QED
    BY <2>1 DEF Planned, JobSet
<1>12. Planned \cap JobSet(u) = {}
  <2>1. u \notin ToSet(plan.urls)
    <3>1. DOMAIN plan.urls = 1..Len(plan.urls)
      BY <1>1, LenProperties
    <3>2. \A i \in 1..Len(plan.urls) : \E j \in 1..pos : plan.urls[i] = list[j]
      BY DEF PlanInv, Counts, Examine
    <3>3. \A j \in 1..pos : list[j] # u
      BY NextURL
    <3>4. QED
      BY <3>1, <3>2, <3>3 DEF ToSet
  <2>2. QED
    BY <2>1 DEF Planned, JobSet
<1>13. IsFiniteSet(Planned') /\ RealTotal \in Nat /\ RealTotal' = RealTotal + real
  BY <1>3, <1>11, <1>12, DisjointUnion DEF PlanInv, Counts, RealTotal, real
<1>14. ASSUME RealTotal' <= MaxInt
       PROVE  plan'.totalJobs = RealTotal'
  <2>1. RealTotal <= MaxInt /\ real <= MaxInt
    BY <1>3, <1>4, <1>13, <1>14
  <2>2. plan.totalJobs = RealTotal /\ count = real
    BY <1>3, <1>4, <2>1 DEF PlanInv, Counts, Capped
  <2>3. QED
    BY <1>3, <1>4, <1>9, <1>13, <1>14, <2>2 DEF Wrap
<1>15. QED
  BY <1>9, <1>13, <1>14

\* What Counts says of the plan's URLs holds as long as they are the same.
LEMMA SameURLs ==
    ASSUME PlanInv, plan'.urls = plan.urls, plan'.totalJobs = plan.totalJobs,
           shape' = shape, guard' = guard, priority' = priority
    PROVE  /\ Ordered(plan.urls)'
           /\ \A i \in 1..Len(plan'.urls) :
                (HasJobs(plan.urls[i]) /\ ~OverComboCap(ComboCount(shape[plan.urls[i]])))'
           /\ IsFiniteSet(Planned') /\ (RealTotal' <= MaxInt => plan'.totalJobs = RealTotal')
<1>1. Planned' = Planned /\ RealTotal' = RealTotal
  BY SameCombos
<1>2. Ordered(plan.urls)'
  BY DEF PlanInv, Counts, Ordered, Before
<1>3. \A i \in 1..Len(plan.urls) :
        HasJobs(plan.urls[i]) /\ ~OverComboCap(ComboCount(shape[plan.urls[i]]))
  BY DEF PlanInv, Counts
<1>4. \A i \in 1..Len(plan'.urls) :
        (HasJobs(plan.urls[i]) /\ ~OverComboCap(ComboCount(shape[plan.urls[i]])))'
  <2> DEFINE vs == plan'.urls
  <2>1. \A i \in 1..Len(vs) : HasJobs(vs[i]) /\ ~OverComboCap(ComboCount(shape[vs[i]]))
    BY <1>3
  <2>2. ASSUME NEW i \in 1..Len(plan'.urls)
        PROVE  HasJobs(plan.urls[i])' /\ ~OverComboCap(ComboCount(shape[plan.urls[i]]))'
    <3>1. HasJobs(plan.urls[i])'
      BY <2>1 DEF HasJobs
    <3>2. ComboCount(shape[plan.urls[i]])' = ComboCount(shape[vs[i]])
      BY DEF ComboCount
    <3>3. QED
      BY <2>1, <3>1, <3>2 DEF OverComboCap
  <2>3. QED
    BY <2>2
<1>5. IsFiniteSet(Planned') /\ (RealTotal' <= MaxInt => plan'.totalJobs = RealTotal')
  BY <1>1 DEF PlanInv, Counts
<1>6. QED
  BY <1>2, <1>4, <1>5

LEMMA ExamineInv == PlanInv /\ Examine => PlanInv'
<1> SUFFICES ASSUME PlanInv, Examine PROVE PlanInv'
  OBVIOUS
<1> DEFINE u == list[pos + 1]
<1>1. /\ pc = "examine" /\ pc' = "examine" /\ pos' = pos + 1 /\ UNCHANGED <<inputVars, list, jobs>>
      /\ urls' = urls /\ priority' = priority /\ shape' = shape /\ guard' = guard
      /\ URLs' = URLs /\ Ordered(list)' = Ordered(list) /\ PlanType' = PlanType
  BY DEF Examine, inputVars, URLs, Ordered, Before, PlanType
<1>2. /\ pos \in Nat /\ pos + 1 \in 1..Len(list) /\ u \in URLs /\ Ordered(list)
      /\ \A j \in 1..pos : Before(list[j], u)
  BY NextURL
<1>3. /\ plan \in PlanType /\ plan.urls \in Seq(URLs) /\ Len(plan.urls) \in Nat
      /\ plan.skippedNoApplicable \in Nat /\ plan.skippedComboCap \in Nat
      /\ Len(plan.urls) + plan.skippedNoApplicable + plan.skippedComboCap = pos
      /\ list \in Seq(URLs) /\ Len(list) + plan.sampledOut = Len(urls)
  BY <1>1, LenProperties DEF PlanInv, Books, PlanType
<1>4. Inputs' /\ Submitted'
  BY <1>1 DEF PlanInv, Inputs, Submitted, inputVars
<1>5. ASSUME plan' \in PlanType, plan'.sampledOut = plan.sampledOut,
             Len(plan'.urls) + plan'.skippedNoApplicable + plan'.skippedComboCap = pos + 1
      PROVE  Books'
  BY <1>1, <1>2, <1>3, <1>5 DEF Books
<1>6. CASE SkipNoApplicable(u) \/ SkipComboCap(u)
  <2>1. \/ plan' = [plan EXCEPT !.skippedNoApplicable = @ + 1]
        \/ plan' = [plan EXCEPT !.skippedComboCap = @ + 1]
    BY <1>6 DEF SkipNoApplicable, SkipComboCap
  <2>2. plan.skippedNoApplicable + 1 \in Nat /\ plan.skippedComboCap + 1 \in Nat
    BY <1>3
  <2>3. /\ plan' \in PlanType /\ plan'.sampledOut = plan.sampledOut
        /\ plan'.urls = plan.urls /\ plan'.totalJobs = plan.totalJobs
        /\ \/ /\ plan'.skippedNoApplicable = plan.skippedNoApplicable + 1
              /\ plan'.skippedComboCap = plan.skippedComboCap
           \/ /\ plan'.skippedNoApplicable = plan.skippedNoApplicable
              /\ plan'.skippedComboCap = plan.skippedComboCap + 1
    BY <1>3, <2>1, <2>2 DEF PlanType
  <2>4. Books'
    <3>1. ASSUME NEW n \in Nat, NEW a \in Nat, NEW b \in Nat, n + a + b = pos,
                 NEW c, NEW d, (c = a + 1 /\ d = b) \/ (c = a /\ d = b + 1)
          PROVE  n + c + d = pos + 1
      BY <3>1
    <3>2. Len(plan'.urls) + plan'.skippedNoApplicable + plan'.skippedComboCap = pos + 1
      <4> DEFINE n == Len(plan.urls)
                 a == plan.skippedNoApplicable
                 b == plan.skippedComboCap
                 c == plan'.skippedNoApplicable
                 d == plan'.skippedComboCap
      <4>1. n \in Nat /\ a \in Nat /\ b \in Nat /\ n + a + b = pos
        BY <1>3
      <4>2. ((c = a + 1 /\ d = b) \/ (c = a /\ d = b + 1)) /\ Len(plan'.urls) = n
        BY <2>3
      <4> HIDE DEF n, a, b, c, d
      <4>3. n + c + d = pos + 1
        BY <3>1, <4>1, <4>2
      <4>4. QED
        BY <4>2, <4>3 DEF c, d
    <3>3. QED
      BY <1>5, <2>3, <3>2
  <2>5. Counts'
    <3>1. \A j \in 1..pos : j \in 1..pos'
      BY <1>1, <1>2
    <3>2. \A i \in 1..Len(plan'.urls) : \E j \in 1..pos' : plan'.urls[i] = list'[j]
      BY <1>1, <2>3, <3>1 DEF PlanInv, Counts
    <3>3. QED
      BY <1>1, <2>3, <3>2, SameURLs DEF Counts
  <2>6. QED
    BY <1>4, <2>4, <2>5 DEF PlanInv
<1>7. CASE AddURL(u)
  <2>1. /\ plan' \in PlanType /\ plan'.urls = Append(plan.urls, u)
        /\ plan'.sampledOut = plan.sampledOut
        /\ plan'.skippedNoApplicable = plan.skippedNoApplicable
        /\ plan'.skippedComboCap = plan.skippedComboCap
        /\ IsFiniteSet(Planned') /\ (RealTotal' <= MaxInt => plan'.totalJobs = RealTotal')
    BY <1>7, AddURLCounts
  <2>2. HasJobs(u) /\ ~OverComboCap(ComboCount(shape[u]))
    BY <1>7 DEF AddURL
  <2> DEFINE n == Len(plan.urls)
             us == plan.urls
             vs == plan'.urls
  <2>3. \A i \in 1..n : /\ \E j \in 1..pos : us[i] = list[j]
                        /\ HasJobs(us[i]) /\ ~OverComboCap(ComboCount(shape[us[i]]))
    BY <1>1 DEF PlanInv, Counts
  <2>4. /\ Len(vs) = n + 1 /\ vs[n + 1] = u /\ \A i \in 1..n : vs[i] = us[i]
    BY <1>2, <1>3, <2>1, AppendProperties
  <2>5. \A i \in 1..(n + 1) : i \in 1..n \/ i = n + 1
    BY <1>3
  <2>6. Books'
    <3> DEFINE a == plan.skippedNoApplicable
               b == plan.skippedComboCap
    <3>1. n \in Nat /\ a \in Nat /\ b \in Nat /\ pos \in Nat /\ n + a + b = pos
      BY <1>3
    <3>2. Len(plan'.urls) = n + 1 /\ plan'.skippedNoApplicable = a /\ plan'.skippedComboCap = b
      BY <2>1, <2>4
    <3> HIDE DEF n, us, vs, a, b
    <3>3. (n + 1) + a + b = pos + 1
      BY <3>1
    <3>4. Len(plan'.urls) + plan'.skippedNoApplicable + plan'.skippedComboCap = pos + 1
      BY <3>2, <3>3
    <3>5. QED
      BY <1>5, <2>1, <3>4
  <2> HIDE DEF u, us, vs, n
  <2>7. \A i, k \in 1..Len(vs) : i < k => Before(vs[i], vs[k])
    <3>1. \A i, k \in 1..n : i < k => Before(us[i], us[k])
      BY DEF PlanInv, Counts, Ordered, n, us
    <3>2. \A i \in 1..n : Before(us[i], u)
      BY <1>2, <2>3
    <3>3. \A i, k \in 1..(n + 1) : i < k => i \in 1..n
      BY <1>3 DEF n
    <3>4. QED
      BY <2>4, <2>5, <3>1, <3>2, <3>3
  <2>8. Ordered(plan.urls)'
    BY <1>1, <2>7 DEF Ordered, Before, vs
  <2>9. \A i \in 1..Len(plan'.urls) : \E j \in 1..pos' : plan'.urls[i] = list'[j]
    <3>1. pos + 1 \in 1..(pos + 1) /\ \A j \in 1..pos : j \in 1..(pos + 1)
      BY <1>2
    <3>2. \A i \in 1..Len(vs) : \E j \in 1..(pos + 1) : vs[i] = list[j]
      BY <2>3, <2>4, <2>5, <3>1 DEF u
    <3>3. QED
      BY <1>1, <3>2 DEF vs
  <2>10. \A i \in 1..Len(vs) : HasJobs(vs[i]) /\ ~OverComboCap(ComboCount(shape[vs[i]]))
    BY <2>2, <2>3, <2>4, <2>5
  <2>11. \A i \in 1..Len(plan'.urls) :
           (HasJobs(plan.urls[i]) /\ ~OverComboCap(ComboCount(shape[plan.urls[i]])))'
    BY <1>1, <2>10 DEF HasJobs, OverComboCap, ComboCount, vs
  <2>12. Counts'
    BY <2>1, <2>8, <2>9, <2>11 DEF Counts
  <2>13. QED
    BY <1>4, <2>6, <2>12 DEF PlanInv
<1>8. QED
  BY <1>6, <1>7 DEF Examine

LEMMA DecideInv == PlanInv /\ Decide => PlanInv'
<1> SUFFICES ASSUME PlanInv, Decide PROVE PlanInv'
  OBVIOUS
<1>1. /\ pc = "examine" /\ pos = Len(list) /\ pos' = 0 /\ list' = list
      /\ plan' = plan /\ jobs' = jobs /\ urls' = urls /\ priority' = priority
      /\ shape' = shape /\ sampling' = sampling /\ guard' = guard
      /\ URLs' = URLs /\ Ordered(list)' = Ordered(list) /\ PlanType' = PlanType
  BY DEF Decide, inputVars, URLs, Ordered, Before, PlanType
<1>2. /\ pc' \in {"refused", "nothing", "submit"}
      /\ pc' = "submit" => ~OverMaxJobs /\ plan.urls # <<>>
  BY DEF Decide
<1>3. /\ plan \in PlanType /\ plan.urls \in Seq(URLs) /\ Len(plan.urls) \in Nat
      /\ Len(plan.urls) + plan.skippedNoApplicable + plan.skippedComboCap = pos
      /\ list \in Seq(URLs) /\ Len(list) \in Nat /\ Ordered(list)
      /\ Len(list) + plan.sampledOut = Len(urls)
      /\ jobs = <<>>
  BY <1>1, LenProperties DEF PlanInv, Books, PlanType, Submitted
<1>4. Inputs'
  BY <1>1, <1>2 DEF PlanInv, Inputs
<1>5. Books'
  BY <1>1, <1>2, <1>3 DEF Books
<1>6. Counts'
  <2>1. plan'.urls = plan.urls /\ plan'.totalJobs = plan.totalJobs
    BY <1>1
  <2>2. QED
    BY <1>1, <1>2, <2>1, SameURLs DEF Counts
<1>7. Submitted'
  <2>1. jobs' = <<>> /\ ToSet(jobs') = {}
    BY <1>1, <1>3, EmptyElements
  <2>2. PlannedUpTo(pos)' = {}
    BY <1>1 DEF PlannedUpTo
  <2>3. pc' = "submit" => pos' < Len(plan'.urls)
    BY <1>1, <1>2, <1>3, EmptySeq
  <2>4. pc' = "submit" => ~OverMaxJobs'
    BY <1>1, <1>2 DEF OverMaxJobs
  <2>5. IsInjective(jobs') /\ jobs' \in Seq(URLs' \X Seq(STRING))
    BY <2>1 DEF IsInjective
  <2>6. QED
    BY <1>2, <2>1, <2>2, <2>3, <2>4, <2>5 DEF Submitted
<1>8. QED
  BY <1>4, <1>5, <1>6, <1>7 DEF PlanInv

\* What one more URL of the plan adds to the jobs.
LEMMA NextJobs ==
    ASSUME PlanInv, Submit, NEW u, u = plan.urls[pos + 1]
    PROVE  /\ pos \in Nat /\ pos + 1 \in 1..Len(plan.urls) /\ Len(plan.urls) \in Nat
           /\ Len(plan.urls) <= Len(list) /\ Len(list) \in Nat
           /\ u \in URLs /\ shape[u] \in Shapes
           /\ \A i \in 1..pos : plan.urls[i] # u
<1>1. /\ plan \in PlanType /\ plan.urls \in Seq(URLs) /\ Len(plan.urls) \in Nat
      /\ plan.skippedNoApplicable \in Nat /\ plan.skippedComboCap \in Nat
      /\ Len(plan.urls) + plan.skippedNoApplicable + plan.skippedComboCap = Len(list)
      /\ list \in Seq(URLs) /\ Len(list) \in Nat /\ pos \in 0..Len(list)
      /\ pos < Len(plan.urls) /\ Ordered(plan.urls) /\ shape \in [URLs -> Shapes]
  BY LenProperties DEF PlanInv, Books, PlanType, Submitted, Submit, Counts, Inputs
<1>2. /\ pos \in Nat /\ pos + 1 \in 1..Len(plan.urls) /\ Len(plan.urls) <= Len(list)
  BY <1>1
<1>3. u \in URLs
  BY <1>1, <1>2, ElementOfSeq
<1>4. URLs \in SUBSET Nat
  BY DEF PlanInv, Inputs, URLs
<1>5. ASSUME NEW i \in 1..pos
      PROVE  plan.urls[i] # u
  <2>1. i \in 1..Len(plan.urls) /\ i # pos + 1
    BY <1>1, <1>2
  <2>2. QED
    BY <1>1, <1>2, <1>4, <2>1, OrderedDiffer
<1>6. QED
  BY <1>1, <1>2, <1>3, <1>5

LEMMA ConcatInjective ==
    ASSUME NEW S, NEW s \in Seq(S), NEW t \in Seq(S), IsInjective(s), IsInjective(t),
           ToSet(s) \cap ToSet(t) = {}
    PROVE  IsInjective(s \o t)
<1> DEFINE m == Len(s)
           n == Len(t)
           c == s \o t
<1>1. /\ c \in Seq(S) /\ Len(c) = m + n /\ m \in Nat /\ n \in Nat
      /\ DOMAIN s = 1..m /\ DOMAIN t = 1..n
      /\ \A i \in 1..m : c[i] = s[i]
      /\ \A i \in 1..n : c[m + i] = t[i]
  BY LenProperties
<1>2. DOMAIN c = 1..(m + n)
  BY <1>1, LenProperties
<1>3. ASSUME NEW i \in 1..(m + n)
      PROVE  \/ i \in 1..m /\ c[i] = s[i]
             \/ i - m \in 1..n /\ c[i] = t[i - m]
  <2>1. CASE i <= m
    BY <1>1, <2>1
  <2>2. CASE ~(i <= m)
    <3>1. i - m \in 1..n /\ m + (i - m) = i
      BY <1>1, <2>2
    <3>2. QED
      BY <1>1, <3>1
  <2>3. QED
    BY <2>1, <2>2
<1> HIDE DEF m, n, c
<1>4. /\ \A i, k \in 1..m : s[i] = s[k] => i = k
      /\ \A i, k \in 1..n : t[i] = t[k] => i = k
      /\ \A i \in 1..m, k \in 1..n : s[i] # t[k]
  <2>1. \A i \in 1..m : s[i] \in ToSet(s)
    BY <1>1 DEF ToSet
  <2>2. \A k \in 1..n : t[k] \in ToSet(t)
    BY <1>1 DEF ToSet
  <2>3. QED
    BY <1>1, <2>1, <2>2 DEF IsInjective
<1>5. ASSUME NEW i \in 1..(m + n), NEW k \in 1..(m + n), c[i] = c[k]
      PROVE  i = k
  <2>1. CASE i \in 1..m /\ c[i] = s[i] /\ k \in 1..m /\ c[k] = s[k]
    BY <1>4, <1>5, <2>1
  <2>2. CASE i \in 1..m /\ c[i] = s[i] /\ k - m \in 1..n /\ c[k] = t[k - m]
    BY <1>4, <1>5, <2>2
  <2>3. CASE i - m \in 1..n /\ c[i] = t[i - m] /\ k \in 1..m /\ c[k] = s[k]
    BY <1>4, <1>5, <2>3
  <2>4. CASE i - m \in 1..n /\ c[i] = t[i - m] /\ k - m \in 1..n /\ c[k] = t[k - m]
    <3>1. i - m = k - m
      BY <1>4, <1>5, <2>4
    <3>2. QED
      BY <1>1, <3>1
  <2>5. QED
    BY <1>3, <2>1, <2>2, <2>3, <2>4
<1>6. IsInjective(c)
  BY <1>2, <1>5 DEF IsInjective
<1>7. QED
  BY <1>6 DEF c

LEMMA SubmitInv == PlanInv /\ Submit => PlanInv'
<1> SUFFICES ASSUME PlanInv, Submit PROVE PlanInv'
  OBVIOUS
<1> DEFINE u == plan.urls[pos + 1]
           js == JobsOf(u)
<1>1. /\ pc = "submit" /\ pos' = pos + 1 /\ list' = list /\ jobs' = jobs \o js
      /\ plan' = plan /\ urls' = urls /\ priority' = priority
      /\ shape' = shape /\ sampling' = sampling /\ guard' = guard
      /\ URLs' = URLs /\ Ordered(list)' = Ordered(list) /\ PlanType' = PlanType
  BY DEF Submit, inputVars, URLs, Ordered, Before, PlanType
<1>2. /\ pc' \in {"submit", "submitted"}
      /\ pc' = "submitted" <=> pos + 1 = Len(plan.urls)
  BY DEF Submit
<1>3. /\ pos \in Nat /\ pos + 1 \in 1..Len(plan.urls) /\ Len(plan.urls) \in Nat
      /\ Len(plan.urls) <= Len(list) /\ Len(list) \in Nat
      /\ u \in URLs /\ shape[u] \in Shapes
      /\ \A i \in 1..pos : plan.urls[i] # u
  BY NextJobs
<1>4. /\ js \in Seq({u} \X Seq(STRING)) /\ IsInjective(js) /\ ToSet(js) = JobSet(u)
  BY <1>3, JobsOfURL
<1> HIDE DEF u, js
<1>5. Inputs'
  BY <1>1, <1>2 DEF PlanInv, Inputs
<1>6. Books'
  <2>1. pos' \in 0..Len(list) /\ pc \notin {"prioritise", "sample"} /\ pc # "prioritise"
    BY <1>1, <1>3
  <2>2. QED
    BY <1>1, <1>2, <2>1 DEF PlanInv, Books
<1>7. Counts'
  <2>1. plan'.urls = plan.urls /\ plan'.totalJobs = plan.totalJobs
    BY <1>1
  <2>2. QED
    BY <1>1, <1>2, <2>1, SameURLs DEF Counts
<1>8. Submitted'
  <2>1. /\ jobs \in Seq(URLs \X Seq(STRING)) /\ IsInjective(jobs)
        /\ ToSet(jobs) = PlannedUpTo(pos) /\ ~OverMaxJobs
    BY <1>1 DEF PlanInv, Submitted
  <2>2. js \in Seq(URLs \X Seq(STRING))
    <3>1. js \in [1..Len(js) -> {u} \X Seq(STRING)] /\ Len(js) \in Nat
      BY <1>4, LenProperties
    <3>2. js \in [1..Len(js) -> URLs \X Seq(STRING)]
      BY <1>3, <3>1
    <3>3. QED
      BY <3>1, <3>2, AsSequence
  <2>3. PlannedUpTo(pos) \cap JobSet(u) = {}
    BY <1>3 DEF PlannedUpTo, JobSet
  <2>4. /\ jobs' \in Seq(URLs \X Seq(STRING)) /\ IsInjective(jobs')
        /\ ToSet(jobs') = PlannedUpTo(pos) \cup JobSet(u)
    BY <1>1, <1>4, <2>1, <2>2, <2>3, ConcatElements, ConcatInjective
  <2>5. PlannedUpTo(pos)' = PlannedUpTo(pos) \cup JobSet(u)
    <3>1. \A i : i \in 1..(pos + 1) <=> i \in 1..pos \/ i = pos + 1
      BY <1>3
    <3>2. PlannedUpTo(pos)' = UNION {JobSet(plan.urls[i]) : i \in 1..(pos + 1)}
      BY <1>1 DEF PlannedUpTo, JobSet, Combos
    <3>3. QED
      BY <3>1, <3>2 DEF PlannedUpTo, u
  <2>6. ~OverMaxJobs'
    BY <1>1, <2>1 DEF OverMaxJobs
  <2>7. /\ pc' = "submit" => pos' < Len(plan'.urls)
        /\ pc' = "submitted" => pos' = Len(plan'.urls)
    BY <1>1, <1>2, <1>3
  <2>8. QED
    BY <1>1, <1>2, <2>4, <2>5, <2>6, <2>7 DEF Submitted
<1>9. QED
  BY <1>5, <1>6, <1>7, <1>8 DEF PlanInv

LEMMA StutterInv == PlanInv /\ UNCHANGED vars => PlanInv'
<1> SUFFICES ASSUME PlanInv, UNCHANGED vars PROVE PlanInv'
  OBVIOUS
<1>1. /\ pc' = pc /\ pos' = pos /\ list' = list /\ plan' = plan /\ jobs' = jobs
      /\ urls' = urls /\ priority' = priority
      /\ shape' = shape /\ sampling' = sampling /\ guard' = guard
  BY DEF vars, inputVars
<1>2. Inputs' /\ Books'
  BY <1>1 DEF PlanInv, Inputs, Books, URLs, Ordered, Before, PlanType
<1>3. Planned' = Planned /\ RealTotal' = RealTotal /\ PlannedUpTo(pos)' = PlannedUpTo(pos)
  BY <1>1 DEF Planned, RealTotal, PlannedUpTo, JobSet, Combos
<1>4. Counts'
  <2>1. plan'.urls = plan.urls /\ plan'.totalJobs = plan.totalJobs
    BY <1>1
  <2>2. pc' \in {"prioritise", "sample", "examine"} =>
          \A i \in 1..Len(plan'.urls) : \E j \in 1..pos' : plan'.urls[i] = list'[j]
    BY <1>1 DEF PlanInv, Counts
  <2>3. QED
    BY <1>1, <2>1, <2>2, SameURLs DEF Counts
<1>5. Submitted'
  BY <1>1, <1>3 DEF PlanInv, Submitted, URLs, OverMaxJobs
<1>6. QED
  BY <1>2, <1>4, <1>5 DEF PlanInv

LEMMA InvAlways == Spec => []PlanInv
<1>1. PlanInv /\ [Next]_vars => PlanInv'
  BY PrioritiseInv, SampleInv, ExamineInv, DecideInv, SubmitInv, StutterInv DEF Next, Ended
<1>2. QED
  BY <1>1, InitInv, PTL DEF Spec
-----------------------------------------------------------------------------
(* What the runs check, for every list, shape, sampling and limit.         *)

\* Every variable keeps its type: planRun and submitPlanJobs build a plan of
\* collected URLs with counters that fit their width.
THEOREM PlanTypeCorrect == Spec => []TypeOK
<1>1. PlanInv => TypeOK
  <2> SUFFICES ASSUME PlanInv PROVE TypeOK
    OBVIOUS
  <2>1. urls \in Seq(URLs) /\ urls \in Seq(Nat) /\ ToSet(urls) = URLs
    <3> DEFINE n == Len(urls)
    <3>1. n \in Nat /\ urls = [i \in 1..n |-> i]
      BY DEF PlanInv, Inputs
    <3> HIDE DEF n
    <3>2. urls \in [1..n -> 1..n] /\ urls \in [1..n -> Nat]
      BY <3>1
    <3>3. urls \in Seq(1..n) /\ urls \in Seq(Nat)
      BY <3>1, <3>2, AsSequence
    <3>4. DOMAIN urls = 1..n /\ \A i \in 1..n : urls[i] = i
      BY <3>1
    <3>5. ToSet(urls) = 1..n
      BY <3>4 DEF ToSet
    <3>6. QED
      BY <3>3, <3>5 DEF n, URLs
  <2>2. /\ priority \subseteq URLs /\ shape \in [URLs -> Shapes]
        /\ sampling \in Samplings /\ guard \in Guards /\ list \in Seq(URLs)
        /\ pc \in {"prioritise", "sample", "examine", "submit", "refused", "nothing",
                   "submitted"}
        /\ pos \in 0..Len(list) /\ plan \in PlanType
    BY DEF PlanInv, Inputs, Books
  <2>3. /\ plan.urls \in Seq(URLs) /\ plan.combos \in Seq(1..MaxInt)
        /\ plan.totalJobs \in -(MaxInt + 1)..MaxInt /\ plan.sampledOut \in Nat
        /\ plan.skippedNoApplicable \in Nat /\ plan.skippedComboCap \in Nat
        /\ Len(plan.urls) \in Nat /\ DOMAIN plan.urls = 1..Len(plan.urls)
    BY <2>2, LenProperties DEF PlanType
  <2>4. ASSUME NEW k \in DOMAIN jobs
        PROVE  jobs[k][1] \in ToSet(plan.urls) /\ jobs[k][2] \in Seq(STRING)
    <3>1. jobs \in Seq(URLs \X Seq(STRING)) /\ jobs[k] \in ToSet(jobs)
      BY DEF PlanInv, Submitted, ToSet
    <3>2. jobs[k] \in URLs \X Seq(STRING)
      BY <3>1, LenProperties, ElementOfSeq
    <3>3. pc \in {"submit", "submitted"} /\ jobs[k] \in PlannedUpTo(pos)
      BY <3>1 DEF PlanInv, Submitted
    <3>4. pos <= Len(plan.urls)
      BY <2>2, <2>3, <3>3 DEF PlanInv, Submitted
    <3>5. PICK i \in 1..pos : jobs[k] \in JobSet(plan.urls[i])
      BY <3>3 DEF PlannedUpTo
    <3>6. jobs[k][1] = plan.urls[i] /\ i \in DOMAIN plan.urls
      BY <2>2, <2>3, <3>4, <3>5 DEF JobSet
    <3>7. QED
      BY <3>2, <3>6 DEF ToSet
  <2>5. QED
    BY <2>1, <2>2, <2>3, <2>4 DEF TypeOK
<1>2. QED
  BY <1>1, InvAlways, PTL

\* No URL is lost between the collection and the counters of the plan,
\* whatever sampling, patterns and limits drop (planRun's counters).
THEOREM PlanAccountsForAll == Spec => []Accounted
<1>1. PlanInv => Accounted
  <2> SUFFICES ASSUME PlanInv, Over \/ pc = "submit"
               PROVE  Len(urls) = Len(plan.urls) + plan.sampledOut
                                    + plan.skippedNoApplicable + plan.skippedComboCap
    BY DEF Accounted
  <2>1. /\ plan \in PlanType /\ list \in Seq(URLs) /\ Len(list) + plan.sampledOut = Len(urls)
        /\ Len(plan.urls) + plan.skippedNoApplicable + plan.skippedComboCap = Len(list)
    BY DEF PlanInv, Books, Over
  <2>2. /\ plan.sampledOut \in Nat /\ plan.skippedNoApplicable \in Nat
        /\ plan.skippedComboCap \in Nat /\ Len(plan.urls) \in Nat /\ Len(list) \in Nat
    BY <2>1, LenProperties DEF PlanType
  <2>3. QED
    BY <2>1, <2>2
<1>2. QED
  BY <1>1, InvAlways, PTL

\* Under every kind of sampling the plan keeps applyPriority's order.
THEOREM PriorityComesFirst == Spec => []PriorityFirst
<1>1. PlanInv => PriorityFirst
  BY DEF PlanInv, Counts, Ordered, Before, PriorityFirst
<1>2. QED
  BY <1>1, InvAlways, PTL

\* For every length and percentage samplePercent's stride spreads its picks
\* as evenly as whole numbers allow.
THEOREM StrideIsEven == Spec => []EvenStride
<1>1. PlanInv => EvenStride
  <2> DEFINE keep == Keep(list)
             len == Len(list)
             picks == Stride(list, keep)
             at(i) == CHOOSE j \in DOMAIN list : list[j] = picks[i]
             gap(i) == IF i = keep THEN at(1) + Len(list) - at(i) ELSE at(i + 1) - at(i)
  <2> SUFFICES ASSUME PlanInv, pc = "sample", keep < Len(list)
               PROVE  \A i, k \in 1..keep : gap(i) - gap(k) <= 1
    BY DEF EvenStride
  <2>1. /\ list \in Seq(URLs) /\ len \in Nat /\ DOMAIN list = 1..len /\ Ordered(list)
        /\ sampling \in SamplingType
        /\ URLs \in SUBSET Nat
    BY Limits, LenProperties DEF PlanInv, Books, Inputs, URLs
  <2>2. keep \in 1..len
    <3>1. keep \in Nat \ {0}
      BY <2>1, KeepCounts
    <3>2. QED
      BY <2>1, <3>1
  <2> HIDE DEF keep
  <2>3. /\ \A i \in 1..keep : StrideAt(i, len, keep) \in 1..len
        /\ StrideAt(1, len, keep) = 1 /\ StrideAt(keep + 1, len, keep) = len + 1
    BY <2>1, <2>2, StridePositions
  <2>4. ASSUME NEW i \in 1..keep
        PROVE  at(i) = StrideAt(i, len, keep)
    <3>1. picks[i] = list[StrideAt(i, len, keep)]
      BY DEF Stride, StrideAt
    <3>2. ASSUME NEW j \in 1..len, list[j] = picks[i]
          PROVE  j = StrideAt(i, len, keep)
      BY <2>1, <2>3, <3>1, <3>2, OrderedDiffer
    <3>3. QED
      BY <2>1, <2>3, <3>1, <3>2
  <2> HIDE DEF at
  <2>5. ASSUME NEW i \in 1..keep
        PROVE  gap(i) = StrideAt(i + 1, len, keep) - StrideAt(i, len, keep)
    <3>1. CASE i = keep
      <4>1. gap(i) = at(1) + len - at(i)
        BY <3>1
      <4>2. at(1) = 1 /\ at(i) = StrideAt(i, len, keep) /\ at(i) \in Nat
        BY <2>2, <2>3, <2>4
      <4>3. QED
        BY <2>1, <2>3, <3>1, <4>1, <4>2
    <3>2. CASE i # keep
      <4>1. i + 1 \in 1..keep
        BY <2>2, <3>2
      <4>2. QED
        BY <2>4, <3>2, <4>1
    <3>3. QED
      BY <3>1, <3>2
  <2> HIDE DEF gap
  <2>6. \A i \in 1..keep : gap(i) \in {len \div keep, len \div keep + 1}
    <3>1. keep \in Nat \ {0} /\ \A i \in 1..keep : i \in Nat \ {0}
      BY <2>2
    <3>2. QED
      BY <2>1, <2>5, <3>1, StrideGap
  <2>7. len \div keep \in Nat
    BY <2>1, <2>2, Division
  <2>8. QED
    BY <2>6, <2>7
<1>2. QED
  BY <1>1, InvAlways, PTL

\* What submitPlanJobs hands the pool is what buildApplicable and comboCount
\* announced: every combination of every planned URL, each once.
THEOREM PlanIsSubmitted == Spec => []JobsMatchPlan
<1>1. PlanInv => JobsMatchPlan
  <2> SUFFICES ASSUME PlanInv, pc = "submitted"
               PROVE  /\ RealTotal <= MaxInt => Len(jobs) = plan.totalJobs
                      /\ IsInjective(jobs)
                      /\ ToSet(jobs) = Planned
    BY DEF JobsMatchPlan
  <2>1. /\ jobs \in Seq(URLs \X Seq(STRING)) /\ IsInjective(jobs)
        /\ ToSet(jobs) = PlannedUpTo(Len(plan.urls))
    BY DEF PlanInv, Submitted
  <2>2. DOMAIN plan.urls = 1..Len(plan.urls)
    BY LenProperties DEF PlanInv, Books, PlanType
  <2>3. ToSet(jobs) = Planned
    <3>1. ToSet(plan.urls) = {plan.urls[i] : i \in 1..Len(plan.urls)}
      BY <2>2 DEF ToSet
    <3>2. Planned = UNION {JobSet(u) : u \in ToSet(plan.urls)}
      BY DEF Planned, JobSet
    <3>3. QED
      BY <2>1, <3>1, <3>2 DEF PlannedUpTo
  <2>4. Cardinality(ToSet(jobs)) = Len(jobs)
    BY <2>1, ElementsCounted
  <2>5. RealTotal <= MaxInt => plan.totalJobs = RealTotal
    BY DEF PlanInv, Counts
  <2>6. QED
    BY <2>1, <2>3, <2>4, <2>5 DEF RealTotal
<1>2. QED
  BY <1>1, InvAlways, PTL

\* Nothing beyond max_combos_per_url or max_jobs is submitted without -force:
\* the products comboCount and planRun compare are the numbers of jobs.
THEOREM LimitsAreHeld == Spec => []LimitsHold
<1>1. PlanInv => LimitsHold
  <2> SUFFICES ASSUME PlanInv, pc \in {"submit", "submitted"}, ~guard.force
               PROVE  /\ guard.maxJobs > 0 /\ RealTotal <= MaxInt => RealTotal <= guard.maxJobs
                      /\ guard.maxCombos \in 1..(MaxInt - 1) =>
                           \A u \in ToSet(plan.urls) : Cardinality(Combos(u)) <= guard.maxCombos
    BY DEF LimitsHold
  <2>1. /\ MaxInt \in Nat \ {0} /\ guard.maxJobs \in 0..MaxInt /\ guard.maxCombos \in 0..MaxInt
    BY Limits DEF PlanInv, Inputs
  <2>2. ~OverMaxJobs /\ IsFiniteSet(Planned)
    BY DEF PlanInv, Submitted, Counts
  <2>3. ASSUME guard.maxJobs > 0, RealTotal <= MaxInt
        PROVE  RealTotal <= guard.maxJobs
    <3>1. plan.totalJobs = RealTotal /\ ~(plan.totalJobs > guard.maxJobs)
      BY <2>2, <2>3 DEF PlanInv, Counts, OverMaxJobs
    <3>2. RealTotal \in Nat
      BY <2>2, FS_CardinalityType DEF RealTotal
    <3>3. QED
      BY <2>1, <3>1, <3>2
  <2>4. ASSUME guard.maxCombos \in 1..(MaxInt - 1), NEW u \in ToSet(plan.urls)
        PROVE  Cardinality(Combos(u)) <= guard.maxCombos
    <3>1. /\ plan.urls \in Seq(URLs) /\ DOMAIN plan.urls = 1..Len(plan.urls)
          /\ shape \in [URLs -> Shapes]
      BY LenProperties DEF PlanInv, Books, PlanType, Inputs
    <3>2. PICK i \in 1..Len(plan.urls) : plan.urls[i] = u
      BY <3>1 DEF ToSet
    <3>3. HasJobs(u) /\ ~OverComboCap(ComboCount(shape[u]))
      BY <3>2 DEF PlanInv, Counts
    <3>4. shape[u] \in Shapes
      BY <3>1, <3>2, ElementOfSeq
    <3> DEFINE card == Cardinality(JobSet(u))
    <3>5. /\ card \in Nat /\ Cardinality(Combos(u)) = card
          /\ ComboCount(shape[u]) = Capped(card)
      BY <3>3, <3>4, JobsOfURL
    <3>6. ~(Capped(card) > guard.maxCombos)
      BY <2>4, <3>3, <3>5 DEF OverComboCap
    <3> HIDE DEF card
    <3>7. QED
      BY <2>1, <2>4, <3>5, <3>6 DEF Capped
  <2>5. QED
    BY <2>3, <2>4
<1>2. QED
  BY <1>1, InvAlways, PTL
=============================================================================
