-------------------------- MODULE SchedulingProofs --------------------------
(***************************************************************************)
(* The order of a run and the run itself, for every schema, every set of   *)
(* tools, any number of parallel workers and anything found on the host:   *)
(* what SortGraph returns and refuses, then the inductive invariant of     *)
(* Scheduling and the three properties that follow from it.                *)
(*                                                                         *)
(* Sections: facts about iteration and sorted sequences; Kahn's levels;    *)
(* the report and the level in work; the steps of a worker, grouped by     *)
(* what they do to its stack and to the report; the phases of a run.       *)
(***************************************************************************)
EXTENDS Scheduling, FiniteSetTheorems, WellFoundedInduction, TLAPS

\* Every set of naturals has a least element.
LEMMA NatMin ==
  ASSUME NEW T \in SUBSET Nat, T # {}
  PROVE  \E x \in T : \A y \in T : x <= y
<1> DEFINE R == OpToRel(<, Nat)
<1>1. IsWellFoundedOn(R, Nat)
  BY NatLessThanWellFounded
<1>2. R = {ss \in Nat \X Nat : ss[1] < ss[2]}
  BY DEF OpToRel
<1> HIDE DEF R
<1>3. PICK x \in T : \A y \in T : ~(<<y, x>> \in R)
  BY <1>1, WFMin
<1>4. ASSUME NEW y \in T PROVE ~(y < x)
  <2>1. <<y, x>> \in Nat \X Nat
    OBVIOUS
  <2> QED BY <1>2, <1>3, <2>1
<1> QED BY <1>3, <1>4

\* Induction up to a bound, over a set.
LEMMA UpTo ==
  ASSUME NEW n \in Nat, NEW S, 0 \in S, \A k \in 0..(n - 1) : k \in S => k + 1 \in S
  PROVE  0..n \subseteq S
<1> DEFINE T == (0..n) \ S
<1> SUFFICES ASSUME T # {} PROVE FALSE
  OBVIOUS
<1>1. T \in SUBSET Nat
  OBVIOUS
<1> HIDE DEF T
<1>2. PICK k \in T : \A j \in T : k <= j
  BY <1>1, NatMin
<1>3. k # 0 /\ k - 1 \in 0..(n - 1)
  BY <1>2 DEF T
<1>4. k - 1 \in S
  BY <1>2, <1>3 DEF T
<1> QED BY <1>2, <1>3, <1>4 DEF T

LEMMA IterateFacts ==
  ASSUME NEW D, NEW F \in [D -> D], NEW x \in D, NEW n \in Nat
  PROVE  /\ Iterate(F, x, n) \in [0..n -> D]
         /\ Iterate(F, x, n)[0] = x
         /\ \A k \in 1..n : Iterate(F, x, n)[k] = F[Iterate(F, x, n)[k - 1]]
<1> DEFINE Iter(m, g) == g[0] = x /\ \A k \in 1..m : g[k] = F[g[k - 1]]
           S == {m \in Nat : \E g \in [0..m -> D] : Iter(m, g)}
           it == Iterate(F, x, n)
<1>1. 0..n \subseteq S
  <2>1. 0 \in S
    <3>1. [k \in 0..0 |-> x] \in [0..0 -> D] /\ Iter(0, [k \in 0..0 |-> x])
      OBVIOUS
    <3> QED BY <3>1
  <2>2. ASSUME NEW m \in 0..(n - 1), m \in S PROVE m + 1 \in S
    <3>1. PICK g \in [0..m -> D] : Iter(m, g)
      BY <2>2
    <3> DEFINE h == [k \in 0..(m + 1) |-> IF k <= m THEN g[k] ELSE F[g[m]]]
    <3>2. h \in [0..(m + 1) -> D]
      OBVIOUS
    <3>3. Iter(m + 1, h)
      <4>1. h[0] = x
        BY <3>1
      <4>2. ASSUME NEW k \in 1..(m + 1) PROVE h[k] = F[h[k - 1]]
        <5>1. CASE k \in 1..m
          BY <5>1, <3>1
        <5>2. CASE k = m + 1
          BY <5>2
        <5> QED BY <5>1, <5>2
      <4> QED BY <4>1, <4>2
    <3> HIDE DEF h
    <3> QED BY <3>2, <3>3
  <2> HIDE DEF S
  <2> QED BY <2>1, <2>2, UpTo
<1>2. PICK g \in [0..n -> D] : Iter(n, g)
  BY <1>1
<1>3. g = [k \in 0..n |-> IF k = 0 THEN x ELSE F[g[k - 1]]]
  BY <1>2
<1>4. it = [k \in 0..n |-> IF k = 0 THEN x ELSE F[it[k - 1]]]
  BY <1>3, Zenon DEF Iterate
<1> HIDE DEF it
<1>5. it[0] = x /\ \A k \in 1..n : it[k] = F[it[k - 1]]
  BY <1>4
<1>6. 0..n \subseteq {k \in 0..n : it[k] \in D}
  <2> DEFINE T == {k \in 0..n : it[k] \in D}
  <2>1. 0 \in T
    BY <1>5
  <2>2. ASSUME NEW k \in 0..(n - 1), k \in T PROVE k + 1 \in T
    <3>1. it[k + 1] = F[it[(k + 1) - 1]]
      BY <1>5
    <3> QED BY <2>2, <3>1
  <2> HIDE DEF T
  <2> QED BY <2>1, <2>2, UpTo DEF T
<1> QED BY <1>4, <1>5, <1>6 DEF it

\* A set of naturals with a bound has a greatest element.
LEMMA MaxFacts ==
  ASSUME NEW n \in Nat, NEW S \in SUBSET (0..n), S # {}
  PROVE  Max(S) \in S /\ \A y \in S : y <= Max(S)
<1> DEFINE T == {m \in Nat : \A y \in S : y <= m}
<1>1. T \in SUBSET Nat /\ n \in T
  OBVIOUS
<1> HIDE DEF T
<1>2. PICK m \in T : \A j \in T : m <= j
  BY <1>1, NatMin
<1>3. m \in S
  <2>1. CASE m = 0
    <3>1. PICK y \in S : TRUE
      OBVIOUS
    <3> QED BY <2>1, <3>1, <1>2 DEF T
  <2>2. CASE m # 0
    <3>1. m - 1 \in Nat /\ m - 1 \notin T
      BY <2>2, <1>1, <1>2
    <3>2. PICK y \in S : ~(y <= m - 1)
      BY <3>1 DEF T
    <3> QED BY <3>2, <1>1, <1>2 DEF T
  <2> QED BY <2>1, <2>2
<1>4. \E x \in S : \A y \in S : x >= y
  BY <1>1, <1>2, <1>3 DEF T
<1>5. Max(S) \in S /\ \A y \in S : Max(S) >= y
  BY <1>4 DEF Max
<1> QED BY <1>5

\* A sequence with the elements of a finite set has them all.
LEMMA EnumFacts ==
  ASSUME NEW S, IsFiniteSet(S), NEW s \in SetToSeqs(S)
  PROVE  /\ s \in Seq(S) /\ DOMAIN s = 1..Cardinality(S) /\ Range(s) = S
<1> DEFINE n == Cardinality(S)
<1>1. n \in Nat
  BY FS_CardinalityType
<1>2. s \in [1..n -> S] /\ \A i, j \in 1..n : i # j => s[i] # s[j]
  BY DEF SetToSeqs
<1>3. s \in Injection(1..n, S)
  BY <1>2 DEF Injection, IsInjective
<1>4. Cardinality(1..n) = n
  BY <1>1, FS_Interval
<1>5. s \in Surjection(1..n, S)
  BY <1>3, <1>4, FS_Injection
<1> QED BY <1>1, <1>2, <1>5 DEF Surjection, Range

\* Every finite set of naturals can be sorted.
LEMMA SortedFacts ==
  ASSUME NEW S \in SUBSET Nat, IsFiniteSet(S)
  PROVE  /\ Sorted(S) \in Seq(S) /\ Range(Sorted(S)) = S
         /\ Ascending(Sorted(S))
<1> DEFINE Sortable(X) == \E s \in SetToSeqs(X) : Ascending(s)
           T == {n \in Nat : \E X \in SUBSET Nat : /\ IsFiniteSet(X)
                                                   /\ Cardinality(X) = n
                                                   /\ ~Sortable(X)}
<1>1. T = {}
  <2> SUFFICES ASSUME T # {} PROVE FALSE
    OBVIOUS
  <2>1. T \in SUBSET Nat
    OBVIOUS
  <2>2. PICK n \in T : \A m \in T : n <= m
    <3> HIDE DEF T
    <3> QED BY <2>1, NatMin
  <2>3. PICK X \in SUBSET Nat : IsFiniteSet(X) /\ Cardinality(X) = n /\ ~Sortable(X)
    BY <2>2
  <2>4. X # {}
    <3> SUFFICES ASSUME X = {} PROVE FALSE
      OBVIOUS
    <3>1. Cardinality(X) = 0
      BY FS_EmptySet
    <3>2. <<>> \in SetToSeqs(X) /\ Ascending(<<>>)
      BY <3>1 DEF SetToSeqs, Ascending
    <3> QED BY <3>2, <2>3
  <2>5. PICK x \in X : \A y \in X : x <= y
    BY <2>3, <2>4, NatMin
  <2> DEFINE Y == X \ {x}
  <2>6. /\ IsFiniteSet(Y) /\ Cardinality(Y) = n - 1
        /\ n \in Nat /\ Cardinality(X) = n
    BY <2>3, FS_RemoveElement
  <2>7. n - 1 \in Nat
    BY <2>6, FS_CardinalityType
  <2>8. n - 1 \notin T
    BY <2>2, <2>6, <2>7
  <2>9. PICK s \in SetToSeqs(Y) : Ascending(s)
    BY <2>6, <2>7, <2>8
  <2> DEFINE h == [i \in 1..n |-> IF i = 1 THEN x ELSE s[i - 1]]
  <2>10. s \in [1..(n - 1) -> Y] /\ \A i, j \in 1..(n - 1) : i # j => s[i] # s[j]
    BY <2>6, <2>9 DEF SetToSeqs
  <2>11. h \in [1..n -> X]
    BY <2>7, <2>10
  <2>12. ASSUME NEW i \in 1..n, NEW j \in 1..n, i < j PROVE h[i] < h[j]
    <3>1. h[j] = s[j - 1] /\ j - 1 \in 1..(n - 1) /\ h[j] \in Y
      BY <2>6, <2>10, <2>12
    <3>2. CASE i = 1
      <4>1. h[i] = x /\ x <= h[j] /\ h[j] # x /\ x \in Nat /\ h[j] \in Nat
        BY <3>1, <3>2, <2>3, <2>5
      <4> HIDE DEF h
      <4> QED BY <4>1
    <3>3. CASE i # 1
      <4>1. h[i] = s[i - 1] /\ i - 1 \in 1..(n - 1) /\ i - 1 < j - 1
        BY <3>3, <2>6, <2>12
      <4> QED BY <3>1, <4>1, <2>9, <2>10 DEF Ascending
    <3> QED BY <3>2, <3>3
  <2> HIDE DEF h
  <2>13. Ascending(h)
    BY <2>11, <2>12 DEF Ascending
  <2>14. \A i, j \in 1..n : i # j => h[i] # h[j]
    <3> TAKE i, j \in 1..n
    <3>1. h[i] \in Nat /\ h[j] \in Nat
      BY <2>3, <2>11
    <3> QED BY <3>1, <2>12, <2>6
  <2>15. h \in SetToSeqs(X)
    BY <2>6, <2>11, <2>14 DEF SetToSeqs
  <2> QED BY <2>3, <2>13, <2>15
<1>2. Cardinality(S) \in Nat
  BY FS_CardinalityType
<1>3. \E s \in SetToSeqs(S) : Ascending(s)
  BY <1>1, <1>2
<1>4. Sorted(S) \in SetToSeqs(S) /\ Ascending(Sorted(S))
  BY <1>3, Zenon DEF Sorted
<1> QED BY <1>4, EnumFacts

\* Only keeps of a sequence what is in a set, and all of it.
LEMMA OnlyFacts ==
  ASSUME NEW D, NEW s \in Seq(D), NEW T
  PROVE  Only(s, T) \in Seq(D) /\ Range(Only(s, T)) = Range(s) \cap T
<1> DEFINE K  == {k \in DOMAIN s : s[k] \in T}
           at == Sorted(K)
<1>1. K \in SUBSET Nat /\ \A k \in K : k <= Len(s)
  OBVIOUS
<1>2. IsFiniteSet(K)
  <2> HIDE DEF K
  <2>1. Len(s) \in Nat
    OBVIOUS
  <2> QED BY <1>1, <2>1, FS_BoundedSetOfNaturals
<1>3. at \in Seq(K) /\ Range(at) = K
  BY <1>1, <1>2, SortedFacts
<1>4. Only(s, T) = [j \in DOMAIN at |-> s[at[j]]]
  BY DEF Only
<1> HIDE DEF at
<1>5. \A j \in DOMAIN at : at[j] \in K
  BY <1>3
<1>6. Only(s, T) \in Seq(D)
  BY <1>3, <1>4, <1>5
<1>7. Range(Only(s, T)) = {s[k] : k \in K}
  BY <1>3, <1>4 DEF Range
<1> QED BY <1>6, <1>7 DEF Range

LEMMA RangeConcat ==
  ASSUME NEW D, NEW s \in Seq(D), NEW t \in Seq(D)
  PROVE  Range(s \o t) = Range(s) \cup Range(t)
<1>1. \A k \in DOMAIN s : (s \o t)[k] = s[k] /\ k \in DOMAIN (s \o t)
  OBVIOUS
<1>2. \A k \in DOMAIN t : (s \o t)[Len(s) + k] = t[k] /\ Len(s) + k \in DOMAIN (s \o t)
  OBVIOUS
<1>3. \A k \in DOMAIN (s \o t) :
        \/ k \in DOMAIN s /\ (s \o t)[k] = s[k]
        \/ k - Len(s) \in DOMAIN t /\ (s \o t)[k] = t[k - Len(s)]
  OBVIOUS
<1>4. Range(s) \subseteq Range(s \o t)
  BY <1>1 DEF Range
<1>5. Range(t) \subseteq Range(s \o t)
  BY <1>2 DEF Range
<1>6. Range(s \o t) \subseteq Range(s) \cup Range(t)
  BY <1>3 DEF Range
<1> QED BY <1>4, <1>5, <1>6

\* The concatenation of sequences has the elements of each.
LEMMA FlattenFacts ==
  ASSUME NEW D, NEW seqs \in Seq(Seq(D))
  PROVE  /\ FlattenSeq(seqs) \in Seq(D)
         /\ \A k \in DOMAIN seqs : Range(seqs[k]) \subseteq Range(FlattenSeq(seqs))
<1>1. CASE Len(seqs) = 0
  <2>1. FlattenSeq(seqs) = seqs /\ seqs = <<>>
    BY <1>1 DEF FlattenSeq
  <2> QED BY <2>1
<1>2. CASE Len(seqs) # 0
  <2> DEFINE n == Len(seqs)
             Flat(m, g) == \A i \in 1..m : g[i] = IF i = 1 THEN seqs[i] ELSE g[i - 1] \o seqs[i]
             S == {m \in Nat : \E g \in [1..m -> Seq(D)] : Flat(m, g)}
  <2>0. n \in Nat /\ n # 0 /\ \A i \in 1..n : seqs[i] \in Seq(D)
    BY <1>2
  <2> HIDE DEF n
  <2>1. 0..n \subseteq S
    <3>1. 0 \in S
      <4>1. [k \in 1..0 |-> <<>>] \in [1..0 -> Seq(D)] /\ Flat(0, [k \in 1..0 |-> <<>>])
        OBVIOUS
      <4> QED BY <4>1
    <3>2. ASSUME NEW m \in 0..(n - 1), m \in S PROVE m + 1 \in S
      <4>1. PICK g \in [1..m -> Seq(D)] : Flat(m, g)
        BY <3>2
      <4> DEFINE next == IF m = 0 THEN seqs[1] ELSE g[m] \o seqs[m + 1]
                 h == [k \in 1..(m + 1) |-> IF k <= m THEN g[k] ELSE next]
      <4>2. next \in Seq(D)
        BY <2>0
      <4>3. h \in [1..(m + 1) -> Seq(D)]
        BY <4>2
      <4>4. Flat(m + 1, h)
        <5>1. ASSUME NEW k \in 1..(m + 1)
              PROVE  h[k] = IF k = 1 THEN seqs[k] ELSE h[k - 1] \o seqs[k]
          <6>1. CASE k \in 1..m
            <7>1. h[k] = g[k] /\ (k # 1 => h[k - 1] = g[k - 1])
              BY <6>1
            <7> HIDE DEF h
            <7> QED BY <7>1, <6>1, <4>1
          <6>2. CASE k = m + 1
            BY <6>2
          <6> QED BY <6>1, <6>2
        <5> QED BY <5>1
      <4> HIDE DEF h, Flat
      <4>5. m + 1 \in Nat /\ \E q \in [1..(m + 1) -> Seq(D)] : Flat(m + 1, q)
        BY <4>3, <4>4
      <4> QED BY <4>5
    <3> HIDE DEF S
    <3> QED BY <3>1, <3>2, <2>0, UpTo
  <2>2. PICK g \in [1..n -> Seq(D)] : Flat(n, g)
    <3>1. n \in 0..n
      BY <2>0
    <3>2. n \in S
      <4> HIDE DEF S
      <4> QED BY <3>1, <2>1
    <3> QED BY <3>2
  <2>3. g = [i \in 1..n |-> IF i = 1 THEN seqs[i] ELSE g[i - 1] \o seqs[i]]
    BY <2>2
  <2> DEFINE f == CHOOSE f : f = [i \in 1..n |-> IF i = 1 THEN seqs[i] ELSE f[i - 1] \o seqs[i]]
  <2>4. f = [i \in 1..n |-> IF i = 1 THEN seqs[i] ELSE f[i - 1] \o seqs[i]]
    BY <2>3, Zenon
  <2>5. FlattenSeq(seqs) = f[n]
    BY <1>2, Zenon DEF FlattenSeq, n
  <2> HIDE DEF f
  <2> DEFINE T == {m \in 0..n : m = 0 \/ (/\ f[m] \in Seq(D)
                                          /\ \A k \in 1..m : Range(seqs[k]) \subseteq Range(f[m]))}
  <2>6. 0..n \subseteq T
    <3>1. 0 \in T
      BY <2>0
    <3>2. ASSUME NEW m \in 0..(n - 1), m \in T PROVE m + 1 \in T
      <4>1. CASE m = 0
        <5>1. f[1] = seqs[1]
          BY <2>0, <2>4
        <5> QED BY <4>1, <5>1, <2>0
      <4>2. CASE m # 0
        <5>1. f[m + 1] = f[m] \o seqs[m + 1]
          <6>1. m + 1 \in 1..n /\ m + 1 # 1 /\ (m + 1) - 1 = m
            BY <4>2, <2>0
          <6> QED BY <6>1, <2>4
        <5>2. f[m] \in Seq(D) /\ seqs[m + 1] \in Seq(D)
          BY <4>2, <3>2, <2>0
        <5>3. Range(f[m + 1]) = Range(f[m]) \cup Range(seqs[m + 1])
          BY <5>1, <5>2, RangeConcat
        <5>4. f[m + 1] \in Seq(D)
          BY <5>1, <5>2
        <5>5. \A k \in 1..(m + 1) : k \in 1..m \/ k = m + 1
          OBVIOUS
        <5>6. m + 1 \in 0..n
          BY <2>0
        <5> QED BY <4>2, <5>3, <5>4, <5>5, <5>6, <3>2
      <4> QED BY <4>1, <4>2
    <3> HIDE DEF T
    <3> QED BY <3>1, <3>2, <2>0, UpTo
  <2>7. f[n] \in Seq(D) /\ \A k \in 1..n : Range(seqs[k]) \subseteq Range(f[n])
    <3>1. n \in 0..n /\ n # 0
      BY <2>0
    <3>2. n \in T
      <4> HIDE DEF T
      <4> QED BY <3>1, <2>6
    <3> QED BY <3>1, <3>2
  <2>8. DOMAIN seqs = 1..n
    BY DEF n
  <2> QED BY <2>5, <2>7, <2>8
<1> QED BY <1>1, <1>2

-----------------------------------------------------------------------------
(* The sort.                                                               *)

\* What the levels of a relation on tools are: each tool in one at most, and
\* only after the levels that have what it depends on.
Ranks(order, nodes, lv) ==
  /\ lv \in Seq(Seq(nodes))
  /\ \A k \in DOMAIN lv : \A n \in Range(lv[k]) : \A m \in nodes :
       <<m, n>> \in order => \E j \in 1..(k - 1) : m \in Range(lv[j])
  /\ \A j, k \in DOMAIN lv : Range(lv[j]) \cap Range(lv[k]) # {} => j = k

\* Kahn's algorithm ranks the tools, all of them unless some are stuck, and
\* each that is stuck depends on another.
LEMMA KahnFacts ==
  ASSUME NEW nodes \in SUBSET Nat, IsFiniteSet(nodes), NEW order
  PROVE  /\ Ranks(order, nodes, KahnLevels(order, nodes))
         /\ \A n \in nodes \ StuckIn(order, nodes) :
              \E k \in DOMAIN KahnLevels(order, nodes) :
                n \in Range(KahnLevels(order, nodes)[k])
         /\ StuckIn(order, nodes) \in SUBSET nodes
         /\ LevelOf(order, StuckIn(order, nodes)) = {}
<1> DEFINE size   == Cardinality(nodes)
           F      == [rem \in SUBSET nodes |-> rem \ LevelOf(order, rem)]
           left   == Remaining(order, nodes)
           Lev(k) == LevelOf(order, left[k - 1])
           R      == {i \in 1..size : Lev(i) # {}}
           lv == KahnLevels(order, nodes)
<1>1. size \in Nat
  BY FS_CardinalityType
<1>2. F \in [SUBSET nodes -> SUBSET nodes] /\ nodes \in SUBSET nodes
  OBVIOUS
<1>3. left = Iterate(F, nodes, size)
  BY Zenon DEF Remaining
<1>4. /\ left \in [0..size -> SUBSET nodes] /\ left[0] = nodes
      /\ \A k \in 1..size : left[k] = F[left[k - 1]]
  <2> DEFINE D == SUBSET nodes
  <2>1. F \in [D -> D] /\ nodes \in D
    BY <1>2
  <2> HIDE DEF F, size, left, D
  <2>2. /\ left \in [0..size -> D] /\ left[0] = nodes
        /\ \A k \in 1..size : left[k] = F[left[k - 1]]
    <3>1. /\ Iterate(F, nodes, size) \in [0..size -> D]
          /\ Iterate(F, nodes, size)[0] = nodes
          /\ \A k \in 1..size : Iterate(F, nodes, size)[k] = F[Iterate(F, nodes, size)[k - 1]]
      BY <1>1, <2>1, IterateFacts
    <3> QED BY <3>1, <1>3, Zenon
  <2> QED BY <2>2 DEF D
<1>5. lv = [k \in R |-> Sorted(Lev(k))]
  BY Zenon DEF KahnLevels
<1> HIDE DEF size, left, lv
<1>6. \A k \in 1..size : k - 1 \in 0..size /\ left[k] = left[k - 1] \ Lev(k)
  <2> TAKE k \in 1..size
  <2>1. k - 1 \in 0..size /\ left[k - 1] \in SUBSET nodes
    BY <1>1, <1>4
  <2>2. F[left[k - 1]] = left[k - 1] \ Lev(k)
    BY <2>1
  <2> QED BY <2>1, <2>2, <1>4
<1>7. \A k \in 1..size : Lev(k) \subseteq left[k - 1] /\ Lev(k) \in SUBSET nodes
  BY <1>4, <1>6 DEF LevelOf
<1> HIDE DEF F
<1>8. ASSUME NEW k \in 0..size, NEW j \in 0..k PROVE left[k] \subseteq left[j]
  <2> DEFINE T == {i \in 0..size : \A h \in 0..i : left[i] \subseteq left[h]}
  <2>1. 0 \in T
    BY <1>1
  <2>2. ASSUME NEW i \in 0..(size - 1), i \in T PROVE i + 1 \in T
    <3>1. i + 1 \in 1..size /\ (i + 1) - 1 = i
      BY <1>1
    <3>2. left[i + 1] \subseteq left[i]
      BY <3>1, <1>6
    <3>3. \A h \in 0..(i + 1) : h \in 0..i \/ h = i + 1
      BY <1>1
    <3> QED BY <3>1, <3>2, <3>3, <2>2
  <2> HIDE DEF T
  <2>3. k \in T
    BY <2>1, <2>2, <1>1, UpTo
  <2> QED BY <2>3 DEF T
<1>9. ASSUME NEW k \in R, NEW j \in 1..k PROVE j \in R
  <2> DEFINE T == {i \in 0..size : i \in R => \A h \in 1..i : h \in R}
  <2>1. 0 \in T
    BY <1>1
  <2>2. ASSUME NEW i \in 0..(size - 1), i \in T PROVE i + 1 \in T
    <3>1. i + 1 \in 1..size /\ (i + 1) - 1 = i
      BY <1>1
    <3> SUFFICES ASSUME i + 1 \in R, NEW h \in 1..(i + 1) PROVE h \in R
      BY <3>1
    <3>2. CASE h = i + 1
      BY <3>2
    <3>3. CASE h # i + 1
      <4>1. h \in 1..i /\ i \in 1..size
        BY <3>3, <1>1
      <4>2. Lev(i) # {}
        <5> SUFFICES ASSUME Lev(i) = {} PROVE FALSE
          OBVIOUS
        <5>1. left[i] = left[i - 1]
          BY <4>1, <1>6
        <5>2. Lev(i + 1) = Lev(i)
          BY <5>1, <3>1
        <5> QED BY <5>2
      <4> QED BY <4>1, <4>2, <2>2
    <3> QED BY <3>2, <3>3
  <2>3. k \in 0..size
    BY <1>1
  <2> HIDE DEF T
  <2>4. k \in T
    BY <2>1, <2>2, <2>3, <1>1, UpTo
  <2> QED BY <2>4 DEF T
<1>10. PICK d \in 0..size : R = 1..d
  <2>1. CASE R = {}
    <3>1. R = 1..0 /\ 0 \in 0..size
      BY <2>1, <1>1
    <3> HIDE DEF R
    <3> QED BY <3>1
  <2>2. CASE R # {}
    <3>1. R \in SUBSET (0..size)
      BY <1>1
    <3> HIDE DEF R
    <3>2. Max(R) \in R /\ \A y \in R : y <= Max(R)
      BY <3>1, <2>2, <1>1, MaxFacts
    <3>3. \A y \in R : y \in 1..size
      BY DEF R
    <3>4. R \subseteq 1..Max(R)
      BY <3>2, <3>3
    <3>5. 1..Max(R) \subseteq R
      BY <3>2, <1>9
    <3>6. R = 1..Max(R) /\ Max(R) \in 0..size
      BY <3>1, <3>2, <3>4, <3>5
    <3> QED BY <3>6
  <2> QED BY <2>1, <2>2
<1>11. \A k \in 1..d : k \in 1..size /\ k - 1 \in 0..size
  BY <1>1, <1>10
<1>12. \A k \in 1..d : /\ lv[k] \in Seq(Lev(k)) /\ Range(lv[k]) = Lev(k)
                       /\ lv[k] \in Seq(nodes)
  <2> SUFFICES ASSUME NEW k \in 1..d
               PROVE  /\ lv[k] \in Seq(Lev(k)) /\ Range(lv[k]) = Lev(k)
                      /\ lv[k] \in Seq(nodes)
    OBVIOUS
  <2>1. lv[k] = Sorted(Lev(k))
    BY <1>5, <1>10
  <2>2. Lev(k) \in SUBSET nodes /\ Lev(k) \in SUBSET Nat
    BY <1>7, <1>11
  <2>3. IsFiniteSet(Lev(k))
    BY <2>2, FS_Subset
  <2> HIDE DEF Lev
  <2>4. Sorted(Lev(k)) \in Seq(Lev(k)) /\ Range(Sorted(Lev(k))) = Lev(k)
    BY <2>2, <2>3, SortedFacts
  <2> QED BY <2>1, <2>2, <2>4
<1>13. lv \in Seq(Seq(nodes)) /\ DOMAIN lv = 1..d
  <2>1. lv = [k \in 1..d |-> lv[k]]
    BY <1>5, <1>10
  <2>2. lv \in [1..d -> Seq(nodes)]
    BY <2>1, <1>12
  <2> HIDE DEF R
  <2> QED BY <2>2, <1>1, <1>10
<1>14. ASSUME NEW m \in nodes, NEW k \in 0..size, m \notin left[k]
       PROVE  \E j \in 1..k : j \in 1..d /\ m \in Range(lv[j])
  <2> DEFINE T == {i \in 0..k : m \notin left[i]}
  <2>1. T \in SUBSET Nat /\ k \in T
    BY <1>1, <1>14
  <2> HIDE DEF T
  <2>2. PICK j \in T : \A i \in T : j <= i
    BY <2>1, NatMin
  <2>3. j \in 0..k /\ m \notin left[j] /\ j # 0
    BY <2>2, <1>4 DEF T
  <2>4. j - 1 \in 0..k /\ j - 1 \notin T
    BY <2>2, <2>3
  <2>5. m \in left[j - 1] /\ j \in 1..size
    BY <2>3, <2>4, <1>1 DEF T
  <2>6. m \in Lev(j)
    BY <2>3, <2>5, <1>6
  <2>7. j \in 1..d
    BY <2>5, <2>6, <1>10
  <2>8. m \in Range(lv[j])
    BY <2>6, <2>7, <1>12, Zenon
  <2>9. j \in 1..k
    BY <2>3
  <2> QED BY <2>7, <2>8, <2>9, Zenon
<1>15. ASSUME NEW k \in DOMAIN lv, NEW n \in Range(lv[k]), NEW m \in nodes,
              <<m, n>> \in order
       PROVE  \E j \in 1..(k - 1) : m \in Range(lv[j])
  <2>1. k \in 1..d /\ n \in Lev(k)
    BY <1>12, <1>13
  <2>2. m \notin left[k - 1]
    BY <2>1, <1>15 DEF LevelOf, Dependencies
  <2> QED BY <2>1, <2>2, <1>11, <1>14
<1>16. ASSUME NEW j \in 1..d, NEW k \in 1..d, j < k PROVE Lev(j) \cap Lev(k) = {}
  <2>1. left[j] = left[j - 1] \ Lev(j) /\ Lev(k) \subseteq left[k - 1]
    BY <1>6, <1>7, <1>11
  <2>2. k - 1 \in 0..size /\ j \in 0..(k - 1)
    BY <1>11, <1>16
  <2>3. left[k - 1] \subseteq left[j]
    BY <2>2, <1>8
  <2> QED BY <2>1, <2>3
<1>17. ASSUME NEW j \in DOMAIN lv, NEW k \in DOMAIN lv,
              Range(lv[j]) \cap Range(lv[k]) # {}
       PROVE  j = k
  <2>1. j \in 1..d /\ k \in 1..d /\ Lev(j) \cap Lev(k) # {}
    <3>1. j \in 1..d /\ k \in 1..d
      BY <1>13
    <3>2. Range(lv[j]) = Lev(j) /\ Range(lv[k]) = Lev(k)
      BY <3>1, <1>12
    <3> QED BY <3>1, <3>2, <1>17
  <2> HIDE DEF Lev
  <2>2. j < k \/ k < j \/ j = k
    BY <2>1
  <2> QED BY <2>1, <2>2, <1>16
<1>18. Ranks(order, nodes, lv)
  BY <1>13, <1>15, <1>17 DEF Ranks
<1>19. ASSUME NEW n \in nodes \ StuckIn(order, nodes)
       PROVE  \E k \in DOMAIN lv : n \in Range(lv[k])
  <2>1. n \in nodes /\ n \notin left[size] /\ size \in 0..size
    BY <1>1 DEF StuckIn, left, size
  <2> QED BY <2>1, <1>13, <1>14
<1>20. LevelOf(order, left[size]) = {}
  <2> DEFINE T == {k \in 0..size : \/ Cardinality(left[k]) <= size - k
                                   \/ LevelOf(order, left[k]) = {}}
  <2>1. 0 \in T
    BY <1>1, <1>4 DEF size
  <2>2. ASSUME NEW k \in 0..(size - 1), k \in T PROVE k + 1 \in T
    <3>1. k + 1 \in 1..size /\ (k + 1) - 1 = k /\ k \in 0..size /\ k + 1 \in 0..size
      BY <1>1
    <3>2. left[k + 1] = left[k] \ Lev(k + 1) /\ Lev(k + 1) = LevelOf(order, left[k])
      BY <3>1, <1>6
    <3>3. CASE LevelOf(order, left[k]) = {}
      BY <3>1, <3>2, <3>3
    <3>4. CASE LevelOf(order, left[k]) # {}
      <4>1. PICK n \in LevelOf(order, left[k]) : TRUE
        BY <3>4
      <4>2. left[k] \in SUBSET nodes /\ n \in left[k] /\ left[k + 1] \subseteq left[k] \ {n}
        BY <3>1, <3>2, <4>1, <1>4 DEF LevelOf
      <4>3. IsFiniteSet(left[k]) /\ Cardinality(left[k]) \in Nat
        BY <4>2, FS_Subset, FS_CardinalityType
      <4>4. /\ IsFiniteSet(left[k] \ {n})
            /\ Cardinality(left[k] \ {n}) = Cardinality(left[k]) - 1
        BY <4>2, <4>3, FS_RemoveElement
      <4>5. IsFiniteSet(left[k + 1]) /\ Cardinality(left[k + 1]) <= Cardinality(left[k]) - 1
        BY <4>2, <4>4, FS_Subset
      <4>6. Cardinality(left[k + 1]) \in Nat
        BY <4>5, FS_CardinalityType
      <4>7. Cardinality(left[k]) <= size - k
        BY <2>2, <3>4
      <4> QED BY <4>3, <4>5, <4>6, <4>7, <3>1, <1>1
    <3> QED BY <3>3, <3>4
  <2>3. size \in 0..size
    BY <1>1
  <2> HIDE DEF T
  <2>4. size \in T
    BY <2>1, <2>2, <2>3, <1>1, UpTo
  <2>5. SUFFICES ASSUME Cardinality(left[size]) <= size - size
                 PROVE  LevelOf(order, left[size]) = {}
    BY <2>4 DEF T
  <2>6. left[size] \in SUBSET nodes
    BY <1>4, <2>3
  <2>7. IsFiniteSet(left[size]) /\ Cardinality(left[size]) \in Nat
    BY <2>6, FS_Subset, FS_CardinalityType
  <2>8. left[size] = {}
    BY <2>5, <2>7, <1>1, FS_EmptySet
  <2> QED BY <2>8 DEF LevelOf
<1>21. StuckIn(order, nodes) = left[size] /\ left[size] \in SUBSET nodes
  <2>1. size \in 0..size
    BY <1>1
  <2> QED BY <2>1, <1>4 DEF StuckIn, left, size
<1> QED BY <1>18, <1>19, <1>20, <1>21 DEF lv

\* SortGraph orders every graph it accepts: all its tools are in the levels,
\* each in one, after everything it depends on.
THEOREM SortOrders ==
  ASSUME NEW g, g.nodes \in SUBSET Nat, IsFiniteSet(g.nodes), SortGraph(g).ok
  PROVE  /\ Order(g) \subseteq g.nodes \X g.nodes
         /\ Ranks(Order(g), g.nodes, SortGraph(g).levels)
         /\ \A n \in g.nodes : \E k \in DOMAIN SortGraph(g).levels :
              n \in Range(SortGraph(g).levels[k])
<1> DEFINE missing == {p \in Order(g) : p[1] \notin g.nodes \/ p[2] \notin g.nodes}
           stuck   == StuckIn(Order(g), g.nodes)
<1>1. /\ missing = {} /\ stuck = {}
      /\ SortGraph(g).levels = KahnLevels(Order(g), g.nodes)
  <2>1. SortGraph(g) =
          IF missing # {} THEN [ok |-> FALSE, levels |-> <<>>, cycle |-> <<>>]
          ELSE IF stuck # {}
          THEN [ok |-> FALSE, levels |-> <<>>, cycle |-> ExtractCycle(Order(g), stuck)]
          ELSE [ok |-> TRUE, levels |-> KahnLevels(Order(g), g.nodes), cycle |-> <<>>]
    BY Zenon DEF SortGraph
  <2> HIDE DEF missing, stuck
  <2>2. missing = {}
    BY <2>1
  <2>3. stuck = {}
    BY <2>1, <2>2
  <2> QED BY <2>1, <2>2, <2>3
<1>2. Order(g) \subseteq g.nodes \X g.nodes
  <2>1. \A p \in Order(g) : p = <<p[1], p[2]>>
    BY DEF Order
  <2> QED BY <1>1, <2>1
<1> QED BY <1>1, <1>2, KahnFacts

\* And refuses one only when a tool it names is missing or some tools, each
\* of which depends on another of them, can never be first.
THEOREM SortRefusesCycles ==
  ASSUME NEW g, g.nodes \in SUBSET Nat, IsFiniteSet(g.nodes), ~SortGraph(g).ok,
         Order(g) \subseteq g.nodes \X g.nodes
  PROVE  \E S \in SUBSET g.nodes : /\ S # {}
                                   /\ \A n \in S : \E m \in S : <<m, n>> \in Order(g)
<1> DEFINE missing == {p \in Order(g) : p[1] \notin g.nodes \/ p[2] \notin g.nodes}
           stuck   == StuckIn(Order(g), g.nodes)
<1>1. missing = {}
  OBVIOUS
<1>2. SortGraph(g) =
        IF missing # {} THEN [ok |-> FALSE, levels |-> <<>>, cycle |-> <<>>]
        ELSE IF stuck # {}
        THEN [ok |-> FALSE, levels |-> <<>>, cycle |-> ExtractCycle(Order(g), stuck)]
        ELSE [ok |-> TRUE, levels |-> KahnLevels(Order(g), g.nodes), cycle |-> <<>>]
  BY Zenon DEF SortGraph
<1> HIDE DEF missing
<1>3. stuck # {}
  <2> HIDE DEF stuck
  <2> QED BY <1>1, <1>2
<1>4. stuck \in SUBSET g.nodes /\ LevelOf(Order(g), stuck) = {}
  BY KahnFacts
<1> HIDE DEF stuck
<1>5. \A n \in stuck : \E m \in stuck : <<m, n>> \in Order(g)
  BY <1>4 DEF LevelOf, Dependencies
<1> QED BY <1>3, <1>4, <1>5

-----------------------------------------------------------------------------
(* The levels of a run.                                                    *)

\* The tools of a run and all they require, those that were asked for among them.
LEMMA RootFacts ==
  ASSUME NEW tools, IsFiniteSet(DOMAIN tools)
  PROVE  /\ DOMAIN RootTools(tools) \subseteq DOMAIN tools
         /\ \A t \in DOMAIN RootTools(tools) : RootTools(tools)[t] = tools[t]
<1> DEFINE D     == SUBSET DOMAIN tools
           roots == {t \in DOMAIN tools : ~tools[t].depOnly}
           grow  == [S \in SUBSET DOMAIN tools |->
                       S \cup ((UNION {Requirements(tools, t) : t \in S}) \cap DOMAIN tools)]
           size  == Cardinality(DOMAIN tools)
<1>1. grow \in [D -> D] /\ roots \in D
  <2>1. \A S \in D : S \cup ((UNION {Requirements(tools, t) : t \in S}) \cap DOMAIN tools) \in D
    BY Zenon
  <2>2. roots \in D
    BY Zenon
  <2>3. grow = [S \in D |-> S \cup ((UNION {Requirements(tools, t) : t \in S}) \cap DOMAIN tools)]
    OBVIOUS
  <2> HIDE DEF grow, roots, D
  <2> QED BY <2>1, <2>2, <2>3, Zenon
<1>2. size \in Nat
  BY FS_CardinalityType
<1>3. RootTools(tools) = [t \in Iterate(grow, roots, size)[size] |-> tools[t]]
  BY Zenon DEF RootTools
<1>4. Iterate(grow, roots, size) \in [0..size -> D]
  <2> HIDE DEF grow, roots, size, D
  <2> QED BY <1>1, <1>2, IterateFacts
<1>5. Iterate(grow, roots, size)[size] \in D
  <2> HIDE DEF grow, roots, size, D
  <2> QED BY <1>2, <1>4
<1> HIDE DEF grow, roots, size
<1> QED BY <1>3, <1>5

\* The order of a graph of tools.
LEMMA ToolOrder ==
  ASSUME NEW tools, NEW needs
  PROVE  /\ ToolGraph(tools, needs).nodes = DOMAIN tools
         /\ \A t \in DOMAIN tools : \A d \in needs[t] : <<d, t>> \in Order(ToolGraph(tools, needs))
<1>1. ToolGraph(tools, needs).nodes = DOMAIN tools
  BY DEF ToolGraph
<1>2. ASSUME NEW t \in DOMAIN tools, NEW d \in needs[t]
      PROVE  <<d, t>> \in Order(ToolGraph(tools, needs))
  <2> DEFINE e == Edge(d, t, "tool", Unguarded, 0)
  <2>1. e \in ToolGraph(tools, needs).edges
    BY DEF ToolGraph
  <2>2. e.role = "scheduling" /\ e.state = "declared" /\ e.from = d /\ e.to = t
    BY DEF Edge
  <2> HIDE DEF e
  <2>3. e \in SchedulingEdges(ToolGraph(tools, needs))
    BY <2>1, <2>2 DEF SchedulingEdges
  <2> QED BY <2>2, <2>3 DEF Order
<1> QED BY <1>1, <1>2

\* What the levels of a schema are.
LevelsOf(s, lv) ==
  /\ lv \in Seq(Seq(DOMAIN s))
  /\ \A k \in DOMAIN lv : \A t \in Range(lv[k]) :
       \A d \in Range(EffectiveRequires(s[t])) : \E j \in 1..(k - 1) : d \in Range(lv[j])
  /\ \A t \in DOMAIN s :
       /\ Range(EffectiveRequires(s[t])) \subseteq DOMAIN s
       /\ \A c \in DOMAIN s[t].methods : Range(s[t].methods[c].requires) \subseteq DOMAIN s

LEMMA SchemaTypes ==
  ASSUME NEW s \in Schemas
  PROVE  /\ DOMAIN s \in SUBSET Nat /\ DOMAIN s \subseteq Tools /\ IsFiniteSet(DOMAIN s)
         /\ \A t \in DOMAIN s : s[t] \in Tool
         /\ \A t \in DOMAIN s : EffectiveRequires(s[t]) \in Seq(Tools)
<1>1. /\ DOMAIN s \subseteq Tools /\ Tools \subseteq Nat /\ IsFiniteSet(Tools)
      /\ \A t \in DOMAIN s : s[t] \in Tool
  BY SchemasAssumption, SchedulingAssumption
<1>2. IsFiniteSet(DOMAIN s)
  BY <1>1, FS_Subset
<1>3. ASSUME NEW t \in DOMAIN s PROVE EffectiveRequires(s[t]) \in Seq(Tools)
  <2>1. s[t].requires \in Seq(Tools)
    BY <1>1 DEF Tool
  <2> QED BY <2>1, OnlyFacts DEF EffectiveRequires
<1> QED BY <1>1, <1>2, <1>3

\* The levels of a schema that can be sorted: what a tool requires on this
\* host is in an earlier level, and what its candidates require is declared.
LEMMA LevelsFacts ==
  ASSUME NEW s \in Schemas, SortExecutionLevels(s).ok
  PROVE  LevelsOf(s, SortExecutionLevels(s).levels)
<1> DEFINE filtered == FilteredTools(s)
           roots    == RootTools(filtered)
           allNeeds == [t \in DOMAIN filtered |->
                          Requirements(filtered, t) \cup MethodRequirements(filtered, t)]
           needs    == [t \in DOMAIN roots |-> Requirements(roots, t)]
           all      == AllDependencyEdges(filtered)
           run      == EffectiveEdges(roots)
           lv       == SortExecutionLevels(s).levels
<1>1. /\ DOMAIN filtered = DOMAIN s
      /\ \A t \in DOMAIN s : /\ filtered[t].requires = EffectiveRequires(s[t])
                             /\ filtered[t].methods = s[t].methods
  <2> SUFFICES ASSUME NEW t \in DOMAIN s
               PROVE  /\ filtered[t].requires = EffectiveRequires(s[t])
                      /\ filtered[t].methods = s[t].methods
    BY DEF FilteredTools
  <2>1. filtered[t] = [s[t] EXCEPT !.requires = EffectiveRequires(s[t])]
    BY DEF FilteredTools
  <2>2. s[t] \in Tool
    BY SchemaTypes
  <2> QED BY <2>1, <2>2 DEF Tool
<1>2. all = ToolGraph(filtered, allNeeds) /\ run = ToolGraph(roots, needs)
  BY DEF AllDependencyEdges, EffectiveEdges
<1>3. SortGraph(all).ok /\ SortGraph(run).ok /\ lv = SortGraph(run).levels
  <2>1. SortExecutionLevels(s) = IF SortGraph(all).ok THEN SortGraph(run) ELSE SortGraph(all)
    BY DEF SortExecutionLevels
  <2> HIDE DEF all, run
  <2> QED BY <2>1
<1>4. DOMAIN s \in SUBSET Nat /\ IsFiniteSet(DOMAIN s)
  BY SchemaTypes
<1>5. DOMAIN roots \subseteq DOMAIN s /\ \A t \in DOMAIN roots : roots[t] = filtered[t]
  BY <1>1, <1>4, RootFacts
<1> HIDE DEF filtered, roots, allNeeds, needs
<1>6. all.nodes = DOMAIN s /\ run.nodes = DOMAIN roots
  BY <1>1, <1>2, ToolOrder
<1>7. IsFiniteSet(DOMAIN roots)
  BY <1>4, <1>5, FS_Subset
<1> HIDE DEF all, run, lv
<1>8. Order(all) \subseteq (DOMAIN s) \X (DOMAIN s)
  <2>1. all.nodes \in SUBSET Nat /\ IsFiniteSet(all.nodes)
    BY <1>4, <1>6, Zenon
  <2>2. Order(all) \subseteq all.nodes \X all.nodes
    BY <1>3, <2>1, SortOrders
  <2> QED BY <1>6, <2>2, Zenon
<1>9. /\ Ranks(Order(run), DOMAIN roots, lv)
      /\ Order(run) \subseteq (DOMAIN roots) \X (DOMAIN roots)
  <2>1. run.nodes \in SUBSET Nat /\ IsFiniteSet(run.nodes)
    <3>1. DOMAIN roots \in SUBSET Nat
      BY <1>4, <1>5
    <3> QED BY <3>1, <1>6, <1>7, Zenon
  <2>2. /\ Order(run) \subseteq run.nodes \X run.nodes
        /\ Ranks(Order(run), run.nodes, SortGraph(run).levels)
    BY <1>3, <2>1, SortOrders
  <2> QED BY <1>3, <1>6, <2>2, Zenon
<1>10. lv \in Seq(Seq(DOMAIN s))
  <2>1. lv \in Seq(Seq(DOMAIN roots))
    BY <1>9 DEF Ranks
  <2>2. \A k \in DOMAIN lv : lv[k] \in Seq(DOMAIN s)
    <3> TAKE k \in DOMAIN lv
    <3>1. lv[k] \in Seq(DOMAIN roots)
      BY <2>1
    <3> QED BY <3>1, <1>5
  <2> QED BY <2>1, <2>2
<1>11. ASSUME NEW t \in DOMAIN s
       PROVE  /\ Range(EffectiveRequires(s[t])) \subseteq DOMAIN s
              /\ \A c \in DOMAIN s[t].methods : Range(s[t].methods[c].requires) \subseteq DOMAIN s
  <2>1. \A d \in allNeeds[t] : <<d, t>> \in Order(all)
    BY <1>1, <1>2, ToolOrder
  <2>2. allNeeds[t] = Range(EffectiveRequires(s[t])) \cup
                        UNION {Range(s[t].methods[c].requires) : c \in DOMAIN s[t].methods}
    BY <1>1 DEF allNeeds, Requirements, MethodRequirements
  <2>3. \A d \in allNeeds[t] : d \in DOMAIN s
    <3> TAKE d \in allNeeds[t]
    <3>1. <<d, t>> \in (DOMAIN s) \X (DOMAIN s)
      BY <2>1, <1>8, Zenon
    <3> QED BY <3>1
  <2> QED BY <2>2, <2>3, Zenon
<1>12. ASSUME NEW k \in DOMAIN lv, NEW t \in Range(lv[k]), NEW d \in Range(EffectiveRequires(s[t]))
       PROVE  \E j \in 1..(k - 1) : d \in Range(lv[j])
  <2>1. lv[k] \in Seq(DOMAIN roots)
    BY <1>9 DEF Ranks
  <2>2. t \in DOMAIN roots
    BY <2>1 DEF Range
  <2>3. needs[t] = Range(EffectiveRequires(s[t]))
    BY <2>2, <1>1, <1>5 DEF needs, Requirements
  <2>4. <<d, t>> \in Order(run)
    BY <2>2, <2>3, <1>2, ToolOrder
  <2>5. d \in DOMAIN roots
    <3>1. <<d, t>> \in (DOMAIN roots) \X (DOMAIN roots)
      BY <2>4, <1>9, Zenon
    <3> QED BY <3>1
  <2>6. t \in Range(lv[k]) /\ k \in DOMAIN lv
    OBVIOUS
  <2>7. \A n \in Range(lv[k]) : \A m \in DOMAIN roots :
          <<m, n>> \in Order(run) => \E j \in 1..(k - 1) : m \in Range(lv[j])
    BY <1>9, Zenon DEF Ranks
  <2> QED BY <2>4, <2>5, <2>7
<1> QED BY <1>10, <1>11, <1>12 DEF LevelsOf, lv
-----------------------------------------------------------------------------
(* The inductive invariant.                                                *)

\* Present, of any schema.
There(s, d, on) ==
  \A S \in SUBSET DOMAIN s :
    (\A t \in DOMAIN s :
       (IF s[t].methods = <<>> THEN Range(EffectiveRequires(s[t])) \subseteq S
                               ELSE on[t] # {}) => t \in S)
    => d \in S

NeedsThere(s, t, on) == \A d \in Range(EffectiveRequires(s[t])) : There(s, d, on)

Risky(s, allow, t) == ~allow /\ \E c \in DOMAIN s[t].methods : s[t].methods[c].dangerous

Uses == [res : Tools, created : BOOLEAN]

Frames(s) ==
  [op : {"tool", "dep"}, tool : DOMAIN s, cand : Nat \ {0},
   pc : {"start", "gate", "before", "req", "install", "after", "running"}, i : Nat \ {0},
   uses : SUBSET Uses, seen : SUBSET {"failed", "skip_when", "skip_unavailable"}, late : BOOLEAN]

Results(s) ==
  [tool : DOMAIN s, status : Good \cup Bad, committed : BOOLEAN, uses : SUBSET Uses]

Running == {"serial", "parallel"}

TypeOK ==
  /\ schema \in Schemas /\ dryRun \in BOOLEAN /\ allowCode \in BOOLEAN
  /\ recovered \in SUBSET DOMAIN schema
  /\ host \in [Tools -> SUBSET Nat]
  /\ level \in Nat \ {0} /\ cancelled \in BOOLEAN
  /\ batch \in Seq(DOMAIN schema) /\ queue \in Seq(DOMAIN schema)
  /\ stacks \in [Workers -> Seq(Frames(schema))]
  /\ report \in Seq(Results(schema))
  /\ collected \in SUBSET Results(schema) /\ IsFiniteSet(collected)
  /\ memo \in [Tools -> Good \cup Bad \cup {"none", "running"}]

\* What the phases of a level leave to each other.
Phases ==
  /\ phase \in {"level", "batch", "verify", "record", "cancelled", "write", "done", "error"} \cup Running
  /\ phase # "error" => LevelsOf(schema, levels)
  /\ phase \in {"batch", "verify"} => ~dryRun
  /\ batch # <<>> => phase \in {"batch", "verify"}
  /\ phase = "cancelled" => cancelled
  /\ \A w \in Workers : stacks[w] # <<>> => phase \in Running

\* A tool runs for its level at the bottom of a stack, and above that only on
\* the dependency that called for it.
Stacked(st) ==
  \A k \in DOMAIN st : st[k].op = "tool" /\ k # 1 =>
    k - 1 \in DOMAIN st /\ st[k - 1].op = "dep" /\ st[k - 1].tool = st[k].tool

FrameOK(s, dry, allow, on, f) ==
  /\ f.op = "dep" =>
       /\ f.pc \in {"req", "running"}
       /\ ~dry => \A j \in DOMAIN EffectiveRequires(s[f.tool]) :
                    f.pc = "running" \/ j < f.i => There(s, EffectiveRequires(s[f.tool])[j], on)
  /\ f.op = "tool" =>
       /\ f.pc # "running"
       /\ f.pc # "start" => s[f.tool].methods # <<>> /\ ~Risky(s, allow, f.tool)
       /\ f.pc \in {"before", "req", "install", "after"} => f.cand \in DOMAIN s[f.tool].methods
       /\ f.pc = "after" => on[f.tool] # {}
       /\ ~dry => NeedsThere(s, f.tool, on)

FramesOK(s, dry, allow, on, st) ==
  /\ st # <<>> => st[1].op = "tool"
  /\ Stacked(st)
  /\ \A k \in DOMAIN st : FrameOK(s, dry, allow, on, st[k])

StacksOK == \A w \in Workers : FramesOK(schema, dryRun, allowCode, host, stacks[w])

\* A lazy dependency on a stack is marked as running.
HelpersMarked ==
  \A w \in Workers : \A k \in DOMAIN stacks[w] :
    stacks[w][k].op = "dep" => memo[stacks[w][k].tool] = "running"

\* What waits for the batch or for a worker may be run.
WaitingOK(s, dry, on, q) == ~dry => \A t \in Range(q) : NeedsThere(s, t, on)

Waiting ==
  /\ WaitingOK(schema, dryRun, host, queue) /\ WaitingOK(schema, dryRun, host, batch)
  /\ \A t \in Range(batch) : ~Risky(schema, allowCode, t)
  /\ \A t \in Range(batch) : FirstApplicable(t) # 0

\* What a result says of the host.
Seen(on, r) == r.status \in {"installed", "already"} => on[r.tool] # {}

Honest(s, dry, on, r) == Seen(on, r) /\ (~dry /\ r.status \in Good => There(s, r.tool, on))

ResultsOK ==
  /\ \A k \in DOMAIN report : Seen(host, report[k])
  /\ phase \notin {"write", "done"} =>
       \A k \in DOMAIN report : Honest(schema, dryRun, host, report[k])
  /\ \A r \in collected : Honest(schema, dryRun, host, r)
  /\ ~dryRun => \A t \in DOMAIN schema : memo[t] \in Good => There(schema, t, host)
  /\ \A t \in recovered : schema[t].methods # <<>> /\ host[t] # {} /\ Recorded(t) # {}

\* Every tool of the levels behind has a result, and is there or blocks what
\* requires it; every tool of this level has one or has still to be run.
Behind ==
  ~cancelled =>
    \A k \in DOMAIN levels : k < level =>
      \A t \in Range(levels[k]) : /\ Recorded(t) # {}
                                  /\ ~dryRun => t \in failed \/ There(schema, t, host)

Underway(t) ==
  \/ t \in Range(batch) \/ t \in Range(queue)
  \/ \E w \in Workers : stacks[w] # <<>> /\ stacks[w][1].tool = t
  \/ \E r \in collected : r.tool = t

Covered ==
  /\ phase \in {"batch", "verify"} \cup Running /\ ~cancelled =>
       \A t \in LevelTools : Recorded(t) # {} \/ Underway(t)
  /\ phase = "record" /\ ~cancelled => \A t \in LevelTools : Recorded(t) # {}
  /\ phase \in {"write", "done"} => \A t \in AllLevelTools : Recorded(t) # {}

IInv == /\ TypeOK /\ Phases /\ StacksOK /\ HelpersMarked /\ OneRunPerHelper
        /\ Waiting /\ ResultsOK /\ Behind /\ Covered

-----------------------------------------------------------------------------
(* Being there.                                                            *)

LEMMA ThereFacts ==
  ASSUME NEW s, NEW d \in DOMAIN s, NEW on
  PROVE  /\ s[d].methods # <<>> /\ on[d] # {} => There(s, d, on)
         /\ s[d].methods = <<>> /\ NeedsThere(s, d, on) => There(s, d, on)
<1>1. ASSUME s[d].methods # <<>>, on[d] # {} PROVE There(s, d, on)
  BY <1>1, Zenon DEF There
<1>2. ASSUME s[d].methods = <<>>, NeedsThere(s, d, on) PROVE There(s, d, on)
  <2> SUFFICES ASSUME NEW S \in SUBSET DOMAIN s,
                      \A t \in DOMAIN s :
                        (IF s[t].methods = <<>> THEN Range(EffectiveRequires(s[t])) \subseteq S
                                                ELSE on[t] # {}) => t \in S
               PROVE  d \in S
    BY Zenon DEF There
  <2>1. ASSUME NEW x \in Range(EffectiveRequires(s[d])) PROVE x \in S
    <3>1. There(s, x, on)
      BY <1>2 DEF NeedsThere
    <3> QED BY <3>1, Zenon DEF There
  <2> QED BY <1>2, <2>1, Zenon
<1> QED BY <1>1, <1>2

\* Nothing leaves the host.
Grows(on, on2) == \A t \in Tools : on[t] \subseteq on2[t]

LEMMA ThereStays ==
  ASSUME NEW s, DOMAIN s \subseteq Tools, NEW on, NEW on2, Grows(on, on2),
         NEW d, There(s, d, on)
  PROVE  There(s, d, on2)
<1> SUFFICES ASSUME NEW S \in SUBSET DOMAIN s,
                    \A t \in DOMAIN s :
                      (IF s[t].methods = <<>> THEN Range(EffectiveRequires(s[t])) \subseteq S
                                              ELSE on2[t] # {}) => t \in S
             PROVE  d \in S
  BY Zenon DEF There
<1>1. ASSUME NEW t \in DOMAIN s,
             IF s[t].methods = <<>> THEN Range(EffectiveRequires(s[t])) \subseteq S
                                    ELSE on[t] # {}
      PROVE  t \in S
  <2>1. on[t] # {} => on2[t] # {}
    BY DEF Grows
  <2> QED BY <1>1, <2>1, Zenon
<1> QED BY <1>1, Zenon DEF There

LEMMA NeedsStay ==
  ASSUME NEW s, DOMAIN s \subseteq Tools, NEW on, NEW on2, Grows(on, on2), NEW t,
         NeedsThere(s, t, on)
  PROVE  NeedsThere(s, t, on2)
BY ThereStays, Zenon DEF NeedsThere

LEMMA PresentIs ==
  ASSUME NEW d, NEW on
  PROVE  Present(d, on) <=> There(schema, d, on)
BY Zenon DEF Present, There, Methods, Requires

LEMMA DangerousIs ==
  ASSUME NEW t
  PROVE  Dangerous(t) <=> Risky(schema, allowCode, t)
BY DEF Dangerous, Risky, HasDangerousMethod, Methods

\* What is known of a frame, of what waits and of a result stays so.
LEMMA FrameStays ==
  ASSUME NEW s, DOMAIN s \subseteq Tools, NEW dry, NEW allow, NEW on, NEW on2, Grows(on, on2),
         NEW f \in Frames(s), FrameOK(s, dry, allow, on, f)
  PROVE  FrameOK(s, dry, allow, on2, f)
<1>1. f.tool \in Tools
  BY DEF Frames
<1>2. on[f.tool] # {} => on2[f.tool] # {}
  BY <1>1 DEF Grows
<1>3. NeedsThere(s, f.tool, on) => NeedsThere(s, f.tool, on2)
  BY NeedsStay
<1>4. \A d : There(s, d, on) => There(s, d, on2)
  BY ThereStays
<1> QED BY <1>2, <1>3, <1>4, Zenon DEF FrameOK

LEMMA FramesStay ==
  ASSUME NEW s, DOMAIN s \subseteq Tools, NEW dry, NEW allow, NEW on, NEW on2, Grows(on, on2),
         NEW st \in Seq(Frames(s)), FramesOK(s, dry, allow, on, st)
  PROVE  FramesOK(s, dry, allow, on2, st)
<1>1. \A k \in DOMAIN st : st[k] \in Frames(s)
  OBVIOUS
<1> QED BY <1>1, FrameStays, Zenon DEF FramesOK

LEMMA HonestStays ==
  ASSUME NEW s, DOMAIN s \subseteq Tools, NEW dry, NEW on, NEW on2, Grows(on, on2),
         NEW r \in Results(s)
  PROVE  /\ Seen(on, r) => Seen(on2, r)
         /\ Honest(s, dry, on, r) => Honest(s, dry, on2, r)
<1>1. r.tool \in Tools
  BY DEF Results
<1>2. on[r.tool] # {} => on2[r.tool] # {}
  BY <1>1 DEF Grows
<1>3. There(s, r.tool, on) => There(s, r.tool, on2)
  BY ThereStays
<1> QED BY <1>2, <1>3, Zenon DEF Seen, Honest

-----------------------------------------------------------------------------
(* Stacks.                                                                 *)

LEMMA StackOps ==
  ASSUME NEW F, NEW st \in Seq(F), st # <<>>
  PROVE  /\ Len(st) \in Nat \ {0} /\ Last(st) = st[Len(st)] /\ Last(st) \in F
         /\ DOMAIN st = 1..Len(st)
         /\ Front(st) \in Seq(F) /\ DOMAIN Front(st) = 1..(Len(st) - 1)
         /\ Len(Front(st)) = Len(st) - 1
         /\ \A k \in 1..(Len(st) - 1) : Front(st)[k] = st[k]
<1>1. Len(st) \in Nat \ {0} /\ DOMAIN st = 1..Len(st) /\ Last(st) = st[Len(st)]
  BY DEF Last
<1>2. Last(st) \in F
  BY <1>1
<1>3. /\ Front(st) \in Seq(F) /\ Len(Front(st)) = Len(st) - 1
      /\ \A k \in 1..(Len(st) - 1) : Front(st)[k] = st[k]
  BY <1>1 DEF Front
<1> QED BY <1>1, <1>2, <1>3

LEMMA SetTopOps ==
  ASSUME NEW F, NEW st \in Seq(F), st # <<>>, NEW f \in F
  PROVE  /\ Append(Front(st), f) \in Seq(F)
         /\ DOMAIN Append(Front(st), f) = DOMAIN st
         /\ \A k \in DOMAIN st :
              Append(Front(st), f)[k] = IF k = Len(st) THEN f ELSE st[k]
<1>1. /\ Len(st) \in Nat \ {0} /\ DOMAIN st = 1..Len(st)
      /\ Front(st) \in Seq(F) /\ Len(Front(st)) = Len(st) - 1
      /\ \A k \in 1..(Len(st) - 1) : Front(st)[k] = st[k]
  BY StackOps
<1> DEFINE q == Front(st)
           n == Len(st)
<1>2. n \in Nat \ {0} /\ q \in Seq(F) /\ Len(q) = n - 1
  BY <1>1
<1>3. \A k \in 1..n : k = n \/ k \in 1..(n - 1)
  <2> HIDE DEF n
  <2> QED BY <1>2
<1>4. /\ Append(q, f) \in Seq(F) /\ DOMAIN Append(q, f) = 1..n
      /\ \A k \in 1..n : Append(q, f)[k] = IF k = n THEN f ELSE q[k]
  <2> HIDE DEF n, q
  <2>1. DOMAIN q = 1..(n - 1)
    BY <1>2
  <2> QED BY <1>2, <2>1
<1> QED BY <1>1, <1>3, <1>4

-----------------------------------------------------------------------------
(* What one step of a worker comes to.                                     *)

\* The frame on top goes on as f.
Stays(w, f) ==
  /\ f \in Frames(schema) /\ f.op = Top(w).op /\ f.tool = Top(w).tool
  /\ FrameOK(schema, dryRun, allowCode, host', f)
  /\ SetTop(w, f)
  /\ UNCHANGED <<report, collected, memo>>

\* A dependency nobody has run yet is called for.
Calls(w, d) ==
  /\ d \in DOMAIN schema /\ memo[d] = "none" /\ memo' = [memo EXCEPT ![d] = "running"]
  /\ stacks' = [stacks EXCEPT ![w] = Append(@, Frame("dep", d))]
  /\ UNCHANGED <<report, collected>>

\* A tool has its result.
Returns(w, r) ==
  /\ Top(w).op = "tool" /\ r \in Results(schema) /\ r.tool = Top(w).tool
  /\ Honest(schema, dryRun, host', r)
  /\ Finish(w, r)

\* A dependency lacks one of its own.
GivesUp(w) ==
  /\ Top(w).op = "dep"
  /\ stacks' = [stacks EXCEPT ![w] = Front(@)]
  /\ report' = Append(report, Result(Top(w).tool, "failed"))
  /\ memo' = [memo EXCEPT ![Top(w).tool] = "failed"]
  /\ UNCHANGED collected

\* A dependency has all of its own and runs.
GoesOn(w) ==
  /\ Top(w).op = "dep"
  /\ ~dryRun => NeedsThere(schema, Top(w).tool, host)
  /\ stacks' = [stacks EXCEPT ![w] = Append(Append(Front(@), [Top(w) EXCEPT !.pc = "running"]),
                                            Frame("tool", Top(w).tool))]
  /\ UNCHANGED <<report, collected, memo>>

\* What is put on the host has what it requires there, and may be run.
Justified ==
  /\ host' \in [Tools -> SUBSET Nat] /\ Grows(host, host')
  /\ \A t \in DOMAIN schema :
       host'[t] # host[t] => ~Risky(schema, allowCode, t) /\ NeedsThere(schema, t, host)

Steps(w) ==
  \/ \E f : Stays(w, f)
  \/ \E d : Calls(w, d)
  \/ \E r : Returns(w, r)
  \/ GivesUp(w)
  \/ GoesOn(w)

Effect(w) ==
  /\ Busy(w) /\ Justified /\ Steps(w)
  /\ UNCHANGED <<given, levels, level, phase, batch, queue, failed, cancelled>>

LEMMA TopFacts ==
  ASSUME TypeOK, Phases, StacksOK, NEW w \in Workers, Busy(w)
  PROVE  /\ DOMAIN schema \subseteq Tools
         /\ stacks[w] \in Seq(Frames(schema)) /\ stacks[w] # <<>>
         /\ Top(w) \in Frames(schema) /\ Top(w).tool \in DOMAIN schema
         /\ FrameOK(schema, dryRun, allowCode, host, Top(w))
         /\ phase \in Running /\ LevelsOf(schema, levels)
         /\ Requires(Top(w).tool) \in Seq(Tools)
         /\ Range(Requires(Top(w).tool)) \subseteq DOMAIN schema
         /\ Methods(Top(w).tool) \in Seq(Method)
         /\ \A c \in DOMAIN Methods(Top(w).tool) :
              /\ Methods(Top(w).tool)[c].requires \in Seq(Tools)
              /\ Range(Methods(Top(w).tool)[c].requires) \subseteq DOMAIN schema
<1>1. schema \in Schemas /\ stacks \in [Workers -> Seq(Frames(schema))]
  BY DEF TypeOK
<1>2. stacks[w] \in Seq(Frames(schema)) /\ stacks[w] # <<>>
  BY <1>1 DEF Busy
<1>3. Top(w) = stacks[w][Len(stacks[w])] /\ Top(w) \in Frames(schema) /\ Len(stacks[w]) \in DOMAIN stacks[w]
  <2>1. /\ Len(stacks[w]) \in Nat \ {0} /\ Last(stacks[w]) = stacks[w][Len(stacks[w])]
        /\ Last(stacks[w]) \in Frames(schema) /\ DOMAIN stacks[w] = 1..Len(stacks[w])
    BY <1>2, StackOps
  <2> DEFINE n == Len(stacks[w])
  <2>2. n \in 1..n
    <3> HIDE DEF n
    <3> QED BY <2>1 DEF n
  <2> QED BY <2>1, <2>2, Zenon DEF Top
<1>4. Top(w).tool \in DOMAIN schema
  BY <1>3 DEF Frames
<1>5. FrameOK(schema, dryRun, allowCode, host, Top(w))
  BY <1>3, Zenon DEF StacksOK, FramesOK
<1>6. phase \in Running /\ LevelsOf(schema, levels)
  BY <1>2 DEF Phases, Running
<1>7. /\ DOMAIN schema \subseteq Tools /\ schema[Top(w).tool] \in Tool
      /\ EffectiveRequires(schema[Top(w).tool]) \in Seq(Tools)
  BY <1>1, <1>4, SchemaTypes
<1>8. Methods(Top(w).tool) \in Seq(Method)
  BY <1>7 DEF Methods, Tool
<1>9. /\ Range(Requires(Top(w).tool)) \subseteq DOMAIN schema
      /\ \A c \in DOMAIN Methods(Top(w).tool) :
           Range(Methods(Top(w).tool)[c].requires) \subseteq DOMAIN schema
  BY <1>4, <1>6, Zenon DEF LevelsOf, Methods, Requires
<1>10. \A c \in DOMAIN Methods(Top(w).tool) : Methods(Top(w).tool)[c].requires \in Seq(Tools)
  <2> TAKE c \in DOMAIN Methods(Top(w).tool)
  <2>1. Methods(Top(w).tool)[c] \in Method
    BY <1>8
  <2> QED BY <2>1 DEF Method
<1> QED BY <1>2, <1>3, <1>4, <1>5, <1>6, <1>7, <1>8, <1>9, <1>10 DEF Requires

LEMMA TryNextStays ==
  ASSUME NEW w, Top(w) \in Frames(schema), Top(w).op = "tool", Top(w).pc # "start",
         FrameOK(schema, dryRun, allowCode, host', Top(w)),
         NEW how \in {"failed", "skip_when", "skip_unavailable"}, TryNext(w, how)
  PROVE  \E f : Stays(w, f)
<1> DEFINE f == [Top(w) EXCEPT !.cand = @ + 1, !.pc = "gate", !.i = 1, !.uses = {},
                               !.seen = @ \cup {how}]
<1>1. f \in Frames(schema) /\ f.op = "tool" /\ f.tool = Top(w).tool /\ f.pc = "gate"
  <2>1. Top(w).seen \cup {how} \in SUBSET {"failed", "skip_when", "skip_unavailable"}
    BY DEF Frames
  <2>2. Top(w).cand + 1 \in Nat \ {0}
    BY DEF Frames
  <2>3. ASSUME NEW c \in Nat \ {0},
               NEW sn \in SUBSET {"failed", "skip_when", "skip_unavailable"},
               NEW g, g = [Top(w) EXCEPT !.cand = c, !.pc = "gate", !.i = 1, !.uses = {}, !.seen = sn]
        PROVE  g \in Frames(schema) /\ g.op = "tool" /\ g.tool = Top(w).tool /\ g.pc = "gate"
    <3> DEFINE g1 == [Top(w) EXCEPT !.cand = c]
               g2 == [g1 EXCEPT !.pc = "gate"]
               g3 == [g2 EXCEPT !.i = 1]
               g4 == [g3 EXCEPT !.uses = {}]
               g5 == [g4 EXCEPT !.seen = sn]
    <3>1. g1 \in Frames(schema) /\ g1.op = "tool" /\ g1.tool = Top(w).tool
      BY DEF Frames
    <3>2. g = g5
      BY <2>3 DEF Frames
    <3> HIDE DEF g1
    <3>3. g2 \in Frames(schema) /\ g2.op = "tool" /\ g2.tool = Top(w).tool /\ g2.pc = "gate"
      BY <3>1 DEF Frames
    <3> HIDE DEF g2
    <3>4. g3 \in Frames(schema) /\ g3.op = "tool" /\ g3.tool = Top(w).tool /\ g3.pc = "gate"
      BY <3>3 DEF Frames
    <3> HIDE DEF g3
    <3>5. g4 \in Frames(schema) /\ g4.op = "tool" /\ g4.tool = Top(w).tool /\ g4.pc = "gate"
      BY <3>4 DEF Frames
    <3> HIDE DEF g4
    <3>6. g5 \in Frames(schema) /\ g5.op = "tool" /\ g5.tool = Top(w).tool /\ g5.pc = "gate"
      BY <3>5 DEF Frames
    <3> QED BY <3>2, <3>6
  <2>4. f = [Top(w) EXCEPT !.cand = Top(w).cand + 1, !.pc = "gate", !.i = 1, !.uses = {},
                           !.seen = Top(w).seen \cup {how}]
    BY DEF Frames
  <2> QED BY <2>1, <2>2, <2>3, <2>4
<1>2. SetTop(w, f) /\ UNCHANGED <<report, collected, memo>>
  BY DEF TryNext
<1> HIDE DEF f
<1>3. FrameOK(schema, dryRun, allowCode, host', f)
  BY <1>1 DEF FrameOK
<1> QED BY <1>1, <1>2, <1>3 DEF Stays

LEMMA AdvanceStays ==
  ASSUME NEW w, Top(w) \in Frames(schema), Top(w).op = "tool",
         FrameOK(schema, dryRun, allowCode, host', Top(w)),
         NEW pc \in {"gate", "before", "req", "install", "after"},
         schema[Top(w).tool].methods # <<>>, ~Risky(schema, allowCode, Top(w).tool),
         pc # "gate" => Top(w).cand \in DOMAIN schema[Top(w).tool].methods,
         pc = "after" => host'[Top(w).tool] # {},
         Advance(w, pc)
  PROVE  \E f : Stays(w, f)
<1> DEFINE f == [Top(w) EXCEPT !.pc = pc]
<1>1. /\ f \in Frames(schema) /\ f.op = "tool" /\ f.tool = Top(w).tool /\ f.pc = pc
      /\ f.cand = Top(w).cand
  BY DEF Frames
<1>2. SetTop(w, f) /\ UNCHANGED <<report, collected, memo>>
  BY DEF Advance
<1> HIDE DEF f
<1>3. FrameOK(schema, dryRun, allowCode, host', f)
  BY <1>1 DEF FrameOK
<1> QED BY <1>1, <1>2, <1>3 DEF Stays

\* A result with this status, honest when the tool is there for what it says.
LEMMA FinishReturns ==
  ASSUME NEW w, Top(w).tool \in DOMAIN schema, Top(w).op = "tool",
         NEW status \in Good \cup Bad, FinishAs(w, status),
         status \in {"installed", "already"} => /\ schema[Top(w).tool].methods # <<>>
                                                /\ host'[Top(w).tool] # {},
         status = "virtual" => /\ schema[Top(w).tool].methods = <<>>
                               /\ ~dryRun => NeedsThere(schema, Top(w).tool, host'),
         status = "would_install" => dryRun
  PROVE  \E r : Returns(w, r)
<1> DEFINE r == Result(Top(w).tool, status)
<1>1. r \in Results(schema) /\ r.tool = Top(w).tool /\ r.status = status
  BY DEF Result, Results
<1>2. Finish(w, r)
  BY DEF FinishAs
<1> HIDE DEF r
<1>3. Honest(schema, dryRun, host', r)
  <2>1. /\ status \in {"installed", "already"} => There(schema, Top(w).tool, host')
        /\ status = "virtual" /\ ~dryRun => There(schema, Top(w).tool, host')
    BY ThereFacts
  <2> QED BY <1>1, <2>1 DEF Honest, Seen, Good
<1> QED BY <1>1, <1>2, <1>3 DEF Returns

LEMMA Unjustified ==
  ASSUME TypeOK, UNCHANGED host
  PROVE  Justified
BY DEF Justified, TypeOK, Grows

LEMMA StartToolEffect ==
  ASSUME TypeOK, Phases, StacksOK, NEW w \in Workers, StartTool(w)
  PROVE  Justified /\ Steps(w)
<1>1. /\ Busy(w) /\ Top(w).op = "tool" /\ Top(w).pc = "start" /\ host' = host
      /\ \/ Methods(Top(w).tool) = <<>> /\ FinishAs(w, "virtual")
         \/ Methods(Top(w).tool) # <<>> /\ Refused(Top(w).tool) /\ FinishAs(w, "failed")
         \/ Methods(Top(w).tool) # <<>> /\ ~Refused(Top(w).tool) /\ Advance(w, "gate")
  BY Zenon DEF StartTool
<1>2. /\ Top(w) \in Frames(schema) /\ Top(w).tool \in DOMAIN schema
      /\ FrameOK(schema, dryRun, allowCode, host, Top(w))
  BY <1>1, TopFacts
<1>3. Justified
  BY <1>1, Unjustified
<1>4. CASE Methods(Top(w).tool) = <<>> /\ FinishAs(w, "virtual")
  <2>1. ~dryRun => NeedsThere(schema, Top(w).tool, host')
    BY <1>1, <1>2 DEF FrameOK
  <2>2. schema[Top(w).tool].methods = <<>>
    BY <1>4 DEF Methods
  <2>3. \E r : Returns(w, r)
    BY <1>1, <1>2, <1>4, <2>1, <2>2, FinishReturns DEF Good
  <2> QED BY <1>3, <2>3 DEF Steps
<1>5. CASE FinishAs(w, "failed")
  <2>1. \E r : Returns(w, r)
    BY <1>1, <1>2, <1>5, FinishReturns DEF Bad
  <2> QED BY <1>3, <2>1 DEF Steps
<1>6. CASE Methods(Top(w).tool) # <<>> /\ ~Refused(Top(w).tool) /\ Advance(w, "gate")
  <2>1. FrameOK(schema, dryRun, allowCode, host', Top(w))
    BY <1>1, <1>2
  <2>2. schema[Top(w).tool].methods # <<>> /\ ~Risky(schema, allowCode, Top(w).tool)
    BY <1>6, DangerousIs DEF Refused, Methods
  <2>3. \E f : Stays(w, f)
    BY <1>1, <1>2, <1>6, <2>1, <2>2, AdvanceStays
  <2> QED BY <1>3, <2>3 DEF Steps
<1> QED BY <1>1, <1>4, <1>5, <1>6

\* A frame past its gate is a tool's.
LEMMA PastStart ==
  ASSUME TypeOK, Phases, StacksOK, NEW w \in Workers, Busy(w),
         Top(w).op = "tool" \/ Top(w).pc \in {"gate", "before", "install", "after"},
         Top(w).pc # "start"
  PROVE  /\ Top(w).op = "tool" /\ Top(w) \in Frames(schema) /\ Top(w).tool \in DOMAIN schema
         /\ FrameOK(schema, dryRun, allowCode, host, Top(w))
         /\ schema[Top(w).tool].methods # <<>> /\ ~Risky(schema, allowCode, Top(w).tool)
         /\ Top(w).pc \in {"before", "req", "install", "after"} =>
              Top(w).cand \in DOMAIN schema[Top(w).tool].methods
         /\ Top(w).pc = "after" => host[Top(w).tool] # {}
         /\ ~dryRun => NeedsThere(schema, Top(w).tool, host)
<1>1. /\ Top(w) \in Frames(schema) /\ Top(w).tool \in DOMAIN schema
      /\ FrameOK(schema, dryRun, allowCode, host, Top(w))
  BY TopFacts
<1>2. Top(w).op = "tool"
  <2>1. Top(w).op \in {"tool", "dep"}
    BY <1>1 DEF Frames
  <2> QED BY <1>1, <2>1 DEF FrameOK
<1> QED BY <1>1, <1>2, Zenon DEF FrameOK

LEMMA GateEffect ==
  ASSUME TypeOK, Phases, StacksOK, NEW w \in Workers, Gate(w)
  PROVE  Justified /\ Steps(w)
<1> DEFINE t == Top(w).tool
           c == Top(w).cand
           m == Methods(t)[c]
<1>1. Busy(w) /\ Top(w).pc = "gate" /\ host' = host
  BY Zenon DEF Gate
<1>2. \/ FinishAs(w, "failed")
      \/ FinishExhausted(w)
      \/ \E how \in {"failed", "skip_when", "skip_unavailable"} : TryNext(w, how)
      \/ c \in host[t] /\ FinishAs(w, "already")
      \/ c <= Len(Methods(t)) /\ Advance(w, "before")
  BY Zenon DEF Gate
<1>3. /\ Top(w).op = "tool" /\ Top(w) \in Frames(schema) /\ t \in DOMAIN schema
      /\ FrameOK(schema, dryRun, allowCode, host', Top(w))
      /\ schema[t].methods # <<>> /\ ~Risky(schema, allowCode, t)
  BY <1>1, PastStart
<1>4. Justified
  BY <1>1, Unjustified
<1>5. CASE FinishAs(w, "failed")
  <2>1. \E r : Returns(w, r)
    BY <1>3, <1>5, FinishReturns DEF Bad
  <2> QED BY <1>4, <2>1 DEF Steps
<1>6. CASE FinishExhausted(w)
  <2>1. \E status \in Bad : FinishAs(w, status)
    <3>1. \/ FinishAs(w, "failed") \/ FinishAs(w, "skipped_when") \/ FinishAs(w, "skipped_unavailable")
      BY <1>6, Zenon DEF FinishExhausted
    <3> QED BY <3>1 DEF Bad
  <2>2. PICK status \in Bad : FinishAs(w, status)
    BY <2>1
  <2>3. status \notin {"installed", "already", "virtual", "would_install"} /\ status \in Good \cup Bad
    BY DEF Bad
  <2>4. \E r : Returns(w, r)
    BY <1>3, <2>2, <2>3, FinishReturns
  <2> QED BY <1>4, <2>4 DEF Steps
<1>7. CASE \E how \in {"failed", "skip_when", "skip_unavailable"} : TryNext(w, how)
  <2>1. \E f : Stays(w, f)
    BY <1>1, <1>3, <1>7, TryNextStays
  <2> QED BY <1>4, <2>1 DEF Steps
<1>8. CASE c \in host[t] /\ FinishAs(w, "already")
  <2>1. \E r : Returns(w, r)
    BY <1>1, <1>3, <1>8, FinishReturns DEF Good
  <2> QED BY <1>4, <2>1 DEF Steps
<1>9. CASE c <= Len(Methods(t)) /\ Advance(w, "before")
  <2>1. c \in DOMAIN schema[t].methods
    <3>1. c \in Nat \ {0}
      BY <1>3 DEF Frames
    <3>2. Methods(t) \in Seq(Method)
      BY <1>1, TopFacts
    <3> QED BY <1>9, <3>1, <3>2 DEF Methods
  <2>2. \E f : Stays(w, f)
    BY <1>3, <1>9, <2>1, AdvanceStays
  <2> QED BY <1>4, <2>2 DEF Steps
<1> QED BY <1>2, <1>5, <1>6, <1>7, <1>8, <1>9

LEMMA BeforeHookEffect ==
  ASSUME TypeOK, Phases, StacksOK, NEW w \in Workers, BeforeHook(w)
  PROVE  Justified /\ Steps(w)
<1>1. /\ Busy(w) /\ Top(w).pc = "before" /\ host' = host
      /\ Advance(w, "req") \/ FinishAs(w, "failed")
  BY Zenon DEF BeforeHook
<1>2. /\ Top(w).op = "tool" /\ Top(w) \in Frames(schema) /\ Top(w).tool \in DOMAIN schema
      /\ FrameOK(schema, dryRun, allowCode, host', Top(w))
      /\ schema[Top(w).tool].methods # <<>> /\ ~Risky(schema, allowCode, Top(w).tool)
      /\ Top(w).cand \in DOMAIN schema[Top(w).tool].methods
  BY <1>1, PastStart
<1>3. Justified
  BY <1>1, Unjustified
<1>4. CASE Advance(w, "req")
  <2>1. \E f : Stays(w, f)
    BY <1>2, <1>4, AdvanceStays
  <2> QED BY <1>3, <2>1 DEF Steps
<1>5. CASE FinishAs(w, "failed")
  <2>1. \E r : Returns(w, r)
    BY <1>2, <1>5, FinishReturns DEF Bad
  <2> QED BY <1>3, <2>1 DEF Steps
<1> QED BY <1>1, <1>4, <1>5

LEMMA NeededFacts ==
  ASSUME TypeOK, Phases, StacksOK, NEW w \in Workers, Busy(w), Top(w).pc = "req"
  PROVE  /\ Top(w) \in Frames(schema) /\ Top(w).tool \in DOMAIN schema
         /\ FrameOK(schema, dryRun, allowCode, host, Top(w))
         /\ Needed(w) \in Seq(Tools) /\ Range(Needed(w)) \subseteq DOMAIN schema
         /\ Top(w).i \in Nat \ {0}
         /\ Top(w).i <= Len(Needed(w)) => /\ Top(w).i \in DOMAIN Needed(w)
                                          /\ NextNeeded(w) \in DOMAIN schema
                                          /\ NextNeeded(w) \in Tools
         /\ Top(w).op = "dep" => Needed(w) = EffectiveRequires(schema[Top(w).tool])
         /\ Top(w).op \in {"tool", "dep"}
<1>1. /\ Top(w) \in Frames(schema) /\ Top(w).tool \in DOMAIN schema /\ DOMAIN schema \subseteq Tools
      /\ FrameOK(schema, dryRun, allowCode, host, Top(w))
      /\ Requires(Top(w).tool) \in Seq(Tools)
      /\ Range(Requires(Top(w).tool)) \subseteq DOMAIN schema
      /\ \A c \in DOMAIN Methods(Top(w).tool) :
           /\ Methods(Top(w).tool)[c].requires \in Seq(Tools)
           /\ Range(Methods(Top(w).tool)[c].requires) \subseteq DOMAIN schema
  BY TopFacts
<1>2. Top(w).i \in Nat \ {0} /\ Top(w).op \in {"tool", "dep"}
  BY <1>1 DEF Frames
<1>3. Top(w).op = "tool" => Top(w).cand \in DOMAIN Methods(Top(w).tool)
  BY <1>1 DEF FrameOK, Methods
<1>4. Needed(w) \in Seq(Tools) /\ Range(Needed(w)) \subseteq DOMAIN schema
  BY <1>1, <1>2, <1>3, Zenon DEF Needed, Candidate
<1>5. Top(w).op = "dep" => Needed(w) = EffectiveRequires(schema[Top(w).tool])
  BY DEF Needed, Requires
<1>6. ASSUME Top(w).i <= Len(Needed(w))
      PROVE  Top(w).i \in DOMAIN Needed(w) /\ NextNeeded(w) \in DOMAIN schema
  <2>1. Top(w).i \in DOMAIN Needed(w)
    BY <1>2, <1>4, <1>6
  <2> QED BY <2>1, <1>4 DEF NextNeeded, Range
<1> QED BY <1>1, <1>2, <1>4, <1>5, <1>6

LEMMA OutcomeThere ==
  ASSUME TypeOK, ResultsOK, NEW d \in DOMAIN schema, Outcome(d) \in Good, ~dryRun
  PROVE  There(schema, d, host)
<1>1. CASE d \in recovered
  BY <1>1, ThereFacts DEF ResultsOK
<1>2. CASE d \notin recovered
  BY <1>2 DEF ResultsOK, Outcome
<1> QED BY <1>1, <1>2

LEMMA RunDependencyEffect ==
  ASSUME TypeOK, Phases, StacksOK, NEW w \in Workers, RunDependency(w)
  PROVE  Justified /\ Steps(w)
<1> DEFINE d == NextNeeded(w)
<1>1. /\ Busy(w) /\ Top(w).pc = "req" /\ Top(w).i <= Len(Needed(w)) /\ Outcome(d) = "none"
      /\ memo' = [memo EXCEPT ![d] = "running"]
      /\ stacks' = [stacks EXCEPT ![w] = Append(@, Frame("dep", d))]
      /\ UNCHANGED <<report, collected>> /\ host' = host
  BY Zenon DEF RunDependency, NeedMore, Registered
<1>2. d \in DOMAIN schema
  BY <1>1, NeededFacts
<1> HIDE DEF d
<1>3. memo[d] = "none"
  BY <1>1 DEF Outcome
<1>4. Calls(w, d)
  BY <1>1, <1>2, <1>3 DEF Calls
<1>5. Justified
  BY <1>1, Unjustified
<1> QED BY <1>4, <1>5 DEF Steps

LEMMA UseDependencyEffect ==
  ASSUME TypeOK, Phases, StacksOK, ResultsOK, NEW w \in Workers, UseDependency(w)
  PROVE  Justified /\ Steps(w)
<1> DEFINE d   == NextNeeded(w)
           use == IF Outcome(d) = "virtual" \/ Top(w).op = "dep" THEN {}
                  ELSE {[res |-> d, created |-> Outcome(d) = "installed"]}
           f   == [Top(w) EXCEPT !.i = @ + 1, !.uses = @ \cup use]
<1>1. /\ Busy(w) /\ Top(w).pc = "req" /\ Top(w).i <= Len(Needed(w)) /\ Outcome(d) \in Good
      /\ SetTop(w, f) /\ UNCHANGED <<report, collected, memo>> /\ host' = host
  BY Zenon DEF UseDependency, NeedMore
<1>2. /\ Top(w) \in Frames(schema) /\ Top(w).tool \in DOMAIN schema
      /\ FrameOK(schema, dryRun, allowCode, host, Top(w))
      /\ Top(w).i \in Nat \ {0} /\ Top(w).i \in DOMAIN Needed(w)
      /\ d \in DOMAIN schema /\ d \in Tools
      /\ Top(w).op = "dep" => Needed(w) = EffectiveRequires(schema[Top(w).tool])
      /\ Top(w).op \in {"tool", "dep"}
  BY <1>1, NeededFacts
<1>3. ~dryRun => There(schema, d, host)
  BY <1>1, <1>2, OutcomeThere
<1>4. use \in SUBSET Uses
  BY <1>2 DEF Uses
<1>5. /\ f \in Frames(schema) /\ f.op = Top(w).op /\ f.tool = Top(w).tool /\ f.pc = "req"
      /\ f.cand = Top(w).cand /\ f.i = Top(w).i + 1
  <2> HIDE DEF use
  <2>1. Top(w).uses \cup use \in SUBSET Uses
    BY <1>2, <1>4 DEF Frames
  <2>2. Top(w).i + 1 \in Nat \ {0}
    BY <1>2
  <2> QED BY <1>1, <1>2, <2>1, <2>2 DEF Frames
<1>6. d = Needed(w)[Top(w).i]
  BY DEF NextNeeded
<1> HIDE DEF f, d, use
<1>7. FrameOK(schema, dryRun, allowCode, host', f)
  <2>1. CASE Top(w).op = "tool"
    BY <1>1, <1>2, <1>5, <2>1 DEF FrameOK
  <2>2. CASE Top(w).op = "dep"
    <3> DEFINE req == EffectiveRequires(schema[Top(w).tool])
    <3>1. ASSUME ~dryRun, NEW j \in DOMAIN req, j < f.i PROVE There(schema, req[j], host)
      <4>1. CASE j = Top(w).i
        BY <4>1, <3>1, <1>2, <1>3, <1>6, <2>2
      <4>2. CASE j # Top(w).i
        <5>1. req = Needed(w) /\ DOMAIN req = 1..Len(Needed(w))
          BY <1>1, <1>2, <2>2, NeededFacts
        <5>2. j < Top(w).i
          <6>1. j \in Nat
            BY <5>1, <3>1
          <6> HIDE DEF req
          <6> QED BY <6>1, <3>1, <4>2, <1>5, <1>2
        <5> QED BY <5>2, <3>1, <1>2, <2>2 DEF FrameOK
      <4> QED BY <4>1, <4>2
    <3> HIDE DEF req
    <3>2. f.op = "dep" /\ f.pc = "req" /\ f.tool = Top(w).tool
      BY <1>5, <2>2
    <3> QED BY <1>1, <3>1, <3>2, Zenon DEF FrameOK, req
  <2> QED BY <1>2, <2>1, <2>2
<1>8. Stays(w, f)
  BY <1>1, <1>5, <1>7 DEF Stays
<1>9. Justified
  BY <1>1, Unjustified
<1> QED BY <1>8, <1>9 DEF Steps

LEMMA MissDependencyEffect ==
  ASSUME TypeOK, Phases, StacksOK, NEW w \in Workers, MissDependency(w)
  PROVE  Justified /\ Steps(w)
<1>1. /\ Busy(w) /\ Top(w).pc = "req" /\ host' = host
      /\ \/ GivesUp(w)
         \/ Top(w).op # "dep" /\ TryNext(w, "failed")
  BY Zenon DEF MissDependency, NeedMore, GivesUp
<1>2. /\ Top(w) \in Frames(schema) /\ Top(w).tool \in DOMAIN schema
      /\ FrameOK(schema, dryRun, allowCode, host, Top(w))
      /\ Top(w).op \in {"tool", "dep"}
  BY <1>1, NeededFacts
<1>3. Justified
  BY <1>1, Unjustified
<1>4. CASE Top(w).op # "dep" /\ TryNext(w, "failed")
  <2>1. FrameOK(schema, dryRun, allowCode, host', Top(w))
    BY <1>1, <1>2
  <2>2. \E f : Stays(w, f)
    BY <1>1, <1>2, <1>4, <2>1, TryNextStays
  <2> QED BY <1>3, <2>2 DEF Steps
<1> QED BY <1>1, <1>3, <1>4 DEF Steps

LEMMA HaveDependenciesEffect ==
  ASSUME TypeOK, Phases, StacksOK, NEW w \in Workers, HaveDependencies(w)
  PROVE  Justified /\ Steps(w)
<1>1. /\ Busy(w) /\ Top(w).pc = "req" /\ host' = host /\ Top(w).i > Len(Needed(w))
      /\ \/ /\ Top(w).op = "dep"
            /\ stacks' = [stacks EXCEPT ![w] =
                            Append(Append(Front(@), [Top(w) EXCEPT !.pc = "running"]),
                                   Frame("tool", Top(w).tool))]
            /\ UNCHANGED <<report, collected, memo>>
         \/ Top(w).op # "dep" /\ Advance(w, "install")
  BY Zenon DEF HaveDependencies
<1>2. /\ Top(w) \in Frames(schema) /\ Top(w).tool \in DOMAIN schema
      /\ FrameOK(schema, dryRun, allowCode, host, Top(w))
      /\ Top(w).op \in {"tool", "dep"} /\ Top(w).i \in Nat \ {0}
      /\ Needed(w) \in Seq(Tools)
      /\ Top(w).op = "dep" => Needed(w) = EffectiveRequires(schema[Top(w).tool])
  BY <1>1, NeededFacts
<1>3. Justified
  BY <1>1, Unjustified
<1>4. CASE Top(w).op = "dep"
  <2>1. ASSUME ~dryRun, NEW d \in Range(EffectiveRequires(schema[Top(w).tool]))
        PROVE  There(schema, d, host)
    <3> DEFINE req == EffectiveRequires(schema[Top(w).tool])
    <3>1. PICK j \in DOMAIN req : req[j] = d
      BY <2>1 DEF Range
    <3>2. j < Top(w).i
      <4>1. DOMAIN req = 1..Len(Needed(w)) /\ Len(Needed(w)) \in Nat
        BY <1>2, <1>4
      <4> HIDE DEF req
      <4> QED BY <4>1, <3>1, <1>1, <1>2
    <3> QED BY <3>1, <3>2, <2>1, <1>2, <1>4 DEF FrameOK
  <2>2. GoesOn(w)
    BY <1>1, <1>4, <2>1 DEF GoesOn, NeedsThere
  <2> QED BY <1>3, <2>2 DEF Steps
<1>5. CASE Top(w).op # "dep" /\ Advance(w, "install")
  <2>1. /\ schema[Top(w).tool].methods # <<>> /\ ~Risky(schema, allowCode, Top(w).tool)
        /\ Top(w).cand \in DOMAIN schema[Top(w).tool].methods
    BY <1>1, <1>2, <1>5, PastStart
  <2>2. FrameOK(schema, dryRun, allowCode, host', Top(w))
    BY <1>1, <1>2
  <2>3. \E f : Stays(w, f)
    BY <1>2, <1>5, <2>1, <2>2, AdvanceStays
  <2> QED BY <1>3, <2>3 DEF Steps
<1> QED BY <1>1, <1>4, <1>5

LEMMA InstallEffect ==
  ASSUME TypeOK, Phases, StacksOK, NEW w \in Workers, Install(w)
  PROVE  Justified /\ Steps(w)
<1> DEFINE t == Top(w).tool
<1>1. /\ Busy(w) /\ Top(w).pc = "install"
      /\ \/ dryRun /\ FinishAs(w, "would_install") /\ host' = host
         \/ FinishAs(w, "failed") /\ host' = host
         \/ TryNext(w, "failed") /\ host' = host
         \/ /\ ~dryRun /\ host' = [host EXCEPT ![t] = @ \cup {Top(w).cand}]
            /\ Advance(w, "after") \/ FinishAs(w, "failed") \/ TryNext(w, "failed")
  BY Zenon DEF Install, InstalledHere
<1>2. /\ Top(w).op = "tool" /\ Top(w) \in Frames(schema) /\ t \in DOMAIN schema
      /\ FrameOK(schema, dryRun, allowCode, host, Top(w))
      /\ schema[t].methods # <<>> /\ ~Risky(schema, allowCode, t)
      /\ Top(w).cand \in DOMAIN schema[t].methods
      /\ ~dryRun => NeedsThere(schema, t, host)
  BY <1>1, PastStart
<1>3. DOMAIN schema \subseteq Tools /\ Top(w).cand \in Nat \ {0} /\ host \in [Tools -> SUBSET Nat]
  BY <1>1, <1>2, TopFacts DEF Frames, TypeOK
<1>4. CASE host' = host /\ (FinishAs(w, "failed") \/ TryNext(w, "failed")
                            \/ (dryRun /\ FinishAs(w, "would_install")))
  <2>1. Justified /\ FrameOK(schema, dryRun, allowCode, host', Top(w))
    BY <1>2, <1>4, Unjustified
  <2>2. CASE FinishAs(w, "failed")
    <3>1. \E r : Returns(w, r)
      BY <1>2, <2>2, FinishReturns DEF Bad
    <3> QED BY <2>1, <3>1 DEF Steps
  <2>3. CASE TryNext(w, "failed")
    <3>1. \E f : Stays(w, f)
      BY <1>1, <1>2, <2>1, <2>3, TryNextStays
    <3> QED BY <2>1, <3>1 DEF Steps
  <2>4. CASE dryRun /\ FinishAs(w, "would_install")
    <3>1. \E r : Returns(w, r)
      BY <1>2, <2>4, FinishReturns DEF Good
    <3> QED BY <2>1, <3>1 DEF Steps
  <2> QED BY <1>4, <2>2, <2>3, <2>4
<1>5. CASE /\ ~dryRun /\ host' = [host EXCEPT ![t] = @ \cup {Top(w).cand}]
           /\ Advance(w, "after") \/ FinishAs(w, "failed") \/ TryNext(w, "failed")
  <2>1. /\ host' \in [Tools -> SUBSET Nat] /\ Grows(host, host')
        /\ \A x \in Tools : x # t => host'[x] = host[x]
        /\ host'[t] # {}
    BY <1>2, <1>3, <1>5 DEF Grows
  <2>2. Justified
    BY <1>2, <1>3, <1>5, <2>1, Zenon DEF Justified
  <2>3. FrameOK(schema, dryRun, allowCode, host', Top(w))
    BY <1>2, <1>3, <2>1, FrameStays
  <2>4. CASE Advance(w, "after")
    <3>1. \E f : Stays(w, f)
      BY <1>2, <2>1, <2>3, <2>4, AdvanceStays
    <3> QED BY <2>2, <3>1 DEF Steps
  <2>5. CASE FinishAs(w, "failed")
    <3>1. \E r : Returns(w, r)
      BY <1>2, <2>5, FinishReturns DEF Bad
    <3> QED BY <2>2, <3>1 DEF Steps
  <2>6. CASE TryNext(w, "failed")
    <3>1. \E f : Stays(w, f)
      BY <1>1, <1>2, <2>3, <2>6, TryNextStays
    <3> QED BY <2>2, <3>1 DEF Steps
  <2> QED BY <1>5, <2>4, <2>5, <2>6
<1> QED BY <1>1, <1>4, <1>5

LEMMA AfterHookEffect ==
  ASSUME TypeOK, Phases, StacksOK, NEW w \in Workers, AfterHook(w)
  PROVE  Justified /\ Steps(w)
<1> DEFINE t    == Top(w).tool
           done == [Result(t, "installed") EXCEPT !.uses = Top(w).uses]
           bad  == [done EXCEPT !.status = "failed"]
<1>1. /\ Busy(w) /\ Top(w).pc = "after" /\ host' = host
      /\ Finish(w, done) \/ Finish(w, bad)
  BY Zenon DEF AfterHook
<1>2. /\ Top(w).op = "tool" /\ Top(w) \in Frames(schema) /\ t \in DOMAIN schema
      /\ schema[t].methods # <<>> /\ host[t] # {}
  BY <1>1, PastStart
<1>3. Justified
  BY <1>1, Unjustified
<1>4. /\ done \in Results(schema) /\ done.tool = t /\ done.status = "installed"
      /\ bad \in Results(schema) /\ bad.tool = t /\ bad.status = "failed"
  <2>1. Top(w).uses \in SUBSET Uses
    BY <1>2 DEF Frames
  <2> QED BY <1>2, <2>1 DEF Result, Results, Good, Bad
<1>5. There(schema, t, host)
  BY <1>2, ThereFacts
<1> HIDE DEF done, bad
<1>6. Honest(schema, dryRun, host', done)
  BY <1>1, <1>2, <1>4, <1>5 DEF Honest, Seen
<1>7. Honest(schema, dryRun, host', bad)
  BY <1>4 DEF Honest, Seen, Good
<1>8. \E r : Returns(w, r)
  BY <1>1, <1>2, <1>4, <1>6, <1>7 DEF Returns
<1> QED BY <1>3, <1>8 DEF Steps

LEMMA WorkerEffects ==
  ASSUME TypeOK, Phases, StacksOK, ResultsOK, NEW w \in Workers, WorkerStep(w)
  PROVE  Take(w) \/ Effect(w)
<1> SUFFICES ASSUME ~Take(w) PROVE Effect(w)
  OBVIOUS
<1>1. UNCHANGED <<given, levels, level, phase, batch, queue, failed, cancelled>>
  BY Zenon DEF WorkerStep
<1>2. \/ StartTool(w) \/ Gate(w) \/ BeforeHook(w) \/ RunDependency(w) \/ UseDependency(w)
      \/ MissDependency(w) \/ HaveDependencies(w) \/ Install(w) \/ AfterHook(w)
  BY Zenon DEF WorkerStep
<1>3. Busy(w)
  BY <1>2, Zenon DEF StartTool, Gate, BeforeHook, RunDependency, UseDependency, MissDependency,
                     HaveDependencies, NeedMore, Install, AfterHook
<1>4. Justified /\ Steps(w)
  BY <1>2, StartToolEffect, GateEffect, BeforeHookEffect, RunDependencyEffect,
     UseDependencyEffect, MissDependencyEffect, HaveDependenciesEffect, InstallEffect,
     AfterHookEffect
<1> QED BY <1>1, <1>3, <1>4 DEF Effect

-----------------------------------------------------------------------------
(* What a step leaves on a stack.                                          *)

\* No dependency that was not on a stack before is on it now.
NoNewDeps(st, st2) ==
  \A j \in DOMAIN st2 : st2[j].op = "dep" =>
    j \in DOMAIN st /\ st[j].op = "dep" /\ st[j].tool = st2[j].tool

GoodStack(s, dry, allow, on, st) ==
  st \in Seq(Frames(s)) /\ st # <<>> /\ FramesOK(s, dry, allow, on, st)

\* st2 is the same tool's stack, with f on top.
From(st, st2) == NoNewDeps(st, st2) /\ st2[1].tool = st[1].tool

Ends(st, f) == st[Len(st)] = f

LEMMA ReplaceTop ==
  ASSUME NEW s, NEW dry, NEW allow, NEW on, NEW st, GoodStack(s, dry, allow, on, st),
         NEW f \in Frames(s), f.op = Last(st).op, f.tool = Last(st).tool,
         FrameOK(s, dry, allow, on, f),
         NEW st2, st2 = Append(Front(st), f)
  PROVE  GoodStack(s, dry, allow, on, st2) /\ From(st, st2) /\ Ends(st2, f)
<1>0. st \in Seq(Frames(s)) /\ st # <<>> /\ FramesOK(s, dry, allow, on, st)
  BY DEF GoodStack
<1> DEFINE n == Len(st)
<1>1. /\ n \in Nat \ {0} /\ Last(st) = st[n] /\ DOMAIN st = 1..n
      /\ st2 \in Seq(Frames(s)) /\ DOMAIN st2 = 1..n
      /\ \A k \in 1..n : st2[k] = IF k = n THEN f ELSE st[k]
  BY <1>0, StackOps, SetTopOps
<1> HIDE DEF n
<1>2. Len(st2) = n
  <2>1. Len(st2) \in Nat /\ DOMAIN st2 = 1..Len(st2) /\ n \in Nat \ {0}
    BY <1>1
  <2> DEFINE m == Len(st2)
  <2>2. m \in Nat /\ 1..m = 1..n /\ n \in Nat \ {0}
    BY <2>1, <1>1
  <2> HIDE DEF m
  <2> QED BY <2>2 DEF m
<1>3. \A k \in 1..n : st2[k].op = st[k].op /\ st2[k].tool = st[k].tool
  BY <1>1
<1>4. st[1].op = "tool" /\ 1 \in 1..n
  BY <1>0, <1>1 DEF FramesOK
<1>5. st2[1].op = "tool" /\ st2[1].tool = st[1].tool
  BY <1>3, <1>4
<1>6. Stacked(st2)
  BY <1>0, <1>1, <1>3, Zenon DEF Stacked, FramesOK
<1>7. \A k \in DOMAIN st2 : FrameOK(s, dry, allow, on, st2[k])
  BY <1>0, <1>1 DEF FramesOK
<1>8. NoNewDeps(st, st2)
  BY <1>1, <1>3, Zenon DEF NoNewDeps
<1>9. st2 # <<>>
  BY <1>1, <1>2
<1>10. st2[Len(st2)] = f
  <2>1. n \in 1..n
    BY <1>1
  <2> QED BY <1>1, <1>2, <2>1
<1> QED BY <1>1, <1>5, <1>6, <1>7, <1>8, <1>9, <1>10 DEF FramesOK, GoodStack, From, Ends

LEMMA Push ==
  ASSUME NEW s, NEW dry, NEW allow, NEW on, NEW st, GoodStack(s, dry, allow, on, st),
         NEW f \in Frames(s), FrameOK(s, dry, allow, on, f), NEW g, Ends(st, g),
         f.op = "dep" \/ (g.op = "dep" /\ g.tool = f.tool),
         NEW st2, st2 = Append(st, f)
  PROVE  /\ GoodStack(s, dry, allow, on, st2) /\ st2[1].tool = st[1].tool
         /\ f.op = "tool" => From(st, st2)
<1>0. st \in Seq(Frames(s)) /\ st # <<>> /\ FramesOK(s, dry, allow, on, st)
  BY DEF GoodStack
<1> DEFINE n == Len(st)
<1>1. /\ n \in Nat \ {0} /\ DOMAIN st = 1..n
      /\ st2 \in Seq(Frames(s)) /\ DOMAIN st2 = 1..(n + 1)
      /\ st2[n + 1] = f /\ \A k \in 1..n : st2[k] = st[k]
  <2>1. n \in Nat \ {0} /\ DOMAIN st = 1..n
    BY <1>0, StackOps
  <2> QED BY <1>0, <2>1
<1>2. f.op = "dep" \/ (st[n].op = "dep" /\ st[n].tool = f.tool)
  BY DEF Ends
<1> HIDE DEF n
<1>3. \A k \in 1..(n + 1) : k = n + 1 \/ (k \in 1..n /\ (k # 1 => k - 1 \in 1..n))
  BY <1>1
<1>4. st[1].op = "tool" /\ 1 \in 1..n /\ st2[1] = st[1]
  BY <1>0, <1>1 DEF FramesOK
<1>5. Stacked(st2)
  <2> SUFFICES ASSUME NEW k \in 1..(n + 1), st2[k].op = "tool", k # 1
               PROVE  /\ k - 1 \in DOMAIN st2 /\ st2[k - 1].op = "dep"
                      /\ st2[k - 1].tool = st2[k].tool
    BY <1>1, Zenon DEF Stacked
  <2>1. CASE k = n + 1
    <3>1. k - 1 = n /\ n \in 1..n /\ n \in 1..(n + 1) /\ f.op = "tool"
      BY <1>1, <2>1
    <3> QED BY <3>1, <1>1, <1>2, <2>1
  <2>2. CASE k \in 1..n
    <3>1. k - 1 \in 1..n /\ k - 1 \in 1..(n + 1)
      BY <1>1, <2>2
    <3>2. st[k].op = "tool"
      BY <1>1, <2>2
    <3>3. st[k - 1].op = "dep" /\ st[k - 1].tool = st[k].tool
      BY <3>2, <2>2, <1>0, <1>1, Zenon DEF FramesOK, Stacked
    <3> QED BY <3>1, <3>3, <2>2, <1>1
  <2> QED BY <2>1, <2>2, <1>3
<1>6. \A k \in DOMAIN st2 : FrameOK(s, dry, allow, on, st2[k])
  BY <1>0, <1>1, <1>3 DEF FramesOK
<1>7. f.op = "tool" => NoNewDeps(st, st2)
  BY <1>1, <1>3 DEF NoNewDeps
<1>8. st2 # <<>>
  BY <1>1
<1> QED BY <1>1, <1>4, <1>5, <1>6, <1>7, <1>8 DEF FramesOK, GoodStack, From

LEMMA Pop ==
  ASSUME NEW s, NEW dry, NEW allow, NEW on, NEW st \in Seq(Frames(s)), st # <<>>,
         FramesOK(s, dry, allow, on, st), NEW st2, st2 = Front(st)
  PROVE  /\ st2 \in Seq(Frames(s)) /\ FramesOK(s, dry, allow, on, st2)
         /\ NoNewDeps(st, st2)
         /\ DOMAIN st2 = 1..(Len(st) - 1) /\ Len(st2) = Len(st) - 1
         /\ Len(st) # 1 => st2 # <<>> /\ st2[1].tool = st[1].tool /\ st2[1] = st[1]
         /\ \A k \in DOMAIN st2 : k \in DOMAIN st /\ st2[k] = st[k]
<1> DEFINE n == Len(st)
<1>1. /\ n \in Nat \ {0} /\ DOMAIN st = 1..n
      /\ st2 \in Seq(Frames(s)) /\ DOMAIN st2 = 1..(n - 1) /\ Len(st2) = n - 1
      /\ \A k \in 1..(n - 1) : st2[k] = st[k]
  BY StackOps
<1> HIDE DEF n
<1>2. \A k \in 1..(n - 1) : k \in 1..n /\ (k # 1 => k - 1 \in 1..(n - 1))
  BY <1>1
<1>3. st2 # <<>> => st2[1].op = "tool"
  <2>1. st2 # <<>> => 1 \in 1..(n - 1)
    BY <1>1
  <2> QED BY <2>1, <1>1 DEF FramesOK
<1>4. Stacked(st2)
  BY <1>1, <1>2 DEF Stacked, FramesOK
<1>5. \A k \in DOMAIN st2 : FrameOK(s, dry, allow, on, st2[k])
  BY <1>1, <1>2 DEF FramesOK
<1>6. NoNewDeps(st, st2)
  BY <1>1, <1>2 DEF NoNewDeps
<1>7. n # 1 => st2 # <<>> /\ st2[1].tool = st[1].tool /\ st2[1] = st[1]
  <2> SUFFICES ASSUME n # 1 PROVE st2 # <<>> /\ st2[1] = st[1]
    OBVIOUS
  <2>1. 1 \in 1..(n - 1)
    BY <1>1
  <2> QED BY <2>1, <1>1
<1> QED BY <1>1, <1>2, <1>3, <1>4, <1>5, <1>6, <1>7 DEF FramesOK, n

\* A step that calls for no dependency leaves the marks and the runs apart.
LEMMA HelpersStay ==
  ASSUME TypeOK, HelpersMarked, OneRunPerHelper, NEW w \in Workers,
         NEW st2 \in Seq(Frames(schema)), NoNewDeps(stacks[w], st2),
         stacks' = [stacks EXCEPT ![w] = st2],
         \/ memo' = memo
         \/ \E x \in Tools, k0 \in DOMAIN stacks[w], v \in Good \cup Bad :
              /\ k0 \notin DOMAIN st2 /\ stacks[w][k0].op = "dep" /\ stacks[w][k0].tool = x
              /\ memo' = [memo EXCEPT ![x] = v]
  PROVE  HelpersMarked' /\ OneRunPerHelper'
<1>1. /\ stacks \in [Workers -> Seq(Frames(schema))]
      /\ memo \in [Tools -> Good \cup Bad \cup {"none", "running"}]
  BY DEF TypeOK
<1>2. \A v \in Workers : stacks'[v] = IF v = w THEN st2 ELSE stacks[v]
  BY <1>1
<1>3. \A v \in Workers : NoNewDeps(stacks[v], stacks'[v])
  BY <1>2 DEF NoNewDeps
<1>4. OneRunPerHelper'
  <2> SUFFICES ASSUME NEW u \in Workers, NEW v \in Workers,
                      NEW j \in DOMAIN stacks'[u], NEW k \in DOMAIN stacks'[v],
                      stacks'[u][j].op = "dep", stacks'[v][k].op = "dep",
                      stacks'[u][j].tool = stacks'[v][k].tool
               PROVE  u = v /\ j = k
    BY DEF OneRunPerHelper
  <2>1. /\ j \in DOMAIN stacks[u] /\ stacks[u][j].op = "dep"
        /\ stacks[u][j].tool = stacks'[u][j].tool
    BY <1>3 DEF NoNewDeps
  <2>2. /\ k \in DOMAIN stacks[v] /\ stacks[v][k].op = "dep"
        /\ stacks[v][k].tool = stacks'[v][k].tool
    BY <1>3 DEF NoNewDeps
  <2> QED BY <2>1, <2>2 DEF OneRunPerHelper
<1>5. HelpersMarked'
  <2> SUFFICES ASSUME NEW v \in Workers, NEW k \in DOMAIN stacks'[v], stacks'[v][k].op = "dep"
               PROVE  memo'[stacks'[v][k].tool] = "running"
    BY Zenon DEF HelpersMarked
  <2>1. /\ k \in DOMAIN stacks[v] /\ stacks[v][k].op = "dep"
        /\ stacks[v][k].tool = stacks'[v][k].tool
    BY <1>3 DEF NoNewDeps
  <2>2. memo[stacks[v][k].tool] = "running"
    BY <2>1 DEF HelpersMarked
  <2>3. CASE memo' = memo
    BY <2>1, <2>2, <2>3
  <2>4. ASSUME NEW x \in Tools, NEW k0 \in DOMAIN stacks[w], NEW val \in Good \cup Bad,
               k0 \notin DOMAIN st2, stacks[w][k0].op = "dep", stacks[w][k0].tool = x,
               memo' = [memo EXCEPT ![x] = val]
        PROVE  memo'[stacks'[v][k].tool] = "running"
    <3>1. stacks[v][k].tool # x
      <4> SUFFICES ASSUME stacks[v][k].tool = x PROVE FALSE
        OBVIOUS
      <4>1. v = w /\ k = k0
        BY <2>1, <2>4 DEF OneRunPerHelper
      <4> QED BY <4>1, <2>4, <1>2
    <3> QED BY <3>1, <2>1, <2>2, <2>4, <1>1
  <2> QED BY <2>3, <2>4
<1> QED BY <1>4, <1>5

\* A dependency is called for only when no stack has it.
LEMMA HelpersAdded ==
  ASSUME TypeOK, HelpersMarked, OneRunPerHelper, NEW w \in Workers, NEW d \in Tools,
         memo[d] = "none", memo' = [memo EXCEPT ![d] = "running"],
         stacks' = [stacks EXCEPT ![w] = Append(@, Frame("dep", d))]
  PROVE  HelpersMarked' /\ OneRunPerHelper'
<1> DEFINE f == Frame("dep", d)
           n == Len(stacks[w]) + 1
<1>1. /\ stacks \in [Workers -> Seq(Frames(schema))]
      /\ memo \in [Tools -> Good \cup Bad \cup {"none", "running"}]
  BY DEF TypeOK
<1>2. f.op = "dep" /\ f.tool = d
  BY DEF Frame
<1> HIDE DEF f
<1>3. \A v \in Workers : v # w => stacks'[v] = stacks[v]
  BY <1>1
<1>4. /\ DOMAIN stacks'[w] = 1..n /\ stacks'[w][n] = f
      /\ n \in Nat \ {0}
      /\ \A k \in 1..n : k = n \/ (k \in DOMAIN stacks[w] /\ stacks'[w][k] = stacks[w][k])
  <2>1. stacks'[w] = Append(stacks[w], f) /\ stacks[w] \in Seq(Frames(schema))
    BY <1>1 DEF f
  <2>2. \A F : \A st \in Seq(F) : \A x :
          /\ DOMAIN Append(st, x) = 1..(Len(st) + 1) /\ Append(st, x)[Len(st) + 1] = x
          /\ Len(st) \in Nat /\ DOMAIN st = 1..Len(st)
          /\ \A k \in 1..Len(st) : Append(st, x)[k] = st[k]
    OBVIOUS
  <2> DEFINE l == Len(stacks[w])
  <2>3. /\ DOMAIN stacks'[w] = 1..(l + 1) /\ stacks'[w][l + 1] = f
        /\ l \in Nat /\ DOMAIN stacks[w] = 1..l
        /\ \A k \in 1..l : stacks'[w][k] = stacks[w][k]
    BY <2>1, <2>2
  <2> HIDE DEF l
  <2>4. \A k \in 1..(l + 1) : k = l + 1 \/ k \in 1..l
    BY <2>3
  <2> QED BY <2>3, <2>4 DEF l
<1> HIDE DEF n
\* A dependency on a stack now is the new one or was there.
<1>5. ASSUME NEW v \in Workers, NEW k \in DOMAIN stacks'[v], stacks'[v][k].op = "dep"
      PROVE  \/ v = w /\ k = n /\ stacks'[v][k].tool = d
             \/ /\ k \in DOMAIN stacks[v] /\ stacks'[v][k] = stacks[v][k]
                /\ memo[stacks[v][k].tool] = "running" /\ stacks[v][k].tool # d
  <2>1. CASE v = w /\ k = n
    BY <2>1, <1>2, <1>4
  <2>2. CASE ~(v = w /\ k = n)
    <3>1. k \in DOMAIN stacks[v] /\ stacks'[v][k] = stacks[v][k]
      BY <2>2, <1>3, <1>4
    <3>2. memo[stacks[v][k].tool] = "running"
      BY <3>1, <1>5 DEF HelpersMarked
    <3> QED BY <3>1, <3>2
  <2> QED BY <2>1, <2>2
<1>6. HelpersMarked'
  <2> SUFFICES ASSUME NEW v \in Workers, NEW k \in DOMAIN stacks'[v], stacks'[v][k].op = "dep"
               PROVE  memo'[stacks'[v][k].tool] = "running"
    BY Zenon DEF HelpersMarked
  <2> QED BY <1>1, <1>5
<1>7. OneRunPerHelper'
  <2> SUFFICES ASSUME NEW u \in Workers, NEW v \in Workers,
                      NEW j \in DOMAIN stacks'[u], NEW k \in DOMAIN stacks'[v],
                      stacks'[u][j].op = "dep", stacks'[v][k].op = "dep",
                      stacks'[u][j].tool = stacks'[v][k].tool
               PROVE  u = v /\ j = k
    BY DEF OneRunPerHelper
  <2>1. \/ u = w /\ j = n /\ stacks'[u][j].tool = d
        \/ /\ j \in DOMAIN stacks[u] /\ stacks'[u][j] = stacks[u][j] /\ stacks[u][j].tool # d
    BY <1>5
  <2>2. \/ v = w /\ k = n /\ stacks'[v][k].tool = d
        \/ /\ k \in DOMAIN stacks[v] /\ stacks'[v][k] = stacks[v][k] /\ stacks[v][k].tool # d
    BY <1>5
  <2>3. CASE stacks'[u][j].tool = d
    BY <2>1, <2>2, <2>3
  <2>4. CASE stacks'[u][j].tool # d
    <3>1. /\ j \in DOMAIN stacks[u] /\ stacks[u][j].op = "dep"
          /\ k \in DOMAIN stacks[v] /\ stacks[v][k].op = "dep"
          /\ stacks[u][j].tool = stacks[v][k].tool
      BY <2>1, <2>2, <2>4
    <3> QED BY <3>1 DEF OneRunPerHelper
  <2> QED BY <2>3, <2>4
<1> QED BY <1>6, <1>7

-----------------------------------------------------------------------------
(* What a worker's step leaves.                                            *)

\* One honest result at most is reported or collected.
Reported ==
  \/ UNCHANGED <<report, collected>>
  \/ \E r \in Results(schema) :
       /\ Honest(schema, dryRun, host', r)
       /\ \/ report' = Append(report, r) /\ UNCHANGED collected
          \/ collected' = collected \cup {r} /\ UNCHANGED report

\* The worker's tool is still on its stack, or has its result.
StackLeft(w) ==
  \E st2 \in Seq(Frames(schema)) :
    /\ stacks' = [stacks EXCEPT ![w] = st2]
    /\ FramesOK(schema, dryRun, allowCode, host', st2)
    /\ \/ st2 # <<>> /\ st2[1].tool = stacks[w][1].tool
       \/ \E r \in Results(schema) : /\ r.tool = stacks[w][1].tool
                                     /\ report' = Append(report, r) \/ r \in collected'

Noted ==
  /\ memo' \in [Tools -> Good \cup Bad \cup {"none", "running"}]
  /\ ~dryRun => \A t \in DOMAIN schema : memo'[t] \in Good => There(schema, t, host')

Leaves(w) == Reported /\ StackLeft(w) /\ Noted /\ HelpersMarked' /\ OneRunPerHelper'

LEMMA EffectFacts ==
  ASSUME TypeOK, Phases, StacksOK, ResultsOK, NEW w \in Workers, Busy(w), Justified
  PROVE  /\ stacks[w] \in Seq(Frames(schema)) /\ stacks[w] # <<>> /\ Top(w) = Last(stacks[w])
         /\ Top(w) \in Frames(schema) /\ Top(w).tool \in DOMAIN schema
         /\ DOMAIN schema \subseteq Tools
         /\ FramesOK(schema, dryRun, allowCode, host', stacks[w])
         /\ memo \in [Tools -> Good \cup Bad \cup {"none", "running"}]
         /\ ~dryRun => \A t \in DOMAIN schema : memo[t] \in Good => There(schema, t, host')
         /\ Grows(host, host')
<1>1. /\ stacks[w] \in Seq(Frames(schema)) /\ stacks[w] # <<>> /\ DOMAIN schema \subseteq Tools
      /\ Top(w) \in Frames(schema) /\ Top(w).tool \in DOMAIN schema
  BY TopFacts
<1>2. Grows(host, host')
  BY DEF Justified
<1>3. FramesOK(schema, dryRun, allowCode, host, stacks[w])
  BY DEF StacksOK
<1>4. FramesOK(schema, dryRun, allowCode, host', stacks[w])
  BY <1>1, <1>2, <1>3, FramesStay
<1>5. ~dryRun => \A t \in DOMAIN schema : memo[t] \in Good => There(schema, t, host')
  BY <1>1, <1>2, ThereStays, Zenon DEF ResultsOK
<1> QED BY <1>1, <1>2, <1>4, <1>5 DEF TypeOK, Top

LEMMA StaysLeaves ==
  ASSUME TypeOK, Phases, StacksOK, ResultsOK, HelpersMarked, OneRunPerHelper,
         NEW w \in Workers, Busy(w), Justified, NEW f, Stays(w, f)
  PROVE  Leaves(w)
<1> DEFINE st == stacks[w]
           st2 == Append(Front(st), f)
<1>1. /\ f \in Frames(schema) /\ f.op = Last(st).op /\ f.tool = Last(st).tool
      /\ FrameOK(schema, dryRun, allowCode, host', f)
      /\ stacks' = [stacks EXCEPT ![w] = st2] /\ UNCHANGED <<report, collected, memo>>
  BY DEF Stays, SetTop, Top
<1>2. /\ st \in Seq(Frames(schema)) /\ st # <<>>
      /\ FramesOK(schema, dryRun, allowCode, host', st)
  BY EffectFacts
<1>3. /\ st2 \in Seq(Frames(schema)) /\ st2 # <<>>
      /\ FramesOK(schema, dryRun, allowCode, host', st2)
      /\ NoNewDeps(st, st2) /\ st2[1].tool = st[1].tool
  <2> HIDE DEF st
  <2>1. GoodStack(schema, dryRun, allowCode, host', st)
    BY <1>2 DEF GoodStack
  <2>2. st2 = Append(Front(st), f)
    OBVIOUS
  <2> HIDE DEF st2
  <2>3. GoodStack(schema, dryRun, allowCode, host', st2)
    BY <1>1, <2>1, <2>2, ReplaceTop, Zenon
  <2>4. From(st, st2)
    BY <1>1, <2>1, <2>2, ReplaceTop, Zenon
  <2> QED BY <2>3, <2>4 DEF GoodStack, From
<1> HIDE DEF st2
<1>4. HelpersMarked' /\ OneRunPerHelper'
  BY <1>1, <1>3, HelpersStay
<1>5. Noted
  BY <1>1, EffectFacts DEF Noted
<1> QED BY <1>1, <1>3, <1>4, <1>5 DEF Leaves, Reported, StackLeft

LEMMA CallsLeaves ==
  ASSUME TypeOK, Phases, StacksOK, ResultsOK, HelpersMarked, OneRunPerHelper,
         NEW w \in Workers, Busy(w), Justified, NEW d, Calls(w, d)
  PROVE  Leaves(w)
<1> DEFINE st == stacks[w]
           f == Frame("dep", d)
           st2 == Append(st, f)
<1>1. /\ d \in DOMAIN schema /\ memo[d] = "none" /\ memo' = [memo EXCEPT ![d] = "running"]
      /\ stacks' = [stacks EXCEPT ![w] = st2] /\ UNCHANGED <<report, collected>>
  BY DEF Calls
<1>2. /\ st \in Seq(Frames(schema)) /\ st # <<>> /\ DOMAIN schema \subseteq Tools
      /\ FramesOK(schema, dryRun, allowCode, host', st)
      /\ memo \in [Tools -> Good \cup Bad \cup {"none", "running"}]
      /\ ~dryRun => \A t \in DOMAIN schema : memo[t] \in Good => There(schema, t, host')
  BY EffectFacts
<1>3. f \in Frames(schema) /\ f.op = "dep" /\ f.tool = d /\ f.pc = "req" /\ f.i = 1
  BY <1>1 DEF Frame, Frames
<1>4. FrameOK(schema, dryRun, allowCode, host', f)
  <2>1. EffectiveRequires(schema[d]) \in Seq(Tools)
    BY <1>1, SchemaTypes DEF TypeOK
  <2>2. \A j \in DOMAIN EffectiveRequires(schema[d]) : ~(j < 1)
    BY <2>1
  <2> HIDE DEF f
  <2> QED BY <1>3, <2>2 DEF FrameOK
<1> HIDE DEF f
<1>5. /\ st2 \in Seq(Frames(schema)) /\ st2 # <<>>
      /\ FramesOK(schema, dryRun, allowCode, host', st2) /\ st2[1].tool = st[1].tool
  <2> HIDE DEF st
  <2>1. GoodStack(schema, dryRun, allowCode, host', st)
    BY <1>2 DEF GoodStack
  <2>2. st2 = Append(st, f) /\ Ends(st, st[Len(st)])
    BY DEF Ends
  <2> HIDE DEF st2
  <2>3. GoodStack(schema, dryRun, allowCode, host', st2)
    BY <1>3, <1>4, <2>1, <2>2, Push, Zenon
  <2>4. st2[1].tool = st[1].tool
    <3>1. st # <<>> /\ st \in Seq(Frames(schema)) /\ f \in Frames(schema)
      BY <1>2, <1>3
    <3> QED BY <2>2, <3>1
  <2> QED BY <2>3, <2>4 DEF GoodStack
<1>6. HelpersMarked' /\ OneRunPerHelper'
  BY <1>1, <1>2, HelpersAdded DEF f
<1>7. Noted
  BY <1>1, <1>2 DEF Noted, Good
<1> HIDE DEF st2
<1> QED BY <1>1, <1>5, <1>6, <1>7 DEF Leaves, Reported, StackLeft

LEMMA GivesUpLeaves ==
  ASSUME TypeOK, Phases, StacksOK, ResultsOK, HelpersMarked, OneRunPerHelper,
         NEW w \in Workers, Busy(w), Justified, GivesUp(w)
  PROVE  Leaves(w)
<1> DEFINE st == stacks[w]
           st2 == Front(st)
           n == Len(st)
           x == Top(w).tool
           r == Result(x, "failed")
<1>1. /\ Top(w).op = "dep" /\ stacks' = [stacks EXCEPT ![w] = st2]
      /\ report' = Append(report, r) /\ memo' = [memo EXCEPT ![x] = "failed"]
      /\ UNCHANGED collected
  BY DEF GivesUp
<1>2. /\ st \in Seq(Frames(schema)) /\ st # <<>> /\ DOMAIN schema \subseteq Tools
      /\ Top(w) = Last(st) /\ x \in DOMAIN schema
      /\ FramesOK(schema, dryRun, allowCode, host', st)
      /\ memo \in [Tools -> Good \cup Bad \cup {"none", "running"}]
      /\ ~dryRun => \A t \in DOMAIN schema : memo[t] \in Good => There(schema, t, host')
  BY EffectFacts
<1>3. n \in Nat \ {0} /\ Top(w) = st[n] /\ DOMAIN st = 1..n
  BY <1>2, StackOps
<1>4. n # 1
  <2>1. st[1].op = "tool"
    BY <1>2 DEF FramesOK
  <2> HIDE DEF st, n
  <2> QED BY <2>1, <1>1, <1>3
<1>5. /\ st2 \in Seq(Frames(schema)) /\ FramesOK(schema, dryRun, allowCode, host', st2)
      /\ NoNewDeps(st, st2) /\ DOMAIN st2 = 1..(n - 1)
      /\ st2 # <<>> /\ st2[1].tool = st[1].tool
  <2>1. st2 = Front(st) /\ Len(st) # 1
    BY <1>4
  <2> HIDE DEF st, st2
  <2>2. st \in Seq(Frames(schema)) /\ st # <<>> /\ FramesOK(schema, dryRun, allowCode, host', st)
    BY <1>2
  <2> QED BY <2>1, <2>2, Pop
<1>6. r \in Results(schema) /\ Honest(schema, dryRun, host', r)
  BY <1>2 DEF Result, Results, Honest, Seen, Good, Bad
<1> HIDE DEF st2, r, n
<1>7. HelpersMarked' /\ OneRunPerHelper'
  <2>1. n \in DOMAIN st /\ n \notin DOMAIN st2 /\ st[n].op = "dep" /\ st[n].tool = x /\ x \in Tools
    BY <1>1, <1>2, <1>3, <1>5
  <2>2. "failed" \in Good \cup Bad
    BY DEF Bad
  <2> HIDE DEF x
  <2>3. \E y \in Tools, k0 \in DOMAIN stacks[w], v \in Good \cup Bad :
          /\ k0 \notin DOMAIN st2 /\ stacks[w][k0].op = "dep" /\ stacks[w][k0].tool = y
          /\ memo' = [memo EXCEPT ![y] = v]
    BY <1>1, <2>1, <2>2
  <2> QED BY <1>1, <1>5, <2>3, HelpersStay
<1>8. Noted
  <2>1. "failed" \notin Good /\ "failed" \in Bad
    BY DEF Good, Bad
  <2> HIDE DEF x
  <2> QED BY <1>1, <1>2, <2>1 DEF Noted
<1> QED BY <1>1, <1>5, <1>6, <1>7, <1>8 DEF Leaves, Reported, StackLeft

LEMMA GoesOnLeaves ==
  ASSUME TypeOK, Phases, StacksOK, ResultsOK, HelpersMarked, OneRunPerHelper,
         NEW w \in Workers, Busy(w), Justified, GoesOn(w)
  PROVE  Leaves(w)
<1> DEFINE st == stacks[w]
           f == [Top(w) EXCEPT !.pc = "running"]
           g == Frame("tool", Top(w).tool)
           st1 == Append(Front(st), f)
           st2 == Append(st1, g)
<1>1. /\ Top(w).op = "dep"
      /\ ~dryRun => NeedsThere(schema, Top(w).tool, host)
      /\ stacks' = [stacks EXCEPT ![w] = st2] /\ UNCHANGED <<report, collected, memo>>
  BY DEF GoesOn
<1>2. /\ st \in Seq(Frames(schema)) /\ st # <<>> /\ DOMAIN schema \subseteq Tools
      /\ Top(w) = Last(st) /\ Top(w) \in Frames(schema) /\ Top(w).tool \in DOMAIN schema
      /\ FramesOK(schema, dryRun, allowCode, host', st) /\ Grows(host, host')
  BY EffectFacts
<1>3. ~dryRun => NeedsThere(schema, Top(w).tool, host')
  BY <1>1, <1>2, NeedsStay
<1>4. /\ f \in Frames(schema) /\ f.op = "dep" /\ f.tool = Top(w).tool /\ f.pc = "running"
      /\ g \in Frames(schema) /\ g.op = "tool" /\ g.tool = Top(w).tool /\ g.pc = "start"
  <2>1. /\ f \in Frames(schema) /\ f.op = "dep" /\ f.tool = Top(w).tool /\ f.pc = "running"
    <3>1. Top(w) \in Frames(schema) /\ Top(w).op = "dep"
      BY <1>1, <1>2
    <3> QED BY <3>1 DEF Frames
  <2>2. /\ g \in Frames(schema) /\ g.op = "tool" /\ g.tool = Top(w).tool /\ g.pc = "start"
    <3>1. Top(w).tool \in DOMAIN schema
      BY <1>2
    <3> QED BY <3>1 DEF Frame, Frames
  <2> QED BY <2>1, <2>2
<1> HIDE DEF f, g
<1>5. FrameOK(schema, dryRun, allowCode, host', f)
  BY <1>3, <1>4 DEF FrameOK, NeedsThere, Range
<1>6. FrameOK(schema, dryRun, allowCode, host', g)
  BY <1>3, <1>4 DEF FrameOK
<1>7. GoodStack(schema, dryRun, allowCode, host', st1) /\ From(st, st1) /\ Ends(st1, f)
  <2> HIDE DEF st
  <2>1. GoodStack(schema, dryRun, allowCode, host', st)
    BY <1>2 DEF GoodStack
  <2>2. f.op = Last(st).op /\ f.tool = Last(st).tool
    BY <1>1, <1>2, <1>4
  <2>3. st1 = Append(Front(st), f)
    OBVIOUS
  <2> HIDE DEF st1
  <2> QED BY <1>4, <1>5, <2>1, <2>2, <2>3, ReplaceTop, Zenon
<1> HIDE DEF st1
<1>9. GoodStack(schema, dryRun, allowCode, host', st2) /\ From(st1, st2)
  <2>1. st2 = Append(st1, g)
    OBVIOUS
  <2>2. f.op = "dep" /\ f.tool = g.tool
    BY <1>4
  <2> HIDE DEF st2
  <2> QED BY <1>4, <1>6, <1>7, <2>1, <2>2, Push, Zenon
<1> HIDE DEF st2
<1>10. From(st, st2)
  BY <1>7, <1>9 DEF From, NoNewDeps
<1>11. HelpersMarked' /\ OneRunPerHelper'
  BY <1>1, <1>9, <1>10, HelpersStay DEF GoodStack, From
<1>12. Noted
  BY <1>1, EffectFacts DEF Noted
<1> QED BY <1>1, <1>9, <1>10, <1>11, <1>12 DEF Leaves, Reported, StackLeft, GoodStack, From

LEMMA ReturnsLeaves ==
  ASSUME TypeOK, Phases, StacksOK, ResultsOK, HelpersMarked, OneRunPerHelper,
         NEW w \in Workers, Busy(w), Justified, NEW r, Returns(w, r)
  PROVE  Leaves(w)
<1> DEFINE st == stacks[w]
           n == Len(st)
           st1 == Front(st)
           st2 == Front(st1)
<1>1. /\ Top(w).op = "tool" /\ r \in Results(schema) /\ r.tool = Top(w).tool
      /\ Honest(schema, dryRun, host', r)
      /\ \/ /\ n > 1 /\ stacks' = [stacks EXCEPT ![w] = st2]
            /\ report' = Append(report, r) /\ UNCHANGED collected
            /\ memo' = [memo EXCEPT ![r.tool] = r.status]
         \/ /\ ~(n > 1) /\ stacks' = [stacks EXCEPT ![w] = <<>>] /\ UNCHANGED memo
            /\ \/ collected' = collected \cup {r} /\ UNCHANGED report
               \/ report' = Append(report, r) /\ UNCHANGED collected
  BY Zenon DEF Returns, Finish, Lazy
<1>2. /\ st \in Seq(Frames(schema)) /\ st # <<>> /\ DOMAIN schema \subseteq Tools
      /\ Top(w) = Last(st) /\ Top(w).tool \in DOMAIN schema
      /\ FramesOK(schema, dryRun, allowCode, host', st)
      /\ memo \in [Tools -> Good \cup Bad \cup {"none", "running"}]
      /\ ~dryRun => \A t \in DOMAIN schema : memo[t] \in Good => There(schema, t, host')
  BY EffectFacts
<1>3. n \in Nat \ {0} /\ Top(w) = st[n] /\ DOMAIN st = 1..n
  BY <1>2, StackOps
<1>4. Reported
  BY <1>1, Zenon DEF Reported
<1>5. r.tool \in Tools /\ r.status \in Good \cup Bad
  BY <1>1, <1>2 DEF Results
<1>6. CASE n > 1
  <2>1. /\ stacks' = [stacks EXCEPT ![w] = st2] /\ report' = Append(report, r)
        /\ memo' = [memo EXCEPT ![r.tool] = r.status]
    BY <1>1, <1>6
  <2>2. /\ st1 \in Seq(Frames(schema)) /\ FramesOK(schema, dryRun, allowCode, host', st1)
        /\ NoNewDeps(st, st1) /\ DOMAIN st1 = 1..(n - 1) /\ Len(st1) = n - 1
        /\ st1 # <<>> /\ st1[1].tool = st[1].tool
    <3>1. n # 1
      <4> HIDE DEF n
      <4> QED BY <1>6
    <3>2. st1 = Front(st) /\ Len(st) # 1
      BY <3>1
    <3> HIDE DEF st, st1
    <3>3. st \in Seq(Frames(schema)) /\ st # <<>> /\ FramesOK(schema, dryRun, allowCode, host', st)
      BY <1>2
    <3> QED BY <3>2, <3>3, Pop
  <2>3. n - 1 \in DOMAIN st /\ st[n - 1].op = "dep" /\ st[n - 1].tool = r.tool
    <3>1. n \in DOMAIN st /\ n # 1
      <4> HIDE DEF n
      <4> QED BY <1>3, <1>6
    <3>2. Stacked(st) /\ st[n].op = "tool" /\ st[n].tool = r.tool
      BY <1>1, <1>2, <1>3 DEF FramesOK
    <3> HIDE DEF n, st
    <3> QED BY <3>1, <3>2, Zenon DEF Stacked
  <2>4. n - 1 # 1
    <3>1. st[1].op = "tool"
      BY <1>2 DEF FramesOK
    <3> HIDE DEF n, st
    <3> QED BY <3>1, <2>3
  <2> HIDE DEF st1
  <2>5. /\ st2 \in Seq(Frames(schema)) /\ FramesOK(schema, dryRun, allowCode, host', st2)
        /\ NoNewDeps(st1, st2) /\ DOMAIN st2 = 1..(Len(st1) - 1)
        /\ st2 # <<>> /\ st2[1].tool = st1[1].tool
    <3>1. st2 = Front(st1) /\ Len(st1) # 1
      BY <2>2, <2>4
    <3> HIDE DEF st2
    <3>2. /\ st1 \in Seq(Frames(schema)) /\ st1 # <<>>
          /\ FramesOK(schema, dryRun, allowCode, host', st1)
      BY <2>2
    <3>3. /\ st2 \in Seq(Frames(schema)) /\ FramesOK(schema, dryRun, allowCode, host', st2)
          /\ NoNewDeps(st1, st2) /\ DOMAIN st2 = 1..(Len(st1) - 1)
          /\ st2 # <<>> /\ st2[1].tool = st1[1].tool
      BY <3>1, <3>2, Pop
    <3> QED BY <3>3
  <2> HIDE DEF st2
  <2>6. NoNewDeps(st, st2)
    BY <2>2, <2>5 DEF NoNewDeps
  <2>7. HelpersMarked' /\ OneRunPerHelper'
    <3>1. n - 1 \notin DOMAIN st2
      <4> HIDE DEF n
      <4> QED BY <2>2, <2>5, <1>3
    <3> HIDE DEF n
    <3>2. \E y \in Tools, k0 \in DOMAIN stacks[w], v \in Good \cup Bad :
            /\ k0 \notin DOMAIN st2 /\ stacks[w][k0].op = "dep" /\ stacks[w][k0].tool = y
            /\ memo' = [memo EXCEPT ![y] = v]
      BY <1>5, <2>1, <2>3, <3>1
    <3> QED BY <2>1, <2>5, <2>6, <3>2, HelpersStay
  <2>8. Noted
    <3>1. ~dryRun /\ r.status \in Good => There(schema, r.tool, host')
      BY <1>1 DEF Honest
    <3> QED BY <1>2, <1>5, <2>1, <3>1 DEF Noted
  <2> QED BY <1>4, <2>1, <2>2, <2>5, <2>7, <2>8 DEF Leaves, StackLeft
<1>7. CASE ~(n > 1)
  <2>1. /\ stacks' = [stacks EXCEPT ![w] = <<>>] /\ UNCHANGED memo
        /\ report' = Append(report, r) \/ r \in collected'
    BY <1>1, <1>7
  <2>2. r.tool = st[1].tool
    <3>1. n = 1
      <4> HIDE DEF n
      <4> QED BY <1>3, <1>7
    <3> QED BY <3>1, <1>1, <1>3
  <2>3. /\ <<>> \in Seq(Frames(schema)) /\ FramesOK(schema, dryRun, allowCode, host', <<>>)
        /\ NoNewDeps(st, <<>>)
    BY DEF FramesOK, Stacked, NoNewDeps
  <2>4. HelpersMarked' /\ OneRunPerHelper'
    BY <2>1, <2>3, HelpersStay
  <2>5. Noted
    BY <1>2, <2>1 DEF Noted
  <2>6. StackLeft(w)
    BY <1>1, <2>1, <2>2, <2>3, Zenon DEF StackLeft
  <2> QED BY <1>4, <2>4, <2>5, <2>6 DEF Leaves
<1> QED BY <1>6, <1>7

LEMMA EffectLeaves ==
  ASSUME TypeOK, Phases, StacksOK, ResultsOK, HelpersMarked, OneRunPerHelper,
         NEW w \in Workers, Effect(w)
  PROVE  Leaves(w)
<1>1. Busy(w) /\ Justified /\ Steps(w)
  BY DEF Effect
<1> QED BY <1>1, StaysLeaves, CallsLeaves, ReturnsLeaves, GivesUpLeaves, GoesOnLeaves DEF Steps

-----------------------------------------------------------------------------
(* What no step takes back.                                                *)

Extends(rep, rep2) == \A k \in DOMAIN rep : k \in DOMAIN rep2 /\ rep2[k] = rep[k]

LEMMA RecordedStays ==
  ASSUME Extends(report, report'), NEW t, Recorded(t) # {}
  PROVE  Recorded(t)' # {}
<1>1. PICK k \in DOMAIN report : report[k].tool = t
  BY DEF Recorded
<1>2. k \in DOMAIN report' /\ report'[k].tool = t
  BY <1>1 DEF Extends
<1> QED BY <1>2 DEF Recorded

LEMMA FirstStays ==
  ASSUME schema' = schema, NEW t
  PROVE  FirstApplicable(t)' = FirstApplicable(t)
BY Zenon DEF FirstApplicable, Methods

LEMMA BehindStays ==
  ASSUME TypeOK, Behind, UNCHANGED <<given, levels, level>>, failed \subseteq failed',
         cancelled => cancelled',
         Grows(host, host'), Extends(report, report')
  PROVE  Behind'
<1> SUFFICES ASSUME ~cancelled', NEW k \in DOMAIN levels, k < level, NEW t \in Range(levels[k])
             PROVE  /\ Recorded(t)' # {}
                    /\ ~dryRun => t \in failed' \/ There(schema, t, host')
  BY Zenon DEF Behind, given
<1>1. /\ Recorded(t) # {}
      /\ ~dryRun => t \in failed \/ There(schema, t, host)
  <2>1. ~cancelled
    OBVIOUS
  <2> QED BY <2>1 DEF Behind
<1>2. DOMAIN schema \subseteq Tools
  BY SchemaTypes DEF TypeOK
<1> QED BY <1>1, <1>2, RecordedStays, ThereStays

LEMMA WaitingStays ==
  ASSUME TypeOK, Waiting, UNCHANGED given, Grows(host, host'),
         Range(queue') \subseteq Range(queue) \cup Range(batch), Range(batch') \subseteq Range(batch)
  PROVE  Waiting'
<1>1. DOMAIN schema \subseteq Tools /\ schema' = schema /\ dryRun' = dryRun /\ allowCode' = allowCode
  BY SchemaTypes DEF TypeOK, given
<1>2. ASSUME ~dryRun, NEW t \in Range(queue) \cup Range(batch)
      PROVE  NeedsThere(schema, t, host')
  <2>1. NeedsThere(schema, t, host)
    BY <1>2 DEF Waiting, WaitingOK
  <2> QED BY <2>1, <1>1, NeedsStay
<1>3. /\ WaitingOK(schema, dryRun, host', queue')
      /\ WaitingOK(schema, dryRun, host', batch')
  BY <1>2 DEF WaitingOK
<1>4. \A t \in Range(batch') : ~Risky(schema, allowCode, t) /\ FirstApplicable(t)' # 0
  BY <1>1, FirstStays DEF Waiting
<1> QED BY <1>1, <1>3, <1>4, Zenon DEF Waiting

LEMMA StacksStay ==
  ASSUME TypeOK, StacksOK, UNCHANGED <<given, stacks>>, Grows(host, host')
  PROVE  StacksOK'
<1>1. DOMAIN schema \subseteq Tools
  BY SchemaTypes DEF TypeOK
<1>2. ASSUME NEW v \in Workers
      PROVE  FramesOK(schema, dryRun, allowCode, host', stacks[v])
  <2>1. FramesOK(schema, dryRun, allowCode, host, stacks[v]) /\ stacks[v] \in Seq(Frames(schema))
    BY DEF StacksOK, TypeOK
  <2> QED BY <1>1, <2>1, FramesStay
<1> QED BY <1>2, Zenon DEF StacksOK, given

LEMMA HelpersSame ==
  ASSUME HelpersMarked, OneRunPerHelper, UNCHANGED <<stacks, memo>>
  PROVE  HelpersMarked' /\ OneRunPerHelper'
BY DEF HelpersMarked, OneRunPerHelper

LEMMA MemoStays ==
  ASSUME TypeOK, ResultsOK, Grows(host, host'), UNCHANGED memo
  PROVE  Noted
<1>1. DOMAIN schema \subseteq Tools
  BY SchemaTypes DEF TypeOK
<1>2. ~dryRun => \A t \in DOMAIN schema : memo[t] \in Good => There(schema, t, host')
  BY <1>1, ThereStays, Zenon DEF ResultsOK
<1> QED BY <1>2 DEF Noted, TypeOK

LEMMA ResultsStay ==
  ASSUME TypeOK, ResultsOK, UNCHANGED given, Grows(host, host'), Extends(report, report'), Noted,
         phase' \notin {"write", "done"} => phase \notin {"write", "done"},
         \A k \in DOMAIN report' : k \in DOMAIN report \/
           (/\ Seen(host', report'[k])
            /\ phase' \notin {"write", "done"} => Honest(schema, dryRun, host', report'[k])),
         \A r \in collected' : r \in collected \/ Honest(schema, dryRun, host', r)
  PROVE  ResultsOK'
<1>1. /\ DOMAIN schema \subseteq Tools /\ schema' = schema /\ dryRun' = dryRun
      /\ recovered' = recovered /\ recovered \in SUBSET DOMAIN schema
      /\ \A k \in DOMAIN report : report[k] \in Results(schema)
      /\ \A r \in collected : r \in Results(schema)
  BY SchemaTypes DEF TypeOK, given
<1>2. ASSUME NEW k \in DOMAIN report'
      PROVE  /\ Seen(host', report'[k])
             /\ phase' \notin {"write", "done"} => Honest(schema, dryRun, host', report'[k])
  <2>1. CASE k \in DOMAIN report
    <3>1. report'[k] = report[k] /\ report[k] \in Results(schema)
      BY <2>1, <1>1 DEF Extends
    <3>2. /\ Seen(host, report[k])
          /\ phase \notin {"write", "done"} => Honest(schema, dryRun, host, report[k])
      BY <2>1, Zenon DEF ResultsOK
    <3> QED BY <3>1, <3>2, <1>1, HonestStays
  <2>2. CASE k \notin DOMAIN report
    BY <2>2
  <2> QED BY <2>1, <2>2
<1>3. ASSUME NEW r \in collected' PROVE Honest(schema, dryRun, host', r)
  <2>1. CASE r \in collected
    <3>1. r \in Results(schema) /\ Honest(schema, dryRun, host, r)
      BY <2>1, <1>1 DEF ResultsOK
    <3> QED BY <3>1, <1>1, HonestStays
  <2>2. CASE r \notin collected
    BY <2>2
  <2> QED BY <2>1, <2>2
<1>4. ASSUME NEW t \in recovered
      PROVE  schema[t].methods # <<>> /\ host'[t] # {} /\ Recorded(t)' # {}
  <2>1. schema[t].methods # <<>> /\ host[t] # {} /\ Recorded(t) # {} /\ t \in Tools
    BY <1>1 DEF ResultsOK
  <2> QED BY <2>1, RecordedStays DEF Grows
<1>5. ~dryRun => \A t \in DOMAIN schema : memo'[t] \in Good => There(schema, t, host')
  BY DEF Noted
<1> QED BY <1>1, <1>2, <1>3, <1>4, <1>5, Zenon DEF ResultsOK

\* What a report gains: these results, all of them and no other.
Adds(rep, rep2, S) ==
  /\ \A k \in DOMAIN rep2 : k \in DOMAIN rep \/ rep2[k] \in S
  /\ \A r \in S : \E k \in DOMAIN rep2 : rep2[k] = r

LEMMA AppendExtends ==
  ASSUME NEW D, NEW rep \in Seq(D), NEW r \in D, NEW rep2, rep2 = Append(rep, r)
  PROVE  rep2 \in Seq(D) /\ Extends(rep, rep2) /\ Adds(rep, rep2, {r})
<1> DEFINE n == Len(rep)
<1>1. /\ rep2 \in Seq(D) /\ n \in Nat /\ DOMAIN rep = 1..n /\ DOMAIN rep2 = 1..(n + 1)
      /\ rep2[n + 1] = r /\ \A k \in 1..n : rep2[k] = rep[k]
  OBVIOUS
<1> HIDE DEF n
<1>2. n + 1 \in 1..(n + 1) /\ \A k \in 1..(n + 1) : k \in 1..n \/ k = n + 1
  BY <1>1
<1>3. 1..n \subseteq 1..(n + 1)
  BY <1>1
<1> QED BY <1>1, <1>2, <1>3 DEF Extends, Adds

LEMMA ConcatExtends ==
  ASSUME NEW D, NEW rep \in Seq(D), NEW q \in Seq(D), NEW rep2, rep2 = rep \o q
  PROVE  rep2 \in Seq(D) /\ Extends(rep, rep2) /\ Adds(rep, rep2, Range(q))
<1>1. /\ rep2 \in Seq(D)
      /\ \A k \in DOMAIN rep : rep2[k] = rep[k] /\ k \in DOMAIN rep2
  OBVIOUS
<1>2. \A k \in DOMAIN q : rep2[Len(rep) + k] = q[k] /\ Len(rep) + k \in DOMAIN rep2
  OBVIOUS
<1>3. \A k \in DOMAIN rep2 :
        k \in DOMAIN rep \/ (k - Len(rep) \in DOMAIN q /\ rep2[k] = q[k - Len(rep)])
  OBVIOUS
<1>4. \A k \in DOMAIN rep2 : k \in DOMAIN rep \/ rep2[k] \in Range(q)
  BY <1>3, Zenon DEF Range
<1>5. \A r \in Range(q) : \E k \in DOMAIN rep2 : rep2[k] = r
  BY <1>2, Zenon DEF Range
<1> QED BY <1>1, <1>4, <1>5 DEF Extends, Adds

-----------------------------------------------------------------------------
(* The steps of the workers.                                               *)

LEMMA ReportedFacts ==
  ASSUME TypeOK, Reported
  PROVE  /\ report' \in Seq(Results(schema)) /\ Extends(report, report')
         /\ collected' \in SUBSET Results(schema) /\ IsFiniteSet(collected')
         /\ collected \subseteq collected'
         /\ \A k \in DOMAIN report' :
              k \in DOMAIN report \/ Honest(schema, dryRun, host', report'[k])
         /\ \A r \in collected' : r \in collected \/ Honest(schema, dryRun, host', r)
<1>1. /\ report \in Seq(Results(schema))
      /\ collected \in SUBSET Results(schema) /\ IsFiniteSet(collected)
  BY DEF TypeOK
<1>2. CASE UNCHANGED <<report, collected>>
  BY <1>1, <1>2 DEF Extends
<1>3. ASSUME NEW r \in Results(schema), Honest(schema, dryRun, host', r),
             report' = Append(report, r), UNCHANGED collected
      PROVE  /\ report' \in Seq(Results(schema)) /\ Extends(report, report')
             /\ \A k \in DOMAIN report' :
                  k \in DOMAIN report \/ Honest(schema, dryRun, host', report'[k])
  <2> DEFINE D == Results(schema)
  <2>0. report \in Seq(D) /\ r \in D /\ report' = Append(report, r)
    BY <1>1, <1>3
  <2> HIDE DEF D
  <2>1. report' \in Seq(D) /\ Extends(report, report') /\ Adds(report, report', {r})
    BY <2>0, AppendExtends
  <2> QED BY <1>3, <2>1 DEF D, Adds
<1>4. ASSUME NEW r \in Results(schema), Honest(schema, dryRun, host', r),
             collected' = collected \cup {r}, UNCHANGED report
      PROVE  /\ collected' \in SUBSET Results(schema) /\ IsFiniteSet(collected')
             /\ collected \subseteq collected'
             /\ \A q \in collected' : q \in collected \/ Honest(schema, dryRun, host', q)
  <2>1. IsFiniteSet(collected \cup {r})
    BY <1>1, FS_AddElement
  <2> QED BY <1>1, <1>4, <2>1
<1>5. \A k \in DOMAIN report : k \in DOMAIN report
  OBVIOUS
<1>6. Extends(report, report)
  BY DEF Extends
<1> QED BY <1>1, <1>2, <1>3, <1>4, <1>6 DEF Reported

\* What a tool of the level had, a result or somewhere to be run, it has still.
LEMMA CoveredStays ==
  ASSUME TypeOK, Phases, Covered, NEW w \in Workers, Busy(w), StackLeft(w),
         Extends(report, report'), collected \subseteq collected',
         UNCHANGED <<levels, level, phase, batch, queue, cancelled>>
  PROVE  Covered'
<1>1. phase \in Running
  BY DEF Phases, Busy
<1>2. PICK st2 \in Seq(Frames(schema)) :
        /\ stacks' = [stacks EXCEPT ![w] = st2]
        /\ \/ st2 # <<>> /\ st2[1].tool = stacks[w][1].tool
           \/ \E r \in Results(schema) : /\ r.tool = stacks[w][1].tool
                                         /\ report' = Append(report, r) \/ r \in collected'
  BY DEF StackLeft
<1>3. /\ stacks \in [Workers -> Seq(Frames(schema))] /\ report \in Seq(Results(schema))
  BY DEF TypeOK
<1>4. stacks'[w] = st2 /\ \A v \in Workers : v # w => stacks'[v] = stacks[v]
  BY <1>2, <1>3
<1>5. ASSUME ~cancelled, NEW t \in LevelTools
      PROVE  Recorded(t)' # {} \/ Underway(t)'
  <2>1. Recorded(t) # {} \/ Underway(t)
    BY <1>1, <1>5 DEF Covered
  <2>2. CASE Recorded(t) # {}
    BY <2>2, RecordedStays
  <2>3. CASE t \in Range(batch) \/ t \in Range(queue)
    BY <2>3 DEF Underway
  <2>4. ASSUME NEW r \in collected, r.tool = t PROVE Underway(t)'
    BY <2>4 DEF Underway
  <2>5. ASSUME NEW v \in Workers, stacks[v] # <<>>, stacks[v][1].tool = t
        PROVE  Recorded(t)' # {} \/ Underway(t)'
    <3>1. CASE v # w
      BY <3>1, <2>5, <1>4 DEF Underway
    <3>2. CASE v = w /\ st2 # <<>> /\ st2[1].tool = stacks[w][1].tool
      BY <3>2, <2>5, <1>4 DEF Underway
    <3>3. ASSUME v = w, NEW r \in Results(schema), r.tool = stacks[w][1].tool,
                 report' = Append(report, r)
          PROVE  Recorded(t)' # {}
      <4>1. \E k \in DOMAIN report' : report'[k] = r
        <5>1. Adds(report, report', {r})
          BY <3>3, <1>3, AppendExtends
        <5> QED BY <5>1 DEF Adds
      <4> QED BY <4>1, <3>3, <2>5 DEF Recorded
    <3>4. ASSUME v = w, NEW r \in Results(schema), r.tool = stacks[w][1].tool, r \in collected'
          PROVE  Underway(t)'
      BY <3>4, <2>5 DEF Underway
    <3> QED BY <1>2, <3>1, <3>2, <3>3, <3>4
  <2> QED BY <2>1, <2>2, <2>3, <2>4, <2>5 DEF Underway
<1>6. LevelTools' = LevelTools
  BY DEF LevelTools
<1> QED BY <1>1, <1>5, <1>6 DEF Covered, Running

LEMMA LeavesKeeps ==
  ASSUME IInv, NEW w \in Workers, Busy(w), Justified, Leaves(w),
         UNCHANGED <<given, levels, level, phase, batch, queue, failed, cancelled>>
  PROVE  IInv'
<1>1. /\ TypeOK /\ Phases /\ StacksOK /\ HelpersMarked /\ OneRunPerHelper
      /\ Waiting /\ ResultsOK /\ Behind /\ Covered
  BY DEF IInv
<1>2. /\ Busy(w) /\ Justified
      /\ UNCHANGED <<given, levels, level, phase, batch, queue, failed, cancelled>>
  OBVIOUS
<1>3. Reported /\ StackLeft(w) /\ Noted /\ HelpersMarked' /\ OneRunPerHelper'
  BY DEF Leaves
<1>4. /\ report' \in Seq(Results(schema)) /\ Extends(report, report')
      /\ collected' \in SUBSET Results(schema) /\ IsFiniteSet(collected')
      /\ collected \subseteq collected'
      /\ \A k \in DOMAIN report' :
           k \in DOMAIN report \/ Honest(schema, dryRun, host', report'[k])
      /\ \A r \in collected' : r \in collected \/ Honest(schema, dryRun, host', r)
  BY <1>1, <1>3, ReportedFacts
<1>5. host' \in [Tools -> SUBSET Nat] /\ Grows(host, host')
  BY <1>2 DEF Justified
<1>6. PICK st2 \in Seq(Frames(schema)) :
        /\ stacks' = [stacks EXCEPT ![w] = st2]
        /\ FramesOK(schema, dryRun, allowCode, host', st2)
  BY <1>3 DEF StackLeft
<1>7. /\ schema' = schema /\ dryRun' = dryRun /\ allowCode' = allowCode /\ recovered' = recovered
      /\ levels' = levels /\ level' = level /\ phase' = phase /\ batch' = batch
      /\ queue' = queue /\ failed' = failed /\ cancelled' = cancelled
  BY <1>2 DEF given
<1>8. stacks \in [Workers -> Seq(Frames(schema))] /\ DOMAIN schema \subseteq Tools
  BY <1>1, SchemaTypes DEF TypeOK
<1>9. /\ stacks' \in [Workers -> Seq(Frames(schema))]
      /\ \A v \in Workers : stacks'[v] = IF v = w THEN st2 ELSE stacks[v]
  BY <1>6, <1>8
<1>10. TypeOK'
  BY <1>1, <1>3, <1>4, <1>5, <1>7, <1>9 DEF TypeOK, Noted
<1>11. phase \in Running
  BY <1>1, <1>2 DEF Phases, Busy
<1>12. Phases'
  BY <1>1, <1>7, <1>11 DEF Phases
<1>13. StacksOK'
  <2>1. ASSUME NEW v \in Workers PROVE FramesOK(schema, dryRun, allowCode, host', stacks'[v])
    <3>1. FramesOK(schema, dryRun, allowCode, host', stacks[v])
      <4>1. FramesOK(schema, dryRun, allowCode, host, stacks[v]) /\ stacks[v] \in Seq(Frames(schema))
        BY <1>1, <1>8 DEF StacksOK
      <4> QED BY <1>5, <1>8, <4>1, FramesStay
    <3> QED BY <1>6, <1>9, <3>1
  <2> QED BY <1>7, <2>1, Zenon DEF StacksOK
<1>14. Waiting'
  BY <1>1, <1>2, <1>5, <1>7, WaitingStays
<1>15. ResultsOK'
  <2>1. \A k \in DOMAIN report' : k \in DOMAIN report \/
           (/\ Seen(host', report'[k])
            /\ phase' \notin {"write", "done"} => Honest(schema, dryRun, host', report'[k]))
    BY <1>4, Zenon DEF Honest
  <2> QED BY <1>1, <1>2, <1>3, <1>4, <1>5, <1>7, <2>1, ResultsStay
<1>16. Behind'
  BY <1>1, <1>2, <1>4, <1>5, BehindStays
<1>17. Covered'
  BY <1>1, <1>2, <1>3, <1>4, CoveredStays
<1> QED BY <1>3, <1>10, <1>12, <1>13, <1>14, <1>15, <1>16, <1>17 DEF IInv

LEMMA EffectKeeps ==
  ASSUME IInv, NEW w \in Workers, Effect(w)
  PROVE  IInv'
<1>1. Leaves(w)
  BY EffectLeaves DEF IInv
<1> QED BY <1>1, LeavesKeeps DEF Effect

LEMMA HostSame ==
  ASSUME TypeOK, UNCHANGED host
  PROVE  Grows(host, host') /\ Justified
BY DEF TypeOK, Grows, Justified

LEMMA HeadTail ==
  ASSUME NEW D, NEW q \in Seq(D), q # <<>>
  PROVE  /\ Head(q) \in D /\ Tail(q) \in Seq(D)
         /\ Range(q) = {Head(q)} \cup Range(Tail(q))
<1> DEFINE n == Len(q)
<1>1. /\ n \in Nat \ {0} /\ DOMAIN q = 1..n /\ Head(q) = q[1] /\ Head(q) \in D
      /\ Tail(q) \in Seq(D) /\ DOMAIN Tail(q) = 1..(n - 1)
      /\ \A k \in 1..(n - 1) : Tail(q)[k] = q[k + 1]
  OBVIOUS
<1> HIDE DEF n
<1>2. 1 \in 1..n /\ \A k \in 1..(n - 1) : k + 1 \in 1..n
  BY <1>1
<1>3. \A k \in 1..n : k = 1 \/ (k - 1 \in 1..(n - 1) /\ (k - 1) + 1 = k)
  BY <1>1
<1>4. \A k \in 1..n : q[k] = Head(q) \/ \E j \in 1..(n - 1) : q[k] = Tail(q)[j]
  BY <1>1, <1>3
<1> QED BY <1>1, <1>2, <1>4 DEF Range

\* A worker takes a tool that waited, so what it requires is there.
LEMMA TakeKeeps ==
  ASSUME IInv, NEW w \in Workers, Take(w)
  PROVE  IInv'
<1> DEFINE t   == Head(queue)
           f   == Frame("tool", t)
           st2 == <<f>>
<1>1. /\ TypeOK /\ Phases /\ StacksOK /\ HelpersMarked /\ OneRunPerHelper
      /\ Waiting /\ ResultsOK /\ Behind /\ Covered
  BY DEF IInv
<1>2. /\ phase \in Running /\ ~Busy(w) /\ queue # <<>>
      /\ stacks' = [stacks EXCEPT ![w] = st2] /\ queue' = Tail(queue)
      /\ UNCHANGED <<given, host, levels, level, phase, batch, collected, report, failed,
                     memo, cancelled>>
  BY DEF Take, Running
<1>3. /\ t \in DOMAIN schema /\ queue' \in Seq(DOMAIN schema)
      /\ Range(queue) = {t} \cup Range(queue')
  BY <1>1, <1>2, HeadTail DEF TypeOK
<1> HIDE DEF t
<1>4. f \in Frames(schema) /\ f.op = "tool" /\ f.tool = t /\ f.pc = "start"
  BY <1>3 DEF Frame, Frames
<1> HIDE DEF f
<1>5. FrameOK(schema, dryRun, allowCode, host, f)
  <2>1. ~dryRun => NeedsThere(schema, t, host)
    BY <1>1, <1>3 DEF Waiting, WaitingOK
  <2> QED BY <1>4, <2>1 DEF FrameOK
<1>6. /\ st2 \in Seq(Frames(schema)) /\ st2 # <<>> /\ DOMAIN st2 = {1} /\ st2[1] = f
  BY <1>4
<1> HIDE DEF st2
<1>7. FramesOK(schema, dryRun, allowCode, host, st2) /\ NoNewDeps(stacks[w], st2)
  BY <1>4, <1>5, <1>6 DEF FramesOK, Stacked, NoNewDeps
<1>8. /\ schema' = schema /\ dryRun' = dryRun /\ allowCode' = allowCode /\ recovered' = recovered
      /\ Grows(host, host') /\ Extends(report, report') /\ collected' = collected
  BY <1>1, <1>2, HostSame DEF given, Extends
<1>9. HelpersMarked' /\ OneRunPerHelper'
  BY <1>1, <1>2, <1>6, <1>7, HelpersStay
<1>10. /\ stacks' \in [Workers -> Seq(Frames(schema))]
       /\ \A v \in Workers : stacks'[v] = IF v = w THEN st2 ELSE stacks[v]
  BY <1>1, <1>2, <1>6 DEF TypeOK
<1>11. TypeOK'
  BY <1>1, <1>2, <1>3, <1>8, <1>10 DEF TypeOK
<1>12. Phases'
  BY <1>1, <1>2, <1>8, Zenon DEF Phases
<1>13. StacksOK'
  BY <1>1, <1>2, <1>7, <1>8, <1>10 DEF StacksOK
<1>14. Waiting'
  BY <1>1, <1>2, <1>3, <1>8, WaitingStays
<1>15. ResultsOK'
  BY <1>1, <1>2, <1>8, MemoStays, ResultsStay
<1>16. Behind'
  BY <1>1, <1>2, <1>8, BehindStays
<1>17. Covered'
  <2>1. ASSUME ~cancelled, NEW x \in LevelTools
        PROVE  Recorded(x)' # {} \/ Underway(x)'
    <3>1. Recorded(x) # {} \/ Underway(x)
      BY <1>1, <1>2, <2>1 DEF Covered
    <3>2. Recorded(x)' = Recorded(x)
      BY <1>2 DEF Recorded
    <3>3. ASSUME Underway(x) PROVE Underway(x)'
      <4>1. CASE x = t
        BY <4>1, <1>4, <1>6, <1>10 DEF Underway
      <4>2. CASE x # t
        BY <4>2, <3>3, <1>2, <1>3, <1>10 DEF Underway, Busy
      <4> QED BY <4>1, <4>2
    <3> QED BY <3>1, <3>2, <3>3
  <2>2. LevelTools' = LevelTools
    BY <1>2 DEF LevelTools
  <2> QED BY <1>2, <2>1, <2>2 DEF Covered, Running
<1> QED BY <1>9, <1>11, <1>12, <1>13, <1>14, <1>15, <1>16, <1>17 DEF IInv

\* A timeout is seen by the gates only.
LEMMA TimeOutKeeps ==
  ASSUME IInv, NEW w \in Workers, TimeOut(w)
  PROVE  IInv'
<1> DEFINE st == stacks[w]
<1>1. /\ TypeOK /\ Phases /\ StacksOK /\ HelpersMarked /\ OneRunPerHelper
      /\ Waiting /\ ResultsOK /\ Behind /\ Covered
  BY DEF IInv
<1>2. UNCHANGED <<given, host, levels, level, phase, batch, queue, collected, report,
                  failed, memo, cancelled>>
  BY DEF TimeOut
<1>3. PICK k \in DOMAIN st : stacks' = [stacks EXCEPT ![w][k].late = TRUE]
  BY DEF TimeOut
<1> DEFINE f   == [st[k] EXCEPT !.late = TRUE]
           st2 == [st EXCEPT ![k] = f]
<1>4. stacks \in [Workers -> Seq(Frames(schema))] /\ st \in Seq(Frames(schema))
  BY <1>1 DEF TypeOK
<1>5. stacks' = [stacks EXCEPT ![w] = st2]
  BY <1>3
<1>6. /\ f \in Frames(schema) /\ st[k] \in Frames(schema)
      /\ f.op = st[k].op /\ f.tool = st[k].tool /\ f.pc = st[k].pc /\ f.cand = st[k].cand
      /\ f.i = st[k].i
  <2>1. st[k] \in Frames(schema)
    BY <1>4
  <2> DEFINE g == st[k]
  <2> HIDE DEF g
  <2>2. g \in Frames(schema)
    BY <2>1 DEF g
  <2>3. /\ [g EXCEPT !.late = TRUE] \in Frames(schema)
        /\ [g EXCEPT !.late = TRUE].op = g.op /\ [g EXCEPT !.late = TRUE].tool = g.tool
        /\ [g EXCEPT !.late = TRUE].pc = g.pc /\ [g EXCEPT !.late = TRUE].cand = g.cand
        /\ [g EXCEPT !.late = TRUE].i = g.i
    BY <2>2 DEF Frames
  <2> QED BY <2>2, <2>3 DEF g
<1> HIDE DEF f
<1>7. /\ st2 \in Seq(Frames(schema)) /\ DOMAIN st2 = DOMAIN st
      /\ \A j \in DOMAIN st : st2[j] = IF j = k THEN f ELSE st[j]
  BY <1>4, <1>6
<1> HIDE DEF st2
<1>8. \A j \in DOMAIN st : st2[j].op = st[j].op /\ st2[j].tool = st[j].tool
  BY <1>6, <1>7
<1>9. FramesOK(schema, dryRun, allowCode, host, st)
  BY <1>1 DEF StacksOK
<1>10. FrameOK(schema, dryRun, allowCode, host, f)
  <2>1. FrameOK(schema, dryRun, allowCode, host, st[k])
    BY <1>9 DEF FramesOK
  <2> QED BY <2>1, <1>6, Zenon DEF FrameOK
<1>11. st # <<>> /\ st2 # <<>> /\ 1 \in DOMAIN st
  BY <1>4, <1>7
<1>12. FramesOK(schema, dryRun, allowCode, host, st2)
  <2>1. st2[1].op = "tool"
    BY <1>8, <1>9, <1>11 DEF FramesOK
  <2>2. Stacked(st2)
    BY <1>7, <1>8, <1>9, Zenon DEF Stacked, FramesOK
  <2>3. \A j \in DOMAIN st2 : FrameOK(schema, dryRun, allowCode, host, st2[j])
    BY <1>7, <1>9, <1>10 DEF FramesOK
  <2> QED BY <2>1, <2>2, <2>3 DEF FramesOK
<1>13. NoNewDeps(st, st2)
  BY <1>7, <1>8, Zenon DEF NoNewDeps
<1>14. host' = host /\ report' = report /\ collected' = collected /\ memo' = memo
  BY <1>2
<1>15. Leaves(w)
  <2>1. HelpersMarked' /\ OneRunPerHelper'
    BY <1>1, <1>5, <1>7, <1>13, <1>14, HelpersStay
  <2>2. Reported
    BY <1>14 DEF Reported
  <2>3. StackLeft(w)
    BY <1>5, <1>7, <1>8, <1>11, <1>12, <1>14 DEF StackLeft
  <2>4. Noted
    BY <1>1, <1>14, HostSame, MemoStays
  <2> QED BY <2>1, <2>2, <2>3, <2>4 DEF Leaves
<1>16. Busy(w) /\ Justified
  BY <1>1, <1>11, <1>14, HostSame DEF Busy
<1> QED BY <1>2, <1>15, <1>16, LeavesKeeps

LEMMA CancelKeeps ==
  ASSUME IInv, Cancel
  PROVE  IInv'
<1>1. /\ TypeOK /\ Phases /\ StacksOK /\ HelpersMarked /\ OneRunPerHelper
      /\ Waiting /\ ResultsOK /\ Behind /\ Covered
  BY DEF IInv
<1>2. /\ cancelled' = TRUE /\ phase \notin {"write", "done"}
      /\ UNCHANGED <<given, host, levels, level, phase, batch, queue, stacks, collected,
                     report, failed, memo>>
  BY DEF Cancel
<1>3. /\ schema' = schema /\ dryRun' = dryRun /\ allowCode' = allowCode /\ recovered' = recovered
      /\ Grows(host, host') /\ Extends(report, report') /\ collected' = collected
  BY <1>1, <1>2, HostSame DEF given, Extends
<1>4. TypeOK'
  BY <1>1, <1>2, <1>3 DEF TypeOK
<1>5. Phases'
  BY <1>1, <1>2, <1>3 DEF Phases
<1>6. StacksOK' /\ HelpersMarked' /\ OneRunPerHelper'
  BY <1>1, <1>2, <1>3, StacksStay, HelpersSame
<1>7. Waiting'
  BY <1>1, <1>2, <1>3, WaitingStays
<1>8. ResultsOK'
  BY <1>1, <1>2, <1>3, MemoStays, ResultsStay
<1>9. Behind' /\ Covered'
  BY <1>2 DEF Behind, Covered
<1> QED BY <1>4, <1>5, <1>6, <1>7, <1>8, <1>9 DEF IInv

-----------------------------------------------------------------------------
(* The steps of a level.                                                   *)

\* What a level notes: a result of this status for each of these tools.
Notes(s, rep, rep2, S, status) ==
  /\ rep2 \in Seq(Results(s)) /\ Extends(rep, rep2)
  /\ \A k \in DOMAIN rep2 : \/ k \in DOMAIN rep
                            \/ rep2[k].tool \in S /\ rep2[k].status = status
  /\ \A t \in S : \E k \in DOMAIN rep2 : rep2[k].tool = t

LEMMA NoteFacts ==
  ASSUME NEW rep \in Seq(Results(schema)), NEW tools \in Seq(DOMAIN schema),
         NEW status \in Good \cup Bad
  PROVE  Notes(schema, rep, Note(rep, tools, status), Range(tools), status)
<1> DEFINE q    == [k \in DOMAIN tools |-> Result(tools[k], status)]
           rep2 == rep \o q
           R    == Results(schema)
<1>1. \A t \in DOMAIN schema : /\ Result(t, status) \in R
                               /\ Result(t, status).tool = t /\ Result(t, status).status = status
  BY DEF Result, Results
<1>2. Note(rep, tools, status) = rep2
  BY DEF Note
<1> HIDE DEF R
<1>3. /\ q \in Seq(R) /\ DOMAIN q = DOMAIN tools
      /\ \A k \in DOMAIN tools : q[k] = Result(tools[k], status) /\ tools[k] \in DOMAIN schema
  BY <1>1
<1> HIDE DEF q
<1>4. rep2 = rep \o q /\ rep \in Seq(R)
  BY DEF R
<1> HIDE DEF rep2
<1>5. rep2 \in Seq(R) /\ Extends(rep, rep2) /\ Adds(rep, rep2, Range(q))
  BY <1>3, <1>4, ConcatExtends
<1>6. \A r \in Range(q) : r.tool \in Range(tools) /\ r.status = status
  BY <1>1, <1>3 DEF Range
<1>7. \A t \in Range(tools) : \E r \in Range(q) : r.tool = t
  BY <1>1, <1>3 DEF Range
<1>8. \A k \in DOMAIN rep2 : \/ k \in DOMAIN rep
                             \/ rep2[k].tool \in Range(tools) /\ rep2[k].status = status
  BY <1>5, <1>6 DEF Adds
<1>9. \A t \in Range(tools) : \E k \in DOMAIN rep2 : rep2[k].tool = t
  BY <1>5, <1>7 DEF Adds
<1> QED BY <1>2, <1>5, <1>8, <1>9 DEF Notes, R

LEMMA ExtendsTwice ==
  ASSUME NEW a, NEW b, NEW c, Extends(a, b), Extends(b, c)
  PROVE  Extends(a, c)
BY DEF Extends

\* What a level starts with: tools that are refused, found or left to run.
LEMMA LevelNeeds ==
  ASSUME TypeOK, Phases, Behind, phase = "level", ~cancelled, ~dryRun, level \in DOMAIN levels,
         NEW t \in Range(levels[level]), ~Blocked(t)
  PROVE  NeedsThere(schema, t, host)
<1>1. LevelsOf(schema, levels)
  BY DEF Phases
<1>2. levels \in Seq(Seq(DOMAIN schema)) /\ level \in 1..Len(levels) /\ Len(levels) \in Nat
  BY <1>1 DEF LevelsOf
<1>3. ASSUME NEW d \in Range(EffectiveRequires(schema[t])) PROVE There(schema, d, host)
  <2>1. PICK j \in 1..(level - 1) : d \in Range(levels[j])
    BY <1>1, Zenon DEF LevelsOf
  <2>2. j \in DOMAIN levels /\ j < level
    BY <1>2, <2>1
  <2>3. d \in failed \/ There(schema, d, host)
    <3>1. ~cancelled /\ ~dryRun
      OBVIOUS
    <3>2. \A x \in Range(levels[j]) : x \in failed \/ There(schema, x, host)
      BY <2>2, <3>1, Zenon DEF Behind
    <3> QED BY <2>1, <3>2
  <2>4. d \notin failed
    BY DEF Blocked, Requires
  <2> QED BY <2>3, <2>4
<1> QED BY <1>3 DEF NeedsThere

\* A tool with an applicable candidate is not a virtual one.
LEMMA Applicable ==
  ASSUME NEW t, Methods(t) \in Seq(Method), FirstApplicable(t) # 0
  PROVE  FirstApplicable(t) \in Nat /\ schema[t].methods # <<>>
<1> DEFINE ok == {c \in DOMAIN Methods(t) : Methods(t)[c].when /\ Methods(t)[c].adapter}
<1>1. FirstApplicable(t) = IF ok = {} THEN 0 ELSE Min(ok)
  BY Zenon DEF FirstApplicable
<1>2. ok \in SUBSET Nat
  OBVIOUS
<1>3. DOMAIN Methods(t) = {} => ok = {}
  OBVIOUS
<1> HIDE DEF ok
<1>4. ok # {} /\ FirstApplicable(t) = Min(ok)
  BY <1>1
<1>5. \E x \in ok : \A y \in ok : x <= y
  BY <1>2, <1>4, NatMin
<1>6. Min(ok) \in ok
  BY <1>5 DEF Min
<1>7. Methods(t) # <<>>
  BY <1>3, <1>4
<1> QED BY <1>2, <1>4, <1>6, <1>7 DEF Methods

LEMMA MethodsType ==
  ASSUME TypeOK, NEW t \in DOMAIN schema
  PROVE  Methods(t) \in Seq(Method)
<1>1. schema[t] \in Tool
  BY SchemaTypes DEF TypeOK
<1> QED BY <1>1 DEF Methods, Tool

LEMMA BatchableIs ==
  ASSUME TypeOK, NEW t \in DOMAIN schema, Batchable(t)
  PROVE  FirstApplicable(t) # 0 /\ schema[t].methods # <<>>
BY MethodsType, Applicable DEF Batchable

\* What a level has noted when its tools are to be run: a result for each of
\* these, a failure or one of a tool that was found.
LevelNoted(s, rep, rep2, all, found) ==
  /\ rep2 \in Seq(Results(s)) /\ Extends(rep, rep2)
  /\ \A k \in DOMAIN rep2 :
       \/ k \in DOMAIN rep \/ rep2[k].status = "failed"
       \/ rep2[k].tool \in found /\ rep2[k].status = "already"
  /\ \A t \in all : \E k \in DOMAIN rep2 : rep2[k].tool = t

LEMMA NotedFacts ==
  ASSUME NEW rep \in Seq(Results(schema)), NEW a \in Seq(DOMAIN schema),
         NEW b \in Seq(DOMAIN schema), NEW c \in Seq(DOMAIN schema),
         NEW rep2, rep2 = Note(Note(Note(rep, a, "failed"), b, "failed"), c, "already")
  PROVE  LevelNoted(schema, rep, rep2, Range(a) \cup Range(b) \cup Range(c), Range(c))
<1> DEFINE r1 == Note(rep, a, "failed")
           r2 == Note(r1, b, "failed")
<1>1. Notes(schema, rep, r1, Range(a), "failed")
  BY NoteFacts DEF Bad
<1>2. r1 \in Seq(Results(schema))
  BY <1>1 DEF Notes
<1> HIDE DEF r1
<1>3. Notes(schema, r1, r2, Range(b), "failed")
  BY <1>2, NoteFacts DEF Bad
<1>4. r2 \in Seq(Results(schema))
  BY <1>3 DEF Notes
<1>5. rep2 = Note(r2, c, "already")
  BY DEF r1
<1> HIDE DEF r2
<1>6. Notes(schema, r2, rep2, Range(c), "already")
  BY <1>4, <1>5, NoteFacts DEF Good
<1>7. Extends(rep, r1) /\ Extends(r1, r2) /\ Extends(r2, rep2) /\ rep2 \in Seq(Results(schema))
  BY <1>1, <1>3, <1>6 DEF Notes
<1>8. Extends(rep, rep2)
  BY <1>7, ExtendsTwice
<1>9. ASSUME NEW k \in DOMAIN rep2
      PROVE  \/ k \in DOMAIN rep \/ rep2[k].status = "failed"
             \/ rep2[k].tool \in Range(c) /\ rep2[k].status = "already"
  <2>1. \/ k \in DOMAIN r2
        \/ rep2[k].tool \in Range(c) /\ rep2[k].status = "already"
    BY <1>6, Zenon DEF Notes
  <2>2. ASSUME k \in DOMAIN r2 PROVE k \in DOMAIN rep \/ rep2[k].status = "failed"
    <3>1. rep2[k] = r2[k] /\ (k \in DOMAIN r1 \/ r2[k].status = "failed")
      BY <2>2, <1>3, <1>7, Zenon DEF Notes, Extends
    <3>2. ASSUME k \in DOMAIN r1 PROVE r2[k] = r1[k] /\ (k \in DOMAIN rep \/ r1[k].status = "failed")
      BY <3>2, <1>1, <1>7, Zenon DEF Notes, Extends
    <3> QED BY <3>1, <3>2
  <2> QED BY <2>1, <2>2
<1>10. ASSUME NEW t \in Range(a) \cup Range(b) \cup Range(c)
       PROVE  \E k \in DOMAIN rep2 : rep2[k].tool = t
  <2>1. t \in Range(a) => \E k \in DOMAIN r1 : r1[k].tool = t
    BY <1>1, Zenon DEF Notes
  <2>2. t \in Range(b) => \E k \in DOMAIN r2 : r2[k].tool = t
    BY <1>3, Zenon DEF Notes
  <2>3. t \in Range(c) => \E k \in DOMAIN rep2 : rep2[k].tool = t
    BY <1>6, Zenon DEF Notes
  <2> QED BY <2>1, <2>2, <2>3, <1>7, Zenon DEF Extends
<1> QED BY <1>7, <1>8, <1>9, <1>10 DEF LevelNoted

\* A level is split into tools refused, found, and left to the batch or the
\* workers; only the first three have a result of their own.
Split(blocked, refused, found, cands, rest) ==
  /\ blocked \in Seq(DOMAIN schema) /\ refused \in Seq(DOMAIN schema)
  /\ found \in Seq(DOMAIN schema) /\ cands \in Seq(DOMAIN schema)
  /\ rest \in Seq(DOMAIN schema)
  /\ \A t \in LevelTools :
       t \in recovered \cup Range(blocked) \cup Range(refused) \cup Range(found)
              \cup Range(cands) \cup Range(rest)
  /\ \A t \in Range(found) : FoundByBatch(t)
  /\ \A t \in Range(cands) : InBatch(t)
  /\ \A t \in Range(cands) \cup Range(rest) :
       t \in LevelTools /\ ~Blocked(t) /\ ~Dangerous(t)

Goes(noted, cands, rest) ==
  \/ /\ dryRun /\ report' = Note(noted, cands, "would_install")
     /\ batch' = <<>> /\ queue' = rest /\ phase' = RunPhase(rest)
  \/ /\ ~dryRun /\ report' = noted
     /\ batch' = cands /\ queue' = rest /\ phase' = "batch"
  \/ /\ report' = noted
     /\ batch' = <<>> /\ queue' = rest \o cands /\ phase' = RunPhase(queue')

LEMMA StartLevelIs ==
  ASSUME TypeOK, Phases, StartLevel
  PROVE  \E blocked, refused, found, cands, rest \in Seq(DOMAIN schema) :
           /\ Split(blocked, refused, found, cands, rest)
           /\ Goes(Note(Note(Note(report, blocked, "failed"), refused, "failed"), found, "already"),
                   cands, rest)
           /\ failed \subseteq failed'
<1> DEFINE of(tools) == Only(levels[level], tools)
           blocked == {t \in LevelTools \ recovered : Blocked(t)}
           open    == LevelTools \ (recovered \cup blocked)
           refused == {t \in open : Dangerous(t)}
           allowed == open \ refused
           unseens == {{}} \cup {{t} : t \in {x \in allowed : Batchable(x)}}
           found(u) == {t \in allowed \ u : FoundByBatch(t)}
           cands(u) == of({t \in allowed \ u : InBatch(t)})
           rest(u)  == of((allowed \ found(u)) \ Range(cands(u)))
           noted(u) == Note(Note(Note(report, of(blocked), "failed"), of(refused), "failed"),
                            of(found(u)), "already")
<1>1. PICK u \in unseens :
        /\ failed' = failed \cup blocked
        /\ CASE Len(cands(u)) > 1 /\ dryRun ->
                  /\ report' = Note(noted(u), cands(u), "would_install")
                  /\ batch' = <<>> /\ queue' = rest(u) /\ phase' = RunPhase(rest(u))
             [] Len(cands(u)) > 1 /\ ~dryRun ->
                  /\ report' = noted(u)
                  /\ batch' = cands(u) /\ queue' = rest(u) /\ phase' = "batch"
             [] OTHER ->
                  /\ report' = noted(u)
                  /\ batch' = <<>> /\ queue' = rest(u) \o cands(u) /\ phase' = RunPhase(queue')
  BY Zenon DEF StartLevel
<1>2. level \in DOMAIN levels /\ LevelTools = Range(levels[level]) /\ phase = "level"
  BY DEF StartLevel, LevelTools
<1>3. levels[level] \in Seq(DOMAIN schema)
  <2>1. levels \in Seq(Seq(DOMAIN schema))
    BY <1>2 DEF Phases, LevelsOf
  <2> QED BY <1>2, <2>1
<1>4. \A S : of(S) \in Seq(DOMAIN schema) /\ Range(of(S)) = LevelTools \cap S
  BY <1>2, <1>3, OnlyFacts
<1>5. Split(of(blocked), of(refused), of(found(u)), cands(u), rest(u))
  <2> HIDE DEF of
  <2>1. /\ Range(of(blocked)) = blocked /\ Range(of(refused)) = refused
        /\ Range(of(found(u))) = found(u)
        /\ Range(cands(u)) = {t \in allowed \ u : InBatch(t)}
        /\ Range(rest(u)) = (allowed \ found(u)) \ Range(cands(u))
    BY <1>4, Zenon
  <2>2. /\ cands(u) \in Seq(DOMAIN schema) /\ rest(u) \in Seq(DOMAIN schema)
        /\ of(found(u)) \in Seq(DOMAIN schema)
    BY <1>4
  <2> QED BY <1>4, <2>1, <2>2 DEF Split
<1>6. Goes(noted(u), cands(u), rest(u))
  <2> HIDE DEF cands, rest, noted
  <2> QED BY <1>1, Zenon DEF Goes
<1>7. /\ of(blocked) \in Seq(DOMAIN schema) /\ of(refused) \in Seq(DOMAIN schema)
      /\ of(found(u)) \in Seq(DOMAIN schema) /\ cands(u) \in Seq(DOMAIN schema)
      /\ rest(u) \in Seq(DOMAIN schema)
  BY <1>4
<1> HIDE DEF of, blocked, refused, found, cands, rest
<1>8. failed \subseteq failed'
  BY <1>1
<1> QED BY <1>5, <1>6, <1>7, <1>8, Zenon DEF noted


LEMMA FoundHonest ==
  ASSUME TypeOK, NEW t \in DOMAIN schema, FoundByBatch(t)
  PROVE  host[t] # {} /\ There(schema, t, host)
<1>1. Batchable(t) /\ host[t] # {}
  BY DEF FoundByBatch
<1> QED BY <1>1, BatchableIs, ThereFacts

\* Where the tools of a level go.
LEMMA GoesFacts ==
  ASSUME TypeOK, NEW noted \in Seq(Results(schema)), NEW cands \in Seq(DOMAIN schema),
         NEW rest \in Seq(DOMAIN schema), Goes(noted, cands, rest)
  PROVE  /\ report' \in Seq(Results(schema)) /\ Extends(noted, report')
         /\ \A k \in DOMAIN report' :
              k \in DOMAIN noted \/ (dryRun /\ report'[k].status = "would_install")
         /\ batch' \in Seq(DOMAIN schema) /\ queue' \in Seq(DOMAIN schema)
         /\ Range(batch') \subseteq Range(cands)
         /\ Range(queue') \subseteq Range(cands) \cup Range(rest)
         /\ \A t \in Range(cands) : \/ t \in Range(batch') \/ t \in Range(queue')
                                    \/ \E k \in DOMAIN report' : report'[k].tool = t
         /\ Range(rest) \subseteq Range(queue')
         /\ \/ phase' \in Running /\ batch' = <<>>
            \/ phase' = "batch" /\ ~dryRun
<1>1. \A q : RunPhase(q) \in Running
  BY DEF RunPhase, Running
<1>2. Extends(noted, noted) /\ \A k \in DOMAIN noted : k \in DOMAIN noted
  BY DEF Extends
<1>3. Range(<<>>) = {} /\ <<>> \in Seq(DOMAIN schema)
  BY DEF Range
<1>4. CASE /\ dryRun /\ report' = Note(noted, cands, "would_install")
           /\ batch' = <<>> /\ queue' = rest /\ phase' = RunPhase(rest)
  <2>1. Notes(schema, noted, report', Range(cands), "would_install")
    BY <1>4, NoteFacts DEF Good
  <2>2. /\ report' \in Seq(Results(schema)) /\ Extends(noted, report')
        /\ \A k \in DOMAIN report' :
             k \in DOMAIN noted \/ (dryRun /\ report'[k].status = "would_install")
        /\ \A t \in Range(cands) : \E k \in DOMAIN report' : report'[k].tool = t
    BY <1>4, <2>1 DEF Notes
  <2> QED BY <1>1, <1>3, <1>4, <2>2
<1>5. CASE /\ ~dryRun /\ report' = noted
           /\ batch' = cands /\ queue' = rest /\ phase' = "batch"
  BY <1>2, <1>5
<1>6. CASE /\ report' = noted
           /\ batch' = <<>> /\ queue' = rest \o cands /\ phase' = RunPhase(queue')
  <2>1. Range(rest \o cands) = Range(rest) \cup Range(cands) /\ rest \o cands \in Seq(DOMAIN schema)
    BY RangeConcat
  <2> QED BY <1>1, <1>2, <1>3, <1>6, <2>1
<1> QED BY <1>4, <1>5, <1>6 DEF Goes

LEMMA StartLevelKeeps ==
  ASSUME IInv, StartLevel
  PROVE  IInv'
<1>1. /\ TypeOK /\ Phases /\ StacksOK /\ HelpersMarked /\ OneRunPerHelper
      /\ Waiting /\ ResultsOK /\ Behind /\ Covered
  BY DEF IInv
<1>2. /\ phase = "level" /\ ~cancelled /\ level \in DOMAIN levels
      /\ UNCHANGED <<given, host, levels, level, stacks, collected, memo, cancelled>>
  BY DEF StartLevel
<1>3. PICK blocked, refused, found, cands, rest \in Seq(DOMAIN schema) :
        /\ Split(blocked, refused, found, cands, rest)
        /\ Goes(Note(Note(Note(report, blocked, "failed"), refused, "failed"), found, "already"),
                cands, rest)
        /\ failed \subseteq failed'
  BY <1>1, StartLevelIs
<1> DEFINE noted == Note(Note(Note(report, blocked, "failed"), refused, "failed"), found, "already")
<1>4. report \in Seq(Results(schema)) /\ DOMAIN schema \subseteq Tools
  BY <1>1, SchemaTypes DEF TypeOK
<1>5. /\ noted \in Seq(Results(schema)) /\ Extends(report, noted)
      /\ \A k \in DOMAIN noted :
           \/ k \in DOMAIN report \/ noted[k].status = "failed"
           \/ noted[k].tool \in Range(found) /\ noted[k].status = "already"
      /\ \A t \in Range(blocked) \cup Range(refused) \cup Range(found) :
           \E k \in DOMAIN noted : noted[k].tool = t
  <2>1. LevelNoted(schema, report, noted, Range(blocked) \cup Range(refused) \cup Range(found),
                   Range(found))
    BY <1>4, NotedFacts, Zenon
  <2> HIDE DEF noted
  <2> QED BY <2>1 DEF LevelNoted
<1>6. Goes(noted, cands, rest)
  BY <1>3
<1> HIDE DEF noted
<1>7. /\ report' \in Seq(Results(schema)) /\ Extends(noted, report')
      /\ \A k \in DOMAIN report' :
           k \in DOMAIN noted \/ (dryRun /\ report'[k].status = "would_install")
      /\ batch' \in Seq(DOMAIN schema) /\ queue' \in Seq(DOMAIN schema)
      /\ Range(batch') \subseteq Range(cands)
      /\ Range(queue') \subseteq Range(cands) \cup Range(rest)
      /\ \A t \in Range(cands) : \/ t \in Range(batch') \/ t \in Range(queue')
                                 \/ \E k \in DOMAIN report' : report'[k].tool = t
      /\ Range(rest) \subseteq Range(queue')
      /\ \/ phase' \in Running /\ batch' = <<>>
         \/ phase' = "batch" /\ ~dryRun
  BY <1>1, <1>5, <1>6, GoesFacts
<1>8. /\ schema' = schema /\ dryRun' = dryRun /\ allowCode' = allowCode /\ recovered' = recovered
      /\ Grows(host, host') /\ Extends(report, report') /\ host' = host
      /\ levels' = levels /\ level' = level /\ stacks' = stacks /\ collected' = collected
      /\ memo' = memo /\ cancelled' = cancelled
  BY <1>1, <1>2, <1>5, <1>7, HostSame, ExtendsTwice DEF given
<1>9. /\ \A t \in Range(found) : FoundByBatch(t) /\ t \in DOMAIN schema
      /\ \A t \in Range(cands) : InBatch(t) /\ t \in DOMAIN schema
      /\ \A t \in Range(cands) \cup Range(rest) :
           t \in LevelTools /\ ~Blocked(t) /\ ~Dangerous(t) /\ t \in DOMAIN schema
  <2>1. \A q \in Seq(DOMAIN schema) : Range(q) \subseteq DOMAIN schema
    BY DEF Range
  <2> QED BY <1>3, <2>1, Zenon DEF Split
<1>10. TypeOK'
  BY <1>1, <1>7, <1>8 DEF TypeOK
<1>11. Phases'
  <2>1. \A w \in Workers : stacks[w] = <<>>
    BY <1>1, <1>2 DEF Phases, Running
  <2> QED BY <1>1, <1>2, <1>7, <1>8, <2>1 DEF Phases, Running
<1>12. StacksOK' /\ HelpersMarked' /\ OneRunPerHelper'
  BY <1>1, <1>2, <1>8, StacksStay, HelpersSame
<1>13. Waiting'
  <2>1. ~dryRun => \A t \in Range(cands) \cup Range(rest) : NeedsThere(schema, t, host)
    BY <1>1, <1>2, <1>9, LevelNeeds, Zenon DEF LevelTools
  <2>2. WaitingOK(schema, dryRun, host, queue') /\ WaitingOK(schema, dryRun, host, batch')
    BY <1>7, <2>1 DEF WaitingOK
  <2>3. \A t \in Range(batch') : ~Risky(schema, allowCode, t) /\ FirstApplicable(t) # 0
    BY <1>1, <1>7, <1>9, DangerousIs, BatchableIs DEF InBatch
  <2>4. \A t : FirstApplicable(t)' = FirstApplicable(t)
    BY <1>8, FirstStays
  <2> QED BY <1>8, <2>2, <2>3, <2>4, Zenon DEF Waiting
<1>14. ResultsOK'
  <2>1. ASSUME NEW k \in DOMAIN report', k \notin DOMAIN report
        PROVE  Honest(schema, dryRun, host, report'[k])
    <3>1. CASE k \in DOMAIN noted
      <4>1. report'[k] = noted[k]
        BY <3>1, <1>7 DEF Extends
      <4>2. CASE noted[k].status = "failed"
        BY <4>1, <4>2 DEF Honest, Seen, Good
      <4>3. CASE noted[k].tool \in Range(found)
        BY <4>1, <4>3, <1>1, <1>9, FoundHonest DEF Honest, Seen
      <4> QED BY <1>5, <2>1, <3>1, <4>2, <4>3
    <3>2. CASE k \notin DOMAIN noted
      BY <3>2, <1>7 DEF Honest, Seen
    <3> QED BY <3>1, <3>2
  <2>2. \A k \in DOMAIN report' : k \in DOMAIN report \/
           (/\ Seen(host', report'[k])
            /\ phase' \notin {"write", "done"} => Honest(schema, dryRun, host', report'[k]))
    BY <2>1, <1>8 DEF Honest
  <2>3. Noted
    BY <1>1, <1>8, MemoStays
  <2> QED BY <1>1, <1>2, <1>8, <2>2, <2>3, ResultsStay
<1>15. Behind'
  BY <1>1, <1>2, <1>3, <1>8, BehindStays
<1>16. Covered'
  <2>1. ASSUME NEW t \in LevelTools PROVE Recorded(t)' # {} \/ Underway(t)'
    <3>1. CASE t \in recovered
      <4>1. Recorded(t) # {}
        BY <1>1, <3>1 DEF ResultsOK
      <4> QED BY <4>1, <1>8, RecordedStays
    <3>2. CASE t \in Range(blocked) \cup Range(refused) \cup Range(found)
      <4>1. PICK k \in DOMAIN noted : noted[k].tool = t
        BY <1>5, <3>2
      <4>2. k \in DOMAIN report' /\ report'[k].tool = t
        BY <4>1, <1>7 DEF Extends
      <4> QED BY <4>2 DEF Recorded
    <3>3. CASE t \in Range(cands)
      BY <3>3, <1>7 DEF Recorded, Underway
    <3>4. CASE t \in Range(rest)
      BY <3>4, <1>7 DEF Underway
    <3> QED BY <1>3, <3>1, <3>2, <3>3, <3>4 DEF Split
  <2>2. LevelTools' = LevelTools
    BY <1>8 DEF LevelTools
  <2> QED BY <1>7, <2>1, <2>2 DEF Covered, Running
<1> QED BY <1>10, <1>11, <1>12, <1>13, <1>14, <1>15, <1>16 DEF IInv


LEMMA RangeIn ==
  ASSUME NEW D, NEW q \in Seq(D)
  PROVE  Range(q) \subseteq D
BY DEF Range

\* The batch puts on the host what waits in it.
LEMMA LandedFacts ==
  ASSUME TypeOK, Phases, Waiting, phase = "batch", NEW S \in SUBSET Range(batch), Landed(S)
  PROVE  Justified
<1>1. /\ host \in [Tools -> SUBSET Nat] /\ DOMAIN schema \subseteq Tools
      /\ host' = [t \in Tools |-> IF t \in S THEN host[t] \cup {FirstApplicable(t)} ELSE host[t]]
  BY SchemaTypes DEF TypeOK, Landed
<1>2. S \subseteq Range(batch) /\ Range(batch) \subseteq DOMAIN schema
  BY RangeIn DEF TypeOK
<1>3. \A t \in S : FirstApplicable(t) \in Nat
  BY <1>2, MethodsType, Applicable DEF Waiting
<1>4. host' \in [Tools -> SUBSET Nat] /\ Grows(host, host')
  BY <1>1, <1>3 DEF Grows
<1>5. ~dryRun
  BY DEF Phases
<1>6. ASSUME NEW t \in DOMAIN schema, host'[t] # host[t]
      PROVE  ~Risky(schema, allowCode, t) /\ NeedsThere(schema, t, host)
  <2>1. t \in S
    BY <1>1, <1>6
  <2> QED BY <2>1, <1>2, <1>5 DEF Waiting, WaitingOK
<1> QED BY <1>4, <1>6 DEF Justified

LEMMA BatchInstallKeeps ==
  ASSUME IInv, BatchInstall
  PROVE  IInv' /\ Justified
<1>1. /\ TypeOK /\ Phases /\ StacksOK /\ HelpersMarked /\ OneRunPerHelper
      /\ Waiting /\ ResultsOK /\ Behind /\ Covered
  BY DEF IInv
<1>2. /\ phase = "batch"
      /\ UNCHANGED <<given, levels, level, stacks, collected, report, failed, memo, cancelled>>
  BY DEF BatchInstall
<1>3. PICK S \in SUBSET Range(batch) :
        /\ Landed(S)
        /\ \/ phase' = "verify" /\ UNCHANGED <<batch, queue>>
           \/ queue' = queue \o batch /\ batch' = <<>> /\ phase' = RunPhase(queue')
  BY DEF BatchInstall
<1>4. Justified
  BY <1>1, <1>2, <1>3, LandedFacts
<1>5. host' \in [Tools -> SUBSET Nat] /\ Grows(host, host')
  BY <1>4 DEF Justified
<1>6. /\ schema' = schema /\ dryRun' = dryRun /\ allowCode' = allowCode /\ recovered' = recovered
      /\ Extends(report, report') /\ report' = report /\ levels' = levels /\ level' = level
      /\ stacks' = stacks /\ collected' = collected /\ memo' = memo /\ cancelled' = cancelled
      /\ failed' = failed
  BY <1>2 DEF given, Extends
<1>7. batch \in Seq(DOMAIN schema) /\ queue \in Seq(DOMAIN schema)
  BY <1>1 DEF TypeOK
<1>8. /\ batch' \in Seq(DOMAIN schema) /\ queue' \in Seq(DOMAIN schema)
      /\ Range(queue') \cup Range(batch') = Range(queue) \cup Range(batch)
      /\ Range(batch') \subseteq Range(batch)
      /\ \/ phase' = "verify"
         \/ phase' \in Running /\ batch' = <<>>
  <2>1. CASE phase' = "verify" /\ UNCHANGED <<batch, queue>>
    BY <2>1, <1>7
  <2>2. CASE queue' = queue \o batch /\ batch' = <<>> /\ phase' = RunPhase(queue')
    <3>1. Range(queue') = Range(queue) \cup Range(batch) /\ queue' \in Seq(DOMAIN schema)
      BY <2>2, <1>7, RangeConcat
    <3>2. Range(batch') = {} /\ batch' \in Seq(DOMAIN schema)
      BY <2>2 DEF Range
    <3>3. RunPhase(queue') \in Running
      BY DEF RunPhase, Running
    <3> QED BY <2>2, <3>1, <3>2, <3>3
  <2> QED BY <1>3, <2>1, <2>2
<1>9. TypeOK'
  BY <1>1, <1>5, <1>6, <1>8 DEF TypeOK
<1>10. Phases'
  <2>1. \A w \in Workers : stacks[w] = <<>>
    BY <1>1, <1>2 DEF Phases, Running
  <2> QED BY <1>1, <1>2, <1>6, <1>8, <2>1 DEF Phases, Running
<1>11. StacksOK' /\ HelpersMarked' /\ OneRunPerHelper'
  BY <1>1, <1>2, <1>5, <1>6, StacksStay, HelpersSame
<1>12. Waiting'
  <2>1. Range(queue') \subseteq Range(queue) \cup Range(batch)
    BY <1>8
  <2> QED BY <1>1, <1>2, <1>5, <1>8, <2>1, WaitingStays
<1>13. ResultsOK'
  <2>1. Noted
    BY <1>1, <1>5, <1>6, MemoStays
  <2> QED BY <1>1, <1>2, <1>5, <1>6, <2>1, ResultsStay
<1>14. Behind'
  BY <1>1, <1>2, <1>5, <1>6, BehindStays
<1>15. Covered'
  <2>1. ASSUME ~cancelled, NEW x \in LevelTools
        PROVE  Recorded(x)' # {} \/ Underway(x)'
    <3>1. Recorded(x) # {} \/ Underway(x)
      BY <1>1, <1>2, <2>1 DEF Covered
    <3>2. Recorded(x)' = Recorded(x)
      BY <1>6 DEF Recorded
    <3>3. Underway(x) => Underway(x)'
      BY <1>6, <1>8 DEF Underway
    <3> QED BY <3>1, <3>2, <3>3
  <2>2. LevelTools' = LevelTools
    BY <1>6 DEF LevelTools
  <2> QED BY <1>6, <1>8, <2>1, <2>2 DEF Covered, Running
<1> QED BY <1>4, <1>9, <1>10, <1>11, <1>12, <1>13, <1>14, <1>15 DEF IInv

\* One tool of the batch, seen on the host or back in the queue.
LEMMA VerifyBatchIs ==
  ASSUME TypeOK, Waiting, VerifyBatch
  PROVE  \E t \in DOMAIN schema :
           /\ Range(batch) = {t} \cup Range(batch')
           /\ batch' \in Seq(DOMAIN schema) /\ queue' \in Seq(DOMAIN schema)
           /\ \/ /\ UNCHANGED queue
                 /\ \E r \in Results(schema) :
                      r.tool = t /\ Honest(schema, dryRun, host, r) /\ report' = Append(report, r)
              \/ /\ Range(queue') = {t} \cup Range(queue) /\ UNCHANGED report
<1> DEFINE t == Head(batch)
<1>1. batch \in Seq(DOMAIN schema) /\ queue \in Seq(DOMAIN schema) /\ batch # <<>>
  BY DEF TypeOK, VerifyBatch
<1>2. t \in DOMAIN schema /\ Tail(batch) \in Seq(DOMAIN schema)
      /\ Range(batch) = {t} \cup Range(Tail(batch))
  BY <1>1, HeadTail
<1>3. /\ batch' = Tail(batch)
      /\ \/ /\ BatchPresent(t) /\ UNCHANGED queue
            /\ \/ report' = Append(report, Result(t, "installed"))
               \/ report' = Append(report, [Result(t, "failed") EXCEPT !.committed = TRUE])
         \/ queue' = Append(queue, t) /\ UNCHANGED report
  BY DEF VerifyBatch
<1> HIDE DEF t
<1>4. FirstApplicable(t) # 0
  BY <1>2 DEF Waiting
<1>5. schema[t].methods # <<>>
  BY <1>2, <1>4, MethodsType, Applicable
<1>6. CASE BatchPresent(t) /\ UNCHANGED queue /\ report' = Append(report, Result(t, "installed"))
  <2>1. host[t] # {} /\ There(schema, t, host)
    BY <1>2, <1>5, <1>6, ThereFacts DEF BatchPresent
  <2>2. /\ Result(t, "installed") \in Results(schema) /\ Result(t, "installed").tool = t
        /\ Honest(schema, dryRun, host, Result(t, "installed"))
    BY <1>2, <2>1 DEF Result, Results, Honest, Seen, Good
  <2> QED BY <1>1, <1>2, <1>3, <1>6, <2>2
<1>7. CASE /\ UNCHANGED queue
           /\ report' = Append(report, [Result(t, "failed") EXCEPT !.committed = TRUE])
  <2> DEFINE r == [Result(t, "failed") EXCEPT !.committed = TRUE]
  <2>1. r \in Results(schema) /\ r.tool = t /\ r.status = "failed"
    BY <1>2 DEF Result, Results, Bad
  <2>2. Honest(schema, dryRun, host, r)
    BY <2>1 DEF Honest, Seen, Good
  <2> QED BY <1>1, <1>2, <1>3, <1>7, <2>1, <2>2
<1>8. CASE queue' = Append(queue, t) /\ UNCHANGED report
  <2> DEFINE one == <<t>>
  <2>1. queue' \in Seq(DOMAIN schema) /\ queue' = queue \o one /\ one \in Seq(DOMAIN schema)
    BY <1>1, <1>2, <1>8
  <2>3. Range(one) = {t}
    BY DEF Range
  <2> HIDE DEF one
  <2>2. Range(queue') = Range(queue) \cup Range(one)
    BY <1>1, <2>1, RangeConcat
  <2> QED BY <1>2, <1>3, <1>8, <2>1, <2>2, <2>3
<1> QED BY <1>3, <1>6, <1>7, <1>8

LEMMA VerifyBatchKeeps ==
  ASSUME IInv, VerifyBatch
  PROVE  IInv'
<1>1. /\ TypeOK /\ Phases /\ StacksOK /\ HelpersMarked /\ OneRunPerHelper
      /\ Waiting /\ ResultsOK /\ Behind /\ Covered
  BY DEF IInv
<1>2. /\ phase = "verify" /\ phase' = IF batch' = <<>> THEN RunPhase(queue') ELSE "verify"
      /\ UNCHANGED <<given, host, levels, level, stacks, collected, failed, memo, cancelled>>
  BY DEF VerifyBatch
<1>3. PICK t \in DOMAIN schema :
        /\ Range(batch) = {t} \cup Range(batch')
        /\ batch' \in Seq(DOMAIN schema) /\ queue' \in Seq(DOMAIN schema)
        /\ \/ /\ UNCHANGED queue
              /\ \E r \in Results(schema) :
                   r.tool = t /\ Honest(schema, dryRun, host, r) /\ report' = Append(report, r)
           \/ /\ Range(queue') = {t} \cup Range(queue) /\ UNCHANGED report
  BY <1>1, VerifyBatchIs
<1>4. /\ schema' = schema /\ dryRun' = dryRun /\ allowCode' = allowCode /\ recovered' = recovered
      /\ Grows(host, host') /\ host' = host
      /\ levels' = levels /\ level' = level /\ stacks' = stacks /\ collected' = collected
      /\ memo' = memo /\ cancelled' = cancelled /\ failed' = failed
  BY <1>1, <1>2, HostSame DEF given
<1>5. \/ phase' \in Running /\ batch' = <<>>
      \/ phase' = "verify"
  <2>1. RunPhase(queue') \in Running
    BY DEF RunPhase, Running
  <2> QED BY <1>2, <2>1
<1>6. Reported
  BY <1>3, <1>4 DEF Reported
<1>7. /\ report' \in Seq(Results(schema)) /\ Extends(report, report')
      /\ \A k \in DOMAIN report' :
           k \in DOMAIN report \/ Honest(schema, dryRun, host', report'[k])
  BY <1>1, <1>6, ReportedFacts
<1>8. TypeOK'
  BY <1>1, <1>3, <1>4, <1>7 DEF TypeOK
<1>9. Phases'
  <2>1. \A w \in Workers : stacks[w] = <<>>
    BY <1>1, <1>2 DEF Phases, Running
  <2> QED BY <1>1, <1>2, <1>4, <1>5, <2>1 DEF Phases, Running
<1>10. StacksOK' /\ HelpersMarked' /\ OneRunPerHelper'
  BY <1>1, <1>2, <1>4, StacksStay, HelpersSame
<1>11. Waiting'
  <2>1. /\ Range(queue') \subseteq Range(queue) \cup Range(batch)
        /\ Range(batch') \subseteq Range(batch)
    BY <1>3
  <2> QED BY <1>1, <1>2, <1>4, <2>1, WaitingStays
<1>12. ResultsOK'
  <2>1. Noted
    BY <1>1, <1>4, MemoStays
  <2>2. \A k \in DOMAIN report' : k \in DOMAIN report \/
           (/\ Seen(host', report'[k])
            /\ phase' \notin {"write", "done"} => Honest(schema, dryRun, host', report'[k]))
    BY <1>7, Zenon DEF Honest
  <2> QED BY <1>1, <1>2, <1>4, <1>7, <2>1, <2>2, ResultsStay
<1>13. Behind'
  BY <1>1, <1>2, <1>4, <1>7, BehindStays
<1>14. Covered'
  <2>1. ASSUME ~cancelled, NEW x \in LevelTools
        PROVE  Recorded(x)' # {} \/ Underway(x)'
    <3>1. Recorded(x) # {} \/ Underway(x)
      BY <1>1, <1>2, <2>1 DEF Covered
    <3>2. Recorded(x) # {} => Recorded(x)' # {}
      BY <1>7, RecordedStays
    <3>3. ASSUME x = t PROVE Recorded(x)' # {} \/ Underway(x)'
      <4>1. CASE Range(queue') = {t} \cup Range(queue)
        BY <4>1, <3>3 DEF Underway
      <4>2. ASSUME NEW r \in Results(schema), r.tool = t, report' = Append(report, r)
            PROVE  Recorded(x)' # {}
        <5>1. report \in Seq(Results(schema))
          BY <1>1 DEF TypeOK
        <5>2. Adds(report, report', {r})
          BY <4>2, <5>1, AppendExtends
        <5> QED BY <5>2, <4>2, <3>3 DEF Adds, Recorded
      <4> QED BY <1>3, <4>1, <4>2
    <3>4. ASSUME x # t, Underway(x) PROVE Underway(x)'
      BY <3>4, <1>3, <1>4 DEF Underway
    <3> QED BY <3>1, <3>2, <3>3, <3>4
  <2>2. LevelTools' = LevelTools
    BY <1>4 DEF LevelTools
  <2> QED BY <1>4, <1>5, <2>1, <2>2 DEF Covered, Running
<1> QED BY <1>8, <1>9, <1>10, <1>11, <1>12, <1>13, <1>14 DEF IInv


\* The pool's results are all recorded, and then nothing is underway.
LEMMA EndPoolKeeps ==
  ASSUME IInv, EndPool
  PROVE  IInv'
<1>1. /\ TypeOK /\ Phases /\ StacksOK /\ HelpersMarked /\ OneRunPerHelper
      /\ Waiting /\ ResultsOK /\ Behind /\ Covered
  BY DEF IInv
<1>2. /\ phase \in Running /\ Idle /\ (queue = <<>> \/ cancelled)
      /\ collected' = {} /\ queue' = <<>> /\ phase' = "record"
      /\ UNCHANGED <<given, host, levels, level, batch, stacks, failed, memo, cancelled>>
  BY DEF EndPool, Running
<1>3. PICK results \in SetToSeqs(collected) : report' = report \o results
  BY Zenon DEF EndPool
<1>4. /\ report \in Seq(Results(schema))
      /\ collected \in SUBSET Results(schema) /\ IsFiniteSet(collected)
  BY <1>1 DEF TypeOK
<1>5. results \in Seq(collected) /\ Range(results) = collected
  BY <1>4, EnumFacts
<1>6. results \in Seq(Results(schema))
  BY <1>4, <1>5
<1>7. report' \in Seq(Results(schema)) /\ Extends(report, report') /\ Adds(report, report', collected)
  <2>1. Adds(report, report', Range(results))
    BY <1>3, <1>4, <1>6, ConcatExtends
  <2> QED BY <1>3, <1>4, <1>5, <1>6, <2>1, ConcatExtends
<1>8. /\ schema' = schema /\ dryRun' = dryRun /\ allowCode' = allowCode /\ recovered' = recovered
      /\ Grows(host, host') /\ host' = host /\ batch' = batch
      /\ levels' = levels /\ level' = level /\ stacks' = stacks
      /\ memo' = memo /\ cancelled' = cancelled /\ failed' = failed
  BY <1>1, <1>2, HostSame DEF given
<1>9. batch = <<>> /\ \A w \in Workers : stacks[w] = <<>>
  BY <1>1, <1>2 DEF Phases, Running, Idle, Busy
<1>10. Range(<<>>) = {} /\ <<>> \in Seq(DOMAIN schema)
  BY DEF Range
<1>11. TypeOK'
  <2>1. IsFiniteSet({})
    BY FS_EmptySet
  <2> QED BY <1>1, <1>2, <1>7, <1>8, <1>10, <2>1 DEF TypeOK
<1>12. Phases'
  BY <1>1, <1>2, <1>8, <1>9 DEF Phases, Running
<1>13. StacksOK' /\ HelpersMarked' /\ OneRunPerHelper'
  BY <1>1, <1>2, <1>8, StacksStay, HelpersSame
<1>14. Waiting'
  <2>1. Range(queue') \subseteq Range(queue) \cup Range(batch) /\ Range(batch') \subseteq Range(batch)
    BY <1>2, <1>8, <1>10
  <2> QED BY <1>1, <1>2, <1>8, <2>1, WaitingStays
<1>15. ResultsOK'
  <2>1. \A k \in DOMAIN report' : k \in DOMAIN report \/ report'[k] \in collected
    BY <1>7 DEF Adds
  <2>2. \A r \in collected : Honest(schema, dryRun, host', r)
    BY <1>1, <1>8 DEF ResultsOK
  <2>3. \A k \in DOMAIN report' : k \in DOMAIN report \/
           (/\ Seen(host', report'[k])
            /\ phase' \notin {"write", "done"} => Honest(schema, dryRun, host', report'[k]))
    BY <2>1, <2>2, Zenon DEF Honest
  <2>4. Noted
    BY <1>1, <1>8, MemoStays
  <2>5. phase \notin {"write", "done"} /\ \A r \in collected' : r \in collected
    BY <1>2 DEF Running
  <2> QED BY <1>1, <1>2, <1>7, <1>8, <2>3, <2>4, <2>5, ResultsStay
<1>16. Behind'
  BY <1>1, <1>2, <1>7, <1>8, BehindStays
<1>17. Covered'
  <2>1. ASSUME ~cancelled, NEW x \in LevelTools PROVE Recorded(x)' # {}
    <3>1. Recorded(x) # {} \/ Underway(x)
      BY <1>1, <1>2, <2>1 DEF Covered
    <3>2. queue = <<>>
      BY <1>2, <2>1
    <3>3. Underway(x) => \E r \in collected : r.tool = x
      BY <1>9, <1>10, <3>2 DEF Underway
    <3>4. (\E r \in collected : r.tool = x) => Recorded(x)' # {}
      BY <1>7 DEF Adds, Recorded
    <3> QED BY <3>1, <3>3, <3>4, <1>7, RecordedStays
  <2>2. LevelTools' = LevelTools
    BY <1>8 DEF LevelTools
  <2> QED BY <1>2, <1>8, <2>1, <2>2 DEF Covered, Running
<1> QED BY <1>11, <1>12, <1>13, <1>14, <1>15, <1>16, <1>17 DEF IInv

\* A tool with a result is there, or blocks what requires it.
LEMMA FailuresBlock ==
  ASSUME TypeOK, ResultsOK, phase = "record", ~dryRun, NEW t \in LevelTools, Recorded(t) # {}
  PROVE  t \in RecordLevelFailures \/ There(schema, t, host)
<1>1. report \in Seq(Results(schema))
  BY DEF TypeOK
<1> DEFINE n == Len(report)
<1>2. n \in Nat /\ Recorded(t) \in SUBSET (0..n)
  BY <1>1 DEF Recorded
<1>3. Max(Recorded(t)) \in Recorded(t)
  <2> HIDE DEF n
  <2> QED BY <1>2, MaxFacts
<1> DEFINE r == RecordedResult(t)
<1>4. r \in Results(schema) /\ r.tool = t /\ Honest(schema, dryRun, host, r)
  <2>1. \A k \in Recorded(t) : /\ report[k] \in Results(schema) /\ report[k].tool = t
                               /\ Honest(schema, dryRun, host, report[k])
    BY <1>1 DEF Recorded, ResultsOK
  <2> QED BY <1>3, <2>1, Zenon DEF RecordedResult
<1>5. r.status \in Good \/ r.status \in Bad
  BY <1>4 DEF Results
<1> HIDE DEF r
<1>6. CASE r.status \in Good
  BY <1>4, <1>6 DEF Honest
<1>7. CASE r.status \in Bad
  BY <1>7 DEF RecordLevelFailures, r
<1> QED BY <1>5, <1>6, <1>7

LEMMA EndLevelKeeps ==
  ASSUME IInv, EndLevel
  PROVE  IInv'
<1>1. /\ TypeOK /\ Phases /\ StacksOK /\ HelpersMarked /\ OneRunPerHelper
      /\ Waiting /\ ResultsOK /\ Behind /\ Covered
  BY DEF IInv
<1>2. /\ \/ phase = "record" /\ failed' = failed \cup RecordLevelFailures /\ level' = level + 1
         \/ /\ phase = "level" /\ (cancelled \/ level \notin DOMAIN levels)
            /\ UNCHANGED <<failed, level>>
      /\ phase' = IF cancelled THEN "cancelled"
                  ELSE IF level' \in DOMAIN levels THEN "level" ELSE "write"
      /\ UNCHANGED <<given, host, levels, batch, queue, stacks, collected, report, memo, cancelled>>
  BY DEF EndLevel
<1>3. /\ schema' = schema /\ dryRun' = dryRun /\ allowCode' = allowCode /\ recovered' = recovered
      /\ Grows(host, host') /\ host' = host /\ batch' = batch /\ queue' = queue
      /\ levels' = levels /\ stacks' = stacks /\ collected' = collected
      /\ memo' = memo /\ cancelled' = cancelled /\ report' = report /\ Extends(report, report')
  BY <1>1, <1>2, HostSame DEF given, Extends
<1>4. level' \in Nat \ {0} /\ failed \subseteq failed'
  BY <1>1, <1>2 DEF TypeOK
<1>5. LevelsOf(schema, levels) /\ batch = <<>> /\ \A w \in Workers : stacks[w] = <<>>
  BY <1>1, <1>2 DEF Phases, Running
<1>6. TypeOK'
  BY <1>1, <1>3, <1>4 DEF TypeOK
<1>7. Phases'
  BY <1>2, <1>3, <1>5 DEF Phases, Running
<1>8. StacksOK' /\ HelpersMarked' /\ OneRunPerHelper'
  BY <1>1, <1>2, <1>3, StacksStay, HelpersSame
<1>9. Waiting'
  BY <1>1, <1>2, <1>3, WaitingStays
<1>10. ResultsOK'
  BY <1>1, <1>2, <1>3, MemoStays, ResultsStay
<1>11. ASSUME ~cancelled, NEW k \in DOMAIN levels, k < level', NEW t \in Range(levels[k])
       PROVE  /\ Recorded(t) # {}
              /\ ~dryRun => t \in failed' \/ There(schema, t, host)
  <2>1. CASE k < level
    <3>1. /\ Recorded(t) # {}
          /\ ~dryRun => t \in failed \/ There(schema, t, host)
      BY <1>1, <1>11, <2>1 DEF Behind
    <3> QED BY <3>1, <1>4
  <2>2. CASE ~(k < level)
    <3>1. /\ phase = "record" /\ failed' = failed \cup RecordLevelFailures /\ level' = level + 1
      BY <1>2, <1>11, <2>2
    <3>2. k \in Nat /\ level \in Nat
      BY <1>1, <1>5 DEF LevelsOf, TypeOK
    <3>3. k = level
      BY <1>11, <2>2, <3>1, <3>2
    <3>4. t \in LevelTools
      BY <3>3 DEF LevelTools
    <3>5. Recorded(t) # {}
      BY <1>1, <1>11, <3>1, <3>4 DEF Covered
    <3>6. ~dryRun => t \in RecordLevelFailures \/ There(schema, t, host)
      BY <1>1, <3>1, <3>4, <3>5, FailuresBlock
    <3> QED BY <3>1, <3>5, <3>6
  <2> QED BY <2>1, <2>2
<1>12. \A t : Recorded(t)' = Recorded(t)
  BY <1>3 DEF Recorded
<1>13. Behind'
  BY <1>3, <1>11, <1>12, Zenon DEF Behind
<1>14. Covered'
  <2>1. ASSUME phase' = "write", NEW t \in AllLevelTools PROVE Recorded(t) # {}
    <3>1. ~cancelled /\ level' \notin DOMAIN levels
      BY <1>2, <2>1
    <3>2. PICK k \in DOMAIN levels : t \in Range(levels[k])
      BY DEF AllLevelTools
    <3>3. levels \in Seq(Seq(DOMAIN schema))
      BY <1>5 DEF LevelsOf
    <3>4. k < level'
      <4> DEFINE m == Len(levels)
      <4>1. m \in Nat /\ k \in 1..m /\ level' \notin 1..m
        BY <3>1, <3>2, <3>3
      <4> HIDE DEF m
      <4> QED BY <1>4, <4>1
    <3> QED BY <1>11, <3>1, <3>2, <3>4
  <2>2. AllLevelTools' = AllLevelTools
    BY <1>3 DEF AllLevelTools
  <2>3. phase' \in {"cancelled", "level", "write"}
    BY <1>2
  <2> QED BY <1>12, <2>1, <2>2, <2>3 DEF Covered, Running
<1> QED BY <1>6, <1>7, <1>8, <1>9, <1>10, <1>13, <1>14 DEF IInv

-----------------------------------------------------------------------------
(* Cancellation, and the end of the run.                                   *)

\* The tools nothing was recorded of are in the list of those cancelled.
LEMMA CancelledAre ==
  ASSUME LevelsOf(schema, levels)
  PROVE  /\ CancelledTools \in Seq(DOMAIN schema)
         /\ \A t \in AllLevelTools : Recorded(t) = {} => t \in Range(CancelledTools)
<1> DEFINE U    == {t \in DOMAIN schema : Recorded(t) = {}}
           seqs == [k \in DOMAIN levels |-> Only(levels[k], U)]
<1>1. levels \in Seq(Seq(DOMAIN schema))
  BY DEF LevelsOf
<1>2. \A k \in DOMAIN levels : levels[k] \in Seq(DOMAIN schema)
  BY <1>1
<1>3. CancelledTools = FlattenSeq(seqs)
  BY DEF CancelledTools
<1>4. \A k \in DOMAIN levels : /\ Only(levels[k], U) \in Seq(DOMAIN schema)
                               /\ Range(Only(levels[k], U)) = Range(levels[k]) \cap U
  <2> HIDE DEF U
  <2> QED BY <1>2, OnlyFacts
<1>5. seqs \in Seq(Seq(DOMAIN schema)) /\ DOMAIN seqs = DOMAIN levels
  <2> DEFINE n == Len(levels)
             D == Seq(DOMAIN schema)
  <2>1. n \in Nat /\ DOMAIN levels = 1..n
    BY <1>1
  <2>2. \A k \in 1..n : seqs[k] \in D
    BY <1>4, <2>1
  <2>3. seqs = [k \in 1..n |-> seqs[k]]
    BY <2>1
  <2> HIDE DEF seqs, n, D
  <2>4. seqs \in Seq(D) /\ DOMAIN seqs = 1..n
    BY <2>1, <2>2, <2>3
  <2> QED BY <2>1, <2>4 DEF D
<1>6. \A k \in DOMAIN levels : Range(seqs[k]) = Range(levels[k]) \cap U
  BY <1>4
<1> HIDE DEF seqs
<1>7. /\ FlattenSeq(seqs) \in Seq(DOMAIN schema)
      /\ \A k \in DOMAIN seqs : Range(seqs[k]) \subseteq Range(FlattenSeq(seqs))
  BY <1>5, FlattenFacts
<1>8. ASSUME NEW t \in AllLevelTools, Recorded(t) = {} PROVE t \in Range(CancelledTools)
  <2>1. PICK k \in DOMAIN levels : t \in Range(levels[k])
    BY DEF AllLevelTools
  <2>2. t \in DOMAIN schema
    BY <1>2, <2>1 DEF Range
  <2> QED BY <1>3, <1>5, <1>6, <1>7, <1>8, <2>1, <2>2
<1> QED BY <1>3, <1>7, <1>8

LEMMA RecordCancelledToolsKeeps ==
  ASSUME IInv, RecordCancelledTools
  PROVE  IInv'
<1>1. /\ TypeOK /\ Phases /\ StacksOK /\ HelpersMarked /\ OneRunPerHelper
      /\ Waiting /\ ResultsOK /\ Behind /\ Covered
  BY DEF IInv
<1>2. /\ phase = "cancelled" /\ phase' = "write"
      /\ UNCHANGED <<given, host, levels, level, batch, queue, stacks, collected, memo, cancelled>>
  BY DEF RecordCancelledTools
<1> DEFINE st(t) == IF t \in failed' THEN "failed" ELSE "virtual"
           C == CancelledTools
           q == [k \in DOMAIN C |-> Result(C[k], st(C[k]))]
<1>3. report' = report \o q
  BY Zenon DEF RecordCancelledTools
<1>4. /\ C \in Seq(DOMAIN schema)
      /\ \A t \in AllLevelTools : Recorded(t) = {} => t \in Range(C)
  BY <1>1, <1>2, CancelledAre DEF Phases
<1> HIDE DEF C
<1>5. \A t \in DOMAIN schema : /\ Result(t, st(t)) \in Results(schema) /\ Result(t, st(t)).tool = t
                               /\ Result(t, st(t)).status \in {"failed", "virtual"}
  BY DEF Result, Results, Good, Bad
<1> HIDE DEF st
<1>6. /\ q \in Seq(Results(schema)) /\ DOMAIN q = DOMAIN C
      /\ \A k \in DOMAIN C : C[k] \in DOMAIN schema /\ q[k] = Result(C[k], st(C[k]))
  BY <1>4, <1>5
<1> HIDE DEF q
<1>7. report \in Seq(Results(schema))
  BY <1>1 DEF TypeOK
<1>8. report' \in Seq(Results(schema)) /\ Extends(report, report') /\ Adds(report, report', Range(q))
  BY <1>3, <1>6, <1>7, ConcatExtends
<1>9. \A r \in Range(q) : Seen(host, r)
  BY <1>5, <1>6 DEF Range, Seen
<1>10. \A t \in Range(C) : \E r \in Range(q) : r.tool = t
  BY <1>5, <1>6 DEF Range
<1>11. /\ schema' = schema /\ dryRun' = dryRun /\ allowCode' = allowCode /\ recovered' = recovered
       /\ Grows(host, host') /\ host' = host /\ batch' = batch /\ queue' = queue
       /\ levels' = levels /\ level' = level /\ stacks' = stacks /\ collected' = collected
       /\ memo' = memo /\ cancelled' = cancelled
  BY <1>1, <1>2, HostSame DEF given
<1>12. TypeOK'
  BY <1>1, <1>8, <1>11 DEF TypeOK
<1>13. Phases'
  BY <1>1, <1>2, <1>11 DEF Phases, Running
<1>14. StacksOK' /\ HelpersMarked' /\ OneRunPerHelper'
  BY <1>1, <1>2, <1>11, StacksStay, HelpersSame
<1>15. Waiting'
  BY <1>1, <1>2, <1>11, WaitingStays
<1>16. ResultsOK'
  <2>1. \A k \in DOMAIN report' : k \in DOMAIN report \/
           (/\ Seen(host', report'[k])
            /\ phase' \notin {"write", "done"} => Honest(schema, dryRun, host', report'[k]))
    BY <1>2, <1>8, <1>9, <1>11 DEF Adds
  <2>2. Noted
    BY <1>1, <1>11, MemoStays
  <2> QED BY <1>1, <1>2, <1>8, <1>11, <2>1, <2>2, ResultsStay
<1>17. Behind'
  BY <1>1, <1>2, <1>11 DEF Behind, Phases
<1>18. Covered'
  <2>1. ASSUME NEW t \in AllLevelTools PROVE Recorded(t)' # {}
    <3>1. CASE Recorded(t) # {}
      BY <3>1, <1>8, RecordedStays
    <3>2. CASE Recorded(t) = {}
      <4>1. \E k \in DOMAIN report' : report'[k].tool = t
        BY <3>2, <1>4, <1>8, <1>10 DEF Adds
      <4> QED BY <4>1 DEF Recorded
    <3> QED BY <3>1, <3>2
  <2>2. AllLevelTools' = AllLevelTools
    BY <1>11 DEF AllLevelTools
  <2> QED BY <1>2, <2>1, <2>2 DEF Covered, Running
<1> QED BY <1>12, <1>13, <1>14, <1>15, <1>16, <1>17, <1>18 DEF IInv

LEMMA WriteStateKeeps ==
  ASSUME IInv, WriteState
  PROVE  IInv'
<1>1. /\ TypeOK /\ Phases /\ StacksOK /\ HelpersMarked /\ OneRunPerHelper
      /\ Waiting /\ ResultsOK /\ Behind /\ Covered
  BY DEF IInv
<1>2. /\ phase = "write" /\ phase' = "done"
      /\ UNCHANGED <<given, host, levels, level, batch, queue, stacks, collected, report,
                     failed, memo, cancelled>>
  BY DEF WriteState
<1>3. /\ schema' = schema /\ dryRun' = dryRun /\ allowCode' = allowCode /\ recovered' = recovered
      /\ Grows(host, host') /\ host' = host /\ batch' = batch /\ queue' = queue
      /\ levels' = levels /\ level' = level /\ stacks' = stacks /\ collected' = collected
      /\ memo' = memo /\ cancelled' = cancelled /\ report' = report /\ Extends(report, report')
      /\ failed' = failed
  BY <1>1, <1>2, HostSame DEF given, Extends
<1>4. TypeOK'
  BY <1>1, <1>3 DEF TypeOK
<1>5. Phases'
  BY <1>1, <1>2, <1>3 DEF Phases, Running
<1>6. StacksOK' /\ HelpersMarked' /\ OneRunPerHelper'
  BY <1>1, <1>2, <1>3, StacksStay, HelpersSame
<1>7. Waiting'
  BY <1>1, <1>2, <1>3, WaitingStays
<1>8. ResultsOK'
  BY <1>1, <1>2, <1>3, MemoStays, ResultsStay
<1>9. Behind'
  BY <1>1, <1>2, <1>3, BehindStays
<1>10. Covered'
  BY <1>1, <1>2, <1>3 DEF Covered, Running, AllLevelTools, Recorded
<1> QED BY <1>4, <1>5, <1>6, <1>7, <1>8, <1>9, <1>10 DEF IInv

LEMMA StutterKeeps ==
  ASSUME IInv, UNCHANGED vars
  PROVE  IInv'
<1>1. /\ schema' = schema /\ dryRun' = dryRun /\ allowCode' = allowCode /\ recovered' = recovered
      /\ host' = host /\ levels' = levels /\ level' = level /\ phase' = phase /\ batch' = batch
      /\ queue' = queue /\ stacks' = stacks /\ collected' = collected /\ report' = report
      /\ failed' = failed /\ memo' = memo /\ cancelled' = cancelled
  BY DEF vars, given
<1>2. UNCHANGED <<given, host, levels, level, phase, batch, queue, stacks, collected, report,
                  failed, memo, cancelled>>
  BY DEF vars
<1>3. /\ TypeOK /\ Phases /\ StacksOK /\ HelpersMarked /\ OneRunPerHelper
      /\ Waiting /\ ResultsOK /\ Behind /\ Covered
  BY DEF IInv
<1>4. Grows(host, host') /\ Extends(report, report')
  BY <1>1, <1>3, HostSame DEF Extends
<1>5. TypeOK' /\ Phases'
  BY <1>1, <1>3 DEF TypeOK, Phases
<1>6. StacksOK' /\ HelpersMarked' /\ OneRunPerHelper'
  BY <1>1, <1>2, <1>3, <1>4, StacksStay, HelpersSame
<1>7. Waiting'
  BY <1>1, <1>2, <1>3, <1>4, WaitingStays
<1>8. ResultsOK'
  BY <1>1, <1>2, <1>3, <1>4, MemoStays, ResultsStay
<1>9. Behind'
  BY <1>1, <1>2, <1>3, <1>4, BehindStays
<1>10. Covered'
  BY <1>1, <1>3 DEF Covered, Running, AllLevelTools, LevelTools, Recorded, Underway
<1> QED BY <1>3, <1>5, <1>6, <1>7, <1>8, <1>9, <1>10 DEF IInv

-----------------------------------------------------------------------------
(* The start.                                                              *)

LEMMA SeqOfFacts ==
  ASSUME NEW S, IsFiniteSet(S)
  PROVE  SetToSeq(S) \in Seq(S) /\ Range(SetToSeq(S)) = S
<1>1. PICK n \in Nat : ExistsBijection(1..n, S)
  BY FS_NatBijection
<1>2. Cardinality(S) = n
  BY <1>1, FS_CountingElements
<1>3. PICK b : b \in Bijection(1..n, S)
  BY <1>1 DEF ExistsBijection
<1>4. b \in [1..n -> S] /\ IsInjective(b)
  BY <1>3 DEF Bijection, Injection
<1>5. SetToSeq(S) \in [1..Cardinality(S) -> S] /\ IsInjective(SetToSeq(S))
  BY <1>2, <1>4, Zenon DEF SetToSeq
<1>6. SetToSeq(S) \in SetToSeqs(S)
  BY <1>5, <1>2 DEF SetToSeqs, IsInjective
<1> QED BY <1>6, EnumFacts

LEMMA RefusedHasNoLevels ==
  ASSUME NEW s, ~SortExecutionLevels(s).ok
  PROVE  SortExecutionLevels(s).levels = <<>>
<1>1. ASSUME NEW g, ~SortGraph(g).ok PROVE SortGraph(g).levels = <<>>
  <2> DEFINE missing == {p \in Order(g) : p[1] \notin g.nodes \/ p[2] \notin g.nodes}
             stuck   == StuckIn(Order(g), g.nodes)
  <2>1. SortGraph(g) =
          IF missing # {} THEN [ok |-> FALSE, levels |-> <<>>, cycle |-> <<>>]
          ELSE IF stuck # {}
          THEN [ok |-> FALSE, levels |-> <<>>, cycle |-> ExtractCycle(Order(g), stuck)]
          ELSE [ok |-> TRUE, levels |-> KahnLevels(Order(g), g.nodes), cycle |-> <<>>]
    BY Zenon DEF SortGraph
  <2> HIDE DEF missing, stuck
  <2> QED BY <1>1, <2>1
<1> DEFINE all == SortGraph(AllDependencyEdges(FilteredTools(s)))
           run == SortGraph(EffectiveEdges(RootTools(FilteredTools(s))))
<1>2. SortExecutionLevels(s) = IF all.ok THEN run ELSE all
  BY DEF SortExecutionLevels
<1>3. (~all.ok => all.levels = <<>>) /\ (~run.ok => run.levels = <<>>)
  BY <1>1
<1> HIDE DEF all, run
<1> QED BY <1>2, <1>3

LEMMA InitIInv ==
  ASSUME Init
  PROVE  IInv
<1> DEFINE sorted == SortExecutionLevels(schema)
           R == {Result(t, "installed") : t \in recovered}
<1>1. /\ schema \in Schemas /\ dryRun \in BOOLEAN /\ allowCode \in BOOLEAN /\ host \in Installed
      /\ recovered \in {{}} \cup
           {{t} : t \in {x \in DOMAIN schema : Methods(x) # <<>> /\ host[x] # {}}}
      /\ levels = sorted.levels /\ phase = IF sorted.ok THEN "level" ELSE "error"
      /\ level = 1 /\ batch = <<>> /\ queue = <<>> /\ collected = {}
      /\ stacks = [w \in Workers |-> <<>>] /\ report = SetToSeq(R)
      /\ failed = {} /\ memo = [t \in Tools |-> "none"] /\ cancelled = FALSE
  BY Zenon DEF Init
<1> HIDE DEF sorted, R
<1>2. /\ DOMAIN schema \subseteq Tools /\ IsFiniteSet(DOMAIN schema)
      /\ host \in [Tools -> SUBSET Nat]
  BY <1>1, SchemaTypes, InstalledAssumption
<1>3. /\ recovered \in SUBSET DOMAIN schema
      /\ \A t \in recovered : schema[t].methods # <<>> /\ host[t] # {}
  BY <1>1 DEF Methods
<1>4. IsFiniteSet(R)
  <2>1. CASE recovered = {}
    <3>1. R = {}
      BY <2>1 DEF R
    <3> QED BY <3>1, FS_EmptySet
  <2>2. ASSUME NEW t, recovered = {t} PROVE IsFiniteSet(R)
    <3>1. R = {Result(t, "installed")}
      BY <2>2 DEF R
    <3> QED BY <3>1, FS_Singleton
  <2> QED BY <1>1, <2>1, <2>2
<1>5. report \in Seq(R) /\ Range(report) = R
  BY <1>1, <1>4, SeqOfFacts
<1>6. \A t \in recovered :
        /\ Result(t, "installed") \in Results(schema) /\ Result(t, "installed").tool = t
        /\ Honest(schema, dryRun, host, Result(t, "installed"))
  <2> TAKE t \in recovered
  <2>1. t \in DOMAIN schema /\ host[t] # {} /\ There(schema, t, host)
    BY <1>3, ThereFacts
  <2> QED BY <2>1 DEF Result, Results, Honest, Seen, Good
<1>7. /\ report \in Seq(Results(schema))
      /\ \A k \in DOMAIN report : Honest(schema, dryRun, host, report[k])
      /\ \A t \in recovered : Recorded(t) # {}
  <2>1. R \subseteq Results(schema) /\ \A r \in R : Honest(schema, dryRun, host, r)
    BY <1>6 DEF R
  <2>2. report \in Seq(Results(schema)) /\ \A k \in DOMAIN report : report[k] \in R
    BY <1>5, <2>1
  <2>3. ASSUME NEW t \in recovered PROVE Recorded(t) # {}
    <3>1. Result(t, "installed") \in Range(report)
      BY <1>5 DEF R
    <3>2. PICK k \in DOMAIN report : report[k] = Result(t, "installed")
      BY <3>1 DEF Range
    <3> QED BY <1>6, <3>2 DEF Recorded
  <2> QED BY <2>1, <2>2, <2>3
<1>8. LevelsOf(schema, levels) \/ (phase = "error" /\ levels = <<>>)
  <2>1. CASE sorted.ok
    BY <1>1, <2>1, LevelsFacts DEF sorted
  <2>2. CASE ~sorted.ok
    BY <1>1, <2>2, RefusedHasNoLevels DEF sorted
  <2> QED BY <2>1, <2>2
<1>9. /\ Range(batch) = {} /\ Range(queue) = {} /\ batch \in Seq(DOMAIN schema)
      /\ queue \in Seq(DOMAIN schema) /\ phase \in {"level", "error"}
  BY <1>1 DEF Range
<1>10. /\ stacks \in [Workers -> Seq(Frames(schema))]
       /\ \A w \in Workers : stacks[w] = <<>> /\ DOMAIN stacks[w] = {}
  <2>1. <<>> \in Seq(Frames(schema)) /\ DOMAIN <<>> = {}
    OBVIOUS
  <2> QED BY <1>1, <2>1
<1>11. TypeOK
  <2>1. memo \in [Tools -> Good \cup Bad \cup {"none", "running"}]
    BY <1>1
  <2>2. IsFiniteSet(collected) /\ collected \in SUBSET Results(schema)
    BY <1>1, FS_EmptySet
  <2>3. cancelled \in BOOLEAN
    <3>1. cancelled = FALSE
      BY <1>1, Zenon
    <3> QED BY <3>1, Zenon
  <2>4. level \in Nat \ {0}
    <3>1. level = 1
      BY <1>1, Zenon
    <3> QED BY <3>1
  <2> QED BY <1>1, <1>2, <1>3, <1>7, <1>9, <1>10, <2>1, <2>2, <2>3, <2>4 DEF TypeOK
<1>12. Phases
  BY <1>1, <1>8, <1>9, <1>10 DEF Phases, Running
<1>13. StacksOK /\ HelpersMarked /\ OneRunPerHelper
  BY <1>10 DEF StacksOK, FramesOK, Stacked, HelpersMarked, OneRunPerHelper
<1>14. Waiting
  BY <1>9 DEF Waiting, WaitingOK
<1>15. ResultsOK
  <2>1. \A t \in DOMAIN schema : memo[t] = "none"
    BY <1>1, <1>2
  <2> QED BY <1>1, <1>3, <1>7, <2>1 DEF ResultsOK, Honest, Good
<1>16. Behind
  <2>1. \A k \in DOMAIN levels : ~(k < level)
    <3>1. CASE LevelsOf(schema, levels)
      <4>1. levels \in Seq(Seq(DOMAIN schema))
        BY <3>1 DEF LevelsOf
      <4> QED BY <1>1, <4>1
    <3>2. CASE levels = <<>>
      BY <3>2
    <3> QED BY <1>8, <3>1, <3>2
  <2> QED BY <2>1 DEF Behind
<1>17. Covered
  BY <1>9 DEF Covered, Running
<1> QED BY <1>11, <1>12, <1>13, <1>14, <1>15, <1>16, <1>17 DEF IInv
-----------------------------------------------------------------------------
(* The theorems.                                                           *)

LEMMA NextKeeps ==
  ASSUME IInv, [Next]_vars
  PROVE  IInv'
<1>1. CASE RunStep
  BY <1>1, StartLevelKeeps, BatchInstallKeeps, VerifyBatchKeeps, EndPoolKeeps, EndLevelKeeps,
     RecordCancelledToolsKeeps, WriteStateKeeps DEF RunStep
<1>2. ASSUME NEW w \in Workers, WorkerStep(w) PROVE IInv'
  <2>1. Take(w) \/ Effect(w)
    BY <1>2, WorkerEffects DEF IInv
  <2> QED BY <2>1, TakeKeeps, EffectKeeps
<1>3. ASSUME NEW w \in Workers, TimeOut(w) PROVE IInv'
  BY <1>3, TimeOutKeeps
<1>4. CASE Cancel
  BY <1>4, CancelKeeps
<1>5. CASE UNCHANGED vars
  BY <1>5, StutterKeeps
<1> QED BY <1>1, <1>2, <1>3, <1>4, <1>5 DEF Next, Terminated

\* The parts of the run agree in every reachable state: types, what waits, what
\* runs, what is recorded and what is on the host.
THEOREM Inductive == Spec => []IInv
<1>1. Init => IInv
  BY InitIInv
<1>2. IInv /\ [Next]_vars => IInv'
  BY NextKeeps
<1> QED BY <1>1, <1>2, PTL DEF Spec

\* Two candidates never run one helper at the same time (executeDependency).
THEOREM HelpersRunOnce == Spec => []OneRunPerHelper
<1>1. IInv => OneRunPerHelper
  BY DEF IInv
<1> QED BY <1>1, Inductive, PTL

\* No result says a tool is there that is not, and a run that ends has a result
\* of every tool it planned (runRemaining, verifyBatchInstall, recordCancelledTools).
THEOREM ReportTold == Spec => []ReportIsTrue
<1>1. IInv => ReportIsTrue
  BY DEF IInv, ResultsOK, Covered, Seen, ReportIsTrue
<1> QED BY <1>1, Inductive, PTL

\* Only a batch and a worker's installation put a tool on the host.
LEMMA StepJustified ==
  ASSUME IInv, [Next]_vars
  PROVE  Justified \/ UNCHANGED host
<1>1. CASE RunStep
  <2>1. CASE BatchInstall
    BY <2>1, BatchInstallKeeps
  <2>2. CASE ~BatchInstall
    BY <1>1, <2>2, Zenon DEF RunStep, StartLevel, VerifyBatch, EndPool, EndLevel,
                             RecordCancelledTools, WriteState
  <2> QED BY <2>1, <2>2
<1>2. ASSUME NEW w \in Workers, WorkerStep(w) PROVE Justified \/ UNCHANGED host
  <2>1. Take(w) \/ Effect(w)
    BY <1>2, WorkerEffects DEF IInv
  <2> QED BY <2>1 DEF Take, Effect
<1>3. ASSUME NEW w \in Workers, TimeOut(w) PROVE UNCHANGED host
  BY <1>3 DEF TimeOut
<1>4. CASE Cancel
  BY <1>4 DEF Cancel
<1>5. CASE UNCHANGED vars
  BY <1>5 DEF vars
<1> QED BY <1>1, <1>2, <1>3, <1>4, <1>5 DEF Next, Terminated

\* Whatever puts a tool on the host, its level, a batch or another's candidate,
\* does so when all it requires is there, and never one that may run arbitrary
\* code without consent (blockFailedRequires, filterDangerousTools,
\* ensureMethodDependencies).
THEOREM OnlyJustifiedInstalls == Spec => InstallsJustified
<1> DEFINE Just == \A t \in DOMAIN schema :
                     host'[t] # host[t] => /\ \A d \in Range(Requires(t)) : Present(d, host)
                                           /\ ~Dangerous(t)
<1>1. ASSUME IInv, [Next]_vars PROVE [Just]_vars
  <2>1. Justified \/ UNCHANGED host
    BY <1>1, StepJustified
  <2>2. CASE Justified
    <3>1. \A t \in DOMAIN schema :
            host'[t] # host[t] => ~Risky(schema, allowCode, t) /\ NeedsThere(schema, t, host)
      BY <2>2 DEF Justified
    <3> QED BY <3>1, PresentIs, DangerousIs, Zenon DEF NeedsThere, Requires
  <2>3. CASE UNCHANGED host
    BY <2>3
  <2> QED BY <2>1, <2>2, <2>3
<1>2. IInv /\ [Next]_vars => [Just]_vars
  BY <1>1
<1> QED BY <1>2, Inductive, PTL DEF Spec, InstallsJustified
=============================================================================
