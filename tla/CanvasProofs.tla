---------------------------- MODULE CanvasProofs ----------------------------
(***************************************************************************)
(* Theorems about the canvas, for any nodes, zones and texts and wherever the *)
(* nodes are: what the generator writes, the check accepts but for a row of   *)
(* too many columns or one that it splits, and the generator writes again.    *)
(*                                                                           *)
(* zone_layout.py frames the zones (Frame), groups them by their top nodes    *)
(* (Rows), levels each row (Levelled) and stacks the rows (Stacked). What     *)
(* comes out is Neat: the zones of a row have one top and one bottom and a    *)
(* gutter between them, the rows one left edge and a row gutter between them. *)
(***************************************************************************)
EXTENDS Canvas, FiniteSetTheorems, SequenceTheorems, WellFoundedInduction, TLAPS

-----------------------------------------------------------------------------
(* Counting, extremes, and things laid one after another *)

\* Induction up to a number, on a set: what holds of 0 and is handed on holds of all.
LEMMA CountingUp ==
  ASSUME NEW n \in Nat, NEW S, 0 \in S, \A k \in 0 .. n - 1 : k \in S => k + 1 \in S
  PROVE  0 .. n \subseteq S
<1> DEFINE Missed == (0 .. n) \ S
<1> SUFFICES ASSUME Missed # {} PROVE FALSE
  OBVIOUS
<1>1. Missed \subseteq Nat
  OBVIOUS
<1> HIDE DEF Missed
<1>2. PICK k \in Missed : \A m \in Missed : ~(<<m, k>> \in OpToRel(<, Nat))
  BY <1>1, NatLessThanWellFounded, WFMin, Zenon
<1>3. \A m \in Missed : m \in Nat /\ k \in Nat
  BY <1>1
<1>4. \A m \in Missed : ~(m < k)
  BY <1>2, <1>3, Zenon DEF OpToRel
<1>5. k \in 1 .. n /\ k - 1 \notin Missed
  BY <1>3, <1>4 DEF Missed
<1>6. k - 1 \in 0 .. n - 1 /\ k - 1 \in S
  BY <1>5 DEF Missed
<1>7. (k - 1) + 1 \in S
  BY <1>6
<1> QED
  BY <1>5, <1>7 DEF Missed

\* What is computed in n steps.
Computed(n, V, base, step) ==
  {r \in [0 .. n -> V] : r[0] = base /\ \A k \in 1 .. n : r[k] = step[k][r[k - 1]]}

\* What is computed step by step, exists.
LEMMA StepByStep ==
  ASSUME NEW n \in Nat, NEW V, NEW base \in V, NEW step \in [1 .. n -> [V -> V]]
  PROVE  Computed(n, V, base, step) # {}
<1> DEFINE Upto(m) == \E r \in [0 .. m -> V] : r[0] = base /\ \A k \in 1 .. m : r[k] = step[k][r[k - 1]]
           S == {m \in 0 .. n : Upto(m)}
<1>1. 0 \in S
  <2> DEFINE r == [i \in 0 .. 0 |-> base]
  <2>1. r \in [0 .. 0 -> V] /\ r[0] = base /\ \A k \in 1 .. 0 : r[k] = step[k][r[k - 1]]
    OBVIOUS
  <2>2. Upto(0)
    <3> HIDE DEF r
    <3> QED
      BY <2>1
  <2>3. 0 \in 0 .. n
    OBVIOUS
  <2> QED
    BY <2>2, <2>3
<1>2. ASSUME NEW m \in 0 .. n - 1, m \in S PROVE m + 1 \in S
  <2>1. PICK r \in [0 .. m -> V] : r[0] = base /\ \A k \in 1 .. m : r[k] = step[k][r[k - 1]]
    BY <1>2
  <2> DEFINE q == [i \in 0 .. m + 1 |-> IF i = m + 1 THEN step[m + 1][r[m]] ELSE r[i]]
  <2>2. m \in Nat /\ m + 1 \in 1 .. n /\ m \in 0 .. m
    OBVIOUS
  <2>3. step[m + 1][r[m]] \in V
    BY <2>2
  <2>4. q \in [0 .. m + 1 -> V]
    BY <2>2, <2>3
  <2>5. q[0] = base /\ q[m + 1] = step[m + 1][r[m]] /\ \A i \in 0 .. m : q[i] = r[i]
    BY <2>1, <2>2
  <2>6. ASSUME NEW k \in 1 .. m + 1 PROVE q[k] = step[k][q[k - 1]]
    <3>1. CASE k = m + 1
      BY <2>2, <2>5, <3>1
    <3>2. CASE k # m + 1
      <4>1. k \in 1 .. m /\ k - 1 \in 0 .. m /\ k \in 0 .. m
        BY <2>2, <3>2
      <4> QED
        BY <2>1, <2>5, <4>1
    <3> QED
      BY <3>1, <3>2
  <2>7. Upto(m + 1)
    BY <2>4, <2>5, <2>6
  <2> QED
    BY <2>2, <2>7
<1>3. 0 .. n \subseteq S
  <2> HIDE DEF S
  <2> QED
    BY <1>1, <1>2, CountingUp
<1>4. n \in S
  <2> HIDE DEF S
  <2> QED
    BY <1>3
<1> QED
  BY <1>4 DEF Computed

\* Finitely many whole numbers have a least and a largest one.
LEMMA Extremes ==
  ASSUME NEW n \in Nat \ {0}, NEW g \in [1 .. n -> Int]
  PROVE  /\ \E i \in 1 .. n : \A j \in 1 .. n : g[j] <= g[i]
         /\ \E i \in 1 .. n : \A j \in 1 .. n : g[i] <= g[j]
<1> DEFINE Bounded(k) == /\ \E i \in 1 .. k : \A j \in 1 .. k : g[j] <= g[i]
                         /\ \E i \in 1 .. k : \A j \in 1 .. k : g[i] <= g[j]
           S == {k \in 0 .. n : k = 0 \/ Bounded(k)}
<1>1. 0 \in S
  OBVIOUS
<1>2. ASSUME NEW k \in 0 .. n - 1, k \in S PROVE k + 1 \in S
  <2>1. CASE k = 0
    <3>1. Bounded(1)
      OBVIOUS
    <3> QED
      BY <2>1, <3>1
  <2>2. CASE k # 0
    <3>1. PICK i \in 1 .. k : \A j \in 1 .. k : g[j] <= g[i]
      BY <1>2, <2>2
    <3>2. PICK l \in 1 .. k : \A j \in 1 .. k : g[l] <= g[j]
      BY <1>2, <2>2
    <3>3. /\ k + 1 \in 1 .. k + 1 /\ i \in 1 .. k + 1 /\ l \in 1 .. k + 1
          /\ \A j \in 1 .. k + 1 : j = k + 1 \/ j \in 1 .. k
          /\ \A j \in 1 .. k + 1 : g[j] \in Int
      OBVIOUS
    <3>4. \E m \in 1 .. k + 1 : \A j \in 1 .. k + 1 : g[j] <= g[m]
      <4>1. CASE g[k + 1] <= g[i]
        BY <3>1, <3>3, <4>1
      <4>2. CASE g[i] <= g[k + 1]
        <5>1. \A j \in 1 .. k + 1 : g[j] <= g[k + 1]
          BY <3>1, <3>3, <4>2
        <5> QED
          BY <3>3, <5>1
      <4> QED
        BY <3>3, <4>1, <4>2
    <3>5. \E m \in 1 .. k + 1 : \A j \in 1 .. k + 1 : g[m] <= g[j]
      <4>1. CASE g[l] <= g[k + 1]
        BY <3>2, <3>3, <4>1
      <4>2. CASE g[k + 1] <= g[l]
        <5>1. \A j \in 1 .. k + 1 : g[k + 1] <= g[j]
          BY <3>2, <3>3, <4>2
        <5> QED
          BY <3>3, <5>1
      <4> QED
        BY <3>3, <4>1, <4>2
    <3>6. Bounded(k + 1)
      BY <3>4, <3>5
    <3>7. k + 1 \in 0 .. n
      OBVIOUS
    <3> HIDE DEF Bounded
    <3> QED
      BY <3>6, <3>7
  <2> HIDE DEF S
  <2> QED
    BY <2>1, <2>2
<1>3. 0 .. n \subseteq S
  <2> HIDE DEF S
  <2> QED
    BY <1>1, <1>2, CountingUp
<1>4. n \in S
  <2> HIDE DEF S
  <2> QED
    BY <1>3
<1>5. Bounded(n)
  <2> HIDE DEF Bounded
  <2> QED
    BY <1>4
<1> QED
  BY <1>5

\* The largest and the least of what finitely many things measure.
LEMMA MaxMin ==
  ASSUME NEW D, IsFiniteSet(D), D # {}, NEW by \in [D -> Int], NEW S, S = {by[d] : d \in D}
  PROVE  /\ Max(S) \in S /\ Min(S) \in S /\ Max(S) \in Int /\ Min(S) \in Int
         /\ \A d \in D : Min(S) <= by[d] /\ by[d] <= Max(S)
<1>1. PICK n \in Nat : ExistsSurjection(1 .. n, D)
  BY FS_NatSurjection
<1>2. PICK f \in [1 .. n -> D] : \A d \in D : \E i \in 1 .. n : f[i] = d
  BY <1>1 DEF ExistsSurjection, Surjection
<1>3. n \in Nat \ {0}
  BY <1>2
<1> DEFINE g == [i \in 1 .. n |-> by[f[i]]]
<1>4. g \in [1 .. n -> Int] /\ \A i \in 1 .. n : g[i] = by[f[i]] /\ f[i] \in D
  OBVIOUS
<1> HIDE DEF g
<1>5. PICK i \in 1 .. n : \A j \in 1 .. n : g[j] <= g[i]
  BY <1>3, <1>4, Extremes
<1>6. PICK l \in 1 .. n : \A j \in 1 .. n : g[l] <= g[j]
  BY <1>3, <1>4, Extremes
<1>7. g[i] \in S /\ g[l] \in S /\ \A y \in S : y \in Int /\ g[i] >= y /\ g[l] <= y
  BY <1>2, <1>4, <1>5, <1>6
<1>8. Max(S) \in S /\ \A y \in S : Max(S) >= y
  BY <1>7 DEF Max
<1>9. Min(S) \in S /\ \A y \in S : Min(S) <= y
  BY <1>7 DEF Min
<1> QED
  BY <1>7, <1>8, <1>9

\* A sum of parts: where things begin that are laid one after another.
LEMMA ChainIs ==
  ASSUME NEW n \in Nat \ {0}, NEW sizes \in [1 .. n -> Int], NEW first \in Int, NEW gap \in Int
  PROVE  /\ Chain(first, sizes, gap) \in [1 .. n -> Int]
         /\ Chain(first, sizes, gap)[1] = first
         /\ \A i \in 2 .. n : Chain(first, sizes, gap)[i] =
                Chain(first, sizes, gap)[i - 1] + sizes[i - 1] + gap
<1> DEFINE step == [k \in 1 .. n - 1 |-> [v \in Int |-> v + sizes[k] + gap]]
<1>1. step \in [1 .. n - 1 -> [Int -> Int]] /\ n - 1 \in Nat
  OBVIOUS
<1>2. \A k \in 1 .. n - 1, v \in Int : step[k][v] = v + sizes[k] + gap
  OBVIOUS
<1> HIDE DEF step
<1>3. PICK r \in [0 .. n - 1 -> Int] : r[0] = first /\ \A k \in 1 .. n - 1 : r[k] = step[k][r[k - 1]]
  <2>1. Computed(n - 1, Int, first, step) # {}
    BY <1>1, StepByStep
  <2> QED
    BY <2>1 DEF Computed
<1> DEFINE c == [i \in 1 .. n |-> r[i - 1]]
<1>4. c \in [1 .. n -> Int] /\ c[1] = first
  BY <1>3
<1>5. \A i \in 2 .. n : c[i] = c[i - 1] + sizes[i - 1] + gap
  <2> SUFFICES ASSUME NEW i \in 2 .. n PROVE c[i] = c[i - 1] + sizes[i - 1] + gap
    OBVIOUS
  <2>1. i - 1 \in 1 .. n - 1 /\ i - 1 - 1 \in 0 .. n - 1 /\ i \in 1 .. n /\ i - 1 \in 1 .. n
    OBVIOUS
  <2>2. c[i] = r[i - 1] /\ c[i - 1] = r[i - 1 - 1] /\ r[i - 1 - 1] \in Int
    BY <2>1
  <2> QED
    BY <1>2, <1>3, <2>1, <2>2
<1> HIDE DEF c
<1> DEFINE Body(at) == [i \in DOMAIN sizes |-> IF i = 1 THEN first ELSE at[i - 1] + sizes[i - 1] + gap]
<1>6. c = Body(c)
  <2>1. DOMAIN sizes = 1 .. n
    OBVIOUS
  <2>2. \A i \in 1 .. n : i = 1 \/ i \in 2 .. n
    OBVIOUS
  <2>3. \A i \in 1 .. n : c[i] = IF i = 1 THEN first ELSE c[i - 1] + sizes[i - 1] + gap
    BY <1>4, <1>5, <2>2
  <2> QED
    BY <1>4, <2>1, <2>3
<1>7. Chain(first, sizes, gap) = Body(Chain(first, sizes, gap))
  <2>1. Chain(first, sizes, gap) = CHOOSE at : at = Body(at)
    BY DEF Chain
  <2> HIDE DEF Body
  <2> QED
    BY <1>6, <2>1
<1> QED
  <2>0. DOMAIN sizes = 1 .. n
    OBVIOUS
  <2> DEFINE d == Chain(first, sizes, gap)
  <2>1. d = [i \in 1 .. n |-> IF i = 1 THEN first ELSE d[i - 1] + sizes[i - 1] + gap]
    BY <1>7, <2>0
  <2> HIDE DEF d
  <2>2. DOMAIN d = 1 .. n /\ d[1] = first
    BY <2>1
  <2>3. \A i \in 2 .. n : d[i] = d[i - 1] + sizes[i - 1] + gap
    BY <2>1
  <2> DEFINE S == {k \in 0 .. n : k = 0 \/ d[k] \in Int}
  <2>4. 0 \in S
    OBVIOUS
  <2>5. ASSUME NEW k \in 0 .. n - 1, k \in S PROVE k + 1 \in S
    <3>1. CASE k = 0
      BY <2>2, <3>1
    <3>2. CASE k # 0
      <4>1. k + 1 \in 2 .. n /\ (k + 1) - 1 = k /\ k \in 1 .. n /\ d[k] \in Int
        BY <2>5, <3>2
      <4> QED
        BY <2>3, <4>1
    <3> QED
      BY <3>1, <3>2
  <2>6. 0 .. n \subseteq S
    <3> HIDE DEF S
    <3> QED
      BY <2>4, <2>5, CountingUp
  <2>7. \A i \in 1 .. n : d[i] \in Int
    <3> SUFFICES ASSUME NEW i \in 1 .. n PROVE d[i] \in Int
      OBVIOUS
    <3>1. i \in S /\ i # 0
      <4> HIDE DEF S
      <4> QED
        BY <2>6
    <3> QED
      BY <3>1
  <2>8. d \in [1 .. n -> Int]
    BY <2>1, <2>7
  <2> QED
    BY <2>2, <2>3, <2>8 DEF d

-----------------------------------------------------------------------------
(* Sorted: there is an ascending order, and only one *)

\* The orderings of a set of numbers by a measure.
Orderings(E, by, k) ==
  {s \in [1 .. k -> E] : \A i, j \in 1 .. k : i < j => Precedes(by, s[i], s[j])}

\* Of finitely many numbers one comes last.
LEMMA OneIsLast ==
  ASSUME NEW E, IsFiniteSet(E), E # {}, E \subseteq Nat, NEW by, \A e \in E : by[e] \in Int
  PROVE  \E m \in E : \A e \in E \ {m} : Precedes(by, e, m)
<1> DEFINE f == [e \in E |-> by[e]]
           S == {f[e] : e \in E}
           A == {e \in E : by[e] = Max(S)}
           g == [e \in A |-> e]
           T == {g[e] : e \in A}
<1>1. f \in [E -> Int] /\ \A e \in E : f[e] = by[e]
  OBVIOUS
<1>2. Max(S) \in S /\ Max(S) \in Int /\ \A e \in E : f[e] <= Max(S)
  <2> HIDE DEF f
  <2> QED
    BY <1>1, MaxMin
<1>3. IsFiniteSet(A) /\ A # {} /\ A \subseteq E
  <2>1. A \subseteq E /\ IsFiniteSet(A)
    BY FS_Subset
  <2> QED
    BY <1>1, <1>2, <2>1
<1> HIDE DEF f, A, S
<1>4. g \in [A -> Int] /\ \A e \in A : g[e] = e
  BY <1>3
<1>5. Max(T) \in T /\ \A e \in A : g[e] <= Max(T)
  <2> HIDE DEF g
  <2> QED
    BY <1>3, <1>4, MaxMin
<1>6. Max(T) \in A /\ \A e \in A : e <= Max(T)
  BY <1>4, <1>5
<1> HIDE DEF T
<1> DEFINE m == Max(T)
<1>7. m \in E /\ by[m] = Max(S) /\ m \in Nat
  BY <1>6, <1>3 DEF A
<1>8. ASSUME NEW e \in E \ {m} PROVE Precedes(by, e, m)
  <2>1. by[e] \in Int /\ by[e] <= by[m] /\ by[m] \in Int /\ e \in Nat /\ e # m
    BY <1>1, <1>2, <1>7
  <2>2. by[e] = by[m] => e <= m
    BY <1>6, <1>7 DEF A
  <2> QED
    BY <2>1, <2>2, <1>7 DEF Precedes
<1> QED
  BY <1>7, <1>8

\* Finitely many numbers can be ordered by any measure.
LEMMA OrderingExists ==
  ASSUME NEW D, IsFiniteSet(D), D \subseteq Nat, NEW by \in [D -> Int]
  PROVE  Orderings(D, by, Cardinality(D)) # {}
<1> DEFINE n == Cardinality(D)
           S == {k \in 0 .. n : \A E \in SUBSET D : Cardinality(E) = k => Orderings(E, by, k) # {}}
<1>1. n \in Nat
  BY FS_CardinalityType
<1>2. 0 \in S
  <2>1. ASSUME NEW E \in SUBSET D PROVE Orderings(E, by, 0) # {}
    <3> DEFINE s == [i \in 1 .. 0 |-> i]
    <3>1. s \in [1 .. 0 -> E] /\ \A i, j \in 1 .. 0 : i < j => Precedes(by, s[i], s[j])
      OBVIOUS
    <3> HIDE DEF s
    <3> QED
      BY <3>1 DEF Orderings
  <2> QED
    BY <1>1, <2>1
<1>3. ASSUME NEW k \in 0 .. n - 1, k \in S PROVE k + 1 \in S
  <2>1. ASSUME NEW E \in SUBSET D, Cardinality(E) = k + 1 PROVE Orderings(E, by, k + 1) # {}
    <3>1. IsFiniteSet(E) /\ E # {} /\ k \in Nat /\ E \subseteq Nat /\ \A e \in E : by[e] \in Int
      <4>1. IsFiniteSet(E) /\ E \subseteq Nat /\ \A e \in E : by[e] \in Int
        BY FS_Subset
      <4>2. k \in Nat /\ k + 1 # 0
        BY <1>1
      <4>3. E # {}
        BY <2>1, <4>2, FS_EmptySet
      <4> QED
        BY <4>1, <4>2, <4>3
    <3>2. PICK m \in E : \A e \in E \ {m} : Precedes(by, e, m)
      BY <3>1, OneIsLast
    <3>3. E \ {m} \in SUBSET D /\ Cardinality(E \ {m}) = k
      <4>1. Cardinality(E \ {m}) = Cardinality(E) - 1
        BY <3>1, FS_RemoveElement
      <4> QED
        BY <2>1, <3>1, <4>1
    <3>4. PICK s \in Orderings(E \ {m}, by, k) : TRUE
      BY <1>3, <3>3
    <3>5. /\ s \in [1 .. k -> E \ {m}]
          /\ \A i, j \in 1 .. k : i < j => Precedes(by, s[i], s[j])
      BY <3>4 DEF Orderings
    <3> DEFINE q == [i \in 1 .. k + 1 |-> IF i = k + 1 THEN m ELSE s[i]]
    <3>6. \A i \in 1 .. k + 1 : i = k + 1 \/ i \in 1 .. k
      BY <3>1
    <3>7. q \in [1 .. k + 1 -> E] /\ q[k + 1] = m /\ \A i \in 1 .. k : q[i] = s[i] /\ q[i] \in E \ {m}
      BY <3>1, <3>5, <3>6
    <3> HIDE DEF q
    <3>8. ASSUME NEW i \in 1 .. k + 1, NEW j \in 1 .. k + 1, i < j PROVE Precedes(by, q[i], q[j])
      <4>1. i \in 1 .. k
        BY <3>1, <3>8
      <4>2. CASE j \in 1 .. k
        BY <3>5, <3>7, <3>8, <4>1, <4>2
      <4>3. CASE j = k + 1
        BY <3>2, <3>7, <4>1, <4>3
      <4> QED
        BY <3>6, <4>2, <4>3
    <3>9. q \in Orderings(E, by, k + 1)
      BY <3>7, <3>8 DEF Orderings
    <3> QED
      BY <3>9
  <2>2. k + 1 \in 0 .. n
    BY <1>1
  <2> QED
    BY <2>1, <2>2
<1>4. n \in S
  <2> HIDE DEF S, n
  <2> QED
    BY <1>1, <1>2, <1>3, CountingUp
<1> QED
  BY <1>4

\* A list of a set, each member once.
Lists(D, n, s) ==
  /\ n \in Nat /\ s \in [1 .. n -> D]
  /\ \A i, j \in 1 .. n : s[i] = s[j] => i = j
  /\ \A d \in D : \E i \in 1 .. n : s[i] = d

\* An ordering lists everything once.
LEMMA OrderingIsWhole ==
  ASSUME NEW D, IsFiniteSet(D), D \subseteq Nat, NEW by \in [D -> Int],
         NEW s \in Orderings(D, by, Cardinality(D))
  PROVE  Lists(D, Cardinality(D), s)
<1> DEFINE n == Cardinality(D)
<1>1. n \in Nat
  BY FS_CardinalityType
<1> HIDE DEF n
<1>2. s \in [1 .. n -> D] /\ \A i, j \in 1 .. n : i < j => Precedes(by, s[i], s[j])
  BY DEF Orderings, n
<1>3. \A d \in D : ~Precedes(by, d, d)
  BY DEF Precedes
<1>4. ASSUME NEW i \in 1 .. n, NEW j \in 1 .. n, s[i] = s[j] PROVE i = j
  <2>1. s[i] \in D /\ ~(i < j) /\ ~(j < i)
    BY <1>2, <1>3, <1>4
  <2> QED
    BY <1>1, <2>1
<1>5. s \in Surjection(1 .. n, D)
  <2>1. s \in Injection(1 .. n, D)
    BY <1>2, <1>4 DEF Injection, IsInjective
  <2>2. IsFiniteSet(1 .. n) /\ Cardinality(1 .. n) = n
    <3>1. 1 \in Int /\ n \in Int
      BY <1>1
    <3> QED
      BY <1>1, <3>1, FS_Interval
  <2> QED
    BY <2>1, <2>2, FS_Injection DEF n
<1>6. \A d \in D : \E i \in 1 .. n : s[i] = d
  BY <1>5 DEF Surjection
<1> QED
  BY <1>1, <1>2, <1>4, <1>6 DEF n, Lists

\* What Sorted returns.
LEMMA SortedIs ==
  ASSUME NEW D, IsFiniteSet(D), D \subseteq Nat, NEW by \in [D -> Int]
  PROVE  Sorted(by) \in Orderings(D, by, Cardinality(D))
<1> DEFINE n == Cardinality(D)
<1>1. DOMAIN by = D
  OBVIOUS
<1>2. \A s \in [1 .. n -> D] : DOMAIN s = 1 .. n
  OBVIOUS
<1>3. PICK q \in Orderings(D, by, n) : TRUE
  BY OrderingExists
<1>4. q \in [1 .. n -> D] /\ \A i, j \in DOMAIN q : i < j => Precedes(by, q[i], q[j])
  BY <1>3 DEF Orderings
<1>5. /\ Sorted(by) \in [1 .. n -> D]
      /\ \A i, j \in DOMAIN Sorted(by) : i < j => Precedes(by, Sorted(by)[i], Sorted(by)[j])
  BY <1>1, <1>4 DEF Sorted
<1> QED
  BY <1>5 DEF Orderings

\* There is one ordering only.
LEMMA SortedAlong ==
  ASSUME NEW D, IsFiniteSet(D), D \subseteq Nat, NEW by \in [D -> Int],
         NEW c \in Orderings(D, by, Cardinality(D))
  PROVE  Sorted(by) = c
<1> DEFINE n == Cardinality(D)
           s == Sorted(by)
           S == {k \in 0 .. n : \A i \in 1 .. k : s[i] = c[i]}
<1>1. /\ n \in Nat
      /\ s \in [1 .. n -> D]
      /\ \A i, j \in 1 .. n : i < j => Precedes(by, s[i], s[j])
      /\ \A i, j \in 1 .. n : s[i] = s[j] => i = j
      /\ \A d \in D : \E i \in 1 .. n : s[i] = d
  <2>1. s \in Orderings(D, by, n)
    BY SortedIs
  <2>2. Lists(D, n, s)
    BY <2>1, OrderingIsWhole
  <2> QED
    BY <2>1, <2>2 DEF Lists, Orderings
<1>2. /\ c \in [1 .. n -> D]
      /\ \A i, j \in 1 .. n : i < j => Precedes(by, c[i], c[j])
      /\ \A i, j \in 1 .. n : c[i] = c[j] => i = j
      /\ \A d \in D : \E i \in 1 .. n : c[i] = d
  <2>1. Lists(D, n, c)
    BY OrderingIsWhole
  <2> QED
    BY <2>1 DEF Lists, Orderings
<1> HIDE DEF n, s
<1>3. 0 \in S
  BY <1>1
<1>4. ASSUME NEW k \in 0 .. n - 1, k \in S PROVE k + 1 \in S
  <2>1. k \in Nat /\ k + 1 \in 1 .. n /\ \A i \in 1 .. k : i \in 1 .. n /\ s[i] = c[i]
    BY <1>1, <1>4
  <2>2. PICK j \in 1 .. n : c[j] = s[k + 1]
    BY <1>1, <1>2, <2>1
  <2>3. PICK l \in 1 .. n : s[l] = c[k + 1]
    BY <1>1, <1>2, <2>1
  <2>4. j \notin 1 .. k /\ l \notin 1 .. k
    BY <1>1, <1>2, <2>1, <2>2, <2>3
  <2>5. (j = k + 1 \/ k + 1 < j) /\ (l = k + 1 \/ k + 1 < l)
    BY <1>1, <2>1, <2>4
  <2>6. \A a, b \in D : Precedes(by, a, b) => ~Precedes(by, b, a)
    <3> SUFFICES ASSUME NEW a \in D, NEW b \in D, Precedes(by, a, b) PROVE ~Precedes(by, b, a)
      OBVIOUS
    <3>1. a \in Nat /\ b \in Nat /\ by[a] \in Int /\ by[b] \in Int
      OBVIOUS
    <3> QED
      BY <3>1 DEF Precedes
  <2>7. j = k + 1 \/ l = k + 1
    <3>1. k + 1 < j => Precedes(by, c[k + 1], s[k + 1])
      BY <1>2, <2>1, <2>2
    <3>2. k + 1 < l => Precedes(by, s[k + 1], c[k + 1])
      BY <1>1, <2>1, <2>3
    <3>3. c[k + 1] \in D /\ s[k + 1] \in D
      BY <1>1, <1>2, <2>1
    <3> QED
      BY <2>5, <2>6, <3>1, <3>2, <3>3
  <2>8. s[k + 1] = c[k + 1]
    BY <2>2, <2>3, <2>7
  <2>9. \A i \in 1 .. k + 1 : i \in 1 .. k \/ i = k + 1
    BY <2>1
  <2> QED
    BY <1>1, <2>1, <2>8, <2>9
<1>5. 0 .. n \subseteq S
  <2> HIDE DEF S
  <2> QED
    BY <1>1, <1>3, <1>4, CountingUp
<1>6. s = c
  <2>1. n \in S
    <3> HIDE DEF S
    <3> QED
      BY <1>1, <1>5
  <2>2. \A i \in 1 .. n : s[i] = c[i]
    BY <2>1
  <2> QED
    BY <1>1, <1>2, <2>2
<1> QED
  BY <1>6 DEF s

-----------------------------------------------------------------------------
(* Rows: the zones, grouped by where their nodes begin *)

\* E, a part of the zones D, in rows.
Grouped(D, E, y, reach, rows) ==
  /\ rows \in Seq(Seq(D))
  /\ \A r \in 1 .. Len(rows) : Len(rows[r]) > 0
  /\ \A r \in 1 .. Len(rows) : \A i \in 1 .. Len(rows[r]) : rows[r][i] \in E
  /\ \A e \in E : \E r \in 1 .. Len(rows) : \E i \in 1 .. Len(rows[r]) : rows[r][i] = e
  /\ \A r, q \in 1 .. Len(rows) : \A i \in 1 .. Len(rows[r]), j \in 1 .. Len(rows[q]) :
       rows[r][i] = rows[q][j] => r = q /\ i = j
  /\ \A r \in 1 .. Len(rows) : \A i \in 1 .. Len(rows[r]) :
       y[rows[r][1]] <= y[rows[r][i]] /\ y[rows[r][i]] <= y[rows[r][1]] + reach
  /\ \A r, q \in 1 .. Len(rows) : r < q => y[rows[r][1]] + reach < y[rows[q][1]]

\* A zone that joins the last row, or begins one.
Joins(y, reach, rows, z) ==
  IF rows # <<>> /\ y[z] - y[Head(Last(rows))] <= reach
  THEN [rows EXCEPT ![Len(rows)] = Append(@, z)]
  ELSE Append(rows, <<z>>)

\* Rows taken along an ordering grow zone by zone.
LEMMA JoinsIs ==
  ASSUME NEW D, NEW E \in SUBSET D, NEW y \in [D -> Int], NEW reach \in Nat,
         NEW rows, Grouped(D, E, y, reach, rows),
         NEW z \in D, z \notin E, \A e \in E : y[e] <= y[z]
  PROVE  Grouped(D, E \cup {z}, y, reach, Joins(y, reach, rows, z))
<1> DEFINE new == Joins(y, reach, rows, z)
           L == Len(rows)
<1>1. /\ rows \in Seq(Seq(D)) /\ L \in Nat
      /\ \A r \in 1 .. L : rows[r] \in Seq(D) /\ Len(rows[r]) \in Nat
  BY DEF Grouped
<1>2. \A r \in 1 .. L : Len(rows[r]) > 0 /\ Len(rows[r]) \in Nat
  BY <1>1 DEF Grouped
<1>3. \A r \in 1 .. L : \A i \in 1 .. Len(rows[r]) : rows[r][i] \in E
  BY DEF Grouped
<1>4. \A e \in E : \E r \in 1 .. L : \E i \in 1 .. Len(rows[r]) : rows[r][i] = e
  BY DEF Grouped
<1>5. \A r, q \in 1 .. L : \A i \in 1 .. Len(rows[r]), j \in 1 .. Len(rows[q]) :
        rows[r][i] = rows[q][j] => r = q /\ i = j
  BY DEF Grouped
<1>6. \A r \in 1 .. L : \A i \in 1 .. Len(rows[r]) :
        y[rows[r][1]] <= y[rows[r][i]] /\ y[rows[r][i]] <= y[rows[r][1]] + reach
  BY DEF Grouped
<1>7. \A r, q \in 1 .. L : r < q => y[rows[r][1]] + reach < y[rows[q][1]]
  BY DEF Grouped
<1>8. L \in Nat
  BY <1>1
<1>9. \A r \in 1 .. L : 1 \in 1 .. Len(rows[r]) /\ rows[r][1] \in E /\ y[rows[r][1]] \in Int
  <2>1. \A r \in 1 .. L : 1 \in 1 .. Len(rows[r])
    BY <1>2
  <2>2. \A r \in 1 .. L : rows[r][1] \in E
    BY <1>3, <2>1
  <2> QED
    BY <2>1, <2>2
<1>10. CASE rows # <<>> /\ y[z] - y[Head(Last(rows))] <= reach
  <2> DEFINE m == Len(rows[L])
  <2>1. L > 0 /\ L \in 1 .. L /\ m \in Nat /\ m > 0 /\ Head(Last(rows)) = rows[L][1]
    <3>1. L > 0
      BY <1>1, <1>10
    <3>2. L \in 1 .. L
      BY <1>8, <3>1
    <3> QED
      BY <1>1, <1>2, <3>1, <3>2 DEF Last
  <2>2. new = [rows EXCEPT ![L] = Append(rows[L], z)]
    BY <1>10 DEF Joins
  <2>3. /\ new \in Seq(Seq(D)) /\ Len(new) = L
        /\ new[L] = Append(rows[L], z)
        /\ \A r \in 1 .. L : r # L => new[r] = rows[r]
    BY <1>1, <2>1, <2>2
  <2>4. /\ Len(new[L]) = m + 1 /\ new[L][m + 1] = z
        /\ \A i \in 1 .. m : new[L][i] = rows[L][i]
    BY <1>1, <2>1, <2>3
  <2>5. \A r \in 1 .. L : r # L => new[r] = rows[r] /\ Len(new[r]) = Len(rows[r])
    BY <2>3
  <2>6. m \in Nat /\ m > 0
    BY <2>1
  <2> HIDE DEF new, m, L
  <2>7. \A i \in 1 .. m + 1 : i = m + 1 \/ i \in 1 .. m
    BY <2>6
  <2>8. m + 1 \in 1 .. m + 1 /\ \A i \in 1 .. m : i \in 1 .. m + 1 /\ i # m + 1
    BY <2>6
  \* Places: z is the last one of row L, the others are where they were.
  <2>9. ASSUME NEW r \in 1 .. L, NEW i \in 1 .. Len(new[r])
        PROVE  \/ r = L /\ i = m + 1 /\ new[r][i] = z
               \/ i \in 1 .. Len(rows[r]) /\ new[r][i] = rows[r][i]
    <3>1. CASE r # L
      BY <2>5, <3>1
    <3>2. CASE r = L
      BY <2>4, <2>7, <3>2 DEF m
    <3> QED
      BY <3>1, <3>2
  <2>10. \A r \in 1 .. L : \A i \in 1 .. Len(rows[r]) : i \in 1 .. Len(new[r]) /\ new[r][i] = rows[r][i]
    <3> SUFFICES ASSUME NEW r \in 1 .. L, NEW i \in 1 .. Len(rows[r])
                 PROVE  i \in 1 .. Len(new[r]) /\ new[r][i] = rows[r][i]
      OBVIOUS
    <3>1. CASE r # L
      BY <2>5, <3>1
    <3>2. CASE r = L
      BY <2>4, <2>8, <3>2 DEF m
    <3> QED
      BY <3>1, <3>2
  <2>11. \A r \in 1 .. L : Len(new[r]) > 0
    <3> SUFFICES ASSUME NEW r \in 1 .. L PROVE Len(new[r]) > 0
      OBVIOUS
    <3>1. CASE r # L
      BY <1>2, <2>5, <3>1
    <3>2. CASE r = L
      BY <2>4, <2>6, <3>2
    <3> QED
      BY <3>1, <3>2
  <2>12. \A r \in 1 .. L : \A i \in 1 .. Len(new[r]) : new[r][i] \in E \cup {z}
    BY <1>3, <2>9
  <2>13. \A e \in E \cup {z} : \E r \in 1 .. L : \E i \in 1 .. Len(new[r]) : new[r][i] = e
    <3>1. \E r \in 1 .. L : \E i \in 1 .. Len(new[r]) : new[r][i] = z
      BY <2>1, <2>4, <2>8
    <3>2. \A e \in E : \E r \in 1 .. L : \E i \in 1 .. Len(new[r]) : new[r][i] = e
      BY <1>4, <2>10
    <3> QED
      BY <3>1, <3>2
  <2>14. ASSUME NEW r \in 1 .. L, NEW q \in 1 .. L,
                NEW i \in 1 .. Len(new[r]), NEW j \in 1 .. Len(new[q]), new[r][i] = new[q][j]
         PROVE  r = q /\ i = j
    <3>1. CASE new[r][i] = z
      <4>1. r = L /\ i = m + 1
        BY <1>3, <2>9, <3>1
      <4>2. q = L /\ j = m + 1
        BY <1>3, <2>9, <2>14, <3>1
      <4> QED
        BY <4>1, <4>2
    <3>2. CASE new[r][i] # z
      <4>1. i \in 1 .. Len(rows[r]) /\ new[r][i] = rows[r][i]
        BY <2>9, <3>2
      <4>2. j \in 1 .. Len(rows[q]) /\ new[q][j] = rows[q][j]
        BY <2>9, <2>14, <3>2
      <4>3. rows[r][i] = rows[q][j]
        BY <2>14, <4>1, <4>2
      <4> QED
        BY <1>5, <4>1, <4>2, <4>3
    <3> QED
      BY <3>1, <3>2
  <2>15. \A r \in 1 .. L : new[r][1] = rows[r][1]
    BY <1>9, <2>10
  <2>16. ASSUME NEW r \in 1 .. L, NEW i \in 1 .. Len(new[r])
         PROVE  y[new[r][1]] <= y[new[r][i]] /\ y[new[r][i]] <= y[new[r][1]] + reach
    <3>1. CASE r = L /\ i = m + 1 /\ new[r][i] = z
      <4>1. y[z] - y[rows[L][1]] <= reach
        BY <1>10, <2>1
      <4>2. y[z] \in Int /\ y[rows[L][1]] \in Int /\ y[rows[L][1]] <= y[z]
        BY <1>9, <2>1
      <4>3. new[r][1] = rows[L][1]
        BY <2>15, <3>1
      <4> QED
        BY <3>1, <4>1, <4>2, <4>3
    <3>2. CASE i \in 1 .. Len(rows[r]) /\ new[r][i] = rows[r][i]
      BY <1>6, <2>15, <3>2
    <3> QED
      BY <2>9, <3>1, <3>2
  <2>17. \A r, q \in 1 .. L : r < q => y[new[r][1]] + reach < y[new[q][1]]
    BY <1>7, <2>15
  <2> QED
    BY <2>3, <2>11, <2>12, <2>13, <2>14, <2>16, <2>17 DEF Grouped, new
<1>11. CASE ~(rows # <<>> /\ y[z] - y[Head(Last(rows))] <= reach)
  <2>1. new = Append(rows, <<z>>)
    BY <1>11 DEF Joins
  <2>2. /\ new \in Seq(Seq(D)) /\ Len(new) = L + 1 /\ new[L + 1] = <<z>>
        /\ \A r \in 1 .. L : new[r] = rows[r]
    <3>1. <<z>> \in Seq(D)
      OBVIOUS
    <3> QED
      BY <1>1, <2>1, <3>1
  <2>3. Len(new[L + 1]) = 1 /\ new[L + 1][1] = z
    BY <2>2
  <2>4. \A r \in 1 .. L : new[r] = rows[r] /\ Len(new[r]) = Len(rows[r])
    BY <2>2
  <2>5. L > 0 => L \in 1 .. L /\ ~(y[z] - y[rows[L][1]] <= reach)
    <3> SUFFICES ASSUME L > 0 PROVE L \in 1 .. L /\ ~(y[z] - y[rows[L][1]] <= reach)
      OBVIOUS
    <3>1. L \in 1 .. L
      BY <1>8
    <3>2. rows # <<>> /\ Head(Last(rows)) = rows[L][1]
      BY <1>1, <1>2, <3>1 DEF Last
    <3> QED
      BY <1>11, <3>1, <3>2
  <2> HIDE DEF new, L
  <2>6. \A r \in 1 .. L + 1 : r = L + 1 \/ r \in 1 .. L
    BY <1>8
  <2>7. L + 1 \in 1 .. L + 1 /\ 1 \in 1 .. 1 /\ \A r \in 1 .. L : r \in 1 .. L + 1 /\ r # L + 1
    BY <1>8
  <2>8. \A i \in 1 .. Len(new[L + 1]) : i = 1 /\ new[L + 1][i] = z
    BY <2>3
  <2>9. \A r \in 1 .. L + 1 : Len(new[r]) > 0
    <3>1. Len(new[L + 1]) > 0
      BY <2>3
    <3> QED
      BY <1>2, <2>4, <2>6, <3>1
  <2>10. \A r \in 1 .. L + 1 : \A i \in 1 .. Len(new[r]) : new[r][i] \in E \cup {z}
    <3> SUFFICES ASSUME NEW r \in 1 .. L + 1, NEW i \in 1 .. Len(new[r]) PROVE new[r][i] \in E \cup {z}
      OBVIOUS
    <3> QED
      BY <1>3, <2>4, <2>6, <2>8
  <2>11. \A e \in E \cup {z} : \E r \in 1 .. L + 1 : \E i \in 1 .. Len(new[r]) : new[r][i] = e
    <3>1. \E r \in 1 .. L + 1 : \E i \in 1 .. Len(new[r]) : new[r][i] = z
      BY <2>3, <2>7
    <3>2. \A e \in E : \E r \in 1 .. L + 1 : \E i \in 1 .. Len(new[r]) : new[r][i] = e
      BY <1>4, <2>4, <2>7
    <3> QED
      BY <3>1, <3>2
  <2>12. ASSUME NEW r \in 1 .. L + 1, NEW q \in 1 .. L + 1,
                NEW i \in 1 .. Len(new[r]), NEW j \in 1 .. Len(new[q]), new[r][i] = new[q][j]
         PROVE  r = q /\ i = j
    <3>1. \A a \in 1 .. L : \A b \in 1 .. Len(new[a]) : new[a][b] # z
      BY <1>3, <2>4
    <3>2. CASE r = L + 1
      <4>1. new[r][i] = z /\ i = 1
        BY <2>8, <3>2
      <4>2. q = L + 1
        BY <2>6, <2>12, <3>1, <4>1
      <4>3. j = 1
        BY <2>8, <4>2
      <4> QED
        BY <3>2, <4>1, <4>2, <4>3
    <3>3. CASE r \in 1 .. L
      <4>1. new[q][j] # z
        BY <2>12, <3>1, <3>3
      <4>2. q \in 1 .. L
        BY <2>6, <2>8, <4>1
      <4>3. new[r] = rows[r] /\ new[q] = rows[q]
        BY <2>4, <3>3, <4>2
      <4> QED
        BY <1>5, <2>12, <3>3, <4>2, <4>3
    <3> QED
      BY <2>6, <3>2, <3>3
  <2>13. ASSUME NEW r \in 1 .. L + 1, NEW i \in 1 .. Len(new[r])
         PROVE  y[new[r][1]] <= y[new[r][i]] /\ y[new[r][i]] <= y[new[r][1]] + reach
    <3>1. CASE r = L + 1
      <4>1. new[r][1] = z /\ new[r][i] = z /\ y[z] \in Int
        BY <2>3, <2>8, <3>1
      <4> QED
        BY <4>1
    <3>2. CASE r \in 1 .. L
      <4>1. new[r] = rows[r]
        BY <2>4, <3>2
      <4> QED
        BY <1>6, <3>2, <4>1
    <3> QED
      BY <2>6, <3>1, <3>2
  <2>14. ASSUME NEW r \in 1 .. L + 1, NEW q \in 1 .. L + 1, r < q
         PROVE  y[new[r][1]] + reach < y[new[q][1]]
    <3>1. r \in 1 .. L
      BY <1>8, <2>14
    <3>2. CASE q \in 1 .. L
      <4>1. new[r] = rows[r] /\ new[q] = rows[q]
        BY <2>4, <3>1, <3>2
      <4> QED
        BY <1>7, <2>14, <3>1, <3>2, <4>1
    <3>3. CASE q = L + 1
      <4>1. L > 0
        BY <1>8, <3>1
      <4>2. L \in 1 .. L /\ ~(y[z] - y[rows[L][1]] <= reach)
        BY <2>5, <4>1
      <4>3. y[rows[L][1]] \in Int /\ y[rows[r][1]] \in Int /\ y[z] \in Int
        BY <1>9, <3>1, <4>2
      <4>4. r = L \/ r < L
        BY <1>8, <3>1
      <4>5. r = L \/ y[rows[r][1]] + reach < y[rows[L][1]]
        BY <1>7, <3>1, <4>2, <4>4
      <4>6. new[r][1] = rows[r][1] /\ new[q][1] = z
        BY <2>3, <2>4, <3>1, <3>3
      <4>7. y[rows[r][1]] <= y[rows[L][1]]
        BY <4>3, <4>5
      <4> QED
        BY <4>2, <4>3, <4>6, <4>7
    <3> QED
      BY <2>6, <3>2, <3>3
  <2> QED
    BY <2>2, <2>9, <2>10, <2>11, <2>12, <2>13, <2>14 DEF Grouped, new
<1> QED
  BY <1>10, <1>11

\* What Rows returns: every zone in one row, zones within reach of its first,
\* and every row out of the reach of those before.
LEMMA RowsIs ==
  ASSUME NEW D, IsFiniteSet(D), D \subseteq Nat, NEW y \in [D -> Int], NEW reach \in Nat
  PROVE  Grouped(D, D, y, reach, Rows(y, reach))
<1> DEFINE n == Cardinality(D)
           order == Sorted(y)
           V == Seq(Seq(D))
           Body(f) == [k \in 0 .. Len(order) |->
                         IF k = 0 THEN <<>> ELSE Joins(y, reach, f[k - 1], order[k])]
<1>1. /\ n \in Nat /\ order \in [1 .. n -> D]
      /\ \A i, j \in 1 .. n : i < j => Precedes(y, order[i], order[j])
      /\ \A i, j \in 1 .. n : order[i] = order[j] => i = j
      /\ \A d \in D : \E i \in 1 .. n : order[i] = d
  <2>1. order \in Orderings(D, y, n)
    BY SortedIs
  <2>2. Lists(D, n, order)
    BY <2>1, OrderingIsWhole
  <2> QED
    BY <2>1, <2>2 DEF Lists, Orderings
<1> HIDE DEF n, order
<1>2. Len(order) = n
  <2>1. order \in Seq(D) /\ DOMAIN order = 1 .. n
    BY <1>1, IsASeq
  <2> QED
    BY <1>1, <2>1
<1>3. Rows(y, reach) = (CHOOSE f : f = Body(f))[n]
  BY <1>2 DEF Rows, Joins, order
<1>4. \E f : f = Body(f)
  <2> DEFINE step == [k \in 1 .. n |-> [v \in V |-> Joins(y, reach, v, order[k])]]
  <2>1. \A v \in V, d \in D : Joins(y, reach, v, d) \in V
    <3> SUFFICES ASSUME NEW v \in Seq(Seq(D)), NEW d \in D PROVE Joins(y, reach, v, d) \in V
      OBVIOUS
    <3>1. <<d>> \in Seq(D)
      OBVIOUS
    <3>2. Append(v, <<d>>) \in V
      BY <3>1
    <3>3. ASSUME v # <<>> PROVE [v EXCEPT ![Len(v)] = Append(v[Len(v)], d)] \in V
      <4>1. Len(v) \in 1 .. Len(v)
        BY <3>3
      <4>2. Append(v[Len(v)], d) \in Seq(D)
        BY <4>1
      <4> QED
        BY <4>1, <4>2, ExceptSeq
    <3> QED
      BY <3>2, <3>3 DEF Joins
  <2>2. step \in [1 .. n -> [V -> V]]
    BY <1>1, <2>1
  <2>3. \A k \in 1 .. n, v \in V : step[k][v] = Joins(y, reach, v, order[k])
    OBVIOUS
  <2> HIDE DEF step
  <2>4. <<>> \in V
    OBVIOUS
  <2> HIDE DEF V
  <2>5. Computed(n, V, <<>>, step) # {}
    BY <1>1, <2>2, <2>4, StepByStep
  <2>6. PICK f \in [0 .. n -> V] : f[0] = <<>> /\ \A k \in 1 .. n : f[k] = step[k][f[k - 1]]
    BY <2>5 DEF Computed
  <2>7. ASSUME NEW k \in 0 .. n
        PROVE  f[k] = IF k = 0 THEN <<>> ELSE Joins(y, reach, f[k - 1], order[k])
    <3>1. CASE k = 0
      BY <2>6, <3>1
    <3>2. CASE k # 0
      <4>1. k \in 1 .. n /\ k - 1 \in 0 .. n
        BY <1>1, <3>2
      <4>2. f[k] = step[k][f[k - 1]] /\ f[k - 1] \in V
        BY <2>6, <4>1
      <4> QED
        BY <2>3, <3>2, <4>1, <4>2
    <3> QED
      BY <3>1, <3>2
  <2>8. f = [k \in 0 .. n |-> f[k]]
    OBVIOUS
  <2>9. f = Body(f)
    BY <1>2, <2>7, <2>8
  <2> QED
    BY <2>9
<1> DEFINE f == CHOOSE g : g = Body(g)
<1>5. f = Body(f)
  <2> HIDE DEF Body
  <2> QED
    BY <1>4
<1> HIDE DEF f
<1>6. f[0] = <<>> /\ \A k \in 1 .. n : f[k] = Joins(y, reach, f[k - 1], order[k])
  <2>1. \A k \in 0 .. n : f[k] = IF k = 0 THEN <<>> ELSE Joins(y, reach, f[k - 1], order[k])
    BY <1>2, <1>5
  <2>2. 0 \in 0 .. n /\ \A k \in 1 .. n : k \in 0 .. n /\ k # 0
    BY <1>1
  <2> QED
    BY <2>1, <2>2
<1> DEFINE E(k) == {order[i] : i \in 1 .. k}
           S == {k \in 0 .. n : Grouped(D, E(k), y, reach, f[k])}
<1>7. 0 \in S
  <2>1. E(0) = {}
    OBVIOUS
  <2>2. Grouped(D, {}, y, reach, <<>>)
    BY DEF Grouped
  <2>3. 0 \in 0 .. n
    BY <1>1
  <2>4. Grouped(D, E(0), y, reach, f[0])
    <3> HIDE DEF E
    <3> QED
      BY <1>6, <2>1, <2>2
  <2> HIDE DEF E
  <2> QED
    BY <2>3, <2>4
<1>8. ASSUME NEW k \in 0 .. n - 1, k \in S PROVE k + 1 \in S
  <2>1. k + 1 \in 1 .. n /\ (k + 1) - 1 = k /\ k + 1 \in 0 .. n /\ k \in Nat
    BY <1>1
  <2>2. \A i \in 1 .. k : i \in 1 .. n /\ i < k + 1
    BY <1>1, <2>1
  <2>3. E(k + 1) = E(k) \cup {order[k + 1]}
    <3>1. \A i \in 1 .. k + 1 : i \in 1 .. k \/ i = k + 1
      BY <2>1
    <3>2. k + 1 \in 1 .. k + 1 /\ \A i \in 1 .. k : i \in 1 .. k + 1
      BY <2>1
    <3> QED
      BY <3>1, <3>2
  <2>4. E(k) \in SUBSET D
    BY <1>1, <2>2
  <2>5. order[k + 1] \in D /\ order[k + 1] \notin E(k)
    BY <1>1, <2>1, <2>2
  <2>6. ASSUME NEW e \in E(k) PROVE y[e] <= y[order[k + 1]]
    <3>1. PICK i \in 1 .. k : order[i] = e
      OBVIOUS
    <3>2. Precedes(y, e, order[k + 1]) /\ e \in D
      BY <1>1, <2>1, <2>2, <3>1
    <3>3. y[e] \in Int /\ y[order[k + 1]] \in Int
      BY <2>5, <3>2
    <3> QED
      BY <3>2, <3>3 DEF Precedes
  <2>7. Grouped(D, E(k), y, reach, f[k])
    BY <1>8
  <2> HIDE DEF E
  <2>8. Grouped(D, E(k) \cup {order[k + 1]}, y, reach, Joins(y, reach, f[k], order[k + 1]))
    BY <2>4, <2>5, <2>6, <2>7, JoinsIs
  <2>9. f[k + 1] = Joins(y, reach, f[k], order[k + 1])
    BY <1>6, <2>1
  <2> QED
    BY <2>1, <2>3, <2>8, <2>9
<1>9. n \in S
  <2> HIDE DEF S
  <2>1. 0 .. n \subseteq S
    BY <1>1, <1>7, <1>8, CountingUp
  <2> QED
    BY <1>1, <2>1
<1>10. E(n) = D
  <2>1. \A d \in E(n) : d \in D
    BY <1>1
  <2>2. \A d \in D : d \in E(n)
    BY <1>1
  <2> HIDE DEF E
  <2> QED
    BY <2>1, <2>2
<1>11. Grouped(D, D, y, reach, f[n])
  BY <1>9, <1>10
<1> QED
  BY <1>3, <1>11 DEF f

-----------------------------------------------------------------------------
(* From left to right, and the rows as sets of zones *)

\* The numbers to n, counted.
LEMMA Count ==
  ASSUME NEW n \in Nat
  PROVE  IsFiniteSet(1 .. n) /\ Cardinality(1 .. n) = n /\ 1 .. n \subseteq Nat
<1>1. 1 \in Int /\ n \in Int
  OBVIOUS
<1> QED
  BY <1>1, FS_Interval

\* From left to right a row lists its zones again.
LEMMA LeftToRightIs ==
  ASSUME NEW Z, NEW n \in Nat, NEW row, Lists(Z, n, row), NEW box, \A d \in Z : box[d].x \in Int
  PROVE  /\ Lists(1 .. n, n, Sorted([i \in DOMAIN row |-> box[row[i]].x]))
         /\ Lists(Z, n, LeftToRight(box, row))
         /\ \A i, j \in 1 .. n : i < j => box[LeftToRight(box, row)[i]].x <= box[LeftToRight(box, row)[j]].x
<1> DEFINE by == [i \in DOMAIN row |-> box[row[i]].x]
           o == Sorted(by)
           e == LeftToRight(box, row)
<1>1. /\ row \in [1 .. n -> Z] /\ DOMAIN row = 1 .. n
      /\ \A i, j \in 1 .. n : row[i] = row[j] => i = j
      /\ \A d \in Z : \E i \in 1 .. n : row[i] = d
  BY DEF Lists
<1>2. by \in [1 .. n -> Int] /\ \A i \in 1 .. n : by[i] = box[row[i]].x
  BY <1>1
<1> HIDE DEF by
<1>3. o \in Orderings(1 .. n, by, n)
  BY <1>2, Count, SortedIs
<1>4. Lists(1 .. n, n, o)
  BY <1>2, <1>3, Count, OrderingIsWhole
<1>5. e = [i \in 1 .. n |-> row[o[i]]]
  BY <1>1 DEF LeftToRight, by
<1> HIDE DEF o, e
<1>6. /\ o \in [1 .. n -> 1 .. n]
      /\ \A i, j \in 1 .. n : o[i] = o[j] => i = j
      /\ \A d \in 1 .. n : \E i \in 1 .. n : o[i] = d
      /\ \A i, j \in 1 .. n : i < j => Precedes(by, o[i], o[j])
  BY <1>3, <1>4 DEF Lists, Orderings
<1>7. e \in [1 .. n -> Z] /\ \A i \in 1 .. n : e[i] = row[o[i]] /\ o[i] \in 1 .. n
  BY <1>1, <1>5, <1>6
<1>8. \A i, j \in 1 .. n : e[i] = e[j] => i = j
  BY <1>1, <1>6, <1>7
<1>9. \A d \in Z : \E i \in 1 .. n : e[i] = d
  BY <1>1, <1>6, <1>7
<1>10. ASSUME NEW i \in 1 .. n, NEW j \in 1 .. n, i < j PROVE box[e[i]].x <= box[e[j]].x
  <2>1. Precedes(by, o[i], o[j])
    BY <1>6, <1>10
  <2>2. by[o[i]] = box[e[i]].x /\ by[o[j]] = box[e[j]].x /\ box[e[i]].x \in Int /\ box[e[j]].x \in Int
    BY <1>2, <1>7
  <2> QED
    BY <2>1, <2>2 DEF Precedes
<1> QED
  BY <1>4, <1>7, <1>8, <1>9, <1>10 DEF Lists, o, e, by

\* A list that goes strictly to the right is that list.
LEMMA LeftToRightOnly ==
  ASSUME NEW Z, NEW n \in Nat, NEW row, Lists(Z, n, row), NEW box, \A d \in Z : box[d].x \in Int,
         NEW c, Lists(Z, n, c), \A i, j \in 1 .. n : i < j => box[c[i]].x < box[c[j]].x
  PROVE  LeftToRight(box, row) = c
<1> DEFINE by == [i \in DOMAIN row |-> box[row[i]].x]
           o == [i \in 1 .. n |-> CHOOSE p \in 1 .. n : row[p] = c[i]]
<1>1. /\ row \in [1 .. n -> Z] /\ DOMAIN row = 1 .. n
      /\ \A d \in Z : \E i \in 1 .. n : row[i] = d
      /\ c \in [1 .. n -> Z]
  BY DEF Lists
<1>2. by \in [1 .. n -> Int] /\ \A i \in 1 .. n : by[i] = box[row[i]].x
  BY <1>1
<1> HIDE DEF by
<1>3. o \in [1 .. n -> 1 .. n] /\ \A i \in 1 .. n : row[o[i]] = c[i]
  BY <1>1
<1> HIDE DEF o
<1>4. ASSUME NEW i \in 1 .. n, NEW j \in 1 .. n, i < j PROVE Precedes(by, o[i], o[j])
  <2>1. by[o[i]] = box[c[i]].x /\ by[o[j]] = box[c[j]].x
    BY <1>2, <1>3
  <2>2. box[c[i]].x < box[c[j]].x
    BY <1>4
  <2> QED
    BY <2>1, <2>2 DEF Precedes
<1>5. o \in Orderings(1 .. n, by, n)
  BY <1>3, <1>4 DEF Orderings
<1>6. Sorted(by) = o
  BY <1>2, <1>5, Count, SortedAlong
<1>7. LeftToRight(box, row) = [i \in 1 .. n |-> row[o[i]]]
  BY <1>1, <1>6 DEF LeftToRight, by
<1> QED
  BY <1>1, <1>3, <1>7

\* Things laid one after another do not meet.
LEMMA ChainGrows ==
  ASSUME NEW n \in Nat, NEW at \in [1 .. n -> Int], NEW sizes \in [1 .. n -> Nat], NEW gap \in Nat,
         \A i \in 2 .. n : at[i] = at[i - 1] + sizes[i - 1] + gap
  PROVE  \A i, j \in 1 .. n : i < j => at[i] + sizes[i] + gap <= at[j]
<1> SUFFICES ASSUME NEW i \in 1 .. n PROVE \A j \in 1 .. n : i < j => at[i] + sizes[i] + gap <= at[j]
  OBVIOUS
<1> DEFINE S == {k \in 0 .. n : i < k => at[i] + sizes[i] + gap <= at[k]}
<1>1. 0 \in S
  OBVIOUS
<1>2. ASSUME NEW k \in 0 .. n - 1, k \in S PROVE k + 1 \in S
  <2>1. CASE i = k
    <3>1. k + 1 \in 2 .. n /\ (k + 1) - 1 = k /\ k + 1 \in 0 .. n
      BY <2>1
    <3>2. at[k + 1] = at[k] + sizes[k] + gap /\ at[k] \in Int /\ sizes[k] \in Nat
      BY <2>1, <3>1
    <3> QED
      BY <2>1, <3>1, <3>2
  <2>2. CASE i < k
    <3>1. k + 1 \in 2 .. n /\ (k + 1) - 1 = k /\ k \in 1 .. n /\ k + 1 \in 0 .. n
      BY <2>2
    <3>2. /\ at[k + 1] = at[k] + sizes[k] + gap /\ at[k] \in Int /\ sizes[k] \in Nat
          /\ at[i] + sizes[i] + gap <= at[k] /\ at[i] \in Int /\ sizes[i] \in Nat
      BY <1>2, <2>2, <3>1
    <3> QED
      BY <3>1, <3>2
  <2>3. CASE k < i
    BY <2>3
  <2> QED
    BY <2>1, <2>2, <2>3
<1>3. 0 .. n \subseteq S
  <2> HIDE DEF S
  <2> QED
    BY <1>1, <1>2, CountingUp
<1>4. \A j \in 1 .. n : j \in S
  <2> HIDE DEF S
  <2> QED
    BY <1>3
<1> QED
  BY <1>4

\* D in rows, by the sets the rows are of.
InRows(D, y, reach, rows) ==
  /\ Len(rows) \in Nat /\ DOMAIN rows = 1 .. Len(rows) /\ (D # {} => Len(rows) > 0)
  /\ \A r \in 1 .. Len(rows) :
       /\ Len(rows[r]) \in Nat \ {0} /\ ToSet(rows[r]) \subseteq D /\ rows[r][1] \in ToSet(rows[r])
       /\ DOMAIN rows[r] = 1 .. Len(rows[r])
       /\ Lists(ToSet(rows[r]), Len(rows[r]), rows[r])
  /\ \A d \in D : /\ RowOf(rows, d) \in 1 .. Len(rows) /\ d \in ToSet(rows[RowOf(rows, d)])
                  /\ \A r \in 1 .. Len(rows) : d \in ToSet(rows[r]) => r = RowOf(rows, d)
  /\ \A r \in 1 .. Len(rows) : \A d \in ToSet(rows[r]) :
       y[rows[r][1]] <= y[d] /\ y[d] <= y[rows[r][1]] + reach
  /\ \A r, q \in 1 .. Len(rows) : r < q => y[rows[r][1]] + reach < y[rows[q][1]]

\* Rows returns such rows.
LEMMA RowsAre ==
  ASSUME NEW D, IsFiniteSet(D), D \subseteq Nat, NEW y \in [D -> Int], NEW reach \in Nat
  PROVE  InRows(D, y, reach, Rows(y, reach))
<1> DEFINE rows == Rows(y, reach)
           R == Len(rows)
<1>1. Grouped(D, D, y, reach, rows)
  BY RowsIs
<1> HIDE DEF rows
<1>2. /\ R \in Nat /\ DOMAIN rows = 1 .. R
      /\ \A r \in 1 .. R : Len(rows[r]) \in Nat \ {0} /\ DOMAIN rows[r] = 1 .. Len(rows[r]) /\ rows[r] \in Seq(D)
  <2>1. rows \in Seq(Seq(D)) /\ \A r \in 1 .. R : Len(rows[r]) > 0
    BY <1>1 DEF Grouped
  <2>2. R \in Nat /\ DOMAIN rows = 1 .. R /\ \A r \in 1 .. R : rows[r] \in Seq(D)
    BY <2>1
  <2>3. \A r \in 1 .. R : Len(rows[r]) \in Nat /\ DOMAIN rows[r] = 1 .. Len(rows[r])
    BY <2>2
  <2> QED
    BY <2>1, <2>2, <2>3
<1>3. \A r \in 1 .. R : ToSet(rows[r]) = {rows[r][i] : i \in 1 .. Len(rows[r])}
  BY <1>2 DEF ToSet
<1>4. \A e \in D : \E r \in 1 .. R : \E i \in 1 .. Len(rows[r]) : rows[r][i] = e
  BY <1>1 DEF Grouped
<1>5. \A r, q \in 1 .. R : \A i \in 1 .. Len(rows[r]), j \in 1 .. Len(rows[q]) :
        rows[r][i] = rows[q][j] => r = q /\ i = j
  BY <1>1 DEF Grouped
<1>6. D # {} => R > 0
  BY <1>2, <1>4
<1> HIDE DEF R
<1>7. ASSUME NEW r \in 1 .. R
      PROVE  /\ Len(rows[r]) \in Nat \ {0} /\ ToSet(rows[r]) \subseteq D /\ rows[r][1] \in ToSet(rows[r])
             /\ DOMAIN rows[r] = 1 .. Len(rows[r])
             /\ Lists(ToSet(rows[r]), Len(rows[r]), rows[r])
  <2> DEFINE Z == ToSet(rows[r])
             n == Len(rows[r])
  <2>1. n \in Nat \ {0} /\ DOMAIN rows[r] = 1 .. n /\ rows[r] \in [1 .. n -> D]
    BY <1>2
  <2>2. Z = {rows[r][i] : i \in 1 .. n}
    BY <1>3
  <2> HIDE DEF Z, n
  <2>3. 1 \in 1 .. n
    BY <2>1
  <2>4. rows[r] \in [1 .. n -> Z] /\ \A d \in Z : \E i \in 1 .. n : rows[r][i] = d
    BY <2>1, <2>2
  <2>5. \A i, j \in 1 .. n : rows[r][i] = rows[r][j] => i = j
    BY <1>5 DEF n
  <2>6. Lists(Z, n, rows[r])
    BY <2>1, <2>4, <2>5 DEF Lists
  <2> QED
    BY <2>1, <2>2, <2>3, <2>6 DEF Z, n
<1>8. ASSUME NEW d \in D
      PROVE  /\ RowOf(rows, d) \in 1 .. R /\ d \in ToSet(rows[RowOf(rows, d)])
             /\ \A r \in 1 .. R : d \in ToSet(rows[r]) => r = RowOf(rows, d)
  <2>1. \E r \in 1 .. R : d \in ToSet(rows[r])
    <3>1. PICK r \in 1 .. R : \E i \in 1 .. Len(rows[r]) : rows[r][i] = d
      BY <1>4
    <3> QED
      BY <1>3, <3>1
  <2>2. RowOf(rows, d) \in 1 .. R /\ d \in ToSet(rows[RowOf(rows, d)])
    BY <1>2, <2>1 DEF RowOf, R
  <2>3. ASSUME NEW r \in 1 .. R, NEW q \in 1 .. R, d \in ToSet(rows[r]), d \in ToSet(rows[q]) PROVE r = q
    <3>1. PICK i \in 1 .. Len(rows[r]) : rows[r][i] = d
      BY <1>3, <2>3
    <3>2. PICK j \in 1 .. Len(rows[q]) : rows[q][j] = d
      BY <1>3, <2>3
    <3>3. rows[r][i] = rows[q][j]
      BY <3>1, <3>2
    <3> QED
      BY <1>5, <3>3
  <2> QED
    BY <2>2, <2>3
<1>9. \A r \in 1 .. R : \A d \in ToSet(rows[r]) :
        y[rows[r][1]] <= y[d] /\ y[d] <= y[rows[r][1]] + reach
  <2>1. \A r \in 1 .. R : \A i \in 1 .. Len(rows[r]) :
          y[rows[r][1]] <= y[rows[r][i]] /\ y[rows[r][i]] <= y[rows[r][1]] + reach
    BY <1>1 DEF Grouped, R
  <2> QED
    BY <1>3, <2>1
<1>10. \A r, q \in 1 .. R : r < q => y[rows[r][1]] + reach < y[rows[q][1]]
  BY <1>1 DEF Grouped, R
<1>11. InRows(D, y, reach, rows)
  BY <1>2, <1>6, <1>7, <1>8, <1>9, <1>10 DEF InRows, R
<1> QED
  BY <1>11 DEF rows

-----------------------------------------------------------------------------
(* Levelled: a row of frames *)

\* Lengths are rounded to the grid.
LEMMA Grids ==
  ASSUME NEW v \in Int
  PROVE  Up(v) \in Int /\ Down(v) \in Int /\ Up(v) >= v /\ Down(v) <= v
BY DEF Up, Down, Grid

\* Stickies: corner and size.
Boxes == [x : Int, y : Int, w : Int, h : Int]

\* A listed set is finite.
LEMMA ListedIsFinite ==
  ASSUME NEW Z, NEW n \in Nat, NEW row, Lists(Z, n, row)
  PROVE  IsFiniteSet(Z) /\ Cardinality(Z) = n
<1>1. row \in Bijection(1 .. n, Z)
  BY DEF Lists, Bijection, Injection, IsInjective, Surjection
<1>2. ExistsBijection(1 .. n, Z)
  BY <1>1 DEF ExistsBijection
<1> QED
  BY <1>2, FS_CountingElements, FS_NatBijection

\* The top and the bottom of a row are a zone's, and no zone goes beyond.
LEMMA TopAndBottom ==
  ASSUME NEW row, IsFiniteSet(ToSet(row)), ToSet(row) # {},
         NEW box, \A z \in ToSet(row) : box[z] \in Boxes
  PROVE  /\ RowTop(box, row) \in Int /\ \E z \in ToSet(row) : box[z].y = RowTop(box, row)
         /\ RowBottom(box, row) \in Int /\ \E z \in ToSet(row) : box[z].y + box[z].h = RowBottom(box, row)
         /\ \A z \in ToSet(row) : RowTop(box, row) <= box[z].y /\ box[z].y + box[z].h <= RowBottom(box, row)
<1> DEFINE Z == ToSet(row)
           tops == [z \in Z |-> box[z].y]
           bottoms == [z \in Z |-> box[z].y + box[z].h]
           T == {box[z].y : z \in Z}
           B == {box[z].y + box[z].h : z \in Z}
<1> HIDE DEF Z
<1>1. \A z \in Z : box[z].y \in Int /\ box[z].h \in Int /\ box[z].y + box[z].h \in Int
  BY DEF Boxes, Z
<1>2. tops \in [Z -> Int] /\ bottoms \in [Z -> Int]
  BY <1>1
<1>3. T = {tops[z] : z \in Z} /\ B = {bottoms[z] : z \in Z}
  OBVIOUS
<1>4. \A z \in Z : tops[z] = box[z].y /\ bottoms[z] = box[z].y + box[z].h
  OBVIOUS
<1> HIDE DEF tops, bottoms, T, B
<1>5. Min(T) \in T /\ Min(T) \in Int /\ \A z \in Z : Min(T) <= tops[z]
  BY <1>2, <1>3, MaxMin DEF Z
<1>6. Max(B) \in B /\ Max(B) \in Int /\ \A z \in Z : bottoms[z] <= Max(B)
  BY <1>2, <1>3, MaxMin DEF Z
<1>7. RowTop(box, row) = Min(T) /\ RowBottom(box, row) = Max(B)
  BY DEF RowTop, RowBottom, T, B, Z
<1>8. (\E z \in Z : box[z].y = Min(T)) /\ \E z \in Z : box[z].y + box[z].h = Max(B)
  BY <1>5, <1>6 DEF T, B
<1> QED
  BY <1>4, <1>5, <1>6, <1>7, <1>8 DEF Z

\* A row of frames made level: tops and heights are the row's, and from left to
\* right every zone begins a gutter behind the one before.
LEMMA LevelledIs ==
  ASSUME NEW row, NEW n \in Nat \ {0}, NEW Z, Z = ToSet(row), DOMAIN row = 1 .. n, Lists(Z, n, row),
         NEW frames, \A z \in Z : frames[z] \in Boxes
  PROVE  LET lev == Levelled(frames, row)
             e == LeftToRight(frames, row)
             top == RowTop(frames, row)
         IN /\ \A z \in Z : /\ lev[z] \in Boxes /\ lev[z].y = top /\ lev[z].w = frames[z].w
                            /\ lev[z].h = Up(RowBottom(frames, row) - top)
            /\ lev[e[1]].x = frames[e[1]].x
            /\ \A i \in 2 .. n : lev[e[i]].x = lev[e[i - 1]].x + frames[e[i - 1]].w + Gutter
<1> DEFINE lev == Levelled(frames, row)
           e == LeftToRight(frames, row)
           top == RowTop(frames, row)
           high == Up(RowBottom(frames, row) - top)
           x == Chain(frames[e[1]].x, [i \in 1 .. n |-> frames[e[i]].w], Gutter)
           At(z) == CHOOSE i \in 1 .. n : e[i] = z
<1>1. \A z \in Z : frames[z].x \in Int /\ frames[z].w \in Int
  BY DEF Boxes
<1>2. /\ e \in [1 .. n -> Z]
      /\ \A i, j \in 1 .. n : e[i] = e[j] => i = j
      /\ \A d \in Z : \E i \in 1 .. n : e[i] = d
  <2>1. Lists(Z, n, e)
    BY <1>1, LeftToRightIs
  <2> QED
    BY <2>1 DEF Lists
<1>3. top \in Int /\ high \in Int
  <2>1. IsFiniteSet(Z) /\ Z # {}
    <3>1. 1 \in 1 .. n
      OBVIOUS
    <3> QED
      BY <1>2, <3>1, ListedIsFinite
  <2>2. RowTop(frames, row) \in Int /\ RowBottom(frames, row) \in Int
    BY <2>1, TopAndBottom
  <2> QED
    BY <2>2, Grids
<1>4. \A z \in Z : lev[z] = [x |-> x[At(z)], y |-> top, w |-> frames[z].w, h |-> high]
  BY DEF Levelled
<1> HIDE DEF lev, e, top, high
<1>5. /\ x \in [1 .. n -> Int] /\ x[1] = frames[e[1]].x
      /\ \A i \in 2 .. n : x[i] = x[i - 1] + frames[e[i - 1]].w + Gutter
  <2> DEFINE sizes == [i \in 1 .. n |-> frames[e[i]].w]
  <2>1. sizes \in [1 .. n -> Int] /\ \A i \in 1 .. n : sizes[i] = frames[e[i]].w
    BY <1>1, <1>2
  <2>2. frames[e[1]].x \in Int /\ Gutter \in Int
    BY <1>1, <1>2 DEF Gutter
  <2>3. \A i \in 2 .. n : i - 1 \in 1 .. n
    OBVIOUS
  <2> HIDE DEF sizes
  <2>4. /\ Chain(frames[e[1]].x, sizes, Gutter) \in [1 .. n -> Int]
        /\ Chain(frames[e[1]].x, sizes, Gutter)[1] = frames[e[1]].x
        /\ \A i \in 2 .. n : Chain(frames[e[1]].x, sizes, Gutter)[i] =
             Chain(frames[e[1]].x, sizes, Gutter)[i - 1] + sizes[i - 1] + Gutter
    BY <2>1, <2>2, ChainIs
  <2> QED
    BY <2>1, <2>3, <2>4 DEF sizes
<1> HIDE DEF x
<1>6. \A z \in Z : At(z) \in 1 .. n /\ e[At(z)] = z
  BY <1>2
<1>7. \A i \in 1 .. n : At(e[i]) = i
  BY <1>2, <1>6
<1> HIDE DEF At
<1>8. ASSUME NEW i \in 1 .. n PROVE lev[e[i]].x = x[i]
  <2>1. e[i] \in Z /\ At(e[i]) = i
    BY <1>2, <1>7
  <2> DEFINE b == [x |-> x[At(e[i])], y |-> top, w |-> frames[e[i]].w, h |-> high]
  <2>2. lev[e[i]] = b /\ b.x = x[At(e[i])]
    BY <1>4, <2>1
  <2> QED
    BY <2>1, <2>2
<1>9. ASSUME NEW z \in Z PROVE lev[z] \in Boxes /\ lev[z].y = top /\ lev[z].w = frames[z].w /\ lev[z].h = high
  <2>1. lev[z] = [x |-> x[At(z)], y |-> top, w |-> frames[z].w, h |-> high]
    BY <1>4
  <2>2. x[At(z)] \in Int /\ frames[z].w \in Int
    BY <1>1, <1>5, <1>6
  <2> QED
    BY <1>3, <2>1, <2>2 DEF Boxes
<1>10. lev[e[1]].x = frames[e[1]].x
  BY <1>5, <1>8
<1>11. \A i \in 2 .. n : lev[e[i]].x = lev[e[i - 1]].x + frames[e[i - 1]].w + Gutter
  <2>1. \A i \in 2 .. n : i - 1 \in 1 .. n /\ i \in 1 .. n
    OBVIOUS
  <2> QED
    BY <1>5, <1>8, <2>1
<1> QED
  BY <1>9, <1>10, <1>11 DEF lev, e, top, high

-----------------------------------------------------------------------------
(* Stacked: the rows below each other *)

\* The zones, and the nodes of each, are finitely many.
LEMMA Finite ==
  /\ IsFiniteSet(Zones) /\ Zones # {} /\ Zones \subseteq Nat
  /\ \A z \in Zones : IsFiniteSet(Listed(z)) /\ Listed(z) # {} /\ Listed(z) \subseteq Nodes
<1> USE CanvasAssumption
<1>1. IsFiniteSet(Zones)
  <2>1. ZoneOf \in Surjection(Nodes, Zones)
    BY DEF Surjection
  <2> QED
    BY <2>1, FS_Surjection
<1>2. ASSUME NEW z \in Zones PROVE IsFiniteSet(Listed(z)) /\ Listed(z) # {} /\ Listed(z) \subseteq Nodes
  <2>1. Listed(z) \subseteq Nodes /\ Listed(z) # {}
    BY DEF Listed
  <2> QED
    BY <2>1, FS_Subset
<1> QED
  BY <1>1, <1>2

\* The left edge of all rows, the first zone of each, the rows from top to bottom.
Left(rows, level) == Min({RowLeft(level[r], rows[r]) : r \in DOMAIN rows})
Firsts(rows, level) == [r \in DOMAIN rows |-> level[r][rows[r][1]]]
TopToBottom(rows, level) == Sorted([r \in DOMAIN rows |-> level[r][rows[r][1]].y])

\* The left edge of a row is a zone's, and no zone goes beyond; likewise the
\* left edge of all rows.
LEMMA LeftEdges ==
  ASSUME NEW y, NEW reach, NEW rows, InRows(Zones, y, reach, rows), NEW level,
         \A r \in 1 .. Len(rows) : \A z \in ToSet(rows[r]) : level[r][z] \in Boxes
  PROVE  /\ \A r \in 1 .. Len(rows) :
              /\ RowLeft(level[r], rows[r]) \in Int
              /\ \E z \in ToSet(rows[r]) : level[r][z].x = RowLeft(level[r], rows[r])
              /\ \A z \in ToSet(rows[r]) : RowLeft(level[r], rows[r]) <= level[r][z].x
         /\ Left(rows, level) \in Int
         /\ \E r \in 1 .. Len(rows) : RowLeft(level[r], rows[r]) = Left(rows, level)
         /\ \A r \in 1 .. Len(rows) : Left(rows, level) <= RowLeft(level[r], rows[r])
<1> DEFINE R == Len(rows)
<1>1. /\ R \in Nat \ {0} /\ DOMAIN rows = 1 .. R
      /\ \A r \in 1 .. R : /\ Len(rows[r]) \in Nat /\ rows[r][1] \in ToSet(rows[r])
                           /\ Lists(ToSet(rows[r]), Len(rows[r]), rows[r])
  <2>1. /\ R \in Nat /\ R > 0 /\ DOMAIN rows = 1 .. R
        /\ \A r \in 1 .. R : /\ Len(rows[r]) \in Nat /\ rows[r][1] \in ToSet(rows[r])
                             /\ Lists(ToSet(rows[r]), Len(rows[r]), rows[r])
    BY Finite DEF InRows
  <2> QED
    BY <2>1
<1> HIDE DEF R
<1>2. ASSUME NEW r \in 1 .. R
      PROVE  /\ RowLeft(level[r], rows[r]) \in Int
             /\ \E z \in ToSet(rows[r]) : level[r][z].x = RowLeft(level[r], rows[r])
             /\ \A z \in ToSet(rows[r]) : RowLeft(level[r], rows[r]) <= level[r][z].x
  <2> DEFINE Z == ToSet(rows[r])
             xs == [z \in Z |-> level[r][z].x]
             S == {level[r][z].x : z \in Z}
  <2>1. IsFiniteSet(Z) /\ Z # {}
    BY <1>1, ListedIsFinite
  <2>2. \A z \in Z : level[r][z].x \in Int
    BY DEF Boxes, R
  <2>3. xs \in [Z -> Int] /\ S = {xs[z] : z \in Z} /\ \A z \in Z : xs[z] = level[r][z].x
    BY <2>2
  <2>4. RowLeft(level[r], rows[r]) = Min(S)
    BY DEF RowLeft
  <2> HIDE DEF Z, xs
  <2>5. Min(S) \in S /\ Min(S) \in Int /\ \A z \in Z : Min(S) <= xs[z]
    <3> HIDE DEF S
    <3> QED
      BY <2>1, <2>3, MaxMin
  <2> QED
    BY <2>3, <2>4, <2>5 DEF Z
<1> DEFINE lefts == [r \in 1 .. R |-> RowLeft(level[r], rows[r])]
           T == {RowLeft(level[r], rows[r]) : r \in 1 .. R}
<1>3. lefts \in [1 .. R -> Int] /\ T = {lefts[r] : r \in 1 .. R} /\ \A r \in 1 .. R : lefts[r] = RowLeft(level[r], rows[r])
  BY <1>2
<1>4. Left(rows, level) = Min(T)
  BY <1>1 DEF Left
<1>5. 1 .. R # {} /\ IsFiniteSet(1 .. R)
  BY <1>1, Count
<1> HIDE DEF lefts
<1>6. Min(T) \in T /\ Min(T) \in Int /\ \A r \in 1 .. R : Min(T) <= lefts[r]
  <2> HIDE DEF T
  <2> QED
    BY <1>3, <1>5, MaxMin
<1>7. \E r \in 1 .. R : RowLeft(level[r], rows[r]) = Min(T)
  BY <1>6
<1> HIDE DEF T
<1> QED
  BY <1>2, <1>3, <1>4, <1>6, <1>7 DEF R

\* The rows stacked: from top to bottom every row begins a row gutter below the
\* one before, and every row begins at the left edge of all.
LEMMA StackedIs ==
  ASSUME NEW y, NEW reach, NEW rows, InRows(Zones, y, reach, rows), NEW level,
         \A r \in 1 .. Len(rows) : \A z \in ToSet(rows[r]) : level[r][z] \in Boxes
  PROVE  LET s == Stacked(rows, level)
             R == Len(rows)
             o == TopToBottom(rows, level)
             first == Firsts(rows, level)
         IN /\ s \in [Zones -> Boxes] /\ Lists(1 .. R, R, o)
            /\ \A i, j \in 1 .. R : i < j => first[o[i]].y <= first[o[j]].y
            /\ \A z \in Zones :
                 LET r == RowOf(rows, z)
                 IN /\ s[z] \in Boxes /\ s[z].w = level[r][z].w /\ s[z].h = level[r][z].h
                    /\ s[z].x = level[r][z].x + Left(rows, level) - RowLeft(level[r], rows[r])
            /\ \E top \in [1 .. R -> Int] :
                 /\ \A z \in Zones : s[z].y = top[RowOf(rows, z)]
                 /\ top[o[1]] = first[o[1]].y
                 /\ \A k \in 2 .. R : top[o[k]] = top[o[k - 1]] + first[o[k - 1]].h + RowGutter
<1> DEFINE s == Stacked(rows, level)
           R == Len(rows)
           o == TopToBottom(rows, level)
           first == Firsts(rows, level)
           left == Left(rows, level)
           ys == [r \in 1 .. R |-> level[r][rows[r][1]].y]
           x == Chain(first[o[1]].y, [k \in 1 .. R |-> first[o[k]].h], RowGutter)
           At(r) == CHOOSE k \in 1 .. R : o[k] = r
<1>1. /\ R \in Nat \ {0} /\ DOMAIN rows = 1 .. R
      /\ \A r \in 1 .. R : rows[r][1] \in ToSet(rows[r])
      /\ \A z \in Zones : RowOf(rows, z) \in 1 .. R /\ z \in ToSet(rows[RowOf(rows, z)])
  <2>1. /\ R \in Nat /\ R > 0 /\ DOMAIN rows = 1 .. R
        /\ \A r \in 1 .. R : rows[r][1] \in ToSet(rows[r])
        /\ \A z \in Zones : RowOf(rows, z) \in 1 .. R /\ z \in ToSet(rows[RowOf(rows, z)])
    BY Finite DEF InRows
  <2> QED
    BY <2>1
<1>2. first = [r \in 1 .. R |-> level[r][rows[r][1]]]
  BY <1>1 DEF Firsts
<1>3. \A r \in 1 .. R : first[r] = level[r][rows[r][1]] /\ first[r] \in Boxes /\ ys[r] = first[r].y
  BY <1>1, <1>2
<1>4. \A r \in 1 .. R : first[r].y \in Int /\ first[r].h \in Int
  BY <1>3 DEF Boxes
<1>5. ys \in [1 .. R -> Int] /\ o = Sorted(ys)
  <2>1. o = Sorted(ys)
    BY <1>1 DEF TopToBottom
  <2> QED
    BY <1>3, <1>4, <2>1
<1> HIDE DEF R, ys, o, first, left
<1>6. o \in Orderings(1 .. R, ys, R) /\ Lists(1 .. R, R, o)
  <2>1. o \in Orderings(1 .. R, ys, R)
    BY <1>1, <1>5, Count, SortedIs
  <2> QED
    BY <1>1, <1>5, <2>1, Count, OrderingIsWhole
<1>7. /\ o \in [1 .. R -> 1 .. R]
      /\ \A i, j \in 1 .. R : o[i] = o[j] => i = j
      /\ \A d \in 1 .. R : \E i \in 1 .. R : o[i] = d
      /\ \A i, j \in 1 .. R : i < j => Precedes(ys, o[i], o[j])
  BY <1>6 DEF Lists, Orderings
<1>8. ASSUME NEW i \in 1 .. R, NEW j \in 1 .. R, i < j PROVE first[o[i]].y <= first[o[j]].y
  <2>1. Precedes(ys, o[i], o[j]) /\ ys[o[i]] = first[o[i]].y /\ ys[o[j]] = first[o[j]].y
    BY <1>3, <1>7, <1>8
  <2>2. ys[o[i]] \in Int /\ ys[o[j]] \in Int
    BY <1>5, <1>7
  <2> QED
    BY <2>1, <2>2 DEF Precedes
<1>9. /\ x \in [1 .. R -> Int] /\ x[1] = first[o[1]].y
      /\ \A k \in 2 .. R : x[k] = x[k - 1] + first[o[k - 1]].h + RowGutter
  <2> DEFINE sizes == [k \in 1 .. R |-> first[o[k]].h]
  <2>1. sizes \in [1 .. R -> Int] /\ \A k \in 1 .. R : sizes[k] = first[o[k]].h
    BY <1>4, <1>7
  <2>2. first[o[1]].y \in Int /\ RowGutter \in Int
    <3>1. 1 \in 1 .. R
      BY <1>1
    <3>2. o[1] \in 1 .. R
      BY <1>7, <3>1
    <3> QED
      BY <1>4, <3>2 DEF RowGutter
  <2>3. \A k \in 2 .. R : k - 1 \in 1 .. R
    BY <1>1
  <2> HIDE DEF sizes
  <2>4. /\ Chain(first[o[1]].y, sizes, RowGutter) \in [1 .. R -> Int]
        /\ Chain(first[o[1]].y, sizes, RowGutter)[1] = first[o[1]].y
        /\ \A k \in 2 .. R : Chain(first[o[1]].y, sizes, RowGutter)[k] =
             Chain(first[o[1]].y, sizes, RowGutter)[k - 1] + sizes[k - 1] + RowGutter
    BY <1>1, <2>1, <2>2, ChainIs
  <2> QED
    BY <2>1, <2>3, <2>4 DEF sizes
<1>10. \A z \in Zones : s[z] =
         [level[RowOf(rows, z)][z] EXCEPT
            !.x = @ + left - RowLeft(level[RowOf(rows, z)], rows[RowOf(rows, z)]),
            !.y = x[At(RowOf(rows, z))]]
  <2>1. x = Chain(level[o[1]][rows[o[1]][1]].y, [k \in 1 .. R |-> level[o[k]][rows[o[k]][1]].h], RowGutter)
    <3>1. 1 \in 1 .. R
      BY <1>1
    <3>2. first[o[1]] = level[o[1]][rows[o[1]][1]]
      BY <1>3, <1>7, <3>1
    <3>3. [k \in 1 .. R |-> first[o[k]].h] = [k \in 1 .. R |-> level[o[k]][rows[o[k]][1]].h]
      BY <1>3, <1>7
    <3> QED
      BY <3>2, <3>3
  <2> HIDE DEF x
  <2> QED
    BY <1>1, <2>1 DEF Stacked, Left, left, TopToBottom, o
<1> HIDE DEF x, s
<1>11. \A r \in 1 .. R : At(r) \in 1 .. R /\ o[At(r)] = r
  BY <1>7
<1>12. \A k \in 1 .. R : At(o[k]) = k
  BY <1>7, <1>11
<1> DEFINE top == [r \in 1 .. R |-> x[At(r)]]
<1>13. top \in [1 .. R -> Int]
  BY <1>9, <1>11
<1> HIDE DEF At
<1>14. \A r \in 1 .. R : top[r] = x[At(r)]
  OBVIOUS
<1>15. \A k \in 1 .. R : top[o[k]] = x[k]
  BY <1>7, <1>12, <1>14
<1> HIDE DEF top
<1>16. \A k \in 2 .. R : top[o[k]] = top[o[k - 1]] + first[o[k - 1]].h + RowGutter
  <2>1. \A k \in 2 .. R : k \in 1 .. R /\ k - 1 \in 1 .. R
    BY <1>1
  <2> QED
    BY <1>9, <1>15, <2>1
<1>17. top[o[1]] = first[o[1]].y
  BY <1>1, <1>9, <1>15
<1>18. ASSUME NEW z \in Zones
       PROVE  LET r == RowOf(rows, z)
              IN /\ s[z] \in Boxes /\ s[z].w = level[r][z].w /\ s[z].h = level[r][z].h
                 /\ s[z].x = level[r][z].x + left - RowLeft(level[r], rows[r])
                 /\ s[z].y = top[r]
  <2> DEFINE r == RowOf(rows, z)
             b == level[r][z]
             x0 == RowLeft(level[r], rows[r])
  <2>1. r \in 1 .. R /\ b \in Boxes
    BY <1>1 DEF R
  <2>2. left \in Int /\ x0 \in Int
    BY <2>1, LeftEdges DEF left, R
  <2>3. top[r] \in Int /\ top[r] = x[At(r)]
    BY <1>13, <1>14, <2>1
  <2>4. s[z] = [b EXCEPT !.x = b.x + left - x0, !.y = top[r]]
    BY <1>10, <2>3
  <2> HIDE DEF r, b, x0
  <2>5. s[z] = [x |-> b.x + left - x0, y |-> top[r], w |-> b.w, h |-> b.h] /\ b.x \in Int /\ b.w \in Int /\ b.h \in Int
    BY <2>1, <2>4 DEF Boxes
  <2>6. s[z] \in Boxes /\ s[z].w = b.w /\ s[z].h = b.h /\ s[z].x = b.x + left - x0 /\ s[z].y = top[r]
    BY <2>2, <2>3, <2>5 DEF Boxes
  <2> QED
    BY <2>6 DEF r, b, x0
<1>19. s \in [Zones -> Boxes]
  <2> DEFINE xLeft == Min({RowLeft(level[r], rows[r]) : r \in DOMAIN rows})
             f(r) == level[r][rows[r][1]]
             order == Sorted([r \in DOMAIN rows |-> f(r).y])
             y0 == Chain(f(order[1]).y, [k \in DOMAIN rows |-> f(order[k]).h], RowGutter)
             Place(z) == [level[RowOf(rows, z)][z] EXCEPT
                            !.x = @ + xLeft - RowLeft(level[RowOf(rows, z)], rows[RowOf(rows, z)]),
                            !.y = y0[CHOOSE k \in DOMAIN rows : order[k] = RowOf(rows, z)]]
  <2>1. s = [z \in Zones |-> Place(z)]
    BY DEF s, Stacked
  <2> HIDE DEF Place
  <2>2. s = [z \in Zones |-> s[z]]
    BY <2>1
  <2>3. \A z \in Zones : s[z] \in Boxes
    BY <1>18
  <2> QED
    BY <2>2, <2>3
<1> QED
  BY <1>6, <1>8, <1>13, <1>16, <1>17, <1>18, <1>19 DEF s, R, o, first, left

-----------------------------------------------------------------------------
(* Frame: around the nodes and their text, and moving with them *)

\* More to a line, fewer lines.
LEMMA Ceilings ==
  ASSUME NEW t \in Nat, NEW c \in Nat \ {0}, NEW d \in Nat \ {0}, c <= d
  PROVE  /\ (t + c - 1) \div c \in Nat
         /\ (t + d - 1) \div d <= (t + c - 1) \div c
<1> DEFINE q == (t + c - 1) \div c
           p == (t + d - 1) \div d
<1>1. q \in Nat /\ p \in Nat
  OBVIOUS
<1>2. c * q >= t
  OBVIOUS
<1>3. d * q >= c * q
  BY <1>1
<1>4. d * p <= t + d - 1
  BY <1>1
<1>5. d * p < d * (q + 1)
  BY <1>1, <1>2, <1>3, <1>4
<1>6. p < q + 1
  BY <1>1, <1>5
<1> QED
  BY <1>1, <1>6

\* A wider text has no more lines.
LEMMA WiderIsShorter ==
  ASSUME NEW z \in Zones, NEW v \in Int, NEW w \in Int, v <= w
  PROVE  Lines(z, v) \in Nat /\ Lines(z, w) \in Nat /\ Lines(z, w) <= Lines(z, v)
<1> DEFINE Chars(width) == Larger(8, (2 * (width - 32)) \div 19)
<1>1. Chars(v) \in Nat \ {0} /\ Chars(w) \in Nat \ {0} /\ Chars(v) <= Chars(w)
  BY DEF Larger
<1>2. Text[z] \in Nat
  BY CanvasAssumption
<1>3. Lines(z, v) = (Text[z] + Chars(v) - 1) \div Chars(v) /\ Lines(z, w) = (Text[z] + Chars(w) - 1) \div Chars(w)
  BY DEF Lines
<1> HIDE DEF Chars
<1> QED
  BY <1>1, <1>2, <1>3, Ceilings

\* The generator's band, reckoned for a narrower sticky, is enough for the check.
LEMMA BandIsEnough ==
  ASSUME NEW z \in Zones, NEW v \in Int, NEW w \in Int, v <= w
  PROVE  /\ Band(z, v) \in Int
         /\ TextBand(z, w) <= Band(z, v) /\ TextHeight(z, w) <= Band(z, v) + NodeSize
<1>1. Lines(z, v) \in Nat /\ Lines(z, w) \in Nat /\ Lines(z, w) <= Lines(z, v)
  BY WiderIsShorter
<1> QED
  BY <1>1 DEF Band, TextBand, TextHeight, Larger, Title, TitleBand, Line, BandGap, NodeSize


\* Where a node can lie; and whether a length lies on the grid.
Points == [x : Int, y : Int]
OnGrid(v) == v \in Int /\ v % Grid = 0

\* The grid is kept by sums, and what lies on it is not rounded.
LEMMA GridIsKept ==
  /\ \A v \in Int : OnGrid(Up(v)) /\ OnGrid(Down(v))
  /\ \A g : OnGrid(g) => Up(g) = g
  /\ \A g, k : OnGrid(g) /\ OnGrid(k) => OnGrid(g + k) /\ OnGrid(g - k)
  /\ \A v \in Int : \A g : OnGrid(g) => Up(v + g) = Up(v) + g /\ Down(v + g) = Down(v) + g
  /\ OnGrid(MinWidth) /\ OnGrid(Gutter) /\ OnGrid(RowGutter)
<1>1. \A v \in Int : OnGrid(Up(v)) /\ OnGrid(Down(v))
  BY DEF OnGrid, Up, Down, Grid
<1>2. \A g : OnGrid(g) => Up(g) = g
  BY DEF OnGrid, Up, Grid
<1>3. \A g, k : OnGrid(g) /\ OnGrid(k) => OnGrid(g + k) /\ OnGrid(g - k)
  BY DEF OnGrid, Grid
<1>4. \A v \in Int : \A g : OnGrid(g) => Up(v + g) = Up(v) + g /\ Down(v + g) = Down(v) + g
  BY DEF OnGrid, Up, Down, Grid
<1>5. OnGrid(MinWidth) /\ OnGrid(Gutter) /\ OnGrid(RowGutter)
  BY DEF OnGrid, Grid, MinWidth, Gutter, RowGutter
<1> QED
  BY <1>1, <1>2, <1>3, <1>4, <1>5

\* What a measure takes on a set; and a measure moved as a whole.
Values(D, by) == {by[d] : d \in D}
Shifted(D, by, to, move) ==
  by \in [D -> Int] /\ to \in [D -> Int] /\ \A d \in D : to[d] = by[d] + move

\* What is moved as a whole has its extremes moved.
LEMMA MaxMinMoved ==
  ASSUME NEW D, IsFiniteSet(D), D # {}, NEW by, NEW to, NEW move \in Int, Shifted(D, by, to, move)
  PROVE  Max(Values(D, to)) = Max(Values(D, by)) + move /\ Min(Values(D, to)) = Min(Values(D, by)) + move
<1> DEFINE S == Values(D, by)
           T == Values(D, to)
<1>0. /\ by \in [D -> Int] /\ to \in [D -> Int] /\ \A d \in D : to[d] = by[d] + move
      /\ S = {by[d] : d \in D} /\ T = {to[d] : d \in D}
  BY DEF Shifted, Values
<1> HIDE DEF S, T
<1>1. Max(S) \in S /\ Min(S) \in S /\ Max(S) \in Int /\ Min(S) \in Int
      /\ \A d \in D : Min(S) <= by[d] /\ by[d] <= Max(S)
  BY <1>0, MaxMin
<1>2. Max(T) \in T /\ Min(T) \in T /\ Max(T) \in Int /\ Min(T) \in Int
      /\ \A d \in D : Min(T) <= to[d] /\ to[d] <= Max(T)
  BY <1>0, MaxMin
<1>3. PICK a \in D : Max(S) = by[a]
  BY <1>0, <1>1
<1>4. PICK b \in D : Min(S) = by[b]
  BY <1>0, <1>1
<1>5. PICK c \in D : Max(T) = to[c]
  BY <1>0, <1>2
<1>6. PICK d \in D : Min(T) = to[d]
  BY <1>0, <1>2
<1>7. /\ to[a] = by[a] + move /\ to[b] = by[b] + move /\ to[c] = by[c] + move /\ to[d] = by[d] + move
      /\ by[a] \in Int /\ by[b] \in Int /\ by[c] \in Int /\ by[d] \in Int
  BY <1>0
<1>8. to[a] <= to[c] /\ by[c] <= by[a] /\ to[d] <= to[b] /\ by[b] <= by[d]
  BY <1>1, <1>2, <1>3, <1>4, <1>5, <1>6
<1> QED
  BY <1>3, <1>4, <1>5, <1>6, <1>7, <1>8 DEF S, T

\* Where the nodes of a zone begin and end.
LEMMA NodeEdges ==
  ASSUME NEW at \in [Nodes -> Points], NEW z \in Zones
  PROVE  LET xs == {at[n].x : n \in Listed(z)}
             ys == {at[n].y : n \in Listed(z)}
         IN /\ Max(xs) \in Int /\ Min(xs) \in Int /\ Max(ys) \in Int
            /\ NodeTop(at, z) \in Int /\ NodeTop(at, z) = Min(ys)
            /\ \E n \in Listed(z) : at[n].y = NodeTop(at, z)
            /\ \A n \in Listed(z) : /\ at[n].x \in Int /\ at[n].y \in Int
                                    /\ Min(xs) <= at[n].x /\ at[n].x <= Max(xs)
                                    /\ Min(ys) <= at[n].y /\ at[n].y <= Max(ys)
<1> DEFINE D == Listed(z)
           xs == {at[n].x : n \in D}
           ys == {at[n].y : n \in D}
<1>1. IsFiniteSet(D) /\ D # {} /\ D \subseteq Nodes
  BY Finite
<1> HIDE DEF D
<1>2. \A n \in D : at[n].x \in Int /\ at[n].y \in Int
  BY <1>1 DEF Points
<1>3. /\ Max(xs) \in Int /\ Min(xs) \in Int
      /\ \A n \in D : Min(xs) <= at[n].x /\ at[n].x <= Max(xs)
  <2> DEFINE by == [n \in D |-> at[n].x]
  <2>1. by \in [D -> Int] /\ xs = {by[n] : n \in D} /\ \A n \in D : by[n] = at[n].x
    BY <1>2
  <2> HIDE DEF by, xs
  <2> QED
    BY <1>1, <2>1, MaxMin
<1>4. /\ Max(ys) \in Int /\ Min(ys) \in Int /\ Min(ys) \in ys
      /\ \A n \in D : Min(ys) <= at[n].y /\ at[n].y <= Max(ys)
  <2> DEFINE by == [n \in D |-> at[n].y]
  <2>1. by \in [D -> Int] /\ ys = {by[n] : n \in D} /\ \A n \in D : by[n] = at[n].y
    BY <1>2
  <2> HIDE DEF by, ys
  <2> QED
    BY <1>1, <2>1, MaxMin
<1>5. \E n \in D : at[n].y = Min(ys)
  BY <1>4
<1>6. NodeTop(at, z) = Min(ys)
  BY DEF NodeTop, D
<1> HIDE DEF xs, ys
<1> QED
  BY <1>2, <1>3, <1>4, <1>5, <1>6 DEF D, xs, ys

\* A frame keeps its padding on all sides and its band above its nodes.
THEOREM FrameHolds ==
  ASSUME NEW at \in [Nodes -> Points], NEW z \in Zones
  PROVE  LET f == Frame(at, z)
         IN /\ f \in Boxes /\ f.w > 0 /\ f.h > 0
            /\ OnGrid(f.x) /\ OnGrid(f.y) /\ OnGrid(f.w) /\ OnGrid(f.h)
            /\ TextBand(z, f.w) \in Int /\ TextBand(z, f.w) >= Title + 16
            /\ TextHeight(z, f.w) \in Int /\ TextHeight(z, f.w) <= f.h
            /\ \A n \in Listed(z) :
                 /\ f.x <= at[n].x /\ at[n].x + NodeSize <= f.x + f.w
                 /\ f.y + TextBand(z, f.w) <= at[n].y /\ at[n].y + NodeSize <= f.y + f.h
<1> DEFINE D == Listed(z)
           xs == {at[n].x : n \in D}
           ys == {at[n].y : n \in D}
<1>1. /\ Max(xs) \in Int /\ Min(xs) \in Int /\ Max(ys) \in Int
      /\ NodeTop(at, z) \in Int /\ NodeTop(at, z) = Min(ys)
      /\ \A n \in D : /\ at[n].x \in Int /\ at[n].y \in Int
                      /\ Min(xs) <= at[n].x /\ at[n].x <= Max(xs)
                      /\ Min(ys) <= at[n].y /\ at[n].y <= Max(ys)
  BY NodeEdges
<1>2. D # {}
  BY Finite
<1> DEFINE right == Max(xs) + NodeSize
           x == Down(Min(xs) - Pad)
           v == Larger(MinWidth, Up(right - Min(xs) + 2 * Pad))
           y == Down(NodeTop(at, z) - Band(z, v))
           w == Larger(MinWidth, Up(right + Pad - x))
           h == Up(Max(ys) + NodeSize + Label + Pad - y)
<1>3. Frame(at, z) = [x |-> x, y |-> y, w |-> w, h |-> h]
  BY DEF Frame
<1> HIDE DEF D, xs, ys
<1>4. Min(xs) <= Max(xs) /\ Min(ys) <= Max(ys)
  BY <1>1, <1>2
<1>5. x \in Int /\ x <= Min(xs) - Pad /\ right \in Int
  BY <1>1, Grids DEF Pad, NodeSize
<1>6. v \in Int /\ w \in Int /\ v <= w /\ right + Pad - x <= w /\ w > 0
  BY <1>1, <1>5 DEF Larger, MinWidth, Up, Grid, Pad
<1>7. OnGrid(x) /\ OnGrid(w)
  <2>1. Min(xs) - Pad \in Int /\ right + Pad - x \in Int
    BY <1>1, <1>5 DEF Pad
  <2>2. OnGrid(x) /\ OnGrid(Up(right + Pad - x)) /\ OnGrid(MinWidth)
    <3> HIDE DEF right
    <3> QED
      BY <2>1, GridIsKept
  <2> HIDE DEF x, right
  <2> QED
    BY <2>2 DEF Larger
<1>8. /\ Band(z, v) \in Int
      /\ TextBand(z, w) <= Band(z, v) /\ TextHeight(z, w) <= Band(z, v) + NodeSize
  BY <1>6, BandIsEnough
<1> HIDE DEF v, w, x, right
<1>9. y \in Int /\ y <= NodeTop(at, z) - Band(z, v) /\ OnGrid(y)
  BY <1>1, <1>8, Grids, GridIsKept
<1>10. h \in Int /\ Max(ys) + NodeSize + Label + Pad - y <= h /\ OnGrid(h)
  <2>1. Max(ys) + NodeSize + Label + Pad - y \in Int
    BY <1>1, <1>9 DEF NodeSize, Label, Pad
  <2> QED
    BY <2>1, Grids, GridIsKept
<1> HIDE DEF y, h
<1>11. TextBand(z, w) \in Int /\ TextHeight(z, w) \in Int /\ TextBand(z, w) >= Title + 16
  <2>1. Lines(z, w) \in Nat
    BY <1>6, WiderIsShorter
  <2> QED
    BY <2>1 DEF TextBand, TextHeight, Title, Line
<1>12. TextHeight(z, w) <= h /\ h > 0
  BY <1>1, <1>4, <1>8, <1>9, <1>10, <1>11 DEF Pad, NodeSize, Label, Title
<1>13. ASSUME NEW n \in D
       PROVE  /\ x <= at[n].x /\ at[n].x + NodeSize <= x + w
              /\ y + TextBand(z, w) <= at[n].y /\ at[n].y + NodeSize <= y + h
  <2>1. at[n].x \in Int /\ at[n].y \in Int
    BY <1>1
  <2>2. x <= at[n].x /\ at[n].x + NodeSize <= x + w
    BY <1>1, <1>5, <1>6, <2>1 DEF Pad, NodeSize, right
  <2>3. y + TextBand(z, w) <= at[n].y /\ at[n].y + NodeSize <= y + h
    BY <1>1, <1>8, <1>9, <1>10, <1>11, <2>1 DEF Pad, NodeSize, Label
  <2> QED
    BY <2>2, <2>3
<1>14. Frame(at, z) \in Boxes
  BY <1>3, <1>5, <1>6, <1>9, <1>10 DEF Boxes
<1> QED
  BY <1>3, <1>6, <1>7, <1>9, <1>10, <1>11, <1>12, <1>13, <1>14 DEF D

\* A zone moved along the grid has the same frame there.
LEMMA FrameMoves ==
  ASSUME NEW at \in [Nodes -> Points], NEW to \in [Nodes -> Points], NEW z \in Zones,
         NEW dx, OnGrid(dx), NEW dy, OnGrid(dy),
         \A n \in Listed(z) : to[n].x = at[n].x + dx /\ to[n].y = at[n].y + dy
  PROVE  /\ NodeTop(to, z) = NodeTop(at, z) + dy
         /\ Frame(to, z).x = Frame(at, z).x + dx /\ Frame(to, z).y = Frame(at, z).y + dy
         /\ Frame(to, z).w = Frame(at, z).w /\ Frame(to, z).h = Frame(at, z).h
<1> DEFINE D == Listed(z)
           xs == {at[n].x : n \in D}
           ys == {at[n].y : n \in D}
           us == {to[n].x : n \in D}
           vs == {to[n].y : n \in D}
<1>1. IsFiniteSet(D) /\ D # {} /\ D \subseteq Nodes /\ dx \in Int /\ dy \in Int
  BY Finite DEF OnGrid
<1>2. /\ Max(xs) \in Int /\ Min(xs) \in Int /\ Max(ys) \in Int /\ Min(ys) \in Int
      /\ NodeTop(at, z) = Min(ys) /\ NodeTop(to, z) = Min(vs)
      /\ \A n \in D : at[n].x \in Int /\ at[n].y \in Int /\ to[n].x \in Int /\ to[n].y \in Int
  BY NodeEdges
<1> HIDE DEF D
<1>3. Max(us) = Max(xs) + dx /\ Min(us) = Min(xs) + dx
  <2> DEFINE by == [n \in D |-> at[n].x]
             new == [n \in D |-> to[n].x]
  <2>1. by \in [D -> Int] /\ new \in [D -> Int] /\ xs = Values(D, by) /\ us = Values(D, new)
    BY <1>2 DEF Values
  <2>2. \A n \in D : new[n] = by[n] + dx
    BY DEF D
  <2> HIDE DEF by, new, xs, us
  <2>3. Shifted(D, by, new, dx)
    BY <2>1, <2>2 DEF Shifted
  <2> QED
    BY <1>1, <2>1, <2>3, MaxMinMoved
<1>4. Max(vs) = Max(ys) + dy /\ Min(vs) = Min(ys) + dy
  <2> DEFINE by == [n \in D |-> at[n].y]
             new == [n \in D |-> to[n].y]
  <2>1. by \in [D -> Int] /\ new \in [D -> Int] /\ ys = Values(D, by) /\ vs = Values(D, new)
    BY <1>2 DEF Values
  <2>2. \A n \in D : new[n] = by[n] + dy
    BY DEF D
  <2> HIDE DEF by, new, ys, vs
  <2>3. Shifted(D, by, new, dy)
    BY <2>1, <2>2 DEF Shifted
  <2> QED
    BY <1>1, <2>1, <2>3, MaxMinMoved
<1> DEFINE Right(p) == Max(p) + NodeSize
           X(p) == Down(Min(p) - Pad)
           V(p) == Larger(MinWidth, Up(Right(p) - Min(p) + 2 * Pad))
           Y(p, t) == Down(t - Band(z, V(p)))
           W(p) == Larger(MinWidth, Up(Right(p) + Pad - X(p)))
           H(p, q, t) == Up(Max(q) + NodeSize + Label + Pad - Y(p, t))
<1>5. /\ Frame(at, z) = [x |-> X(xs), y |-> Y(xs, NodeTop(at, z)), w |-> W(xs), h |-> H(xs, ys, NodeTop(at, z))]
      /\ Frame(to, z) = [x |-> X(us), y |-> Y(us, NodeTop(to, z)), w |-> W(us), h |-> H(us, vs, NodeTop(to, z))]
  BY DEF Frame, D
<1> HIDE DEF xs, ys, us, vs
<1>6. X(us) = X(xs) + dx /\ X(xs) \in Int
  <2>1. Min(us) - Pad = (Min(xs) - Pad) + dx /\ Min(xs) - Pad \in Int
    BY <1>1, <1>2, <1>3 DEF Pad
  <2> QED
    BY <2>1, GridIsKept, Grids
<1>7. V(us) = V(xs) /\ V(xs) \in Int
  <2>1. Right(us) - Min(us) + 2 * Pad = Right(xs) - Min(xs) + 2 * Pad /\ Right(xs) - Min(xs) + 2 * Pad \in Int
    BY <1>1, <1>2, <1>3 DEF NodeSize, Pad
  <2>2. Up(Right(xs) - Min(xs) + 2 * Pad) \in Int
    BY <2>1, Grids
  <2> HIDE DEF Right
  <2> QED
    BY <2>1, <2>2 DEF Larger, MinWidth
<1>8. W(us) = W(xs)
  <2> HIDE DEF X
  <2>1. Right(us) + Pad - X(us) = Right(xs) + Pad - X(xs)
    BY <1>1, <1>2, <1>3, <1>6 DEF NodeSize, Pad
  <2> HIDE DEF Right
  <2> QED
    BY <2>1
<1> HIDE DEF X, V, W
<1>9. Y(us, NodeTop(to, z)) = Y(xs, NodeTop(at, z)) + dy /\ Y(xs, NodeTop(at, z)) \in Int
  <2>1. Band(z, V(xs)) \in Int
    <3>1. V(xs) <= V(xs)
      BY <1>7
    <3> QED
      BY <1>7, <3>1, BandIsEnough
  <2>2. /\ NodeTop(to, z) - Band(z, V(us)) = (NodeTop(at, z) - Band(z, V(xs))) + dy
        /\ NodeTop(at, z) - Band(z, V(xs)) \in Int
    BY <1>1, <1>2, <1>4, <1>7, <2>1
  <2> QED
    BY <2>2, GridIsKept, Grids
<1> HIDE DEF Y
<1>10. H(us, vs, NodeTop(to, z)) = H(xs, ys, NodeTop(at, z))
  <2>1. Max(vs) + NodeSize + Label + Pad - Y(us, NodeTop(to, z)) = Max(ys) + NodeSize + Label + Pad - Y(xs, NodeTop(at, z))
    BY <1>1, <1>2, <1>4, <1>9 DEF NodeSize, Label, Pad
  <2> QED
    BY <2>1
<1> HIDE DEF H
<1>11. NodeTop(to, z) = NodeTop(at, z) + dy
  BY <1>2, <1>4
<1> QED
  BY <1>5, <1>6, <1>8, <1>9, <1>10, <1>11

-----------------------------------------------------------------------------
(* Zones that lie neatly in rows *)

RowTops(s, rows) == [r \in 1 .. Len(rows) |-> RowTop(s, rows[r])]

\* Zones as the generator means to lay them: the zones of a row of one height and
\* a gutter apart, the rows a row gutter apart and flush left.
Neat(s, rows) ==
  /\ \A z \in Zones : s[z] \in Boxes /\ s[z].w > 0 /\ s[z].h > 0
  /\ \A r \in 1 .. Len(rows) : \A z \in ToSet(rows[r]) :
       s[z].y = RowTop(s, rows[r]) /\ s[z].y + s[z].h = RowBottom(s, rows[r])
  /\ \A r \in 1 .. Len(rows) : Gaps(s, rows[r]) \subseteq {Gutter}
  /\ \A r, q \in 1 .. Len(rows) : RowLeft(s, rows[r]) = RowLeft(s, rows[q])
  /\ RowGaps(s, rows) \subseteq {RowGutter}

\* A row, by itself.
LEMMA ARow ==
  ASSUME NEW y, NEW reach, NEW rows, InRows(Zones, y, reach, rows), NEW r \in 1 .. Len(rows)
  PROVE  /\ Len(rows[r]) \in Nat \ {0} /\ DOMAIN rows[r] = 1 .. Len(rows[r])
         /\ ToSet(rows[r]) \subseteq Zones /\ rows[r][1] \in ToSet(rows[r])
         /\ IsFiniteSet(ToSet(rows[r])) /\ ToSet(rows[r]) # {} /\ Cardinality(ToSet(rows[r])) = Len(rows[r])
         /\ Lists(ToSet(rows[r]), Len(rows[r]), rows[r])
         /\ \A z \in ToSet(rows[r]) : RowOf(rows, z) = r
<1>1. /\ Len(rows[r]) \in Nat \ {0} /\ DOMAIN rows[r] = 1 .. Len(rows[r])
      /\ ToSet(rows[r]) \subseteq Zones /\ rows[r][1] \in ToSet(rows[r])
      /\ Lists(ToSet(rows[r]), Len(rows[r]), rows[r])
  BY DEF InRows
<1>2. IsFiniteSet(ToSet(rows[r])) /\ Cardinality(ToSet(rows[r])) = Len(rows[r])
  <2>1. Len(rows[r]) \in Nat
    BY <1>1
  <2> QED
    BY <1>1, <2>1, ListedIsFinite
<1>3. \A z \in ToSet(rows[r]) : RowOf(rows, z) = r
  BY <1>1 DEF InRows
<1> QED
  BY <1>1, <1>2, <1>3

\* From left to right the zones of a neat row do not meet.
LEMMA RowIsApart ==
  ASSUME NEW y, NEW reach, NEW rows, InRows(Zones, y, reach, rows), NEW r \in 1 .. Len(rows),
         NEW s, Neat(s, rows)
  PROVE  LET n == Len(rows[r])
             e == LeftToRight(s, rows[r])
         IN /\ Lists(ToSet(rows[r]), n, e)
            /\ \A i \in 2 .. n : s[e[i]].x = s[e[i - 1]].x + s[e[i - 1]].w + Gutter
            /\ \A i, j \in 1 .. n : i < j => s[e[i]].x + s[e[i]].w + Gutter <= s[e[j]].x
<1> DEFINE n == Len(rows[r])
           e == LeftToRight(s, rows[r])
           Z == ToSet(rows[r])
           at == [i \in 1 .. n |-> s[e[i]].x]
           sizes == [i \in 1 .. n |-> s[e[i]].w]
<1>1. n \in Nat \ {0} /\ DOMAIN rows[r] = 1 .. n /\ Z \subseteq Zones /\ Lists(Z, n, rows[r])
  BY ARow
<1>2. \A z \in Z : s[z].x \in Int /\ s[z].w \in Nat
  <2>1. \A z \in Z : s[z] \in Boxes /\ s[z].w > 0
    BY <1>1 DEF Neat
  <2> QED
    BY <2>1 DEF Boxes
<1>3. Lists(Z, n, e)
  <2>1. n \in Nat /\ \A z \in Z : s[z].x \in Int
    BY <1>1, <1>2
  <2> QED
    BY <1>1, <2>1, LeftToRightIs
<1>4. e \in [1 .. n -> Z]
  BY <1>3 DEF Lists
<1>5. \A i \in 2 .. n : s[e[i]].x - s[e[i - 1]].x - s[e[i - 1]].w = Gutter
  <2>1. \A i \in (1 .. n) \ {1} : s[e[i]].x - s[e[i - 1]].x - s[e[i - 1]].w \in Gaps(s, rows[r])
    BY <1>1 DEF Gaps
  <2>2. Gaps(s, rows[r]) \subseteq {Gutter}
    BY DEF Neat
  <2>3. \A i \in 2 .. n : i \in (1 .. n) \ {1}
    OBVIOUS
  <2> QED
    BY <2>1, <2>2, <2>3
<1> HIDE DEF n, e, Z
<1>6. \A i \in 2 .. n : s[e[i]].x = s[e[i - 1]].x + s[e[i - 1]].w + Gutter
  <2> SUFFICES ASSUME NEW i \in 2 .. n PROVE s[e[i]].x = s[e[i - 1]].x + s[e[i - 1]].w + Gutter
    OBVIOUS
  <2>1. i \in 1 .. n /\ i - 1 \in 1 .. n
    BY <1>1
  <2>2. s[e[i]].x \in Int /\ s[e[i - 1]].x \in Int /\ s[e[i - 1]].w \in Nat
    BY <1>2, <1>4, <2>1
  <2> QED
    BY <1>5, <2>2 DEF Gutter
<1>7. at \in [1 .. n -> Int] /\ sizes \in [1 .. n -> Nat]
  BY <1>2, <1>4
<1>8. \A i \in 1 .. n : at[i] = s[e[i]].x /\ sizes[i] = s[e[i]].w
  OBVIOUS
<1>9. \A i \in 2 .. n : i \in 1 .. n /\ i - 1 \in 1 .. n
  BY <1>1
<1>10. \A i \in 2 .. n : at[i] = at[i - 1] + sizes[i - 1] + Gutter
  BY <1>6, <1>8, <1>9
<1> HIDE DEF at, sizes
<1>11. \A i, j \in 1 .. n : i < j => at[i] + sizes[i] + Gutter <= at[j]
  <2>1. n \in Nat /\ Gutter \in Nat
    BY <1>1 DEF Gutter
  <2> QED
    BY <1>7, <1>10, <2>1, ChainGrows
<1>12. \A i, j \in 1 .. n : i < j => s[e[i]].x + s[e[i]].w + Gutter <= s[e[j]].x
  BY <1>8, <1>11
<1> QED
  BY <1>3, <1>6, <1>12 DEF n, e, Z

\* From top to bottom neat rows do not meet.
LEMMA RowsAreApart ==
  ASSUME NEW y, NEW reach, NEW rows, InRows(Zones, y, reach, rows), NEW s, Neat(s, rows)
  PROVE  LET R == Len(rows)
             o == Sorted(RowTops(s, rows))
         IN /\ \A r \in 1 .. R : /\ RowTop(s, rows[r]) \in Int /\ RowBottom(s, rows[r]) \in Int
                                 /\ RowTop(s, rows[r]) < RowBottom(s, rows[r])
            /\ Lists(1 .. R, R, o)
            /\ \A k \in 2 .. R : RowTop(s, rows[o[k]]) = RowBottom(s, rows[o[k - 1]]) + RowGutter
            /\ \A k, l \in 1 .. R : k < l => RowBottom(s, rows[o[k]]) + RowGutter <= RowTop(s, rows[o[l]])
<1> DEFINE R == Len(rows)
           tops == RowTops(s, rows)
           o == Sorted(tops)
           Top(r) == RowTop(s, rows[r])
           Bottom(r) == RowBottom(s, rows[r])
           at == [k \in 1 .. R |-> Top(o[k])]
           sizes == [k \in 1 .. R |-> Bottom(o[k]) - Top(o[k])]
<1>1. R \in Nat /\ DOMAIN rows = 1 .. R
  BY DEF InRows
<1>2. ASSUME NEW r \in 1 .. R PROVE Top(r) \in Int /\ Bottom(r) \in Int /\ Top(r) < Bottom(r)
  <2>1. IsFiniteSet(ToSet(rows[r])) /\ ToSet(rows[r]) # {} /\ ToSet(rows[r]) \subseteq Zones
        /\ rows[r][1] \in ToSet(rows[r])
    BY ARow
  <2>2. \A z \in ToSet(rows[r]) : s[z] \in Boxes /\ s[z].h > 0
    BY <2>1 DEF Neat
  <2>3. Top(r) \in Int /\ Bottom(r) \in Int
    BY <2>1, <2>2, TopAndBottom
  <2> DEFINE b == s[rows[r][1]]
  <2>4. Top(r) <= b.y /\ b.y + b.h <= Bottom(r) /\ b.y \in Int /\ b.h \in Int /\ b.h > 0
    <3>1. Top(r) <= b.y /\ b.y + b.h <= Bottom(r)
      BY <2>1, <2>2, TopAndBottom
    <3>2. b \in Boxes /\ b.h > 0
      BY <2>1, <2>2
    <3> QED
      BY <3>1, <3>2 DEF Boxes
  <2> HIDE DEF b, Top, Bottom
  <2> QED
    BY <2>3, <2>4
<1>3. tops \in [1 .. R -> Int]
  BY <1>2 DEF RowTops
<1>4. o \in [1 .. R -> 1 .. R] /\ Lists(1 .. R, R, o)
  <2> HIDE DEF tops
  <2>1. o \in Orderings(1 .. R, tops, R)
    BY <1>1, <1>3, Count, SortedIs
  <2>2. Lists(1 .. R, R, o)
    BY <1>1, <1>3, <2>1, Count, OrderingIsWhole
  <2> QED
    BY <2>2 DEF Lists
<1>5. \A k \in 2 .. R : Top(o[k]) - Bottom(o[k - 1]) = RowGutter
  <2>1. o = Sorted([r \in DOMAIN rows |-> RowTop(s, rows[r])])
    BY <1>1 DEF RowTops
  <2> HIDE DEF o
  <2>2. \A k \in (1 .. R) \ {1} : Top(o[k]) - Bottom(o[k - 1]) \in RowGaps(s, rows)
    BY <1>1, <2>1 DEF RowGaps
  <2>3. RowGaps(s, rows) \subseteq {RowGutter}
    BY DEF Neat
  <2>4. \A k \in 2 .. R : k \in (1 .. R) \ {1}
    OBVIOUS
  <2> QED
    BY <2>2, <2>3, <2>4
<1> HIDE DEF R, o, Top, Bottom
<1>6. \A k \in 2 .. R : k \in 1 .. R /\ k - 1 \in 1 .. R
  BY <1>1
<1>7. \A k \in 2 .. R : Top(o[k]) = Bottom(o[k - 1]) + RowGutter
  <2> SUFFICES ASSUME NEW k \in 2 .. R PROVE Top(o[k]) = Bottom(o[k - 1]) + RowGutter
    OBVIOUS
  <2>1. Top(o[k]) \in Int /\ Bottom(o[k - 1]) \in Int
    BY <1>2, <1>4, <1>6
  <2> QED
    BY <1>5, <2>1 DEF RowGutter
<1>8. \A k \in 1 .. R : /\ at[k] = Top(o[k]) /\ sizes[k] = Bottom(o[k]) - Top(o[k])
                        /\ Top(o[k]) \in Int /\ Bottom(o[k]) \in Int /\ Top(o[k]) < Bottom(o[k])
  BY <1>2, <1>4
<1>9. at \in [1 .. R -> Int] /\ sizes \in [1 .. R -> Nat]
  BY <1>8
<1> HIDE DEF at, sizes
<1>10. \A k \in 2 .. R : at[k] = at[k - 1] + sizes[k - 1] + RowGutter
  <2> SUFFICES ASSUME NEW k \in 2 .. R PROVE at[k] = at[k - 1] + sizes[k - 1] + RowGutter
    OBVIOUS
  <2>1. k \in 1 .. R /\ k - 1 \in 1 .. R
    BY <1>6
  <2> QED
    BY <1>7, <1>8, <2>1 DEF RowGutter
<1>11. \A k, l \in 1 .. R : k < l => at[k] + sizes[k] + RowGutter <= at[l]
  <2>1. RowGutter \in Nat
    BY DEF RowGutter
  <2> QED
    BY <1>1, <1>9, <1>10, <2>1, ChainGrows
<1>12. \A k, l \in 1 .. R : k < l => Bottom(o[k]) + RowGutter <= Top(o[l])
  <2> SUFFICES ASSUME NEW k \in 1 .. R, NEW l \in 1 .. R, k < l PROVE Bottom(o[k]) + RowGutter <= Top(o[l])
    OBVIOUS
  <2> QED
    BY <1>8, <1>11 DEF RowGutter
<1> QED
  BY <1>2, <1>4, <1>7, <1>12 DEF R, o, Top, Bottom

\* Neat zones lie apart: side by side in a row, one below the other elsewhere.
LEMMA NeatIsApart ==
  ASSUME NEW y, NEW reach, NEW rows, InRows(Zones, y, reach, rows), NEW s, Neat(s, rows),
         NEW z \in Zones, NEW w \in Zones, z # w
  PROVE  /\ RowOf(rows, z) = RowOf(rows, w) =>
              s[z].x + s[z].w + Gutter <= s[w].x \/ s[w].x + s[w].w + Gutter <= s[z].x
         /\ RowOf(rows, z) # RowOf(rows, w) =>
              s[z].y + s[z].h + RowGutter <= s[w].y \/ s[w].y + s[w].h + RowGutter <= s[z].y
<1> DEFINE r == RowOf(rows, z)
           q == RowOf(rows, w)
<1>1. /\ r \in 1 .. Len(rows) /\ z \in ToSet(rows[r]) /\ q \in 1 .. Len(rows) /\ w \in ToSet(rows[q])
      /\ Len(rows) \in Nat
  BY DEF InRows
<1>2. ASSUME r = q PROVE s[z].x + s[z].w + Gutter <= s[w].x \/ s[w].x + s[w].w + Gutter <= s[z].x
  <2> DEFINE n == Len(rows[r])
             e == LeftToRight(s, rows[r])
  <2>1. /\ Lists(ToSet(rows[r]), n, e)
        /\ \A i, j \in 1 .. n : i < j => s[e[i]].x + s[e[i]].w + Gutter <= s[e[j]].x
    BY <1>1, RowIsApart
  <2> HIDE DEF n, e, r, q
  <2>2. n \in Nat /\ \A d \in ToSet(rows[r]) : \E i \in 1 .. n : e[i] = d
    BY <2>1 DEF Lists
  <2>3. PICK i \in 1 .. n : e[i] = z
    BY <1>1, <2>2
  <2>4. PICK j \in 1 .. n : e[j] = w
    BY <1>1, <1>2, <2>2
  <2>5. i < j \/ j < i
    BY <2>2, <2>3, <2>4
  <2> QED
    BY <2>1, <2>3, <2>4, <2>5
<1>3. ASSUME r # q PROVE s[z].y + s[z].h + RowGutter <= s[w].y \/ s[w].y + s[w].h + RowGutter <= s[z].y
  <2> DEFINE R == Len(rows)
             o == Sorted(RowTops(s, rows))
  <2>1. /\ Lists(1 .. R, R, o)
        /\ \A k, l \in 1 .. R : k < l => RowBottom(s, rows[o[k]]) + RowGutter <= RowTop(s, rows[o[l]])
    BY RowsAreApart
  <2>2. /\ s[z].y = RowTop(s, rows[r]) /\ s[z].y + s[z].h = RowBottom(s, rows[r])
        /\ s[w].y = RowTop(s, rows[q]) /\ s[w].y + s[w].h = RowBottom(s, rows[q])
    BY <1>1 DEF Neat
  <2> HIDE DEF o, r, q
  <2>3. \A d \in 1 .. R : \E i \in 1 .. R : o[i] = d
    BY <2>1 DEF Lists
  <2>4. PICK k \in 1 .. R : o[k] = r
    BY <1>1, <2>3
  <2>5. PICK l \in 1 .. R : o[l] = q
    BY <1>1, <2>3
  <2>6. k < l \/ l < k
    BY <1>1, <1>3, <2>4, <2>5
  <2> QED
    BY <2>1, <2>2, <2>4, <2>5, <2>6
<1> QED
  BY <1>2, <1>3

-----------------------------------------------------------------------------
(* Generation lays zones neatly, along the grid *)

\* What begins on the grid and goes in steps of the grid stays on it.
LEMMA ChainOnGrid ==
  ASSUME NEW n \in Nat, NEW at, NEW step, n > 0 => OnGrid(at[1]), \A i \in 2 .. n : OnGrid(step[i]),
         \A i \in 2 .. n : at[i] = at[i - 1] + step[i]
  PROVE  \A i \in 1 .. n : OnGrid(at[i])
<1> DEFINE S == {k \in 0 .. n : k = 0 \/ OnGrid(at[k])}
<1>1. 0 \in S
  OBVIOUS
<1>2. ASSUME NEW k \in 0 .. n - 1, k \in S PROVE k + 1 \in S
  <2>1. k + 1 \in 0 .. n /\ n > 0
    OBVIOUS
  <2>2. CASE k = 0
    BY <2>1, <2>2
  <2>3. CASE k # 0
    <3>1. k + 1 \in 2 .. n /\ (k + 1) - 1 = k /\ OnGrid(at[k])
      BY <1>2, <2>3
    <3>2. at[k + 1] = at[k] + step[k + 1] /\ OnGrid(step[k + 1])
      BY <3>1
    <3>3. OnGrid(at[k + 1])
      BY <3>1, <3>2, GridIsKept
    <3> QED
      BY <2>1, <3>3
  <2> QED
    BY <2>2, <2>3
<1>3. 0 .. n \subseteq S
  <2> HIDE DEF S
  <2> QED
    BY <1>1, <1>2, CountingUp
<1>4. \A i \in 1 .. n : i \in S /\ i # 0
  <2> HIDE DEF S
  <2> QED
    BY <1>3
<1> QED
  BY <1>4

\* A sequence goes on by the given steps.
Advances(n, a, step) == \A i \in 2 .. n : a[i] = a[i - 1] + step[i]

\* What begins alike and goes in the same steps is the same.
LEMMA ChainOnly ==
  ASSUME NEW n \in Nat, NEW a, NEW b, NEW step, n > 0 => a[1] = b[1],
         Advances(n, a, step), Advances(n, b, step)
  PROVE  \A i \in 1 .. n : a[i] = b[i]
<1> DEFINE S == {k \in 0 .. n : k = 0 \/ a[k] = b[k]}
<1>1. 0 \in S
  OBVIOUS
<1>2. ASSUME NEW k \in 0 .. n - 1, k \in S PROVE k + 1 \in S
  <2>1. k + 1 \in 0 .. n /\ n > 0
    OBVIOUS
  <2>2. CASE k = 0
    BY <2>1, <2>2
  <2>3. CASE k # 0
    <3>1. k + 1 \in 2 .. n /\ (k + 1) - 1 = k /\ a[k] = b[k]
      BY <1>2, <2>3
    <3>2. a[k + 1] = b[k + 1]
      BY <3>1 DEF Advances
    <3> QED
      BY <2>1, <3>2
  <2> QED
    BY <2>2, <2>3
<1>3. 0 .. n \subseteq S
  <2> HIDE DEF S
  <2> QED
    BY <1>1, <1>2, CountingUp
<1>4. \A i \in 1 .. n : i \in S /\ i # 0
  <2> HIDE DEF S
  <2> QED
    BY <1>3
<1> QED
  BY <1>4

\* Frames, each of some size and on the grid.
Frames(frames) ==
  \A z \in Zones :
    /\ frames[z] \in Boxes /\ frames[z].w > 0 /\ frames[z].h > 0
    /\ OnGrid(frames[z].x) /\ OnGrid(frames[z].y) /\ OnGrid(frames[z].w) /\ OnGrid(frames[z].h)

\* A row of frames stays on the grid when it is made level, as high as from its
\* top to its bottom.
LEMMA LevelOnGrid ==
  ASSUME NEW y, NEW reach, NEW rows, InRows(Zones, y, reach, rows), NEW r \in 1 .. Len(rows),
         NEW frames, Frames(frames)
  PROVE  LET lev == Levelled(frames, rows[r])
             e == LeftToRight(frames, rows[r])
             top == RowTop(frames, rows[r])
             high == RowBottom(frames, rows[r]) - top
         IN /\ OnGrid(top) /\ OnGrid(high) /\ high > 0
            /\ \A z \in ToSet(rows[r]) :
                 /\ lev[z] \in Boxes /\ lev[z].y = top /\ lev[z].w = frames[z].w /\ lev[z].h = high
                 /\ OnGrid(lev[z].x)
            /\ Lists(ToSet(rows[r]), Len(rows[r]), e)
            /\ \A i \in 2 .. Len(rows[r]) : lev[e[i]].x = lev[e[i - 1]].x + frames[e[i - 1]].w + Gutter
            /\ lev[e[1]].x = frames[e[1]].x
<1> DEFINE row == rows[r]
           lev == Levelled(frames, row)
           Z == ToSet(row)
           n == Len(row)
           e == LeftToRight(frames, row)
           top == RowTop(frames, row)
           bottom == RowBottom(frames, row)
           high == bottom - top
<1>1. /\ n \in Nat \ {0} /\ DOMAIN row = 1 .. n /\ Z \subseteq Zones
      /\ IsFiniteSet(Z) /\ Z # {} /\ Lists(Z, n, row)
  BY ARow
<1>2. \A z \in Z : frames[z] \in Boxes /\ frames[z].x \in Int
  <2>1. \A z \in Z : frames[z] \in Boxes
    BY <1>1 DEF Frames
  <2> QED
    BY <2>1 DEF Boxes
<1>3. /\ top \in Int /\ bottom \in Int /\ \E z \in Z : frames[z].y = top
      /\ \E z \in Z : frames[z].y + frames[z].h = bottom
      /\ \A z \in Z : top <= frames[z].y /\ frames[z].y + frames[z].h <= bottom
  BY <1>1, <1>2, TopAndBottom
<1>4. Lists(Z, n, e)
  <2>1. n \in Nat
    BY <1>1
  <2> QED
    BY <1>1, <1>2, <2>1, LeftToRightIs
<1>5. /\ \A z \in Z : lev[z] \in Boxes /\ lev[z].y = top /\ lev[z].w = frames[z].w /\ lev[z].h = Up(high)
      /\ lev[e[1]].x = frames[e[1]].x
      /\ \A i \in 2 .. n : lev[e[i]].x = lev[e[i - 1]].x + frames[e[i - 1]].w + Gutter
  BY <1>1, <1>2, LevelledIs
<1> HIDE DEF row, Z, n, e, top, bottom
<1>6. OnGrid(top) /\ OnGrid(bottom)
  <2>1. PICK z \in Z : frames[z].y = top
    BY <1>3
  <2>2. PICK w \in Z : frames[w].y + frames[w].h = bottom
    BY <1>3
  <2>3. OnGrid(frames[z].y) /\ OnGrid(frames[w].y) /\ OnGrid(frames[w].h)
    BY <1>1 DEF Frames
  <2> QED
    BY <2>1, <2>2, <2>3, GridIsKept
<1>7. OnGrid(high) /\ Up(high) = high
  BY <1>6, GridIsKept
<1>8. high > 0
  <2>1. PICK z \in Z : TRUE
    BY <1>1
  <2>2. frames[z].h > 0 /\ frames[z].h \in Int /\ frames[z].y \in Int
    BY <1>1 DEF Frames, Boxes
  <2> QED
    BY <1>3, <2>2
<1>9. e \in [1 .. n -> Z] /\ \A d \in Z : \E i \in 1 .. n : e[i] = d
  BY <1>4 DEF Lists
<1>10. \A i \in 1 .. n : OnGrid(lev[e[i]].x)
  <2> DEFINE at == [i \in 1 .. n |-> lev[e[i]].x]
             step == [i \in 2 .. n |-> frames[e[i - 1]].w + Gutter]
  <2>1. n \in Nat /\ 1 \in 1 .. n /\ \A i \in 2 .. n : i \in 1 .. n /\ i - 1 \in 1 .. n
    BY <1>1
  <2>2. OnGrid(at[1])
    <3>1. at[1] = frames[e[1]].x /\ e[1] \in Zones
      BY <1>1, <1>5, <1>9, <2>1
    <3> QED
      BY <3>1 DEF Frames
  <2>3. \A i \in 2 .. n : OnGrid(step[i])
    <3> SUFFICES ASSUME NEW i \in 2 .. n PROVE OnGrid(step[i])
      OBVIOUS
    <3>1. e[i - 1] \in Zones
      BY <1>1, <1>9, <2>1
    <3>2. OnGrid(frames[e[i - 1]].w)
      BY <3>1 DEF Frames
    <3>3. step[i] = frames[e[i - 1]].w + Gutter
      OBVIOUS
    <3> QED
      BY <3>2, <3>3, GridIsKept
  <2>4. \A i \in 2 .. n : at[i] = at[i - 1] + step[i]
    <3> SUFFICES ASSUME NEW i \in 2 .. n PROVE at[i] = at[i - 1] + step[i]
      OBVIOUS
    <3>1. i \in 1 .. n /\ i - 1 \in 1 .. n
      BY <2>1
    <3>2. lev[e[i]].x = lev[e[i - 1]].x + frames[e[i - 1]].w + Gutter
      BY <1>5
    <3>3. lev[e[i - 1]].x \in Int /\ frames[e[i - 1]].w \in Int
      BY <1>2, <1>5, <1>9, <3>1 DEF Boxes
    <3> QED
      BY <3>1, <3>2, <3>3 DEF Gutter
  <2>5. \A i \in 1 .. n : at[i] = lev[e[i]].x
    OBVIOUS
  <2> HIDE DEF at, step
  <2>6. \A i \in 1 .. n : OnGrid(at[i])
    BY <2>1, <2>2, <2>3, <2>4, ChainOnGrid
  <2> QED
    BY <2>5, <2>6
<1>11. \A z \in Z : OnGrid(lev[z].x)
  BY <1>9, <1>10
<1>12. \A z \in Z : lev[z] \in Boxes /\ lev[z].y = top /\ lev[z].w = frames[z].w /\ lev[z].h = high
  BY <1>5, <1>7
<1> HIDE DEF high
<1>13. OnGrid(top) /\ OnGrid(high) /\ high > 0
  BY <1>6, <1>7, <1>8
<1> QED
  BY <1>4, <1>5, <1>11, <1>12, <1>13 DEF row, Z, n, e, top, bottom, high

\* What the generator makes of frames: zones laid neatly, moved along the grid
\* and as high as their row.
LEMMA GenerationIsNeat ==
  ASSUME NEW y, NEW reach, NEW rows, InRows(Zones, y, reach, rows),
         NEW frames, Frames(frames),
         NEW level, \A r \in 1 .. Len(rows) : level[r] = Levelled(frames, rows[r]),
         NEW s, s = Stacked(rows, level)
  PROVE  /\ Neat(s, rows)
         /\ \A z \in Zones :
              LET row == rows[RowOf(rows, z)]
              IN /\ s[z].w = frames[z].w
                 /\ s[z].h = RowBottom(frames, row) - RowTop(frames, row) /\ OnGrid(s[z].h)
                 /\ OnGrid(s[z].x - frames[z].x) /\ OnGrid(s[z].y - RowTop(frames, row))
                 /\ level[RowOf(rows, z)][z].y = RowTop(frames, row)
<1>a. /\ Len(rows) \in Nat \ {0} /\ DOMAIN rows = 1 .. Len(rows)
      /\ \A z \in Zones : RowOf(rows, z) \in 1 .. Len(rows) /\ z \in ToSet(rows[RowOf(rows, z)])
  <2>1. /\ Len(rows) \in Nat /\ Len(rows) > 0 /\ DOMAIN rows = 1 .. Len(rows)
        /\ \A z \in Zones : RowOf(rows, z) \in 1 .. Len(rows) /\ z \in ToSet(rows[RowOf(rows, z)])
    BY Finite DEF InRows
  <2> QED
    BY <2>1
<1>c. ASSUME NEW r \in 1 .. Len(rows)
      PROVE  /\ OnGrid(RowTop(frames, rows[r]))
             /\ OnGrid(RowBottom(frames, rows[r]) - RowTop(frames, rows[r]))
             /\ RowBottom(frames, rows[r]) - RowTop(frames, rows[r]) > 0
             /\ \A z \in ToSet(rows[r]) :
                  /\ level[r][z] \in Boxes /\ level[r][z].y = RowTop(frames, rows[r])
                  /\ level[r][z].w = frames[z].w
                  /\ level[r][z].h = RowBottom(frames, rows[r]) - RowTop(frames, rows[r])
                  /\ OnGrid(level[r][z].x)
             /\ Lists(ToSet(rows[r]), Len(rows[r]), LeftToRight(frames, rows[r]))
             /\ \A i \in 2 .. Len(rows[r]) :
                  level[r][LeftToRight(frames, rows[r])[i]].x =
                    level[r][LeftToRight(frames, rows[r])[i - 1]].x
                      + frames[LeftToRight(frames, rows[r])[i - 1]].w + Gutter
  <2>1. level[r] = Levelled(frames, rows[r])
    OBVIOUS
  <2>2. /\ OnGrid(RowTop(frames, rows[r]))
        /\ OnGrid(RowBottom(frames, rows[r]) - RowTop(frames, rows[r]))
        /\ RowBottom(frames, rows[r]) - RowTop(frames, rows[r]) > 0
    BY LevelOnGrid
  <2>3. \A z \in ToSet(rows[r]) :
          /\ level[r][z] \in Boxes /\ level[r][z].y = RowTop(frames, rows[r])
          /\ level[r][z].w = frames[z].w
          /\ level[r][z].h = RowBottom(frames, rows[r]) - RowTop(frames, rows[r])
          /\ OnGrid(level[r][z].x)
    <3>1. \A z \in ToSet(rows[r]) :
            LET v == Levelled(frames, rows[r])[z]
            IN /\ v \in Boxes /\ v.y = RowTop(frames, rows[r]) /\ v.w = frames[z].w
               /\ v.h = RowBottom(frames, rows[r]) - RowTop(frames, rows[r]) /\ OnGrid(v.x)
      <4>1. \A z \in ToSet(rows[r]) : Levelled(frames, rows[r])[z] \in Boxes
        BY LevelOnGrid
      <4>2. \A z \in ToSet(rows[r]) : Levelled(frames, rows[r])[z].y = RowTop(frames, rows[r])
        BY LevelOnGrid
      <4>3. \A z \in ToSet(rows[r]) : Levelled(frames, rows[r])[z].w = frames[z].w
        BY LevelOnGrid
      <4>4. \A z \in ToSet(rows[r]) :
              Levelled(frames, rows[r])[z].h = RowBottom(frames, rows[r]) - RowTop(frames, rows[r])
        BY LevelOnGrid
      <4>5. \A z \in ToSet(rows[r]) : OnGrid(Levelled(frames, rows[r])[z].x)
        BY LevelOnGrid
      <4> QED
        BY <4>1, <4>2, <4>3, <4>4, <4>5
    <3> QED
      BY <2>1, <3>1
  <2>4. /\ Lists(ToSet(rows[r]), Len(rows[r]), LeftToRight(frames, rows[r]))
        /\ \A i \in 2 .. Len(rows[r]) :
             level[r][LeftToRight(frames, rows[r])[i]].x =
               level[r][LeftToRight(frames, rows[r])[i - 1]].x
                 + frames[LeftToRight(frames, rows[r])[i - 1]].w + Gutter
    BY <2>1, LevelOnGrid
  <2> QED
    BY <2>2, <2>3, <2>4
<1>d. \A r \in 1 .. Len(rows) : \A z \in ToSet(rows[r]) : level[r][z] \in Boxes
  BY <1>c
<1>e. /\ \A r \in 1 .. Len(rows) :
            /\ RowLeft(level[r], rows[r]) \in Int
            /\ \E z \in ToSet(rows[r]) : level[r][z].x = RowLeft(level[r], rows[r])
            /\ \A z \in ToSet(rows[r]) : RowLeft(level[r], rows[r]) <= level[r][z].x
      /\ Left(rows, level) \in Int
      /\ \E r \in 1 .. Len(rows) : RowLeft(level[r], rows[r]) = Left(rows, level)
  BY <1>d, LeftEdges
<1>f. /\ Lists(1 .. Len(rows), Len(rows), TopToBottom(rows, level))
      /\ \A z \in Zones :
           /\ s[z] \in Boxes
           /\ s[z].w = level[RowOf(rows, z)][z].w /\ s[z].h = level[RowOf(rows, z)][z].h
           /\ s[z].x = level[RowOf(rows, z)][z].x + Left(rows, level)
                         - RowLeft(level[RowOf(rows, z)], rows[RowOf(rows, z)])
      /\ \E top \in [1 .. Len(rows) -> Int] :
           /\ \A z \in Zones : s[z].y = top[RowOf(rows, z)]
           /\ top[TopToBottom(rows, level)[1]] = Firsts(rows, level)[TopToBottom(rows, level)[1]].y
           /\ \A k \in 2 .. Len(rows) :
                top[TopToBottom(rows, level)[k]] =
                  top[TopToBottom(rows, level)[k - 1]]
                    + Firsts(rows, level)[TopToBottom(rows, level)[k - 1]].h + RowGutter
  BY <1>d, StackedIs
<1> DEFINE R == Len(rows)
           o == TopToBottom(rows, level)
           left == Left(rows, level)
           Lefts(r) == RowLeft(level[r], rows[r])
           Top(r) == RowTop(frames, rows[r])
           High(r) == RowBottom(frames, rows[r]) - RowTop(frames, rows[r])
           E(r) == LeftToRight(frames, rows[r])
<1>1. /\ R \in Nat \ {0} /\ DOMAIN rows = 1 .. R
      /\ \A z \in Zones : RowOf(rows, z) \in 1 .. R /\ z \in ToSet(rows[RowOf(rows, z)])
  BY <1>a
<1>3. ASSUME NEW r \in 1 .. R
      PROVE  /\ Len(rows[r]) \in Nat \ {0} /\ DOMAIN rows[r] = 1 .. Len(rows[r])
             /\ ToSet(rows[r]) \subseteq Zones /\ rows[r][1] \in ToSet(rows[r])
             /\ IsFiniteSet(ToSet(rows[r])) /\ ToSet(rows[r]) # {}
             /\ Lists(ToSet(rows[r]), Len(rows[r]), rows[r])
             /\ \A z \in ToSet(rows[r]) : RowOf(rows, z) = r
  BY ARow
<1>4. ASSUME NEW r \in 1 .. R
      PROVE  /\ OnGrid(Top(r)) /\ OnGrid(High(r)) /\ High(r) > 0
             /\ \A z \in ToSet(rows[r]) :
                  /\ level[r][z] \in Boxes /\ level[r][z].y = Top(r) /\ level[r][z].w = frames[z].w
                  /\ level[r][z].h = High(r) /\ OnGrid(level[r][z].x)
             /\ Lists(ToSet(rows[r]), Len(rows[r]), E(r))
             /\ \A i \in 2 .. Len(rows[r]) :
                  level[r][E(r)[i]].x = level[r][E(r)[i - 1]].x + frames[E(r)[i - 1]].w + Gutter
  BY <1>c
<1>6. /\ \A r \in 1 .. R : /\ Lefts(r) \in Int
                           /\ \E z \in ToSet(rows[r]) : level[r][z].x = Lefts(r)
                           /\ \A z \in ToSet(rows[r]) : Lefts(r) <= level[r][z].x
      /\ left \in Int /\ \E r \in 1 .. R : Lefts(r) = left
  BY <1>e
<1>7. /\ Lists(1 .. R, R, o)
      /\ \A z \in Zones : /\ s[z] \in Boxes
                          /\ s[z].w = level[RowOf(rows, z)][z].w /\ s[z].h = level[RowOf(rows, z)][z].h
                          /\ s[z].x = level[RowOf(rows, z)][z].x + left - Lefts(RowOf(rows, z))
      /\ \E top \in [1 .. R -> Int] :
           /\ \A z \in Zones : s[z].y = top[RowOf(rows, z)]
           /\ top[o[1]] = Firsts(rows, level)[o[1]].y
           /\ \A k \in 2 .. R : top[o[k]] = top[o[k - 1]] + Firsts(rows, level)[o[k - 1]].h + RowGutter
  BY <1>f
<1>8. \A r \in 1 .. R : Firsts(rows, level)[r].y = Top(r) /\ Firsts(rows, level)[r].h = High(r)
  <2> SUFFICES ASSUME NEW r \in 1 .. R
               PROVE  Firsts(rows, level)[r].y = Top(r) /\ Firsts(rows, level)[r].h = High(r)
    OBVIOUS
  <2>1. Firsts(rows, level)[r] = level[r][rows[r][1]]
    BY <1>1 DEF Firsts
  <2>2. rows[r][1] \in ToSet(rows[r])
    BY <1>3
  <2> QED
    BY <1>4, <2>1, <2>2
<1>9. /\ o \in [1 .. R -> 1 .. R]
      /\ \A k, l \in 1 .. R : o[k] = o[l] => k = l
      /\ \A r \in 1 .. R : \E k \in 1 .. R : o[k] = r
  BY <1>7 DEF Lists
<1> HIDE DEF R, o, left, Lefts, Top, High, E
<1>10. PICK top \in [1 .. R -> Int] :
         /\ \A z \in Zones : s[z].y = top[RowOf(rows, z)]
         /\ top[o[1]] = Firsts(rows, level)[o[1]].y
         /\ \A k \in 2 .. R : top[o[k]] = top[o[k - 1]] + Firsts(rows, level)[o[k - 1]].h + RowGutter
  BY <1>7
<1>11. 1 \in 1 .. R /\ \A k \in 2 .. R : k \in 1 .. R /\ k - 1 \in 1 .. R
  BY <1>1
<1>12. top[o[1]] = Top(o[1]) /\ \A k \in 2 .. R : top[o[k]] = top[o[k - 1]] + High(o[k - 1]) + RowGutter
  <2>1. \A k \in 1 .. R : Firsts(rows, level)[o[k]].y = Top(o[k]) /\ Firsts(rows, level)[o[k]].h = High(o[k])
    BY <1>8, <1>9
  <2>2. \A k \in 2 .. R : Firsts(rows, level)[o[k - 1]].h = High(o[k - 1])
    BY <1>11, <2>1
  <2> QED
    BY <1>10, <1>11, <2>1, <2>2
<1>13. OnGrid(left) /\ \A r \in 1 .. R : OnGrid(Lefts(r))
  <2>1. \A r \in 1 .. R : OnGrid(Lefts(r))
    BY <1>4, <1>6
  <2> QED
    BY <1>6, <2>1
<1>14. \A k \in 1 .. R : OnGrid(top[o[k]])
  <2> DEFINE at == [k \in 1 .. R |-> top[o[k]]]
             step == [k \in 2 .. R |-> High(o[k - 1]) + RowGutter]
  <2>1. OnGrid(at[1])
    BY <1>4, <1>9, <1>11, <1>12
  <2>2. ASSUME NEW k \in 2 .. R PROVE OnGrid(step[k])
    <3>1. OnGrid(High(o[k - 1])) /\ step[k] = High(o[k - 1]) + RowGutter
      BY <1>4, <1>9, <1>11
    <3> QED
      BY <3>1, GridIsKept
  <2>3. ASSUME NEW k \in 2 .. R PROVE at[k] = at[k - 1] + step[k]
    <3>1. k \in 1 .. R /\ k - 1 \in 1 .. R
      BY <1>11
    <3>2. top[o[k - 1]] \in Int /\ High(o[k - 1]) \in Int
      BY <1>4, <1>9, <1>10, <3>1 DEF OnGrid
    <3> QED
      BY <1>12, <3>1, <3>2 DEF RowGutter
  <2>4. \A k \in 1 .. R : at[k] = top[o[k]]
    OBVIOUS
  <2> HIDE DEF at, step
  <2>5. \A k \in 1 .. R : OnGrid(at[k])
    <3>1. R \in Nat
      BY <1>1
    <3> QED
      BY <2>1, <2>2, <2>3, <3>1, ChainOnGrid
  <2> QED
    BY <2>4, <2>5
<1>15. \A r \in 1 .. R : OnGrid(top[r]) /\ top[r] \in Int
  BY <1>9, <1>10, <1>14
<1>16. ASSUME NEW z \in Zones, NEW r, r = RowOf(rows, z)
       PROVE  /\ r \in 1 .. R /\ z \in ToSet(rows[r])
              /\ s[z] \in Boxes /\ s[z].w = frames[z].w /\ s[z].h = High(r) /\ s[z].y = top[r]
              /\ s[z].x = level[r][z].x + left - Lefts(r)
              /\ s[z].x \in Int /\ s[z].y \in Int /\ s[z].w \in Nat /\ s[z].w > 0 /\ s[z].h > 0
              /\ OnGrid(s[z].h) /\ OnGrid(s[z].x - frames[z].x) /\ OnGrid(s[z].y - Top(r))
              /\ level[r][z].y = Top(r)
  <2>1. r \in 1 .. R /\ z \in ToSet(rows[r])
    BY <1>1, <1>16
  <2>2. s[z] \in Boxes /\ s[z].w = level[r][z].w /\ s[z].h = level[r][z].h
        /\ s[z].x = level[r][z].x + left - Lefts(r) /\ s[z].y = top[r]
    BY <1>7, <1>10, <1>16
  <2>3. level[r][z].w = frames[z].w /\ level[r][z].h = High(r) /\ OnGrid(level[r][z].x) /\ level[r][z].y = Top(r)
    BY <1>4, <2>1
  <2>4. OnGrid(High(r)) /\ High(r) > 0 /\ OnGrid(Top(r))
    BY <1>4, <2>1
  <2>5. frames[z].w > 0 /\ frames[z] \in Boxes /\ OnGrid(frames[z].x)
    BY DEF Frames
  <2>6. s[z].x \in Int /\ s[z].y \in Int /\ s[z].w \in Int
    BY <2>2 DEF Boxes
  <2>7. OnGrid(s[z].x - frames[z].x)
    <3>1. OnGrid(level[r][z].x + left) /\ OnGrid(Lefts(r))
      BY <1>13, <2>1, <2>3, GridIsKept
    <3>2. OnGrid((level[r][z].x + left) - Lefts(r))
      BY <3>1, GridIsKept
    <3>3. OnGrid(s[z].x)
      BY <1>6, <2>1, <2>2, <2>3, <3>2 DEF OnGrid
    <3> QED
      BY <2>5, <3>3, GridIsKept
  <2>8. OnGrid(s[z].y - Top(r))
    BY <1>15, <2>1, <2>2, <2>4, GridIsKept
  <2> QED
    BY <2>1, <2>2, <2>3, <2>4, <2>5, <2>6, <2>7, <2>8
<1>17. ASSUME NEW r \in 1 .. R, NEW z \in ToSet(rows[r])
       PROVE  /\ z \in Zones /\ s[z] \in Boxes /\ s[z].y = top[r] /\ s[z].h = High(r) /\ s[z].w = frames[z].w
              /\ s[z].x = level[r][z].x + left - Lefts(r) /\ s[z].x \in Int /\ s[z].w \in Nat
  <2>1. z \in Zones /\ r = RowOf(rows, z)
    BY <1>3
  <2> QED
    BY <1>16, <2>1
<1>18. ASSUME NEW r \in 1 .. R
       PROVE  RowTop(s, rows[r]) = top[r] /\ RowBottom(s, rows[r]) = top[r] + High(r)
  <2>1. IsFiniteSet(ToSet(rows[r])) /\ ToSet(rows[r]) # {} /\ \A z \in ToSet(rows[r]) : s[z] \in Boxes
    BY <1>3, <1>17
  <2>2. /\ \E z \in ToSet(rows[r]) : s[z].y = RowTop(s, rows[r])
        /\ \E z \in ToSet(rows[r]) : s[z].y + s[z].h = RowBottom(s, rows[r])
    BY <2>1, TopAndBottom
  <2> QED
    BY <1>17, <2>2
<1>19. ASSUME NEW r \in 1 .. R PROVE Gaps(s, rows[r]) \subseteq {Gutter}
  <2> DEFINE n == Len(rows[r])
             Z == ToSet(rows[r])
             e == E(r)
             at == [i \in 1 .. n |-> s[e[i]].x]
             sizes == [i \in 1 .. n |-> s[e[i]].w]
  <2>1. n \in Nat /\ DOMAIN rows[r] = 1 .. n /\ Lists(Z, n, rows[r]) /\ Lists(Z, n, e)
    BY <1>3, <1>4
  <2>2. e \in [1 .. n -> Z]
    BY <2>1 DEF Lists
  <2>3. \A z \in Z : s[z].x \in Int /\ s[z].w \in Nat /\ s[z].x = level[r][z].x + left - Lefts(r) /\ s[z].w = frames[z].w
    BY <1>17
  <2>4. \A i \in 2 .. n : level[r][e[i]].x = level[r][e[i - 1]].x + frames[e[i - 1]].w + Gutter
    BY <1>4
  <2>5. \A z \in Z : level[r][z].x \in Int
    BY <1>4 DEF Boxes
  <2>6. left \in Int /\ Lefts(r) \in Int
    BY <1>6
  <2> HIDE DEF n, Z, e
  <2>7. \A i \in 2 .. n : i \in 1 .. n /\ i - 1 \in 1 .. n
    BY <2>1
  <2>8. ASSUME NEW i \in 2 .. n PROVE s[e[i]].x = s[e[i - 1]].x + s[e[i - 1]].w + Gutter
    <3> DEFINE a == e[i]
               b == e[i - 1]
    <3>1. a \in Z /\ b \in Z
      BY <2>2, <2>7
    <3>2. level[r][a].x = level[r][b].x + frames[b].w + Gutter
      BY <2>4
    <3> HIDE DEF a, b
    <3>3. /\ level[r][a].x \in Int /\ level[r][b].x \in Int
          /\ s[a].x = level[r][a].x + left - Lefts(r) /\ s[b].x = level[r][b].x + left - Lefts(r)
          /\ s[b].w = frames[b].w /\ s[b].w \in Nat
      BY <2>3, <2>5, <3>1
    <3>4. s[a].x = s[b].x + s[b].w + Gutter
      BY <2>6, <3>2, <3>3 DEF Gutter
    <3> QED
      BY <3>4 DEF a, b
  <2>9. at \in [1 .. n -> Int] /\ sizes \in [1 .. n -> Nat]
    BY <2>2, <2>3
  <2>10. \A i \in 1 .. n : at[i] = s[e[i]].x /\ sizes[i] = s[e[i]].w /\ at[i] \in Int /\ sizes[i] \in Nat
    BY <2>9
  <2> HIDE DEF at, sizes
  <2>11. \A i \in 2 .. n : at[i] = at[i - 1] + sizes[i - 1] + Gutter
    BY <2>7, <2>8, <2>10
  <2>12. \A i, j \in 1 .. n : i < j => at[i] + sizes[i] + Gutter <= at[j]
    <3>1. Gutter \in Nat
      BY DEF Gutter
    <3> QED
      BY <2>1, <2>9, <2>11, <3>1, ChainGrows
  <2>13. \A i, j \in 1 .. n : i < j => s[e[i]].x < s[e[j]].x
    <3> SUFFICES ASSUME NEW i \in 1 .. n, NEW j \in 1 .. n, i < j PROVE s[e[i]].x < s[e[j]].x
      OBVIOUS
    <3>1. at[i] + sizes[i] + Gutter <= at[j]
      BY <2>12
    <3>2. at[i] < at[j]
      BY <2>10, <3>1 DEF Gutter
    <3> QED
      BY <2>10, <3>2
  <2>14. LeftToRight(s, rows[r]) = e
    <3>1. \A z \in Z : s[z].x \in Int
      BY <2>3
    <3> QED
      BY <2>1, <2>13, <3>1, LeftToRightOnly
  <2>15. Gaps(s, rows[r]) = {s[e[i]].x - s[e[i - 1]].x - s[e[i - 1]].w : i \in (1 .. n) \ {1}}
    BY <2>1, <2>14 DEF Gaps
  <2>16. ASSUME NEW i \in (1 .. n) \ {1} PROVE s[e[i]].x - s[e[i - 1]].x - s[e[i - 1]].w = Gutter
    <3>1. i \in 2 .. n
      BY <2>1
    <3>2. i - 1 \in 1 .. n
      BY <2>7, <3>1
    <3>3. s[e[i]].x = s[e[i - 1]].x + s[e[i - 1]].w + Gutter /\ s[e[i - 1]].x \in Int /\ s[e[i - 1]].w \in Nat
      BY <2>8, <2>10, <3>1, <3>2
    <3> QED
      BY <3>3 DEF Gutter
  <2> QED
    BY <2>15, <2>16
<1>20. ASSUME NEW r \in 1 .. R PROVE RowLeft(s, rows[r]) = left
  <2> DEFINE all == [q \in 1 .. R |-> s]
  <2>1. \A q \in 1 .. Len(rows) : all[q] = s /\ \A z \in ToSet(rows[q]) : all[q][z] \in Boxes
    BY <1>17 DEF R
  <2> HIDE DEF all
  <2>2. \A q \in 1 .. Len(rows) :
          /\ RowLeft(all[q], rows[q]) \in Int
          /\ \E z \in ToSet(rows[q]) : all[q][z].x = RowLeft(all[q], rows[q])
          /\ \A z \in ToSet(rows[q]) : RowLeft(all[q], rows[q]) <= all[q][z].x
    BY <2>1, LeftEdges
  <2>3. /\ RowLeft(s, rows[r]) \in Int
        /\ \E z \in ToSet(rows[r]) : s[z].x = RowLeft(s, rows[r])
        /\ \A z \in ToSet(rows[r]) : RowLeft(s, rows[r]) <= s[z].x
    BY <2>1, <2>2 DEF R
  <2>4. PICK a \in ToSet(rows[r]) : s[a].x = RowLeft(s, rows[r])
    BY <2>3
  <2>5. PICK b \in ToSet(rows[r]) : level[r][b].x = Lefts(r)
    BY <1>6
  <2>6. /\ s[a].x = level[r][a].x + left - Lefts(r) /\ s[b].x = level[r][b].x + left - Lefts(r)
        /\ level[r][a].x \in Int /\ level[r][b].x \in Int /\ left \in Int /\ Lefts(r) \in Int
    BY <1>4, <1>6, <1>17 DEF Boxes
  <2>7. Lefts(r) <= level[r][a].x /\ RowLeft(s, rows[r]) <= s[b].x
    BY <1>6, <2>3
  <2> QED
    BY <2>3, <2>4, <2>5, <2>6, <2>7
<1>21. RowGaps(s, rows) \subseteq {RowGutter}
  <2> DEFINE tops == [r \in 1 .. R |-> RowTop(s, rows[r])]
             at == [k \in 1 .. R |-> top[o[k]]]
             sizes == [k \in 1 .. R |-> High(o[k])]
  <2>1. \A k \in 1 .. R : at[k] = top[o[k]] /\ sizes[k] = High(o[k]) /\ at[k] \in Int /\ sizes[k] \in Nat
    <3> SUFFICES ASSUME NEW k \in 1 .. R
                 PROVE  at[k] = top[o[k]] /\ sizes[k] = High(o[k]) /\ at[k] \in Int /\ sizes[k] \in Nat
      OBVIOUS
    <3>1. o[k] \in 1 .. R
      BY <1>9
    <3>2. High(o[k]) \in Int /\ High(o[k]) > 0
      BY <1>4, <3>1 DEF OnGrid
    <3> QED
      BY <1>10, <3>1, <3>2
  <2>2. at \in [1 .. R -> Int] /\ sizes \in [1 .. R -> Nat]
    BY <2>1
  <2> HIDE DEF at, sizes
  <2>3. \A k \in 2 .. R : at[k] = at[k - 1] + sizes[k - 1] + RowGutter
    BY <1>11, <1>12, <2>1
  <2>4. \A k, l \in 1 .. R : k < l => at[k] + sizes[k] + RowGutter <= at[l]
    <3>1. R \in Nat /\ RowGutter \in Nat
      BY <1>1 DEF RowGutter
    <3> QED
      BY <2>2, <2>3, <3>1, ChainGrows
  <2>5. tops \in [1 .. R -> Int] /\ \A r \in 1 .. R : tops[r] = top[r]
    BY <1>15, <1>18
  <2> HIDE DEF tops
  <2>6. \A k, l \in 1 .. R : k < l => Precedes(tops, o[k], o[l])
    <3> SUFFICES ASSUME NEW k \in 1 .. R, NEW l \in 1 .. R, k < l PROVE Precedes(tops, o[k], o[l])
      OBVIOUS
    <3>1. at[k] < at[l]
      BY <2>1, <2>4 DEF RowGutter
    <3>2. tops[o[k]] = at[k] /\ tops[o[l]] = at[l]
      BY <1>9, <2>1, <2>5
    <3> QED
      BY <3>1, <3>2 DEF Precedes
  <2>7. o \in Orderings(1 .. R, tops, R)
    BY <1>9, <2>6 DEF Orderings
  <2>8. Sorted(tops) = o
    BY <1>1, <2>5, <2>7, Count, SortedAlong
  <2>9. RowGaps(s, rows) = {RowTop(s, rows[o[k]]) - RowBottom(s, rows[o[k - 1]]) : k \in (1 .. R) \ {1}}
    BY <1>1, <2>8 DEF RowGaps, tops
  <2>10. ASSUME NEW k \in (1 .. R) \ {1} PROVE RowTop(s, rows[o[k]]) - RowBottom(s, rows[o[k - 1]]) = RowGutter
    <3>1. k \in 2 .. R
      BY <1>1
    <3>2. k - 1 \in 1 .. R /\ o[k] \in 1 .. R /\ o[k - 1] \in 1 .. R
      BY <1>9, <1>11, <3>1
    <3>3. RowTop(s, rows[o[k]]) = top[o[k]] /\ RowBottom(s, rows[o[k - 1]]) = top[o[k - 1]] + High(o[k - 1])
      BY <1>18, <3>2
    <3>4. top[o[k]] = top[o[k - 1]] + High(o[k - 1]) + RowGutter /\ top[o[k - 1]] \in Int /\ High(o[k - 1]) \in Int
      BY <1>12, <1>15, <1>4, <3>1, <3>2 DEF OnGrid
    <3> QED
      BY <3>3, <3>4 DEF RowGutter
  <2> QED
    BY <2>9, <2>10
<1>22. Neat(s, rows)
  <2>1. \A z \in Zones : s[z] \in Boxes /\ s[z].w > 0 /\ s[z].h > 0
    BY <1>16
  <2>2. \A r \in 1 .. Len(rows) : \A z \in ToSet(rows[r]) :
          s[z].y = RowTop(s, rows[r]) /\ s[z].y + s[z].h = RowBottom(s, rows[r])
    BY <1>17, <1>18 DEF R
  <2>3. \A r, q \in 1 .. Len(rows) : RowLeft(s, rows[r]) = RowLeft(s, rows[q])
    BY <1>20 DEF R
  <2>4. \A r \in 1 .. Len(rows) : Gaps(s, rows[r]) \subseteq {Gutter}
    BY <1>19 DEF R
  <2> QED
    BY <1>21, <2>1, <2>2, <2>3, <2>4 DEF Neat
<1> QED
  BY <1>16, <1>22 DEF Top, High

-----------------------------------------------------------------------------
(* Zones that lie neatly stay where they are *)

\* Rows that group the zones alike.
Alike(rows, again) ==
  \A z, w \in Zones : RowOf(rows, z) = RowOf(rows, w) <=> RowOf(again, z) = RowOf(again, w)

\* Each row of the one grouping has the zones of a row of the other.
LEMMA RowsMatch ==
  ASSUME NEW y, NEW reach, NEW rows, InRows(Zones, y, reach, rows),
         NEW y2, NEW reach2, NEW again, InRows(Zones, y2, reach2, again), Alike(rows, again),
         NEW r \in 1 .. Len(again)
  PROVE  LET q == RowOf(rows, again[r][1])
         IN /\ q \in 1 .. Len(rows) /\ ToSet(again[r]) = ToSet(rows[q]) /\ Len(again[r]) = Len(rows[q])
            /\ RowOf(again, rows[q][1]) = r
<1> DEFINE q == RowOf(rows, again[r][1])
<1>1. /\ again[r][1] \in ToSet(again[r]) /\ ToSet(again[r]) \subseteq Zones
      /\ \A z \in ToSet(again[r]) : RowOf(again, z) = r
      /\ Cardinality(ToSet(again[r])) = Len(again[r])
  BY ARow
<1>2. q \in 1 .. Len(rows) /\ \A z \in Zones : z \in ToSet(rows[RowOf(rows, z)])
  BY <1>1 DEF InRows
<1>3. /\ rows[q][1] \in ToSet(rows[q]) /\ ToSet(rows[q]) \subseteq Zones
      /\ \A z \in ToSet(rows[q]) : RowOf(rows, z) = q
      /\ Cardinality(ToSet(rows[q])) = Len(rows[q])
  BY <1>2, ARow
<1>4. \A z \in Zones : z \in ToSet(again[RowOf(again, z)])
  BY DEF InRows
<1>5. \A z \in Zones : RowOf(rows, z) = q <=> RowOf(again, z) = r
  BY <1>1 DEF Alike
<1> HIDE DEF q
<1>6. ToSet(again[r]) = ToSet(rows[q])
  <2>1. ASSUME NEW z \in ToSet(again[r]) PROVE z \in ToSet(rows[q])
    <3>1. z \in Zones /\ RowOf(rows, z) = q
      BY <1>1, <1>5
    <3> QED
      BY <1>2, <3>1
  <2>2. ASSUME NEW z \in ToSet(rows[q]) PROVE z \in ToSet(again[r])
    <3>1. z \in Zones /\ RowOf(again, z) = r
      BY <1>3, <1>5
    <3> QED
      BY <1>4, <3>1
  <2> QED
    BY <2>1, <2>2
<1>7. RowOf(again, rows[q][1]) = r
  BY <1>3, <1>5
<1> QED
  BY <1>1, <1>2, <1>3, <1>6, <1>7 DEF q

\* Zones that lie neatly in rows lie neatly in any rows that group them alike.
LEMMA NeatAgain ==
  ASSUME NEW y, NEW reach, NEW rows, InRows(Zones, y, reach, rows),
         NEW y2, NEW reach2, NEW again, InRows(Zones, y2, reach2, again), Alike(rows, again),
         NEW s, Neat(s, rows)
  PROVE  Neat(s, again)
<1> DEFINE R == Len(rows)
           A == Len(again)
           q == [r \in 1 .. A |-> RowOf(rows, again[r][1])]
           back == [r \in 1 .. R |-> RowOf(again, rows[r][1])]
<1>1. ASSUME NEW r \in 1 .. A
      PROVE  /\ q[r] \in 1 .. R /\ ToSet(again[r]) = ToSet(rows[q[r]]) /\ Len(again[r]) = Len(rows[q[r]])
             /\ back[q[r]] = r
  <2>1. LET p == RowOf(rows, again[r][1])
        IN /\ p \in 1 .. Len(rows) /\ ToSet(again[r]) = ToSet(rows[p]) /\ Len(again[r]) = Len(rows[p])
           /\ RowOf(again, rows[p][1]) = r
    BY RowsMatch
  <2> QED
    BY <2>1
<1>2. ASSUME NEW r \in 1 .. R PROVE back[r] \in 1 .. A /\ q[back[r]] = r
  <2>1. Alike(again, rows)
    BY DEF Alike
  <2>2. LET p == RowOf(again, rows[r][1])
        IN p \in 1 .. Len(again) /\ RowOf(rows, again[p][1]) = r
    BY <2>1, RowsMatch
  <2> QED
    BY <2>2
<1>3. R \in Nat /\ A \in Nat /\ DOMAIN again = 1 .. A /\ DOMAIN rows = 1 .. R
  BY DEF InRows
<1>4. A = R
  <2>1. Lists(1 .. R, A, q)
    <3>1. q \in [1 .. A -> 1 .. R]
      BY <1>1
    <3>2. \A i, j \in 1 .. A : q[i] = q[j] => i = j
      BY <1>1
    <3>3. \A d \in 1 .. R : \E i \in 1 .. A : q[i] = d
      BY <1>2
    <3> QED
      BY <1>3, <3>1, <3>2, <3>3 DEF Lists
  <2> HIDE DEF q, R, A
  <2>2. Cardinality(1 .. R) = A
    BY <1>3, <2>1, ListedIsFinite
  <2> QED
    BY <1>3, <2>2, Count
<1>5. ASSUME NEW r \in 1 .. A
      PROVE  /\ RowTop(s, again[r]) = RowTop(s, rows[q[r]]) /\ RowBottom(s, again[r]) = RowBottom(s, rows[q[r]])
             /\ RowLeft(s, again[r]) = RowLeft(s, rows[q[r]])
  BY <1>1 DEF RowTop, RowBottom, RowLeft
<1> HIDE DEF q, back
<1>6. \A r \in 1 .. A : \A z \in ToSet(again[r]) :
        s[z].y = RowTop(s, again[r]) /\ s[z].y + s[z].h = RowBottom(s, again[r])
  <2> SUFFICES ASSUME NEW r \in 1 .. A, NEW z \in ToSet(again[r])
               PROVE  s[z].y = RowTop(s, again[r]) /\ s[z].y + s[z].h = RowBottom(s, again[r])
    OBVIOUS
  <2>1. q[r] \in 1 .. R /\ z \in ToSet(rows[q[r]])
    BY <1>1
  <2>2. s[z].y = RowTop(s, rows[q[r]]) /\ s[z].y + s[z].h = RowBottom(s, rows[q[r]])
    BY <2>1 DEF Neat
  <2> QED
    BY <1>5, <2>2
<1>7. \A r, p \in 1 .. A : RowLeft(s, again[r]) = RowLeft(s, again[p])
  <2>1. \A r, p \in 1 .. R : RowLeft(s, rows[r]) = RowLeft(s, rows[p])
    BY DEF Neat
  <2> QED
    BY <1>1, <1>5, <2>1
<1>8. ASSUME NEW r \in 1 .. A PROVE Gaps(s, again[r]) \subseteq {Gutter}
  <2> DEFINE n == Len(again[r])
             e == LeftToRight(s, rows[q[r]])
  <2>1. q[r] \in 1 .. R /\ n = Len(rows[q[r]])
    BY <1>1
  <2>2. Lists(ToSet(rows[q[r]]), n, e) /\ \A i, j \in 1 .. n : i < j => s[e[i]].x + s[e[i]].w + Gutter <= s[e[j]].x
    BY <2>1, RowIsApart
  <2>3. /\ n \in Nat /\ Lists(ToSet(again[r]), n, again[r]) /\ DOMAIN again[r] = 1 .. n
        /\ ToSet(again[r]) \subseteq Zones
    BY ARow
  <2>4. DOMAIN rows[q[r]] = 1 .. n
    BY <2>1, ARow
  <2>5. \A z \in ToSet(again[r]) : s[z].x \in Int /\ s[z].w \in Int /\ s[z].w > 0
    BY <2>3 DEF Neat, Boxes
  <2>6. Lists(ToSet(again[r]), n, e)
    BY <1>1, <2>2
  <2> HIDE DEF e, n
  <2>7. e \in [1 .. n -> ToSet(again[r])]
    BY <2>6 DEF Lists
  <2>8. \A i, j \in 1 .. n : i < j => s[e[i]].x < s[e[j]].x
    <3> SUFFICES ASSUME NEW i \in 1 .. n, NEW j \in 1 .. n, i < j PROVE s[e[i]].x < s[e[j]].x
      OBVIOUS
    <3>1. s[e[i]].x \in Int /\ s[e[j]].x \in Int /\ s[e[i]].w \in Int /\ s[e[i]].w > 0
      BY <2>5, <2>7
    <3> QED
      BY <2>2, <3>1 DEF Gutter
  <2>9. LeftToRight(s, again[r]) = e
    BY <2>3, <2>5, <2>6, <2>8, LeftToRightOnly
  <2>10. Gaps(s, again[r]) = Gaps(s, rows[q[r]])
    BY <2>3, <2>4, <2>9 DEF Gaps, e
  <2> QED
    BY <2>1, <2>10 DEF Neat
<1>9. RowGaps(s, again) \subseteq {RowGutter}
  <2> DEFINE o == Sorted(RowTops(s, rows))
             c == [k \in 1 .. R |-> back[o[k]]]
             tops == RowTops(s, again)
  <2>1. /\ \A r \in 1 .. R : /\ RowTop(s, rows[r]) \in Int /\ RowBottom(s, rows[r]) \in Int
                             /\ RowTop(s, rows[r]) < RowBottom(s, rows[r])
        /\ Lists(1 .. R, R, o)
        /\ \A k \in 2 .. R : RowTop(s, rows[o[k]]) = RowBottom(s, rows[o[k - 1]]) + RowGutter
        /\ \A k, l \in 1 .. R : k < l => RowBottom(s, rows[o[k]]) + RowGutter <= RowTop(s, rows[o[l]])
    BY RowsAreApart
  <2> HIDE DEF R, A, o
  <2>2. o \in [1 .. R -> 1 .. R]
    BY <2>1 DEF Lists
  <2>3. \A k \in 1 .. R : c[k] \in 1 .. A /\ q[c[k]] = o[k]
    BY <1>2, <2>2
  <2>4. c \in [1 .. R -> 1 .. A]
    BY <2>3
  <2> HIDE DEF c
  <2>5. \A r \in 1 .. A : tops[r] = RowTop(s, rows[q[r]])
    BY <1>5 DEF RowTops, A
  <2>6. tops \in [1 .. A -> Int]
    <3>1. \A r \in 1 .. A : RowTop(s, again[r]) \in Int
      BY <1>1, <1>5, <2>1
    <3> QED
      BY <3>1 DEF RowTops, A
  <2>7. DOMAIN again = 1 .. A /\ tops = [r \in DOMAIN again |-> RowTop(s, again[r])]
    BY <1>3 DEF RowTops, A
  <2> HIDE DEF tops
  <2>8. \A k, l \in 1 .. R : k < l => Precedes(tops, c[k], c[l])
    <3> SUFFICES ASSUME NEW k \in 1 .. R, NEW l \in 1 .. R, k < l PROVE Precedes(tops, c[k], c[l])
      OBVIOUS
    <3>1. tops[c[k]] = RowTop(s, rows[o[k]]) /\ tops[c[l]] = RowTop(s, rows[o[l]])
      BY <2>3, <2>5
    <3>2. RowTop(s, rows[o[k]]) < RowTop(s, rows[o[l]])
      <4>1. o[k] \in 1 .. R /\ o[l] \in 1 .. R
        BY <2>2
      <4> QED
        BY <2>1, <4>1 DEF RowGutter
    <3> QED
      BY <3>1, <3>2 DEF Precedes
  <2>9. c \in Orderings(1 .. A, tops, A)
    BY <1>4, <2>4, <2>8 DEF Orderings
  <2>10. Sorted(tops) = c
    BY <1>3, <2>6, <2>9, Count, SortedAlong DEF A
  <2>11. RowGaps(s, again) = {RowTop(s, again[c[k]]) - RowBottom(s, again[c[k - 1]]) : k \in (1 .. A) \ {1}}
    BY <2>7, <2>10 DEF RowGaps
  <2>12. ASSUME NEW k \in (1 .. A) \ {1} PROVE RowTop(s, again[c[k]]) - RowBottom(s, again[c[k - 1]]) = RowGutter
    <3>1. k \in 2 .. R /\ k \in 1 .. R /\ k - 1 \in 1 .. R
      BY <1>3, <1>4 DEF R, A
    <3>2. /\ RowTop(s, again[c[k]]) = RowTop(s, rows[o[k]])
          /\ RowBottom(s, again[c[k - 1]]) = RowBottom(s, rows[o[k - 1]])
      BY <1>5, <2>3, <3>1
    <3>3. o[k - 1] \in 1 .. R
      BY <2>2, <3>1
    <3>4. RowTop(s, rows[o[k]]) = RowBottom(s, rows[o[k - 1]]) + RowGutter /\ RowBottom(s, rows[o[k - 1]]) \in Int
      BY <2>1, <3>1, <3>3
    <3> QED
      BY <3>2, <3>4 DEF RowGutter
  <2> QED
    BY <2>11, <2>12
<1>10. \A z \in Zones : s[z] \in Boxes /\ s[z].w > 0 /\ s[z].h > 0
  BY DEF Neat
<1> QED
  BY <1>6, <1>7, <1>8, <1>9, <1>10 DEF Neat, A

\* A box is where it is and how large.
LEMMA SameBox ==
  ASSUME NEW a \in Boxes, NEW b \in Boxes, a.x = b.x, a.y = b.y, a.w = b.w, a.h = b.h
  PROVE  a = b
BY DEF Boxes

\* Frames that begin where the zones do and are as wide, in rows as high.
Fits(frames, s, rows) ==
  /\ \A z \in Zones : frames[z] \in Boxes /\ frames[z].x = s[z].x /\ frames[z].w = s[z].w
  /\ \A r \in 1 .. Len(rows) : /\ RowTop(frames, rows[r]) = RowTop(s, rows[r])
                               /\ RowBottom(frames, rows[r]) = RowBottom(s, rows[r])

\* Every row is levelled.
Levels(level, frames, rows) == \A r \in 1 .. Len(rows) : level[r] = Levelled(frames, rows[r])

\* Zones that lie neatly in their rows stay where they are when the generator
\* lays them again, if it finds their frames where the zones begin and as wide,
\* and each row as high.
LEMMA NeatStays ==
  ASSUME NEW y, NEW reach, NEW rows, InRows(Zones, y, reach, rows),
         NEW s \in [Zones -> Boxes], Neat(s, rows), \A z \in Zones : OnGrid(s[z].h),
         NEW frames, Fits(frames, s, rows), NEW level, Levels(level, frames, rows)
  PROVE  /\ Stacked(rows, level) = s
         /\ \A z \in Zones : level[RowOf(rows, z)][z].y = s[z].y
<1>1. ASSUME NEW r \in 1 .. Len(rows)
      PROVE  /\ Len(rows[r]) \in Nat \ {0} /\ DOMAIN rows[r] = 1 .. Len(rows[r])
             /\ ToSet(rows[r]) \subseteq Zones /\ rows[r][1] \in ToSet(rows[r])
             /\ IsFiniteSet(ToSet(rows[r])) /\ ToSet(rows[r]) # {}
             /\ Lists(ToSet(rows[r]), Len(rows[r]), rows[r])
             /\ \A z \in ToSet(rows[r]) : RowOf(rows, z) = r
  BY ARow
<1>2. ASSUME NEW r \in 1 .. Len(rows), NEW z \in ToSet(rows[r])
      PROVE  level[r][z] = s[z]
  <2> DEFINE n == Len(rows[r])
             Z == ToSet(rows[r])
             v == Levelled(frames, rows[r])
             e == LeftToRight(frames, rows[r])
             top == RowTop(frames, rows[r])
             bottom == RowBottom(frames, rows[r])
  <2>1. /\ n \in Nat \ {0} /\ DOMAIN rows[r] = 1 .. n /\ Z \subseteq Zones /\ Lists(Z, n, rows[r])
    BY <1>1
  <2>2. \A d \in Z : frames[d] \in Boxes /\ frames[d].x = s[d].x /\ frames[d].w = s[d].w
    BY <2>1 DEF Fits
  <2>3. /\ \A d \in Z : /\ v[d] \in Boxes /\ v[d].y = top /\ v[d].w = frames[d].w
                        /\ v[d].h = Up(bottom - top)
        /\ v[e[1]].x = frames[e[1]].x
        /\ \A i \in 2 .. n : v[e[i]].x = v[e[i - 1]].x + frames[e[i - 1]].w + Gutter
    BY <2>1, <2>2, LevelledIs
  <2>4. e = LeftToRight(s, rows[r])
    <3>1. \A i \in DOMAIN rows[r] : rows[r][i] \in Zones
      BY <2>1 DEF Lists
    <3>2. [i \in DOMAIN rows[r] |-> frames[rows[r][i]].x] = [i \in DOMAIN rows[r] |-> s[rows[r][i]].x]
      BY <3>1 DEF Fits
    <3> QED
      BY <3>2 DEF LeftToRight
  <2>5. /\ Lists(Z, n, e)
        /\ \A i \in 2 .. n : s[e[i]].x = s[e[i - 1]].x + s[e[i - 1]].w + Gutter
    BY <2>4, RowIsApart
  <2>6. level[r] = v
    BY DEF Levels
  <2>7. s[z].y = top /\ s[z].y + s[z].h = bottom /\ OnGrid(s[z].h) /\ s[z] \in Boxes
    <3>1. s[z].y = RowTop(s, rows[r]) /\ s[z].y + s[z].h = RowBottom(s, rows[r])
      BY DEF Neat
    <3>2. top = RowTop(s, rows[r]) /\ bottom = RowBottom(s, rows[r])
      BY DEF Fits
    <3> QED
      BY <2>1, <3>1, <3>2
  <2> HIDE DEF n, Z, v, e, top, bottom
  <2>8. e \in [1 .. n -> Z] /\ \A d \in Z : \E i \in 1 .. n : e[i] = d
    BY <2>5 DEF Lists
  <2>9. \A i \in 1 .. n : v[e[i]].x = s[e[i]].x
    <3> DEFINE a == [i \in 1 .. n |-> v[e[i]].x]
               b == [i \in 1 .. n |-> s[e[i]].x]
               step == [i \in 2 .. n |-> frames[e[i - 1]].w + Gutter]
    <3>1. n \in Nat /\ 1 \in 1 .. n /\ \A i \in 2 .. n : i \in 1 .. n /\ i - 1 \in 1 .. n
      BY <2>1
    <3>2. a[1] = b[1]
      BY <2>2, <2>3, <2>8, <3>1
    <3>3. ASSUME NEW i \in 2 .. n PROVE a[i] = a[i - 1] + step[i] /\ b[i] = b[i - 1] + step[i]
      <4>1. i \in 1 .. n /\ i - 1 \in 1 .. n
        BY <3>1
      <4>2. e[i - 1] \in Z /\ e[i] \in Z
        BY <2>8, <4>1
      <4>3. /\ v[e[i - 1]].x \in Int /\ frames[e[i - 1]].w \in Int /\ s[e[i - 1]].x \in Int
            /\ s[e[i - 1]].w = frames[e[i - 1]].w
        BY <2>2, <2>3, <4>2 DEF Boxes
      <4>4. v[e[i]].x = v[e[i - 1]].x + frames[e[i - 1]].w + Gutter
        BY <2>3
      <4>5. s[e[i]].x = s[e[i - 1]].x + frames[e[i - 1]].w + Gutter
        BY <2>5, <4>3
      <4>6. a[i] = v[e[i]].x /\ a[i - 1] = v[e[i - 1]].x /\ b[i] = s[e[i]].x /\ b[i - 1] = s[e[i - 1]].x
            /\ step[i] = frames[e[i - 1]].w + Gutter
        BY <4>1
      <4> HIDE DEF a, b, step
      <4> QED
        <5>1. a[i] = a[i - 1] + step[i]
          BY <4>3, <4>4, <4>6 DEF Gutter
        <5>2. b[i] = b[i - 1] + step[i]
          BY <4>3, <4>5, <4>6 DEF Gutter
        <5> QED
          BY <5>1, <5>2
    <3>4. \A i \in 1 .. n : a[i] = v[e[i]].x /\ b[i] = s[e[i]].x
      OBVIOUS
    <3> HIDE DEF a, b, step
    <3>5. \A i \in 1 .. n : a[i] = b[i]
      <4>1. Advances(n, a, step) /\ Advances(n, b, step)
        BY <3>3 DEF Advances
      <4> QED
        BY <3>1, <3>2, <4>1, ChainOnly
    <3> QED
      BY <3>4, <3>5
  <2>10. z \in Z
    BY DEF Z
  <2>11. v[z].x = s[z].x
    BY <2>8, <2>9, <2>10
  <2>12. v[z].h = s[z].h
    <3>1. bottom - top = s[z].h
      BY <2>7 DEF Boxes
    <3> QED
      BY <2>3, <2>7, <2>10, <3>1, GridIsKept
  <2>13. v[z] \in Boxes /\ v[z].y = s[z].y /\ v[z].w = s[z].w
    BY <2>2, <2>3, <2>7, <2>10
  <2>14. v[z] = s[z]
    BY <2>7, <2>11, <2>12, <2>13, SameBox
  <2> QED
    BY <2>6, <2>14
<1>3. \A z \in Zones : RowOf(rows, z) \in 1 .. Len(rows) /\ z \in ToSet(rows[RowOf(rows, z)])
  BY DEF InRows
<1>4. \A z \in Zones : level[RowOf(rows, z)][z] = s[z]
  BY <1>2, <1>3
<1>5. \A r \in 1 .. Len(rows) : \A z \in ToSet(rows[r]) : level[r][z] \in Boxes
  BY <1>1, <1>2
<1>6. \A r \in 1 .. Len(rows) : RowLeft(level[r], rows[r]) = RowLeft(s, rows[r])
  <2> SUFFICES ASSUME NEW r \in 1 .. Len(rows) PROVE RowLeft(level[r], rows[r]) = RowLeft(s, rows[r])
    OBVIOUS
  <2>1. {level[r][z].x : z \in ToSet(rows[r])} = {s[z].x : z \in ToSet(rows[r])}
    BY <1>2
  <2> QED
    BY <2>1 DEF RowLeft
<1>7. ASSUME NEW r \in 1 .. Len(rows)
      PROVE  RowLeft(level[r], rows[r]) = Left(rows, level) /\ Left(rows, level) \in Int
  <2>1. /\ Left(rows, level) \in Int
        /\ \E q \in 1 .. Len(rows) : RowLeft(level[q], rows[q]) = Left(rows, level)
    BY <1>5, LeftEdges
  <2>2. \A q, p \in 1 .. Len(rows) : RowLeft(s, rows[q]) = RowLeft(s, rows[p])
    BY DEF Neat
  <2> QED
    BY <1>6, <2>1, <2>2
<1>8. Firsts(rows, level) = [r \in 1 .. Len(rows) |-> s[rows[r][1]]]
  <2>1. DOMAIN rows = 1 .. Len(rows)
    BY DEF InRows
  <2>2. \A r \in 1 .. Len(rows) : level[r][rows[r][1]] = s[rows[r][1]]
    BY <1>1, <1>2
  <2> QED
    BY <2>1, <2>2 DEF Firsts
<1>9. \A r \in 1 .. Len(rows) : /\ s[rows[r][1]].y = RowTop(s, rows[r])
                               /\ s[rows[r][1]].y + s[rows[r][1]].h = RowBottom(s, rows[r])
                               /\ s[rows[r][1]] \in Boxes
  BY <1>1 DEF Neat
<1>10. TopToBottom(rows, level) = Sorted(RowTops(s, rows))
  <2>1. DOMAIN rows = 1 .. Len(rows)
    BY DEF InRows
  <2>2. \A r \in 1 .. Len(rows) : level[r][rows[r][1]].y = RowTop(s, rows[r])
    BY <1>1, <1>2, <1>9
  <2>3. [r \in DOMAIN rows |-> level[r][rows[r][1]].y] = RowTops(s, rows)
    BY <2>1, <2>2 DEF RowTops
  <2> QED
    BY <2>3 DEF TopToBottom
<1>11. \A z \in Zones :
         /\ Stacked(rows, level)[z] \in Boxes
         /\ Stacked(rows, level)[z].w = s[z].w /\ Stacked(rows, level)[z].h = s[z].h
         /\ Stacked(rows, level)[z].x = s[z].x
  <2> SUFFICES ASSUME NEW z \in Zones
               PROVE  /\ Stacked(rows, level)[z] \in Boxes
                      /\ Stacked(rows, level)[z].w = s[z].w /\ Stacked(rows, level)[z].h = s[z].h
                      /\ Stacked(rows, level)[z].x = s[z].x
    OBVIOUS
  <2>1. Stacked(rows, level)[z] \in Boxes
    BY <1>5, StackedIs
  <2>2. Stacked(rows, level)[z].w = level[RowOf(rows, z)][z].w
    BY <1>5, StackedIs
  <2>3. Stacked(rows, level)[z].h = level[RowOf(rows, z)][z].h
    BY <1>5, StackedIs
  <2>4. Stacked(rows, level)[z].x = level[RowOf(rows, z)][z].x + Left(rows, level)
                                    - RowLeft(level[RowOf(rows, z)], rows[RowOf(rows, z)])
    BY <1>5, StackedIs
  <2>5. s[z].x \in Int
    BY DEF Boxes
  <2> QED
    BY <1>3, <1>4, <1>7, <2>1, <2>2, <2>3, <2>4, <2>5
<1>12. PICK top \in [1 .. Len(rows) -> Int] :
         /\ \A z \in Zones : Stacked(rows, level)[z].y = top[RowOf(rows, z)]
         /\ top[TopToBottom(rows, level)[1]] = Firsts(rows, level)[TopToBottom(rows, level)[1]].y
         /\ \A k \in 2 .. Len(rows) :
              top[TopToBottom(rows, level)[k]] =
                top[TopToBottom(rows, level)[k - 1]]
                  + Firsts(rows, level)[TopToBottom(rows, level)[k - 1]].h + RowGutter
  BY <1>5, StackedIs
<1> DEFINE R == Len(rows)
           o == Sorted(RowTops(s, rows))
<1>13. /\ \A r \in 1 .. R : /\ RowTop(s, rows[r]) \in Int /\ RowBottom(s, rows[r]) \in Int
       /\ Lists(1 .. R, R, o)
       /\ \A k \in 2 .. R : RowTop(s, rows[o[k]]) = RowBottom(s, rows[o[k - 1]]) + RowGutter
  BY RowsAreApart
<1>14. R \in Nat /\ R > 0
  BY Finite DEF InRows
<1>15. \A k \in 1 .. R : top[o[k]] = RowTop(s, rows[o[k]])
  <2> HIDE DEF R, o
  <2>1. o \in [1 .. R -> 1 .. R]
    BY <1>13 DEF Lists
  <2> DEFINE a == [k \in 1 .. R |-> top[o[k]]]
             b == [k \in 1 .. R |-> RowTop(s, rows[o[k]])]
             step == [k \in 2 .. R |-> RowBottom(s, rows[o[k - 1]]) - RowTop(s, rows[o[k - 1]]) + RowGutter]
  <2>2. 1 \in 1 .. R /\ \A k \in 2 .. R : k \in 1 .. R /\ k - 1 \in 1 .. R
    BY <1>14
  <2>3. \A r \in 1 .. R : /\ Firsts(rows, level)[r].y = RowTop(s, rows[r])
                          /\ Firsts(rows, level)[r].h = RowBottom(s, rows[r]) - RowTop(s, rows[r])
    <3> SUFFICES ASSUME NEW r \in 1 .. R
                 PROVE  /\ Firsts(rows, level)[r].y = RowTop(s, rows[r])
                        /\ Firsts(rows, level)[r].h = RowBottom(s, rows[r]) - RowTop(s, rows[r])
      OBVIOUS
    <3>1. Firsts(rows, level)[r] = s[rows[r][1]]
      BY <1>8 DEF R
    <3>2. /\ s[rows[r][1]].y = RowTop(s, rows[r]) /\ s[rows[r][1]] \in Boxes
          /\ s[rows[r][1]].y + s[rows[r][1]].h = RowBottom(s, rows[r])
      BY <1>9 DEF R
    <3>3. s[rows[r][1]].y \in Int /\ s[rows[r][1]].h \in Int
      BY <3>2 DEF Boxes
    <3> QED
      BY <3>1, <3>2, <3>3
  <2>4. a[1] = b[1]
    <3>1. top[o[1]] = Firsts(rows, level)[o[1]].y
      BY <1>10, <1>12 DEF o
    <3> QED
      BY <2>1, <2>2, <2>3, <3>1
  <2>5. ASSUME NEW k \in 2 .. R PROVE a[k] = a[k - 1] + step[k] /\ b[k] = b[k - 1] + step[k]
    <3>1. k \in 1 .. R /\ k - 1 \in 1 .. R /\ o[k] \in 1 .. R /\ o[k - 1] \in 1 .. R
      BY <2>1, <2>2
    <3>2. top[o[k]] = top[o[k - 1]] + Firsts(rows, level)[o[k - 1]].h + RowGutter
      BY <1>10, <1>12 DEF o, R
    <3>3. RowTop(s, rows[o[k]]) = RowBottom(s, rows[o[k - 1]]) + RowGutter
      BY <1>13
    <3>4. /\ top[o[k - 1]] \in Int /\ RowTop(s, rows[o[k - 1]]) \in Int /\ RowBottom(s, rows[o[k - 1]]) \in Int
      BY <1>12, <1>13, <3>1 DEF R
    <3>5. Firsts(rows, level)[o[k - 1]].h = RowBottom(s, rows[o[k - 1]]) - RowTop(s, rows[o[k - 1]])
      BY <2>3, <3>1
    <3>6. /\ a[k] = top[o[k]] /\ a[k - 1] = top[o[k - 1]]
          /\ b[k] = RowTop(s, rows[o[k]]) /\ b[k - 1] = RowTop(s, rows[o[k - 1]])
          /\ step[k] = RowBottom(s, rows[o[k - 1]]) - RowTop(s, rows[o[k - 1]]) + RowGutter
      BY <3>1
    <3> HIDE DEF a, b, step
    <3> QED
      BY <3>2, <3>3, <3>4, <3>5, <3>6 DEF RowGutter
  <2>6. \A k \in 1 .. R : a[k] = top[o[k]] /\ b[k] = RowTop(s, rows[o[k]])
    OBVIOUS
  <2> HIDE DEF a, b, step
  <2>7. \A k \in 1 .. R : a[k] = b[k]
    <3>1. Advances(R, a, step) /\ Advances(R, b, step)
      BY <2>5 DEF Advances
    <3> QED
      BY <1>14, <2>4, <3>1, ChainOnly
  <2> QED
    BY <2>6, <2>7
<1>16. \A r \in 1 .. R : top[r] = RowTop(s, rows[r])
  <2> HIDE DEF R, o
  <2>1. \A r \in 1 .. R : \E k \in 1 .. R : o[k] = r
    BY <1>13 DEF Lists
  <2> QED
    BY <1>15, <2>1
<1>17. ASSUME NEW z \in Zones PROVE Stacked(rows, level)[z] = s[z]
  <2>1. RowTop(s, rows[RowOf(rows, z)]) = s[z].y
    BY <1>3 DEF Neat
  <2>2. Stacked(rows, level)[z].y = s[z].y
    BY <1>3, <1>12, <1>16, <2>1
  <2> QED
    BY <1>11, <2>2, SameBox
<1>18. Stacked(rows, level) \in [Zones -> Boxes]
  BY <1>5, StackedIs
<1>19. Stacked(rows, level) = s
  <2> HIDE DEF R, o
  <2> QED
    BY <1>17, <1>18
<1> QED
  BY <1>4, <1>19

-----------------------------------------------------------------------------
(* What the generator writes *)

Tops(at) == [z \in Zones |-> NodeTop(at, z)]
FramesOf(at) == [z \in Zones |-> Frame(at, z)]
RowsOf(at) == Rows(Tops(at), RowReach)
LevelsOf(at) == [r \in DOMAIN RowsOf(at) |-> Levelled(FramesOf(at), RowsOf(at)[r])]

\* Wherever the nodes are, Rows groups the zones, for the generator as for the
\* check.
LEMMA TopsInRows ==
  ASSUME NEW at \in [Nodes -> Points], NEW reach \in Nat
  PROVE  /\ Tops(at) \in [Zones -> Int]
         /\ InRows(Zones, Tops(at), reach, Rows(Tops(at), reach))
<1>1. Tops(at) \in [Zones -> Int]
  <2>1. \A z \in Zones : NodeTop(at, z) \in Int
    BY NodeEdges
  <2> QED
    BY <2>1 DEF Tops
<1> QED
  BY <1>1, Finite, RowsAre

\* The frames of nodes are frames.
LEMMA FramesAre ==
  ASSUME NEW at \in [Nodes -> Points]
  PROVE  Frames(FramesOf(at))
<1>1. ASSUME NEW z \in Zones
      PROVE  /\ Frame(at, z) \in Boxes /\ Frame(at, z).w > 0 /\ Frame(at, z).h > 0
             /\ OnGrid(Frame(at, z).x) /\ OnGrid(Frame(at, z).y)
             /\ OnGrid(Frame(at, z).w) /\ OnGrid(Frame(at, z).h)
  BY FrameHolds
<1> QED
  BY <1>1 DEF Frames, FramesOf

\* How far the generator moves the nodes of a zone.
Right(at, z) == Generated(at).stickies[z].x - Frame(at, z).x
Lower(at, z) == Generated(at).stickies[z].y - RowTop(FramesOf(at), RowsOf(at)[RowOf(RowsOf(at), z)])

\* What the generator writes: the frames stacked, and the nodes moved with them.
LEMMA GeneratedIs ==
  ASSUME NEW at \in [Nodes -> Points]
  PROVE  /\ Generated(at) = [laid |-> FALSE, sent |-> FALSE, stickies |-> Generated(at).stickies,
                             at |-> Generated(at).at]
         /\ Generated(at).stickies = Stacked(RowsOf(at), LevelsOf(at))
         /\ Generated(at).at = [n \in Nodes |->
              LET z == ZoneOf[n]
                  s == Generated(at).stickies
              IN [x |-> at[n].x + s[z].x - FramesOf(at)[z].x,
                  y |-> at[n].y + s[z].y - LevelsOf(at)[RowOf(RowsOf(at), z)][z].y]]
BY DEF Generated, RowsOf, FramesOf, LevelsOf, Tops

\* Its zones lie neatly in its rows, each as high as the row; the nodes of a
\* zone move alike, along the grid.
LEMMA GeneratedIsNeat ==
  ASSUME NEW at \in [Nodes -> Points]
  PROVE  LET rows == RowsOf(at)
             s == Generated(at).stickies
             f == FramesOf(at)
         IN /\ s \in [Zones -> Boxes] /\ Neat(s, rows)
            /\ \A z \in Zones :
                 LET row == rows[RowOf(rows, z)]
                 IN /\ s[z].w = Frame(at, z).w
                    /\ s[z].h = RowBottom(f, row) - RowTop(f, row) /\ OnGrid(s[z].h)
                    /\ OnGrid(Right(at, z)) /\ OnGrid(Lower(at, z))
            /\ Generated(at).at \in [Nodes -> Points]
            /\ \A z \in Zones : \A n \in Listed(z) :
                 /\ Generated(at).at[n].x = at[n].x + Right(at, z)
                 /\ Generated(at).at[n].y = at[n].y + Lower(at, z)
<1> DEFINE rows == RowsOf(at)
           s == Generated(at).stickies
           f == FramesOf(at)
           level == LevelsOf(at)
           to == Generated(at).at
<1>1. InRows(Zones, Tops(at), RowReach, rows)
  BY TopsInRows DEF RowReach, RowsOf
<1>2. Frames(f)
  BY FramesAre
<1>3. \A r \in 1 .. Len(rows) : level[r] = Levelled(f, rows[r])
  BY <1>1 DEF LevelsOf, InRows
<1>4. s = Stacked(rows, level)
  BY GeneratedIs
<1>5. to = [n \in Nodes |->
        [x |-> at[n].x + s[ZoneOf[n]].x - f[ZoneOf[n]].x,
         y |-> at[n].y + s[ZoneOf[n]].y - level[RowOf(rows, ZoneOf[n])][ZoneOf[n]].y]]
  BY GeneratedIs
<1>6. \A z \in Zones : f[z] = Frame(at, z)
  BY DEF FramesOf
<1>7. \A z \in Zones : /\ Right(at, z) = s[z].x - f[z].x
                       /\ Lower(at, z) = s[z].y - RowTop(f, rows[RowOf(rows, z)])
  BY <1>6 DEF Right, Lower
<1> HIDE DEF rows, s, f, level, to
<1>8. /\ Neat(s, rows)
      /\ \A z \in Zones :
           LET row == rows[RowOf(rows, z)]
           IN /\ s[z].w = f[z].w
              /\ s[z].h = RowBottom(f, row) - RowTop(f, row) /\ OnGrid(s[z].h)
              /\ OnGrid(s[z].x - f[z].x) /\ OnGrid(s[z].y - RowTop(f, row))
              /\ level[RowOf(rows, z)][z].y = RowTop(f, row)
  BY <1>1, <1>2, <1>3, <1>4, GenerationIsNeat
<1>9. \A r \in 1 .. Len(rows) : \A z \in ToSet(rows[r]) : level[r][z] \in Boxes
  <2> SUFFICES ASSUME NEW r \in 1 .. Len(rows), NEW z \in ToSet(rows[r]) PROVE level[r][z] \in Boxes
    OBVIOUS
  <2>1. \A w \in ToSet(rows[r]) : Levelled(f, rows[r])[w] \in Boxes
    BY <1>1, <1>2, LevelOnGrid
  <2> QED
    BY <1>3, <2>1
<1>10. s \in [Zones -> Boxes]
  BY <1>1, <1>4, <1>9, StackedIs
<1>11. \A z \in Zones : OnGrid(Right(at, z)) /\ OnGrid(Lower(at, z)) /\ s[z].w = Frame(at, z).w
  BY <1>6, <1>7, <1>8
<1>12. ASSUME NEW z \in Zones, NEW n \in Listed(z)
       PROVE  /\ n \in Nodes /\ to[n] \in Points
              /\ to[n].x = at[n].x + Right(at, z) /\ to[n].y = at[n].y + Lower(at, z)
  <2>1. n \in Nodes /\ ZoneOf[n] = z /\ at[n].x \in Int /\ at[n].y \in Int
    BY DEF Listed, Points
  <2>2. Right(at, z) = s[z].x - f[z].x /\ Lower(at, z) = s[z].y - RowTop(f, rows[RowOf(rows, z)])
    BY <1>7
  <2>3. level[RowOf(rows, z)][z].y = RowTop(f, rows[RowOf(rows, z)])
    BY <1>8
  <2>4. s[z].x \in Int /\ s[z].y \in Int /\ f[z].x \in Int
    BY <1>2, <1>10 DEF Boxes, Frames
  <2>5. Right(at, z) \in Int /\ Lower(at, z) \in Int
    BY <1>11 DEF OnGrid
  <2>6. RowTop(f, rows[RowOf(rows, z)]) \in Int
    <3>1. RowOf(rows, z) \in 1 .. Len(rows)
      BY <1>1 DEF InRows
    <3>2. OnGrid(RowTop(f, rows[RowOf(rows, z)]))
      BY <1>1, <1>2, <3>1, LevelOnGrid
    <3> QED
      BY <3>2 DEF OnGrid
  <2>7. to[n] = [x |-> at[n].x + s[z].x - f[z].x,
                 y |-> at[n].y + s[z].y - RowTop(f, rows[RowOf(rows, z)])]
    BY <1>5, <2>1, <2>3
  <2> QED
    BY <2>1, <2>2, <2>4, <2>5, <2>6, <2>7 DEF Points
<1>13. to \in [Nodes -> Points]
  <2>1. \A n \in Nodes : ZoneOf[n] \in Zones /\ n \in Listed(ZoneOf[n])
    BY CanvasAssumption DEF Listed
  <2>2. \A n \in Nodes : to[n] \in Points
    BY <1>12, <2>1
  <2> HIDE DEF to
  <2>3. to = [n \in Nodes |-> to[n]]
    BY <1>5
  <2> QED
    BY <2>2, <2>3
<1> QED
  BY <1>8, <1>10, <1>11, <1>12, <1>13 DEF rows, s, f, to

-----------------------------------------------------------------------------
(* Each sticky holds its own nodes *)

\* The rows of the generator, and that its zones lie neatly in them.
LEMMA NeatRows ==
  ASSUME NEW at \in [Nodes -> Points]
  PROVE  /\ InRows(Zones, Tops(at), RowReach, RowsOf(at))
         /\ Neat(Generated(at).stickies, RowsOf(at))
         /\ \A z \in Zones : /\ RowOf(RowsOf(at), z) \in 1 .. Len(RowsOf(at))
                             /\ z \in ToSet(RowsOf(at)[RowOf(RowsOf(at), z)])
<1>1. InRows(Zones, Tops(at), RowReach, RowsOf(at))
  BY TopsInRows DEF RowReach, RowsOf
<1>2. Neat(Generated(at).stickies, RowsOf(at))
  BY GeneratedIsNeat
<1> QED
  BY <1>1, <1>2 DEF InRows

\* A sticky holds its text, and the nodes of its zone below the text.
LEMMA StickyHolds ==
  ASSUME NEW at \in [Nodes -> Points], NEW z \in Zones
  PROVE  LET s == Generated(at).stickies[z]
             to == Generated(at).at
         IN /\ s.x \in Int /\ s.y \in Int /\ s.w \in Int /\ s.h \in Int
            /\ TextHeight(z, s.w) \in Int /\ TextHeight(z, s.w) <= s.h
            /\ TextBand(z, s.w) \in Int /\ TextBand(z, s.w) >= Title + 16
            /\ \A n \in Listed(z) :
                 /\ to[n].x \in Int /\ to[n].y \in Int
                 /\ s.x <= to[n].x /\ to[n].x + NodeSize <= s.x + s.w
                 /\ s.y + TextBand(z, s.w) <= to[n].y /\ to[n].y + NodeSize <= s.y + s.h
<1> DEFINE s == Generated(at).stickies
           f == FramesOf(at)
           row == RowsOf(at)[RowOf(RowsOf(at), z)]
           top == RowTop(f, row)
           bottom == RowBottom(f, row)
           to == Generated(at).at
<1>1. /\ f[z] \in Boxes /\ f[z].w > 0 /\ f[z].h > 0
      /\ TextBand(z, f[z].w) \in Int /\ TextBand(z, f[z].w) >= Title + 16
      /\ TextHeight(z, f[z].w) \in Int /\ TextHeight(z, f[z].w) <= f[z].h
      /\ \A n \in Listed(z) :
           /\ f[z].x <= at[n].x /\ at[n].x + NodeSize <= f[z].x + f[z].w
           /\ f[z].y + TextBand(z, f[z].w) <= at[n].y /\ at[n].y + NodeSize <= f[z].y + f[z].h
  BY FrameHolds DEF FramesOf
<1>2. top \in Int /\ bottom \in Int /\ top <= f[z].y /\ f[z].y + f[z].h <= bottom
  <2>1. RowOf(RowsOf(at), z) \in 1 .. Len(RowsOf(at)) /\ z \in ToSet(row)
    BY NeatRows
  <2>2. ToSet(row) \subseteq Zones /\ IsFiniteSet(ToSet(row)) /\ ToSet(row) # {}
    BY <2>1, NeatRows, ARow
  <2>3. \A w \in ToSet(row) : f[w] \in Boxes
    BY <2>2, FramesAre DEF Frames
  <2> HIDE DEF f, row
  <2> QED
    BY <2>1, <2>2, <2>3, TopAndBottom
<1>3. /\ s \in [Zones -> Boxes] /\ s[z].w = f[z].w /\ s[z].h = bottom - top
      /\ \A n \in Listed(z) : to[n].x = at[n].x + Right(at, z) /\ to[n].y = at[n].y + Lower(at, z)
  BY GeneratedIsNeat DEF FramesOf
<1>4. Right(at, z) = s[z].x - f[z].x /\ Lower(at, z) = s[z].y - top
  BY DEF Right, Lower, FramesOf
<1> HIDE DEF s, f, row, top, bottom, to
<1>5. s[z].x \in Int /\ s[z].y \in Int /\ s[z].w \in Int /\ s[z].h \in Int
  BY <1>3 DEF Boxes
<1>6. f[z].x \in Int /\ f[z].y \in Int /\ f[z].w \in Int /\ f[z].h \in Int
  BY <1>1 DEF Boxes
<1>7. TextHeight(z, s[z].w) \in Int /\ TextHeight(z, s[z].w) <= s[z].h
      /\ TextBand(z, s[z].w) \in Int /\ TextBand(z, s[z].w) >= Title + 16
  <2>1. f[z].h <= s[z].h
    BY <1>2, <1>3, <1>6
  <2>2. TextHeight(z, f[z].w) <= s[z].h
    BY <1>1, <1>5, <1>6, <2>1
  <2> QED
    BY <1>1, <1>3, <2>2
<1>8. ASSUME NEW n \in Listed(z)
      PROVE  /\ to[n].x \in Int /\ to[n].y \in Int
             /\ s[z].x <= to[n].x /\ to[n].x + NodeSize <= s[z].x + s[z].w
             /\ s[z].y + TextBand(z, s[z].w) <= to[n].y /\ to[n].y + NodeSize <= s[z].y + s[z].h
  <2> DEFINE band == TextBand(z, f[z].w)
  <2>1. at[n].x \in Int /\ at[n].y \in Int
    BY DEF Listed, Points
  <2>2. band \in Int /\ TextBand(z, s[z].w) = band
    BY <1>1, <1>3
  <2>3. /\ f[z].x <= at[n].x /\ at[n].x + NodeSize <= f[z].x + f[z].w
        /\ f[z].y + band <= at[n].y /\ at[n].y + NodeSize <= f[z].y + f[z].h
    BY <1>1
  <2>4. to[n].x = at[n].x + (s[z].x - f[z].x) /\ to[n].y = at[n].y + (s[z].y - top)
    BY <1>3, <1>4
  <2> HIDE DEF band
  <2>5. /\ to[n].x \in Int /\ s[z].x <= to[n].x /\ to[n].x + NodeSize <= s[z].x + s[z].w
    BY <1>3, <1>5, <1>6, <2>1, <2>3, <2>4 DEF NodeSize
  <2>6. /\ to[n].y \in Int /\ s[z].y + band <= to[n].y /\ to[n].y + NodeSize <= s[z].y + s[z].h
    BY <1>2, <1>3, <1>5, <1>6, <2>1, <2>2, <2>3, <2>4 DEF NodeSize
  <2> QED
    BY <2>2, <2>5, <2>6
<1> QED
  BY <1>5, <1>7, <1>8 DEF s, to

\* No two stickies touch.
LEMMA StickiesAreApart ==
  ASSUME NEW at \in [Nodes -> Points], NEW z \in Zones, NEW w \in Zones, z # w
  PROVE  LET s == Generated(at).stickies
             rows == RowsOf(at)
         IN /\ RowOf(rows, z) = RowOf(rows, w) =>
                 s[z].x + s[z].w + Gutter <= s[w].x \/ s[w].x + s[w].w + Gutter <= s[z].x
            /\ RowOf(rows, z) # RowOf(rows, w) =>
                 s[z].y + s[z].h + RowGutter <= s[w].y \/ s[w].y + s[w].h + RowGutter <= s[z].y
BY NeatRows, NeatIsApart

\* The nodes a sticky overlaps are the ones its zone lists.
LEMMA HasItsOwn ==
  ASSUME NEW at \in [Nodes -> Points], NEW z \in Zones
  PROVE  Has(Generated(at), z) = Listed(z)
<1> DEFINE s == Generated(at).stickies
           to == Generated(at).at
<1>1. ASSUME NEW w \in Zones
      PROVE  /\ s[w].x \in Int /\ s[w].y \in Int /\ s[w].w \in Int /\ s[w].h \in Int
             /\ \A n \in Listed(w) :
                  /\ to[n].x \in Int /\ to[n].y \in Int
                  /\ s[w].x <= to[n].x /\ to[n].x + NodeSize <= s[w].x + s[w].w
                  /\ s[w].y <= to[n].y /\ to[n].y + NodeSize <= s[w].y + s[w].h
  <2>1. /\ s[w].x \in Int /\ s[w].y \in Int /\ s[w].w \in Int /\ s[w].h \in Int
        /\ TextBand(w, s[w].w) \in Int /\ TextBand(w, s[w].w) >= Title + 16
        /\ \A n \in Listed(w) :
             /\ to[n].x \in Int /\ to[n].y \in Int
             /\ s[w].x <= to[n].x /\ to[n].x + NodeSize <= s[w].x + s[w].w
             /\ s[w].y + TextBand(w, s[w].w) <= to[n].y /\ to[n].y + NodeSize <= s[w].y + s[w].h
    BY StickyHolds
  <2> HIDE DEF s, to
  <2> QED
    BY <2>1 DEF Title
<1>2. ASSUME NEW w \in Zones, w # z
      PROVE  \/ s[z].x + s[z].w + Gutter <= s[w].x \/ s[w].x + s[w].w + Gutter <= s[z].x
             \/ s[z].y + s[z].h + RowGutter <= s[w].y \/ s[w].y + s[w].h + RowGutter <= s[z].y
  BY <1>2, StickiesAreApart
<1>3. Has(Generated(at), z) = {n \in Nodes : Overlap(s[z], NodeBox(to[n]))}
  BY DEF Has
<1> HIDE DEF s, to
<1>4. \A n \in Nodes : ZoneOf[n] \in Zones /\ n \in Listed(ZoneOf[n])
  BY CanvasAssumption DEF Listed
<1>5. ASSUME NEW n \in Listed(z) PROVE n \in Nodes /\ Overlap(s[z], NodeBox(to[n]))
  BY <1>1 DEF Listed, Overlap, NodeBox, NodeSize
<1>6. ASSUME NEW n \in Nodes, ZoneOf[n] # z PROVE ~Overlap(s[z], NodeBox(to[n]))
  <2> DEFINE w == ZoneOf[n]
  <2>1. w \in Zones /\ w # z /\ n \in Listed(w)
    BY <1>4, <1>6
  <2> HIDE DEF w
  <2>2. /\ to[n].x \in Int /\ to[n].y \in Int
        /\ s[w].x <= to[n].x /\ to[n].x + NodeSize <= s[w].x + s[w].w
        /\ s[w].y <= to[n].y /\ to[n].y + NodeSize <= s[w].y + s[w].h
    BY <1>1, <2>1
  <2>3. \/ s[z].x + s[z].w + Gutter <= s[w].x \/ s[w].x + s[w].w + Gutter <= s[z].x
        \/ s[z].y + s[z].h + RowGutter <= s[w].y \/ s[w].y + s[w].h + RowGutter <= s[z].y
    BY <1>2, <2>1
  <2>4. s[w].x \in Int /\ s[w].y \in Int /\ s[w].w \in Int /\ s[w].h \in Int
    BY <1>1, <2>1
  <2>5. s[z].x \in Int /\ s[z].y \in Int /\ s[z].w \in Int /\ s[z].h \in Int
    BY <1>1
  <2> QED
    BY <2>2, <2>3, <2>4, <2>5 DEF Overlap, NodeBox, NodeSize, Gutter, RowGutter
<1>7. ASSUME NEW n \in Nodes PROVE n \in Listed(z) <=> Overlap(s[z], NodeBox(to[n]))
  BY <1>5, <1>6 DEF Listed
<1> QED
  BY <1>3, <1>7 DEF Listed

-----------------------------------------------------------------------------
(* The rows, found again in what was written *)

\* The top nodes of a zone move with it.
LEMMA TopsMove ==
  ASSUME NEW at \in [Nodes -> Points], NEW z \in Zones
  PROVE  /\ NodeTop(Generated(at).at, z) = NodeTop(at, z) + Lower(at, z)
         /\ NodeTop(Generated(at).at, z) \in Int /\ NodeTop(at, z) \in Int /\ Lower(at, z) \in Int
         /\ Frame(Generated(at).at, z).x = Frame(at, z).x + Right(at, z)
         /\ Frame(Generated(at).at, z).y = Frame(at, z).y + Lower(at, z)
         /\ Frame(Generated(at).at, z).w = Frame(at, z).w /\ Frame(Generated(at).at, z).h = Frame(at, z).h
<1> DEFINE to == Generated(at).at
           dx == Right(at, z)
           dy == Lower(at, z)
<1>1. /\ to \in [Nodes -> Points] /\ OnGrid(dx) /\ OnGrid(dy)
      /\ \A n \in Listed(z) : to[n].x = at[n].x + dx /\ to[n].y = at[n].y + dy
  BY GeneratedIsNeat
<1> HIDE DEF to, dx, dy
<1>2. /\ NodeTop(to, z) = NodeTop(at, z) + dy
      /\ Frame(to, z).x = Frame(at, z).x + dx /\ Frame(to, z).y = Frame(at, z).y + dy
      /\ Frame(to, z).w = Frame(at, z).w /\ Frame(to, z).h = Frame(at, z).h
  BY <1>1, FrameMoves
<1>3. NodeTop(to, z) \in Int /\ NodeTop(at, z) \in Int /\ dy \in Int
  BY <1>1, NodeEdges DEF OnGrid
<1> QED
  BY <1>2, <1>3 DEF to, dx, dy

\* The zones of a row move alike.
LEMMA RowMoves ==
  ASSUME NEW at \in [Nodes -> Points], NEW z \in Zones, NEW w \in Zones,
         RowOf(RowsOf(at), z) = RowOf(RowsOf(at), w)
  PROVE  Lower(at, z) = Lower(at, w)
<1>1. \A v \in Zones : Generated(at).stickies[v].y
                         = RowTop(Generated(at).stickies, RowsOf(at)[RowOf(RowsOf(at), v)])
  BY NeatRows DEF Neat
<1> QED
  BY <1>1 DEF Lower

\* As the generator lays them, zones of a row begin within its reach of each
\* other, and zones of different rows farther apart.
LEMMA RowsStand ==
  ASSUME NEW at \in [Nodes -> Points], NEW z \in Zones, NEW w \in Zones
  PROVE  LET to == Generated(at).at
             rows == RowsOf(at)
         IN /\ RowOf(rows, z) = RowOf(rows, w) => NodeTop(to, z) <= NodeTop(to, w) + RowReach
            /\ RowOf(rows, z) # RowOf(rows, w) =>
                 NodeTop(to, z) + RowReach < NodeTop(to, w) \/ NodeTop(to, w) + RowReach < NodeTop(to, z)
<1> DEFINE to == Generated(at).at
           rows == RowsOf(at)
           s == Generated(at).stickies
           r == RowOf(rows, z)
<1>1. \A v \in Zones : /\ NodeTop(to, v) = NodeTop(at, v) + Lower(at, v)
                       /\ NodeTop(to, v) \in Int /\ NodeTop(at, v) \in Int /\ Lower(at, v) \in Int
  BY TopsMove
<1>2. CASE RowOf(rows, z) = RowOf(rows, w)
  <2>1. r \in 1 .. Len(rows) /\ z \in ToSet(rows[r]) /\ w \in ToSet(rows[r])
    BY <1>2, NeatRows
  <2>2. /\ \A v \in ToSet(rows[r]) : /\ Tops(at)[rows[r][1]] <= Tops(at)[v]
                                     /\ Tops(at)[v] <= Tops(at)[rows[r][1]] + RowReach
        /\ rows[r][1] \in ToSet(rows[r]) /\ ToSet(rows[r]) \subseteq Zones
    BY <2>1, NeatRows DEF InRows
  <2>3. \A v \in Zones : Tops(at)[v] = NodeTop(at, v)
    BY DEF Tops
  <2> DEFINE least == Tops(at)[rows[r][1]]
  <2>4. least \in Int
    BY <1>1, <2>2, <2>3
  <2>5. least <= NodeTop(at, w) /\ NodeTop(at, z) <= least + RowReach
    BY <2>1, <2>2, <2>3
  <2>6. NodeTop(at, z) <= NodeTop(at, w) + RowReach
    <3> HIDE DEF least
    <3> QED
      BY <1>1, <2>4, <2>5 DEF RowReach
  <2>7. Lower(at, z) = Lower(at, w)
    BY <1>2, RowMoves
  <2>8. NodeTop(to, z) <= NodeTop(to, w) + RowReach
    <3> HIDE DEF to, rows, least
    <3> QED
      BY <1>1, <2>6, <2>7 DEF RowReach
  <2> QED
    BY <1>2, <2>8
<1>3. CASE RowOf(rows, z) # RowOf(rows, w)
  <2>1. ASSUME NEW v \in Zones
        PROVE  /\ s[v].y \in Int /\ s[v].h \in Int
               /\ s[v].y <= NodeTop(to, v) /\ NodeTop(to, v) + NodeSize <= s[v].y + s[v].h
    <3>1. /\ s[v].y \in Int /\ s[v].h \in Int
          /\ TextBand(v, s[v].w) \in Int /\ TextBand(v, s[v].w) >= Title + 16
          /\ \A n \in Listed(v) :
               /\ to[n].y \in Int
               /\ s[v].y + TextBand(v, s[v].w) <= to[n].y /\ to[n].y + NodeSize <= s[v].y + s[v].h
      BY StickyHolds
    <3>2. to \in [Nodes -> Points]
      BY GeneratedIsNeat
    <3> HIDE DEF to, s
    <3>3. PICK n \in Listed(v) : to[n].y = NodeTop(to, v)
      BY <3>2, NodeEdges
    <3> QED
      BY <3>1, <3>3 DEF Title
  <2>2. z # w
    BY <1>3
  <2>3. s[z].y + s[z].h + RowGutter <= s[w].y \/ s[w].y + s[w].h + RowGutter <= s[z].y
    BY <1>3, <2>2, StickiesAreApart
  <2> HIDE DEF to, s, rows
  <2>4. /\ s[z].y \in Int /\ s[z].h \in Int /\ s[w].y \in Int /\ s[w].h \in Int
        /\ NodeTop(to, z) \in Int /\ NodeTop(to, w) \in Int
    BY <1>1, <2>1
  <2>5. /\ s[z].y <= NodeTop(to, z) /\ NodeTop(to, z) + NodeSize <= s[z].y + s[z].h
        /\ s[w].y <= NodeTop(to, w) /\ NodeTop(to, w) + NodeSize <= s[w].y + s[w].h
    BY <2>1
  <2>6. NodeTop(to, z) + RowReach < NodeTop(to, w) \/ NodeTop(to, w) + RowReach < NodeTop(to, z)
    BY <2>3, <2>4, <2>5 DEF RowReach, RowGutter, NodeSize
  <2> QED
    BY <1>3, <2>6 DEF to, rows
<1> QED
  BY <1>2, <1>3

\* Grouped with the generator's reach or less, each row lies in one of the
\* generator's; and the rows are its own, if it has no zones in a row that are
\* farther apart.
LEMMA RowsAgain ==
  ASSUME NEW at \in [Nodes -> Points], NEW reach \in Nat, reach <= RowReach
  PROVE  LET to == Generated(at).at
             rows == RowsOf(at)
             again == Rows(Tops(to), reach)
         IN /\ InRows(Zones, Tops(to), reach, again)
            /\ \A z, w \in Zones : RowOf(again, z) = RowOf(again, w) => RowOf(rows, z) = RowOf(rows, w)
            /\ (\A z, w \in Zones : RowOf(rows, z) = RowOf(rows, w) => NodeTop(to, z) <= NodeTop(to, w) + reach)
                 => Alike(rows, again)
<1> DEFINE to == Generated(at).at
           rows == RowsOf(at)
           y == Tops(to)
           again == Rows(y, reach)
<1>1. to \in [Nodes -> Points]
  BY GeneratedIsNeat
<1>2. y \in [Zones -> Int] /\ InRows(Zones, y, reach, again)
  <2> HIDE DEF to
  <2> QED
    BY <1>1, TopsInRows
<1>3. \A z, w \in Zones : /\ RowOf(rows, z) = RowOf(rows, w) => y[z] <= y[w] + RowReach
                          /\ RowOf(rows, z) # RowOf(rows, w) => y[z] + RowReach < y[w] \/ y[w] + RowReach < y[z]
  BY RowsStand DEF Tops
<1>4. \A z \in Zones : y[z] = NodeTop(to, z)
  BY DEF Tops
<1> HIDE DEF to, rows, y, again
<1>5. \A z \in Zones : RowOf(again, z) \in 1 .. Len(again) /\ z \in ToSet(again[RowOf(again, z)])
  BY <1>2 DEF InRows
<1>6. ASSUME NEW q \in 1 .. Len(again)
      PROVE  /\ again[q][1] \in Zones /\ RowOf(again, again[q][1]) = q
             /\ \A z \in ToSet(again[q]) : y[again[q][1]] <= y[z] /\ y[z] <= y[again[q][1]] + reach
  <2>1. /\ again[q][1] \in ToSet(again[q]) /\ ToSet(again[q]) \subseteq Zones
        /\ \A z \in ToSet(again[q]) : RowOf(again, z) = q
    BY <1>2, ARow
  <2>2. \A z \in ToSet(again[q]) : y[again[q][1]] <= y[z] /\ y[z] <= y[again[q][1]] + reach
    BY <1>2 DEF InRows
  <2> QED
    BY <2>1, <2>2
<1>7. ASSUME NEW z \in Zones
      PROVE  LET first == again[RowOf(again, z)][1]
             IN first \in Zones /\ RowOf(again, first) = RowOf(again, z) /\ RowOf(rows, first) = RowOf(rows, z)
  <2> DEFINE first == again[RowOf(again, z)][1]
  <2>1. first \in Zones /\ RowOf(again, first) = RowOf(again, z) /\ y[first] <= y[z] /\ y[z] <= y[first] + reach
    BY <1>5, <1>6
  <2> HIDE DEF first
  <2>2. y[first] \in Int /\ y[z] \in Int
    BY <1>2, <2>1
  <2>3. ~(y[z] + RowReach < y[first] \/ y[first] + RowReach < y[z])
    BY <2>1, <2>2 DEF RowReach
  <2>4. RowOf(rows, first) = RowOf(rows, z)
    BY <1>3, <2>1, <2>3
  <2> QED
    BY <2>1, <2>4 DEF first
<1>8. \A z, w \in Zones : RowOf(again, z) = RowOf(again, w) => RowOf(rows, z) = RowOf(rows, w)
  BY <1>7
<1>9. ASSUME \A z, w \in Zones : RowOf(rows, z) = RowOf(rows, w) => NodeTop(to, z) <= NodeTop(to, w) + reach,
             NEW z \in Zones, NEW w \in Zones, RowOf(rows, z) = RowOf(rows, w)
      PROVE  RowOf(again, z) = RowOf(again, w)
  <2> DEFINE p == RowOf(again, z)
             q == RowOf(again, w)
             a == again[p][1]
             b == again[q][1]
  <2>1. a \in Zones /\ b \in Zones /\ RowOf(rows, a) = RowOf(rows, b)
    BY <1>7, <1>9
  <2>2. p \in 1 .. Len(again) /\ q \in 1 .. Len(again)
    BY <1>5
  <2>3. y[a] <= y[b] + reach /\ y[b] <= y[a] + reach /\ y[a] \in Int /\ y[b] \in Int
    BY <1>2, <1>4, <1>9, <2>1
  <2>4. \A i, j \in 1 .. Len(again) : i < j => y[again[i][1]] + reach < y[again[j][1]]
    BY <1>2 DEF InRows
  <2>5. Len(again) \in Nat
    BY <1>2 DEF InRows
  <2>6. ~(p < q) /\ ~(q < p)
    <3>1. p < q => y[a] + reach < y[b]
      BY <2>2, <2>4
    <3>2. q < p => y[b] + reach < y[a]
      BY <2>2, <2>4
    <3> HIDE DEF p, q, a, b
    <3> QED
      BY <2>3, <3>1, <3>2
  <2> HIDE DEF p, q
  <2>7. p = q
    BY <2>2, <2>5, <2>6
  <2> QED
    BY <2>7 DEF p, q
<1>10. (\A z, w \in Zones : RowOf(rows, z) = RowOf(rows, w) => NodeTop(to, z) <= NodeTop(to, w) + reach)
         => Alike(rows, again)
  BY <1>8, <1>9 DEF Alike
<1> QED
  BY <1>2, <1>8, <1>10 DEF to, rows, y, again

-----------------------------------------------------------------------------
(* The generator writes the same again *)

\* The generator's own rows are found again.
LEMMA RowsFoundAgain ==
  ASSUME NEW at \in [Nodes -> Points]
  PROVE  Alike(RowsOf(at), RowsOf(Generated(at).at))
<1>1. \A z, w \in Zones : RowOf(RowsOf(at), z) = RowOf(RowsOf(at), w) =>
        NodeTop(Generated(at).at, z) <= NodeTop(Generated(at).at, w) + RowReach
  BY RowsStand
<1>2. RowReach \in Nat /\ RowReach <= RowReach
  BY DEF RowReach
<1>3. Alike(RowsOf(at), Rows(Tops(Generated(at).at), RowReach))
  BY <1>1, <1>2, RowsAgain
<1> QED
  BY <1>3 DEF RowsOf

\* Frames moved down as a whole.
MovedDown(D, old, f, move) ==
  \A z \in D : /\ f[z].y = old[z].y + move /\ f[z].h = old[z].h
               /\ old[z].y \in Int /\ old[z].h \in Int

\* Boxes moved down alike span as much, as far down.
LEMMA SpanMoves ==
  ASSUME NEW row, IsFiniteSet(ToSet(row)), ToSet(row) # {}, NEW move \in Int, NEW old, NEW f,
         MovedDown(ToSet(row), old, f, move)
  PROVE  RowTop(f, row) = RowTop(old, row) + move /\ RowBottom(f, row) = RowBottom(old, row) + move
<1> DEFINE D == ToSet(row)
           from == [z \in D |-> old[z].y]
           to == [z \in D |-> f[z].y]
           S == {old[z].y : z \in D}
           T == {f[z].y : z \in D}
           fromEnd == [z \in D |-> old[z].y + old[z].h]
           toEnd == [z \in D |-> f[z].y + f[z].h]
           U == {old[z].y + old[z].h : z \in D}
           V == {f[z].y + f[z].h : z \in D}
<1>1. \A z \in D : /\ from[z] = old[z].y /\ to[z] = f[z].y /\ from[z] \in Int /\ to[z] \in Int
                   /\ to[z] = from[z] + move
                   /\ fromEnd[z] = old[z].y + old[z].h /\ toEnd[z] = f[z].y + f[z].h
                   /\ fromEnd[z] \in Int /\ toEnd[z] \in Int /\ toEnd[z] = fromEnd[z] + move
  BY DEF MovedDown
<1>2. from \in [D -> Int] /\ to \in [D -> Int] /\ fromEnd \in [D -> Int] /\ toEnd \in [D -> Int]
  BY <1>1
<1>3. S = Values(D, from) /\ T = Values(D, to)
  BY <1>1 DEF Values
<1>4. U = Values(D, fromEnd) /\ V = Values(D, toEnd)
  BY <1>1 DEF Values
<1>5. Shifted(D, from, to, move) /\ Shifted(D, fromEnd, toEnd, move)
  BY <1>1, <1>2 DEF Shifted
<1> HIDE DEF from, to, S, T, fromEnd, toEnd, U, V
<1>6. Min(T) = Min(S) + move
  BY <1>3, <1>5, MaxMinMoved
<1>7. Max(V) = Max(U) + move
  BY <1>4, <1>5, MaxMinMoved
<1> QED
  BY <1>6, <1>7 DEF S, T, U, V, RowTop, RowBottom

\* The frames of a row, as the generator finds them again, begin and end where
\* the row's zones do.
LEMMA RowFramedAgain ==
  ASSUME NEW at \in [Nodes -> Points], NEW q \in 1 .. Len(RowsOf(at)), NEW row, ToSet(row) = ToSet(RowsOf(at)[q])
  PROVE  LET s == Generated(at).stickies
             f == FramesOf(Generated(at).at)
         IN RowTop(f, row) = RowTop(s, row) /\ RowBottom(f, row) = RowBottom(s, row)
<1> DEFINE rows == RowsOf(at)
           s == Generated(at).stickies
           old == FramesOf(at)
           f == FramesOf(Generated(at).at)
           D == ToSet(rows[q])
           top == RowTop(old, rows[q])
           bottom == RowBottom(old, rows[q])
           move == RowTop(s, rows[q]) - top
<1>1. InRows(Zones, Tops(at), RowReach, rows) /\ Neat(s, rows)
  BY NeatRows
<1>2. /\ D \subseteq Zones /\ IsFiniteSet(D) /\ D # {} /\ \A z \in D : RowOf(rows, z) = q
  BY <1>1, ARow
<1>3. /\ s \in [Zones -> Boxes]
      /\ \A z \in D : s[z].h = bottom - top
  BY <1>2, GeneratedIsNeat
<1>4. \A z \in D : s[z].y = RowTop(s, rows[q]) /\ s[z].y + s[z].h = RowBottom(s, rows[q])
  BY <1>1 DEF Neat
<1>5. \A z \in D : Lower(at, z) = s[z].y - top
  BY <1>2 DEF Lower
<1>6. \A z \in D : f[z].y = old[z].y + Lower(at, z) /\ f[z].h = old[z].h
  <2> SUFFICES ASSUME NEW z \in D PROVE f[z].y = old[z].y + Lower(at, z) /\ f[z].h = old[z].h
    OBVIOUS
  <2>1. z \in Zones
    BY <1>2
  <2>2. /\ Frame(Generated(at).at, z).y = Frame(at, z).y + Lower(at, z)
        /\ Frame(Generated(at).at, z).h = Frame(at, z).h
    BY <2>1, TopsMove
  <2> QED
    BY <2>1, <2>2 DEF FramesOf
<1>7. \A z \in D : old[z] \in Boxes
  BY <1>2, FramesAre DEF Frames
<1>8. top \in Int /\ bottom \in Int
  BY <1>2, <1>7, TopAndBottom
<1>9. /\ RowTop(f, row) = RowTop(f, rows[q]) /\ RowBottom(f, row) = RowBottom(f, rows[q])
      /\ RowTop(s, row) = RowTop(s, rows[q]) /\ RowBottom(s, row) = RowBottom(s, rows[q])
  BY DEF RowTop, RowBottom
<1>11. PICK w \in D : TRUE
  BY <1>2
<1>12. /\ RowTop(s, rows[q]) \in Int /\ move \in Int
       /\ RowBottom(s, rows[q]) = RowTop(s, rows[q]) + (bottom - top)
  <2>1. s[w] \in Boxes
    BY <1>2, <1>3
  <2>2. s[w].y \in Int
    BY <2>1 DEF Boxes
  <2> QED
    BY <1>3, <1>4, <1>8, <1>11, <2>2
<1>13. \A z \in D : /\ f[z].y = old[z].y + move /\ f[z].h = old[z].h
                   /\ old[z].y \in Int /\ old[z].h \in Int
  BY <1>4, <1>5, <1>6, <1>7 DEF Boxes
<1> HIDE DEF rows, s, old, f, D, top, bottom, move
<1>16. RowTop(f, rows[q]) = top + move /\ RowBottom(f, rows[q]) = bottom + move
  <2>1. MovedDown(D, old, f, move)
    BY <1>13 DEF MovedDown
  <2> QED
    BY <1>2, <1>12, <2>1, SpanMoves DEF D, top, bottom
<1>17. RowTop(f, row) = RowTop(s, row) /\ RowBottom(f, row) = RowBottom(s, row)
  BY <1>8, <1>9, <1>12, <1>16 DEF move
<1> QED
  BY <1>17 DEF s, f

\* What the generator wrote it would write again.
THEOREM GeneratesTheSame ==
  ASSUME NEW at \in [Nodes -> Points]
  PROVE  Generated(Generated(at).at) = Generated(at)
<1> DEFINE to == Generated(at).at
           s == Generated(at).stickies
           rows == RowsOf(at)
           again == RowsOf(to)
           f == FramesOf(to)
           level == LevelsOf(to)
<1>1. /\ to \in [Nodes -> Points] /\ s \in [Zones -> Boxes] /\ Neat(s, rows)
      /\ \A z \in Zones : s[z].w = Frame(at, z).w /\ OnGrid(s[z].h)
  BY GeneratedIsNeat
<1>2. InRows(Zones, Tops(at), RowReach, rows) /\ Alike(rows, again)
  BY NeatRows, RowsFoundAgain
<1>3. InRows(Zones, Tops(to), RowReach, again)
  <2> HIDE DEF to
  <2> QED
    BY <1>1, NeatRows
<1>4. \A r \in 1 .. Len(again) : RowTop(f, again[r]) = RowTop(s, again[r]) /\ RowBottom(f, again[r]) = RowBottom(s, again[r])
  <2> SUFFICES ASSUME NEW r \in 1 .. Len(again)
               PROVE  RowTop(f, again[r]) = RowTop(s, again[r]) /\ RowBottom(f, again[r]) = RowBottom(s, again[r])
    OBVIOUS
  <2> DEFINE q == RowOf(rows, again[r][1])
  <2>1. q \in 1 .. Len(rows) /\ ToSet(again[r]) = ToSet(rows[q])
    BY <1>2, <1>3, RowsMatch
  <2> HIDE DEF q
  <2> QED
    BY <2>1, RowFramedAgain
<1>5. \A z \in Zones : f[z].x = s[z].x /\ f[z].w = s[z].w
  <2> SUFFICES ASSUME NEW z \in Zones PROVE f[z].x = s[z].x /\ f[z].w = s[z].w
    OBVIOUS
  <2>1. f[z] = Frame(to, z)
    BY DEF FramesOf
  <2>2. Frame(to, z).x = Frame(at, z).x + Right(at, z) /\ Frame(to, z).w = Frame(at, z).w
    BY TopsMove
  <2>3. Right(at, z) = s[z].x - Frame(at, z).x
    BY DEF Right
  <2>4. s[z].x \in Int /\ Frame(at, z).x \in Int
    <3>1. Frame(at, z) \in Boxes
      BY FrameHolds
    <3> QED
      BY <1>1, <3>1 DEF Boxes
  <2> HIDE DEF to, s, f
  <2> QED
    BY <1>1, <2>1, <2>2, <2>3, <2>4
<1>6. \A z \in Zones : f[z] \in Boxes
  <2> HIDE DEF to
  <2> QED
    BY <1>1, FramesAre DEF Frames
<1>7. \A r \in 1 .. Len(again) : level[r] = Levelled(f, again[r])
  BY <1>3 DEF LevelsOf, InRows
<1>8. /\ Generated(to) = [laid |-> FALSE, sent |-> FALSE, stickies |-> Generated(to).stickies,
                          at |-> Generated(to).at]
      /\ Generated(to).stickies = Stacked(again, level)
      /\ Generated(to).at = [n \in Nodes |->
           LET z == ZoneOf[n]
           IN [x |-> to[n].x + Generated(to).stickies[z].x - f[z].x,
               y |-> to[n].y + Generated(to).stickies[z].y - level[RowOf(again, z)][z].y]]
  <2> HIDE DEF to
  <2> QED
    BY <1>1, GeneratedIs
<1>9. Generated(at) = [laid |-> FALSE, sent |-> FALSE, stickies |-> s, at |-> to]
  BY GeneratedIs
<1> HIDE DEF to, s, rows, again, f, level
<1>10. Neat(s, again)
  BY <1>1, <1>2, <1>3, NeatAgain
<1>11. Stacked(again, level) = s /\ \A z \in Zones : level[RowOf(again, z)][z].y = s[z].y
  <2>1. Fits(f, s, again)
    BY <1>4, <1>5, <1>6 DEF Fits
  <2>2. Levels(level, f, again)
    BY <1>7 DEF Levels
  <2>3. \A z \in Zones : OnGrid(s[z].h)
    BY <1>1
  <2> QED
    BY <1>1, <1>3, <1>10, <2>1, <2>2, <2>3, NeatStays
<1>12. Generated(to).stickies = s
  BY <1>8, <1>11
<1>13. Generated(to).at = to
  <2>1. ASSUME NEW n \in Nodes
        PROVE  [x |-> to[n].x + Generated(to).stickies[ZoneOf[n]].x - f[ZoneOf[n]].x,
                y |-> to[n].y + Generated(to).stickies[ZoneOf[n]].y
                        - level[RowOf(again, ZoneOf[n])][ZoneOf[n]].y] = to[n]
    <3> DEFINE z == ZoneOf[n]
    <3>1. z \in Zones
      BY CanvasAssumption
    <3> HIDE DEF z
    <3>2. s[z].x \in Int /\ s[z].y \in Int /\ f[z].x = s[z].x /\ level[RowOf(again, z)][z].y = s[z].y
      BY <1>1, <1>5, <1>11, <3>1 DEF Boxes
    <3>3. to[n] \in Points
      BY <1>1
    <3>4. to[n].x \in Int /\ to[n].y \in Int /\ to[n] = [x |-> to[n].x, y |-> to[n].y]
      BY <3>3 DEF Points
    <3>5. to[n].x + s[z].x - f[z].x = to[n].x /\ to[n].y + s[z].y - level[RowOf(again, z)][z].y = to[n].y
      BY <3>2, <3>4
    <3> QED
      BY <1>12, <3>4, <3>5 DEF z
  <2>2. to = [n \in Nodes |-> to[n]]
    BY <1>1
  <2> QED
    BY <1>8, <2>1, <2>2
<1>14. Generated(to) = Generated(at)
  BY <1>8, <1>9, <1>12, <1>13
<1> QED
  BY <1>14 DEF to

-----------------------------------------------------------------------------
(* The check of what was written *)

\* The rows the check finds in what the generator wrote.
Checked(at) == Rows(Tops(Generated(at).at), RowTol)

\* They are the generator's, unless the check splits one.
LEMMA CheckedRows ==
  ASSUME NEW at \in [Nodes -> Points]
  PROVE  /\ InRows(Zones, Tops(Generated(at).at), RowTol, Checked(at))
         /\ \A z, w \in Zones : RowOf(Checked(at), z) = RowOf(Checked(at), w) => RowOf(RowsOf(at), z) = RowOf(RowsOf(at), w)
         /\ Alike(RowsOf(at), Checked(at)) => Neat(Generated(at).stickies, Checked(at))
         /\ ~Alike(RowsOf(at), Checked(at)) => SplitRow(Generated(at).at)
<1> DEFINE to == Generated(at).at
           rows == RowsOf(at)
           again == Checked(at)
<1>1. RowTol \in Nat /\ RowTol <= RowReach
  BY DEF RowTol, RowReach
<1>2. /\ InRows(Zones, Tops(to), RowTol, again)
      /\ \A z, w \in Zones : RowOf(again, z) = RowOf(again, w) => RowOf(rows, z) = RowOf(rows, w)
      /\ (\A z, w \in Zones : RowOf(rows, z) = RowOf(rows, w) => NodeTop(to, z) <= NodeTop(to, w) + RowTol)
           => Alike(rows, again)
  BY <1>1, RowsAgain DEF Checked
<1>3. Alike(rows, again) => Neat(Generated(at).stickies, again)
  BY <1>2, NeatRows, NeatAgain
<1>4. ASSUME ~SplitRow(to), NEW z \in Zones, NEW w \in Zones, RowOf(rows, z) = RowOf(rows, w)
      PROVE  NodeTop(to, z) <= NodeTop(to, w) + RowTol
  <2>1. NodeTop(to, z) <= NodeTop(to, w) + RowReach
    BY <1>4, RowsStand
  <2>2. NodeTop(to, z) \in Int /\ NodeTop(to, w) \in Int
    BY TopsMove
  <2>3. NodeTop(to, z) - NodeTop(to, w) \notin RowTol + 1 .. RowReach
    BY <1>4 DEF SplitRow
  <2> HIDE DEF to
  <2> QED
    BY <2>1, <2>2, <2>3 DEF RowTol, RowReach
<1> QED
  BY <1>2, <1>3, <1>4

\* A row the check finds is as high as the zones in it.
LEMMA CheckedIsLevel ==
  ASSUME NEW at \in [Nodes -> Points], NEW r \in 1 .. Len(Checked(at)),
         NEW z \in ToSet(Checked(at)[r])
  PROVE  LET s == Generated(at).stickies
             row == Checked(at)[r]
         IN /\ z \in Zones /\ s[z].y = RowTop(s, row) /\ s[z].y + s[z].h = RowBottom(s, row)
            /\ RowTop(s, row) \in Int /\ RowBottom(s, row) \in Int /\ RowTop(s, row) < RowBottom(s, row)
            /\ RowTop(s, row) = RowTop(s, RowsOf(at)[RowOf(RowsOf(at), z)])
<1> DEFINE s == Generated(at).stickies
           rows == RowsOf(at)
           again == Checked(at)
           row == again[r]
           q == RowOf(rows, z)
<1>1. /\ ToSet(row) \subseteq Zones /\ IsFiniteSet(ToSet(row)) /\ ToSet(row) # {}
      /\ \A w \in ToSet(row) : RowOf(again, w) = r
  BY CheckedRows, ARow
<1>2. \A w \in ToSet(row) : RowOf(rows, w) = q
  BY <1>1, CheckedRows
<1>3. \A w \in Zones : RowOf(rows, w) \in 1 .. Len(rows) /\ w \in ToSet(rows[RowOf(rows, w)])
  BY NeatRows
<1>4. Neat(s, rows)
  BY NeatRows
<1>5. /\ \A w \in Zones : s[w] \in Boxes /\ s[w].h > 0
      /\ \A w \in ToSet(row) : s[w].y = RowTop(s, rows[q]) /\ s[w].y + s[w].h = RowBottom(s, rows[q])
  BY <1>1, <1>2, <1>3, <1>4 DEF Neat
<1> HIDE DEF s, rows, again, row, q
<1>6. /\ RowTop(s, row) \in Int /\ \E w \in ToSet(row) : s[w].y = RowTop(s, row)
      /\ RowBottom(s, row) \in Int /\ \E w \in ToSet(row) : s[w].y + s[w].h = RowBottom(s, row)
  BY <1>1, <1>5, TopAndBottom
<1>7. z \in ToSet(row) /\ z \in Zones
  BY <1>1 DEF row, again
<1>8. s[z].y = RowTop(s, row) /\ s[z].y + s[z].h = RowBottom(s, row) /\ RowTop(s, row) = RowTop(s, rows[q])
  BY <1>5, <1>6, <1>7
<1>9. s[z].y \in Int /\ s[z].h \in Int /\ s[z].h > 0
  BY <1>5, <1>7 DEF Boxes
<1> QED
  BY <1>6, <1>7, <1>8, <1>9 DEF s, rows, again, row, q

\* Where the check splits a row, it finds the parts too close to each other.
LEMMA SplitIsTight ==
  ASSUME NEW at \in [Nodes -> Points], ~Alike(RowsOf(at), Checked(at))
  PROVE  \E g \in RowGaps(Generated(at).stickies, Checked(at)) : g \in Int /\ g < MinRowGutter
<1> DEFINE s == Generated(at).stickies
           rows == RowsOf(at)
           again == Checked(at)
           A == Len(again)
           tops == RowTops(s, again)
           o == Sorted(tops)
<1>1. PICK z \in Zones, w \in Zones : RowOf(rows, z) = RowOf(rows, w) /\ RowOf(again, z) # RowOf(again, w)
  BY CheckedRows DEF Alike
<1>2. /\ A \in Nat /\ DOMAIN again = 1 .. A
      /\ \A v \in Zones : RowOf(again, v) \in 1 .. A /\ v \in ToSet(again[RowOf(again, v)])
  BY CheckedRows DEF InRows
<1>3. \A r \in 1 .. A : /\ RowTop(s, again[r]) \in Int /\ RowBottom(s, again[r]) \in Int
                        /\ RowTop(s, again[r]) < RowBottom(s, again[r])
  <2> SUFFICES ASSUME NEW r \in 1 .. A
               PROVE  /\ RowTop(s, again[r]) \in Int /\ RowBottom(s, again[r]) \in Int
                      /\ RowTop(s, again[r]) < RowBottom(s, again[r])
    OBVIOUS
  <2>1. again[r][1] \in ToSet(again[r])
    BY CheckedRows, ARow
  <2> QED
    BY <2>1, CheckedIsLevel
<1>4. RowTop(s, again[RowOf(again, z)]) = RowTop(s, again[RowOf(again, w)])
  <2>1. /\ RowTop(s, again[RowOf(again, z)]) = RowTop(s, rows[RowOf(rows, z)])
        /\ RowTop(s, again[RowOf(again, w)]) = RowTop(s, rows[RowOf(rows, w)])
    BY <1>2, CheckedIsLevel
  <2> QED
    BY <1>1, <2>1
<1>5. /\ tops \in [1 .. A -> Int] /\ \A r \in 1 .. A : tops[r] = RowTop(s, again[r])
      /\ tops = [r \in DOMAIN again |-> RowTop(s, again[r])]
  BY <1>2, <1>3 DEF RowTops
<1>6. RowGaps(s, again) = {RowTop(s, again[o[k]]) - RowBottom(s, again[o[k - 1]]) : k \in (1 .. A) \ {1}}
  BY <1>2, <1>5 DEF RowGaps
<1> HIDE DEF s, rows, again, A, tops, o
<1>7. o \in Orderings(1 .. A, tops, A)
  BY <1>2, <1>5, Count, SortedIs DEF o
<1>8. Lists(1 .. A, A, o)
  BY <1>2, <1>5, <1>7, Count, OrderingIsWhole
<1>9. /\ o \in [1 .. A -> 1 .. A]
      /\ \A r \in 1 .. A : \E k \in 1 .. A : o[k] = r
  BY <1>8 DEF Lists
<1>10. ASSUME NEW i \in 1 .. A, NEW j \in 1 .. A, i < j PROVE tops[o[i]] <= tops[o[j]]
  <2>1. Precedes(tops, o[i], o[j])
    BY <1>7, <1>10 DEF Orderings
  <2>2. tops[o[i]] \in Int /\ tops[o[j]] \in Int
    BY <1>5, <1>9
  <2> QED
    BY <2>1, <2>2 DEF Precedes
<1>11. PICK k \in 1 .. A, l \in 1 .. A : k < l /\ tops[o[k]] = tops[o[l]]
  <2>1. PICK i \in 1 .. A : o[i] = RowOf(again, z)
    BY <1>2, <1>9
  <2>2. PICK j \in 1 .. A : o[j] = RowOf(again, w)
    BY <1>2, <1>9
  <2>3. i # j
    BY <1>1, <2>1, <2>2
  <2>4. tops[o[i]] = tops[o[j]]
    BY <1>2, <1>4, <1>5, <2>1, <2>2
  <2>5. i < j \/ j < i
    BY <1>2, <2>3
  <2> QED
    BY <2>4, <2>5
<1>12. k + 1 \in (1 .. A) \ {1} /\ k + 1 \in 1 .. A /\ (k + 1) - 1 = k /\ (k + 1 < l \/ k + 1 = l)
  BY <1>2, <1>11
<1>13. tops[o[k]] <= tops[o[k + 1]] /\ tops[o[k + 1]] <= tops[o[l]] /\ tops[o[k]] \in Int /\ tops[o[k + 1]] \in Int
  <2>1. tops[o[k]] <= tops[o[k + 1]]
    BY <1>10, <1>12
  <2>2. tops[o[k]] \in Int /\ tops[o[k + 1]] \in Int /\ tops[o[l]] \in Int
    BY <1>5, <1>9, <1>12
  <2>3. tops[o[k + 1]] <= tops[o[l]]
    BY <1>10, <1>12, <2>2
  <2> QED
    BY <2>1, <2>2, <2>3
<1>14. tops[o[k + 1]] = tops[o[k]]
  BY <1>11, <1>13
<1> DEFINE g == RowTop(s, again[o[k + 1]]) - RowBottom(s, again[o[(k + 1) - 1]])
<1>15. g \in RowGaps(s, again)
  BY <1>6, <1>12
<1>16. g \in Int /\ g < MinRowGutter
  <2>1. o[k] \in 1 .. A /\ o[k + 1] \in 1 .. A
    BY <1>9, <1>12
  <2>2. RowTop(s, again[o[k + 1]]) = RowTop(s, again[o[k]])
    BY <1>5, <1>14, <2>1
  <2>3. RowTop(s, again[o[k]]) \in Int /\ RowBottom(s, again[o[k]]) \in Int
        /\ RowTop(s, again[o[k]]) < RowBottom(s, again[o[k]])
    BY <1>3, <2>1
  <2>4. g = RowTop(s, again[o[k]]) - RowBottom(s, again[o[k]])
    BY <1>12, <2>2
  <2> HIDE DEF g
  <2> QED
    BY <2>3, <2>4 DEF MinRowGutter
<1> HIDE DEF g
<1> QED
  BY <1>15, <1>16 DEF s, again

\* A set all of whose members are the same has at most one.
LEMMA AtMostOne ==
  ASSUME NEW S, NEW a, S \subseteq {a}
  PROVE  ~(Cardinality(S) > 1)
<1>1. CASE S = {}
  BY <1>1, FS_EmptySet
<1>2. CASE S = {a}
  <2>1. Cardinality({a}) = 1
    BY FS_Singleton
  <2> QED
    BY <1>2, <2>1
<1> QED
  BY <1>1, <1>2

\* The check of what the generator wrote: no overlap, no text that does not fit
\* its sticky or reaches into the nodes, no node outside its zone; a row that is
\* not even and rows that are too tight only where it splits a row, and never
\* rows unevenly apart.
THEOREM GeneratedIsClean ==
  ASSUME NEW at \in [Nodes -> Points], NEW c,
         c.stickies = Generated(at).stickies, c.at = Generated(at).at
  PROVE  Errors(c) \subseteq {"overflow"} \cup {e \in {"tight", "row"} : SplitRow(c.at)}
<1> DEFINE box == c.stickies
           to == c.at
           zones == {z \in DOMAIN box : Has(c, z) # {}}
           rows == Rows([z \in zones |-> Min({to[n].y : n \in Has(c, z)})], RowTol)
           rowGaps == RowGaps(box, rows)
           C1 == \E y, z \in DOMAIN box :
                   /\ y # z /\ Overlap(box[y], box[z])
                   /\ ~Inside(box[y], box[z]) /\ ~Inside(box[z], box[y])
           C2 == \E z \in DOMAIN box : box[z].h < TextHeight(z, box[z].w)
           C3 == \E z \in zones : \E n \in Has(c, z) : to[n].y < box[z].y + TextBand(z, box[z].w)
           C4 == \E z \in zones : \E n \in Has(c, z) : ~Inside(NodeBox(to[n]), box[z])
           C5 == zones # {} /\ \E n \in Nodes : \A z \in zones : n \notin Has(c, z)
           C6 == \E r \in DOMAIN rows :
                   \/ Cardinality({box[z].y : z \in ToSet(rows[r])}) > 1
                   \/ Cardinality({box[z].y + box[z].h : z \in ToSet(rows[r])}) > 1
                   \/ Cardinality(Gaps(box, rows[r])) > 1
           C7 == \E r \in DOMAIN rows :
                   Cardinality({Column(to[n].x) : n \in UNION {Has(c, z) : z \in ToSet(rows[r])}}) > MaxCols
           C8 == \E g \in rowGaps : g < MinRowGutter
           C9 == (\A g \in rowGaps : g >= MinRowGutter) /\ Cardinality(rowGaps) > 1
<1>1. Errors(c) = {e \in {"overlap", "truncation", "header", "clipped", "orphan", "row", "overflow",
                          "tight", "uneven"} :
                     CASE e = "overlap" -> C1 [] e = "truncation" -> C2 [] e = "header" -> C3
                       [] e = "clipped" -> C4 [] e = "orphan" -> C5 [] e = "row" -> C6
                       [] e = "overflow" -> C7 [] e = "tight" -> C8 [] e = "uneven" -> C9}
  BY DEF Errors
<1>2. /\ box \in [Zones -> Boxes] /\ to \in [Nodes -> Points]
  BY GeneratedIsNeat
<1>3. ASSUME NEW z \in Zones PROVE Has(c, z) = Listed(z)
  BY HasItsOwn DEF Has
<1>4. zones = Zones
  <2>1. \A z \in Zones : Has(c, z) # {}
    BY <1>3, Finite
  <2> QED
    BY <1>2, <2>1
<1>5. rows = Checked(at)
  <2>1. \A z \in Zones : Min({to[n].y : n \in Has(c, z)}) = NodeTop(to, z)
    BY <1>3 DEF NodeTop
  <2>2. [z \in zones |-> Min({to[n].y : n \in Has(c, z)})] = [z \in Zones |-> NodeTop(to, z)]
    BY <1>4, <2>1
  <2>3. [z \in Zones |-> NodeTop(to, z)] = Tops(Generated(at).at)
    BY DEF Tops
  <2> QED
    BY <2>2, <2>3 DEF Checked
<1>6. ASSUME NEW z \in Zones
      PROVE  /\ box[z].x \in Int /\ box[z].y \in Int /\ box[z].w \in Int /\ box[z].h \in Int
             /\ TextHeight(z, box[z].w) \in Int /\ TextHeight(z, box[z].w) <= box[z].h
             /\ TextBand(z, box[z].w) \in Int /\ TextBand(z, box[z].w) >= Title + 16
             /\ \A n \in Listed(z) :
                  /\ to[n].x \in Int /\ to[n].y \in Int
                  /\ box[z].x <= to[n].x /\ to[n].x + NodeSize <= box[z].x + box[z].w
                  /\ box[z].y + TextBand(z, box[z].w) <= to[n].y /\ to[n].y + NodeSize <= box[z].y + box[z].h
  BY StickyHolds
<1>7. DOMAIN rows = 1 .. Len(rows)
  BY <1>5, CheckedRows DEF InRows
<1>8. ASSUME NEW y \in Zones, NEW z \in Zones, y # z
      PROVE  \/ box[z].x + box[z].w + Gutter <= box[y].x \/ box[y].x + box[y].w + Gutter <= box[z].x
             \/ box[z].y + box[z].h + RowGutter <= box[y].y \/ box[y].y + box[y].h + RowGutter <= box[z].y
  BY <1>8, StickiesAreApart
<1>9. ASSUME NEW r \in 1 .. Len(rows)
      PROVE  \A z \in ToSet(rows[r]) : /\ box[z].y = RowTop(box, rows[r])
                                       /\ box[z].y + box[z].h = RowBottom(box, rows[r])
  BY <1>5, CheckedIsLevel
<1>10. Alike(RowsOf(at), Checked(at)) => Neat(box, rows)
  BY <1>5, CheckedRows
<1>11. ~Alike(RowsOf(at), Checked(at)) => SplitRow(to) /\ \E g \in rowGaps : g \in Int /\ g < MinRowGutter
  BY <1>5, CheckedRows, SplitIsTight
<1>12. \A z \in Zones : zones = Zones /\ DOMAIN box = Zones
  BY <1>2, <1>4
<1>13. \A z \in zones : z \in Zones
  BY <1>4
<1> HIDE DEF box, to, zones, rows, rowGaps
<1>14. ~C1
  <2> SUFFICES ASSUME NEW y \in Zones, NEW z \in Zones, y # z PROVE ~Overlap(box[y], box[z])
    BY <1>2
  <2>1. /\ box[z].x \in Int /\ box[z].y \in Int /\ box[z].w \in Int /\ box[z].h \in Int
        /\ box[y].x \in Int /\ box[y].y \in Int /\ box[y].w \in Int /\ box[y].h \in Int
    BY <1>6
  <2> QED
    BY <1>8, <2>1 DEF Overlap, Gutter, RowGutter
<1>15. ~C2
  <2> SUFFICES ASSUME NEW z \in Zones PROVE ~(box[z].h < TextHeight(z, box[z].w))
    BY <1>2
  <2> QED
    BY <1>6
<1>16. ~C3
  <2> SUFFICES ASSUME NEW z \in Zones, NEW n \in Listed(z)
               PROVE  ~(to[n].y < box[z].y + TextBand(z, box[z].w))
    BY <1>3, <1>4
  <2> QED
    BY <1>6
<1>17. ~C4
  <2> SUFFICES ASSUME NEW z \in Zones, NEW n \in Listed(z) PROVE Inside(NodeBox(to[n]), box[z])
    BY <1>3, <1>4
  <2> QED
    BY <1>6 DEF Inside, NodeBox, NodeSize, Title
<1>18. ~C5
  <2> SUFFICES ASSUME NEW n \in Nodes PROVE \E z \in zones : n \in Has(c, z)
    OBVIOUS
  <2>1. ZoneOf[n] \in Zones /\ n \in Listed(ZoneOf[n])
    BY CanvasAssumption DEF Listed
  <2> QED
    BY <1>3, <1>4, <2>1
<1>19. Neat(box, rows) => ~C6
  <2> SUFFICES ASSUME Neat(box, rows), NEW r \in 1 .. Len(rows)
               PROVE  /\ ~(Cardinality({box[z].y : z \in ToSet(rows[r])}) > 1)
                      /\ ~(Cardinality({box[z].y + box[z].h : z \in ToSet(rows[r])}) > 1)
                      /\ ~(Cardinality(Gaps(box, rows[r])) > 1)
    BY <1>7
  <2>1. {box[z].y : z \in ToSet(rows[r])} \subseteq {RowTop(box, rows[r])}
    BY <1>9
  <2>2. {box[z].y + box[z].h : z \in ToSet(rows[r])} \subseteq {RowBottom(box, rows[r])}
    BY <1>9
  <2>3. Gaps(box, rows[r]) \subseteq {Gutter}
    BY DEF Neat
  <2>4. ~(Cardinality({box[z].y : z \in ToSet(rows[r])}) > 1)
    BY <2>1, AtMostOne
  <2>5. ~(Cardinality({box[z].y + box[z].h : z \in ToSet(rows[r])}) > 1)
    BY <2>2, AtMostOne
  <2>6. ~(Cardinality(Gaps(box, rows[r])) > 1)
    BY <2>3, AtMostOne
  <2> QED
    BY <2>4, <2>5, <2>6
<1>20. Neat(box, rows) => rowGaps \subseteq {RowGutter}
  BY DEF Neat, rowGaps
<1>21. Neat(box, rows) => ~C8
  BY <1>20 DEF RowGutter, MinRowGutter
<1>22. ~C9
  <2>1. CASE Neat(box, rows)
    BY <1>20, <2>1, AtMostOne
  <2>2. CASE ~Neat(box, rows)
    <3>1. PICK g \in rowGaps : g \in Int /\ g < MinRowGutter
      BY <1>10, <1>11, <2>2
    <3>2. ~(g >= MinRowGutter)
      BY <3>1 DEF MinRowGutter
    <3> QED
      BY <3>2
  <2> QED
    BY <2>1, <2>2
<1>23. C6 \/ C8 => SplitRow(to)
  BY <1>10, <1>11, <1>19, <1>21
<1> HIDE DEF C1, C2, C3, C4, C5, C6, C7, C8, C9
<1>24. ASSUME NEW e \in Errors(c) PROVE e = "overflow" \/ (e \in {"tight", "row"} /\ SplitRow(to))
  BY <1>1, <1>14, <1>15, <1>16, <1>17, <1>18, <1>22, <1>23
<1> QED
  BY <1>24 DEF to
=============================================================================
