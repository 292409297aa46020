------------------------- MODULE PullDispatchProofs -------------------------
(***************************************************************************)
(* Proof, for any number of ranks, CTAs, experts, rows and launches and    *)
(* any routing, that the source search of the pull loop inverts the order  *)
(* of an expert's rows, and that a block that has been read holds rows of  *)
(* its own expert and of this launch, each in one place.                   *)
(*                                                                         *)
(* First induction and the search, then the inductive invariant, and for   *)
(* each part of it the lemma Next... that a step keeps it.                 *)
(***************************************************************************)
EXTENDS PullDispatch, FiniteSetTheorems, WellFoundedInduction, TLAPS

-----------------------------------------------------------------------------
(***************************************************************************)
(* Induction, in the form of facts about sets of numbers.                  *)
(***************************************************************************)
LEMMA Least ==
  ASSUME NEW T \in SUBSET Nat, T # {}
  PROVE  \E x \in T : \A y \in T : x <= y
<1> DEFINE R == OpToRel(<, Nat)
<1>1. IsWellFoundedOn(R, Nat)
  BY NatLessThanWellFounded
<1>2. \A x, y \in Nat : x < y => <<x, y>> \in R
  BY DEF OpToRel
<1> HIDE DEF R
<1>3. PICK x \in T : \A y \in T : ~ (<<y, x>> \in R)
  BY <1>1, WFMin
<1>4. \A y \in T : ~(y < x)
  BY <1>2, <1>3
<1> QED
  BY <1>3, <1>4

LEMMA Induct ==
  ASSUME NEW S, 0 \in S, \A n \in Nat : n \in S => n + 1 \in S
  PROVE  Nat \subseteq S
<1> SUFFICES ASSUME Nat \ S # {} PROVE FALSE
  OBVIOUS
<1>1. PICK x \in Nat \ S : \A y \in Nat \ S : x <= y
  BY Least
<1>2. x # 0 /\ x - 1 \in Nat
  BY <1>1
<1>3. x - 1 \in S
  BY <1>1, <1>2
<1> QED
  BY <1>1, <1>2, <1>3

\* The same up to a bound.
LEMMA InductTo ==
  ASSUME NEW n \in Nat, NEW S, 0 \in S, \A k \in 0 .. n - 1 : k \in S => k + 1 \in S
  PROVE  0 .. n \subseteq S
<1> DEFINE T == { k \in Nat : k <= n => k \in S }
<1>1. 0 \in T
  OBVIOUS
<1>2. \A k \in Nat : k \in T => k + 1 \in T
  OBVIOUS
<1> HIDE DEF T
<1>3. Nat \subseteq T
  BY <1>1, <1>2, Induct
<1> QED
  BY <1>3 DEF T

-----------------------------------------------------------------------------
(***************************************************************************)
(* Sums of the first n numbers of a function.                              *)
(***************************************************************************)
IsSum(g, c, n) == g = [k \in 0 .. n |-> IF k = 0 THEN 0 ELSE g[k - 1] + c[k - 1]]

LEMMA SumExists ==
  ASSUME NEW n \in Nat, NEW c
  PROVE  \E g : IsSum(g, c, n)
<1> DEFINE S == { m \in Nat : \E g : IsSum(g, c, m) }
<1>1. 0 \in S
  <2>1. IsSum([k \in 0 .. 0 |-> 0], c, 0)
    BY DEF IsSum
  <2> QED BY <2>1
<1>2. ASSUME NEW m \in Nat, m \in S PROVE m + 1 \in S
  <2>1. PICK g : IsSum(g, c, m)
    BY <1>2
  <2> DEFINE h == [k \in 0 .. m + 1 |-> IF k = 0 THEN 0 ELSE g[k - 1] + c[k - 1]]
  <2>2. IsSum(h, c, m + 1)
    <3>1. \A k \in 0 .. m : h[k] = g[k]
      BY <2>1 DEF IsSum
    <3>2. ASSUME NEW k \in 0 .. m + 1
          PROVE  h[k] = IF k = 0 THEN 0 ELSE h[k - 1] + c[k - 1]
      <4>1. CASE k = 0
        BY <4>1
      <4>2. CASE k # 0
        <5>1. k - 1 \in 0 .. m
          BY <4>2
        <5>2. h[k - 1] = g[k - 1]
          BY <3>1, <5>1
        <5>3. h[k] = g[k - 1] + c[k - 1]
          BY <4>2
        <5> QED BY <4>2, <5>2, <5>3
      <4> QED BY <4>1, <4>2
    <3>3. h = [k \in 0 .. m + 1 |-> h[k]]
      OBVIOUS
    <3> HIDE DEF h
    <3> QED
      BY <3>2, <3>3 DEF IsSum
  <2> QED BY <2>2
<1> HIDE DEF S
<1>3. Nat \subseteq S
  BY <1>1, <1>2, Induct
<1> QED
  BY <1>3 DEF S

LEMMA SumUnfold ==
  ASSUME NEW n \in Nat, NEW c
  PROVE  \E g : IsSum(g, c, n) /\ SumTo(c, n) = g[n]
<1> DEFINE S == CHOOSE g : g = [k \in 0 .. n |-> IF k = 0 THEN 0 ELSE g[k - 1] + c[k - 1]]
<1>1. SumTo(c, n) = S[n]
  BY DEF SumTo
<1>2. IsSum(S, c, n)
  BY SumExists DEF IsSum
<1> QED
  BY <1>1, <1>2

LEMMA SumZero ==
  ASSUME NEW c
  PROVE  SumTo(c, 0) = 0
<1>1. PICK g : IsSum(g, c, 0) /\ SumTo(c, 0) = g[0]
  BY SumUnfold
<1> QED
  BY <1>1 DEF IsSum

LEMMA SumStep ==
  ASSUME NEW c, NEW n \in Nat
  PROVE  SumTo(c, n + 1) = SumTo(c, n) + c[n]
<1>1. PICK g : IsSum(g, c, n + 1) /\ SumTo(c, n + 1) = g[n + 1]
  BY SumUnfold
<1>2. PICK h : IsSum(h, c, n) /\ SumTo(c, n) = h[n]
  BY SumUnfold
<1> DEFINE S == { k \in 0 .. n : g[k] = h[k] }
<1>3. 0 \in S
  BY <1>1, <1>2 DEF IsSum
<1>4. ASSUME NEW k \in 0 .. n - 1, k \in S PROVE k + 1 \in S
  <2>1. g[k + 1] = g[k] + c[k]
    BY <1>1 DEF IsSum
  <2>2. h[k + 1] = h[k] + c[k]
    BY <1>2 DEF IsSum
  <2> QED BY <1>4, <2>1, <2>2
<1>5. 0 .. n \subseteq S
  <2> HIDE DEF S
  <2> QED BY <1>3, <1>4, InductTo
<1>6. g[n] = h[n]
  BY <1>5
<1>7. g[n + 1] = g[n] + c[n]
  BY <1>1 DEF IsSum
<1> QED
  BY <1>1, <1>2, <1>6, <1>7

LEMMA SumType ==
  ASSUME NEW n \in Nat, NEW c, \A k \in 0 .. n - 1 : c[k] \in Nat
  PROVE  \A m \in 0 .. n : SumTo(c, m) \in Nat
<1> DEFINE S == { m \in 0 .. n : SumTo(c, m) \in Nat }
<1>1. 0 \in S
  BY SumZero
<1>2. ASSUME NEW k \in 0 .. n - 1, k \in S PROVE k + 1 \in S
  BY <1>2, SumStep
<1> HIDE DEF S
<1>3. 0 .. n \subseteq S
  BY <1>1, <1>2, InductTo
<1> QED
  BY <1>3 DEF S

\* Equal up to n: equal sums.
LEMMA SumSame ==
  ASSUME NEW n \in Nat, NEW c, NEW d, \A k \in 0 .. n - 1 : c[k] = d[k]
  PROVE  SumTo(c, n) = SumTo(d, n)
<1> DEFINE S == { m \in 0 .. n : SumTo(c, m) = SumTo(d, m) }
<1>1. 0 \in S
  BY SumZero
<1>2. ASSUME NEW k \in 0 .. n - 1, k \in S PROVE k + 1 \in S
  BY <1>2, SumStep
<1> HIDE DEF S
<1>3. 0 .. n \subseteq S
  BY <1>1, <1>2, InductTo
<1> QED
  BY <1>3 DEF S

\* The sums grow with n.
LEMMA SumMonotone ==
  ASSUME NEW n \in Nat, NEW c, \A k \in 0 .. n - 1 : c[k] \in Nat,
         NEW m \in 0 .. n
  PROVE  SumTo(c, m) <= SumTo(c, n)
<1> DEFINE S == { k \in Nat : m + k <= n => SumTo(c, m) <= SumTo(c, m + k) }
<1>1. \A k \in 0 .. n : SumTo(c, k) \in Nat
  BY SumType
<1>2. 0 \in S
  BY <1>1
<1>3. ASSUME NEW k \in Nat, k \in S PROVE k + 1 \in S
  <2> SUFFICES ASSUME m + (k + 1) <= n PROVE SumTo(c, m) <= SumTo(c, m + (k + 1))
    OBVIOUS
  <2>1. m + k \in 0 .. n - 1 /\ m + k \in Nat
    OBVIOUS
  <2>2. SumTo(c, (m + k) + 1) = SumTo(c, m + k) + c[m + k]
    BY <2>1, SumStep
  <2>3. (m + k) + 1 = m + (k + 1)
    OBVIOUS
  <2>4. SumTo(c, m) <= SumTo(c, m + k)
    BY <1>3, <2>1
  <2>5. SumTo(c, m + k) \in Nat /\ c[m + k] \in Nat /\ SumTo(c, m) \in Nat
    BY <1>1, <2>1
  <2> QED BY <2>2, <2>3, <2>4, <2>5
<1> HIDE DEF S
<1>4. Nat \subseteq S
  BY <1>2, <1>3, Induct
<1>5. n - m \in Nat /\ m + (n - m) = n
  OBVIOUS
<1> QED
  BY <1>4, <1>5 DEF S

\* L more for each member of A: L * |A| more.
LEMMA SumAdd ==
  ASSUME NEW n \in Nat, NEW c, NEW d, NEW A \in SUBSET (0 .. n - 1), NEW L \in Nat,
         \A k \in 0 .. n - 1 : c[k] \in Nat,
         \A k \in A : d[k] = c[k] + L,
         \A k \in (0 .. n - 1) \ A : d[k] = c[k]
  PROVE  SumTo(d, n) = SumTo(c, n) + L * Cardinality(A)
<1> DEFINE B(m) == { k \in A : k < m }
<1> DEFINE S == { m \in 0 .. n : SumTo(d, m) = SumTo(c, m) + L * Cardinality(B(m)) }
<1>0. \A m \in 0 .. n : SumTo(c, m) \in Nat
  BY SumType
<1>a. \A k \in A : k \in 0 .. n - 1
  OBVIOUS
<1>1. \A m \in 0 .. n : IsFiniteSet(B(m)) /\ Cardinality(B(m)) \in Nat
  <2>1. IsFiniteSet(0 .. n - 1)
    BY FS_Interval
  <2> QED BY <2>1, FS_Subset, FS_CardinalityType
<1>2. 0 \in S
  <2>1. B(0) = {}
    <3>1. \A k \in A : ~(k < 0)
      BY <1>a
    <3> QED BY <3>1
  <2>2. Cardinality(B(0)) = 0
    BY <2>1, FS_EmptySet
  <2> QED BY <2>2, SumZero
<1>3. ASSUME NEW k \in 0 .. n - 1, k \in S PROVE k + 1 \in S
  <2>1. SumTo(d, k + 1) = SumTo(d, k) + d[k] /\ SumTo(c, k + 1) = SumTo(c, k) + c[k]
    BY SumStep
  <2>2. SumTo(d, k) = SumTo(c, k) + L * Cardinality(B(k))
    BY <1>3
  <2>3. CASE k \in A
    <3>1. B(k + 1) = B(k) \cup {k} /\ k \notin B(k)
      <4>1. \A j \in A : j < k + 1 <=> (j < k \/ j = k)
        BY <1>a
      <4>2. ~(k < k)
        OBVIOUS
      <4> QED BY <2>3, <4>1, <4>2
    <3>2. Cardinality(B(k + 1)) = Cardinality(B(k)) + 1
      <4> HIDE DEF B
      <4> QED BY <1>1, <3>1, FS_AddElement
    <3>3. d[k] = c[k] + L
      BY <2>3
    <3> DEFINE b == Cardinality(B(k))
    <3>4. b \in Nat
      BY <1>1
    <3>5. L * (b + 1) = L * b + L /\ L * b \in Nat
      <4> HIDE DEF b
      <4> QED BY <3>4
    <3>6. SumTo(c, k) \in Nat /\ c[k] \in Nat
      BY <1>0
    <3> HIDE DEF b
    <3>7. SumTo(d, k + 1) = SumTo(c, k + 1) + L * (b + 1)
      BY <2>1, <2>2, <3>3, <3>5, <3>6 DEF b
    <3> QED BY <3>2, <3>7 DEF b
  <2>4. CASE k \notin A
    <3>1. B(k + 1) = B(k)
      <4>1. \A j \in A : j < k + 1 <=> j < k
        BY <1>a, <2>4
      <4> QED BY <4>1
    <3>2. d[k] = c[k] /\ c[k] \in Nat /\ SumTo(c, k) \in Nat
      BY <1>0, <2>4
    <3>4. L * Cardinality(B(k)) \in Nat
      <4>1. Cardinality(B(k)) \in Nat
        BY <1>1
      <4> HIDE DEF B
      <4> QED BY <4>1
    <3>3. SumTo(d, k + 1) = SumTo(c, k + 1) + L * Cardinality(B(k))
      BY <2>1, <2>2, <3>2, <3>4
    <3> QED BY <3>1, <3>3
  <2> QED BY <2>3, <2>4
<1>4. 0 .. n \subseteq S
  <2> HIDE DEF S
  <2> QED BY <1>2, <1>3, InductTo
<1>5. B(n) = A
  <2>1. \A k \in A : k < n
    BY <1>a
  <2> QED BY <2>1
<1> QED
  BY <1>4, <1>5

-----------------------------------------------------------------------------
(***************************************************************************)
(* The search of the pull loop.                                            *)
(***************************************************************************)
\* A member of S with k smaller ones exists.
LEMMA NthRight ==
  ASSUME NEW n \in Nat, NEW S \in SUBSET (0 .. n - 1), NEW k \in Nat, k < Cardinality(S)
  PROVE  Nth(S, k) \in S /\ Cardinality({ p \in S : p < Nth(S, k) }) = k
<1> DEFINE B(m) == { p \in S : p < m }
<1> DEFINE T == { m \in Nat : k < Cardinality(B(m)) }
<1>0. \A p \in S : p \in 0 .. n - 1
  OBVIOUS
<1>1. ASSUME NEW m \in Nat PROVE IsFiniteSet(B(m)) /\ Cardinality(B(m)) \in Nat
  <2>1. IsFiniteSet(0 .. n - 1)
    BY FS_Interval
  <2> QED BY <2>1, FS_Subset, FS_CardinalityType
<1>2. B(n) = S
  <2>1. \A p \in S : p < n
    BY <1>0
  <2> QED BY <2>1
<1>3. n \in T
  BY <1>2
<1>4. PICK m \in T : \A x \in T : m <= x
  <2> HIDE DEF T
  <2>1. T \in SUBSET Nat
    BY DEF T
  <2> QED BY <1>3, <2>1, Least
<1>5. m # 0
  <2>1. B(0) = {}
    <3>1. \A p \in S : ~(p < 0)
      BY <1>0
    <3> QED BY <3>1
  <2>2. 0 \notin T
    BY <2>1, FS_EmptySet
  <2> QED BY <2>2
<1>6. m - 1 \in Nat /\ m - 1 \notin T
  BY <1>4, <1>5
<1> DEFINE q == m - 1
<1>7. Cardinality(B(q)) <= k
  BY <1>1, <1>6
<1>8. q \in S
  <2> SUFFICES ASSUME q \notin S PROVE FALSE
    OBVIOUS
  <2>1. B(m) = B(q)
    <3>1. \A p \in S : p < m <=> p < m - 1
      BY <1>0, <1>6
    <3> QED BY <3>1
  <2> QED BY <1>4, <1>7, <2>1, <1>1, <1>6
<1>9. B(m) = B(q) \cup {q} /\ q \notin B(q)
  <2>1. \A p \in S : p < m <=> p < m - 1 \/ p = m - 1
    BY <1>0, <1>6
  <2>2. ~(m - 1 < m - 1)
    BY <1>6
  <2> QED BY <1>8, <2>1, <2>2
<1>10. Cardinality(B(m)) = Cardinality(B(q)) + 1
  <2> HIDE DEF B
  <2> QED BY <1>1, <1>6, <1>9, FS_AddElement
<1>11. Cardinality(B(q)) = k
  <2>1. k < Cardinality(B(m))
    BY <1>4
  <2>2. Cardinality(B(q)) \in Nat
    BY <1>1, <1>6
  <2> HIDE DEF B
  <2> QED BY <1>7, <1>10, <2>1, <2>2
<1>12. \E x \in S : Cardinality({ p \in S : p < x }) = k
  BY <1>8, <1>11
<1> QED
  BY <1>12 DEF Nth

\* The rows in front of round k.
Passed(count, k) ==
  SumTo([p \in DOMAIN count |-> Fewer(count[p], k)], Cardinality(DOMAIN count))

\* A group that the search can be at, looking for the position.
GroupOf(count, position, g) ==
  /\ g \in [left : [DOMAIN count -> Nat], done : Nat, slot : Nat]
  /\ \A q \in DOMAIN count : g.left[q] = count[q] - Fewer(count[q], g.done)
  /\ position = Passed(count, g.done) + g.slot

LEMMA PassedType ==
  ASSUME NEW n \in Nat, NEW count \in [0 .. n - 1 -> Nat], NEW k \in Nat
  PROVE  /\ Cardinality(DOMAIN count) = n
         /\ DOMAIN count = 0 .. n - 1
         /\ [p \in DOMAIN count |-> Fewer(count[p], k)] \in [0 .. n - 1 -> Nat]
         /\ Passed(count, k) \in Nat
<1>1. DOMAIN count = 0 .. n - 1 /\ Cardinality(DOMAIN count) = n
  BY FS_Interval
<1> DEFINE d == [p \in DOMAIN count |-> Fewer(count[p], k)]
<1>2. d \in [0 .. n - 1 -> Nat]
  BY <1>1 DEF Fewer
<1>3. SumTo(d, n) \in Nat
  <2>1. \A j \in 0 .. n - 1 : d[j] \in Nat
    BY <1>2
  <2>2. n \in 0 .. n
    OBVIOUS
  <2> HIDE DEF d
  <2>3. \A m \in 0 .. n : SumTo(d, m) \in Nat
    BY <2>1, SumType
  <2> QED BY <2>2, <2>3
<1> QED BY <1>1, <1>2, <1>3 DEF Passed

\* The ranks that take part in a group, and how many rounds it has.
LEMMA GroupActive ==
  ASSUME NEW n \in Nat, NEW count \in [0 .. n - 1 -> Nat],
         NEW position \in 0 .. SumTo(count, n) - 1, NEW g, GroupOf(count, position, g)
  PROVE  /\ Active(g.left) \in SUBSET (0 .. n - 1)
         /\ IsFiniteSet(Active(g.left)) /\ Cardinality(Active(g.left)) \in Nat
         /\ Active(g.left) # {}
         /\ Length(g.left) \in Nat \ {0}
         /\ \A q \in Active(g.left) : Length(g.left) <= g.left[q]
         /\ \E q \in Active(g.left) : Length(g.left) = g.left[q]
<1>1. DOMAIN count = 0 .. n - 1 /\ Cardinality(DOMAIN count) = n
  BY FS_Interval
<1>2. g.left \in [0 .. n - 1 -> Nat] /\ g.done \in Nat /\ g.slot \in Nat
  BY <1>1 DEF GroupOf
<1>3. Active(g.left) \in SUBSET (0 .. n - 1)
  BY <1>2 DEF Active
<1>4. IsFiniteSet(Active(g.left)) /\ Cardinality(Active(g.left)) \in Nat
  <2>1. IsFiniteSet(0 .. n - 1)
    BY FS_Interval
  <2> QED BY <1>3, <2>1, FS_Subset, FS_CardinalityType
<1>5. Active(g.left) # {}
  <2> SUFFICES ASSUME Active(g.left) = {} PROVE FALSE
    OBVIOUS
  <2> DEFINE d == [p \in DOMAIN count |-> Fewer(count[p], g.done)]
  <2>1. \A q \in 0 .. n - 1 : d[q] = count[q]
    <3> SUFFICES ASSUME NEW q \in 0 .. n - 1 PROVE Fewer(count[q], g.done) = count[q]
      BY <1>1
    <3>1. g.left[q] = 0
      BY <1>2 DEF Active
    <3>2. g.left[q] = count[q] - Fewer(count[q], g.done)
      BY <1>1 DEF GroupOf
    <3> QED BY <1>2, <3>1, <3>2 DEF Fewer
  <2>2. SumTo(d, n) = SumTo(count, n)
    <3> HIDE DEF d
    <3> QED BY <2>1, SumSame
  <2>3. Passed(count, g.done) = SumTo(count, n)
    BY <1>1, <2>2 DEF Passed
  <2>4. SumTo(count, n) \in Nat
    <3>1. \A m \in 0 .. n : SumTo(count, m) \in Nat
      BY SumType
    <3> QED BY <3>1
  <2> QED BY <1>2, <2>3, <2>4 DEF GroupOf
<1> DEFINE L == { g.left[q] : q \in Active(g.left) }
<1>6. L \in SUBSET Nat /\ L # {}
  BY <1>2, <1>3, <1>5
<1>7. \E x \in L : \A y \in L : x <= y
  <2> HIDE DEF L
  <2> QED BY <1>6, Least
<1>8. Min(L) \in L /\ \A y \in L : Min(L) <= y
  <2> HIDE DEF L
  <2> QED BY <1>7 DEF Min
<1>9. Length(g.left) = Min(L)
  BY DEF Length
<1>10. \A q \in Active(g.left) : g.left[q] > 0
  BY DEF Active
<1>11. PICK q \in Active(g.left) : Min(L) = g.left[q]
  BY <1>8
<1>12. \A x \in Active(g.left) : Min(L) <= g.left[x]
  BY <1>8
<1>13. Min(L) \in Nat \ {0}
  BY <1>2, <1>3, <1>10, <1>11
<1> HIDE DEF L
<1> QED BY <1>3, <1>4, <1>5, <1>9, <1>11, <1>12, <1>13

\* t more rounds of a group, as long as it lasts.
LEMMA PassedMore ==
  ASSUME NEW n \in Nat, NEW count \in [0 .. n - 1 -> Nat],
         NEW position \in 0 .. SumTo(count, n) - 1, NEW g, GroupOf(count, position, g),
         NEW t \in 0 .. Length(g.left)
  PROVE  Passed(count, g.done + t) = Passed(count, g.done) + t * Cardinality(Active(g.left))
<1>1. DOMAIN count = 0 .. n - 1 /\ Cardinality(DOMAIN count) = n
  BY PassedType
<1>2. g.left \in [0 .. n - 1 -> Nat] /\ g.done \in Nat /\ g.slot \in Nat
  BY <1>1 DEF GroupOf
<1> DEFINE c == [p \in DOMAIN count |-> Fewer(count[p], g.done)]
<1> DEFINE d == [p \in DOMAIN count |-> Fewer(count[p], g.done + t)]
<1> DEFINE A == Active(g.left)
<1>3. A \in SUBSET (0 .. n - 1) /\ Length(g.left) \in Nat /\ t \in Nat
  BY GroupActive
<1>4. \A k \in 0 .. n - 1 : c[k] \in Nat
  BY <1>1, <1>2 DEF Fewer
<1>5. ASSUME NEW k \in A PROVE d[k] = c[k] + t
  <2>1. k \in 0 .. n - 1 /\ count[k] \in Nat
    BY <1>3
  <2>2. Length(g.left) <= g.left[k] /\ g.left[k] > 0
    BY GroupActive DEF Active
  <2>3. g.left[k] = count[k] - Fewer(count[k], g.done)
    BY <1>1, <2>1 DEF GroupOf
  <2> QED BY <1>1, <1>2, <1>3, <2>1, <2>2, <2>3 DEF Fewer
<1>6. ASSUME NEW k \in (0 .. n - 1) \ A PROVE d[k] = c[k]
  <2>1. g.left[k] = 0
    BY <1>2 DEF Active
  <2>2. g.left[k] = count[k] - Fewer(count[k], g.done)
    BY <1>1 DEF GroupOf
  <2>3. count[k] \in Nat
    OBVIOUS
  <2> QED BY <1>1, <1>2, <1>3, <2>1, <2>2, <2>3 DEF Fewer
<1>7. SumTo(d, n) = SumTo(c, n) + t * Cardinality(A)
  <2> HIDE DEF c, d, A
  <2> QED BY <1>3, <1>4, <1>5, <1>6, SumAdd
<1> QED BY <1>1, <1>7 DEF Passed

\* The next group: a rank fewer takes part.
LEMMA GroupStep ==
  ASSUME NEW n \in Nat, NEW count \in [0 .. n - 1 -> Nat],
         NEW position \in 0 .. SumTo(count, n) - 1, NEW g, GroupOf(count, position, g),
         ~InGroup(g)
  PROVE  /\ GroupOf(count, position, NextGroup(g))
         /\ Cardinality(Active(NextGroup(g).left)) < Cardinality(Active(g.left))
<1> DEFINE L == Length(g.left)
<1> DEFINE h == NextGroup(g)
<1>1. DOMAIN count = 0 .. n - 1 /\ Cardinality(DOMAIN count) = n
  BY PassedType
<1>2. g.left \in [0 .. n - 1 -> Nat] /\ g.done \in Nat /\ g.slot \in Nat
  BY <1>1 DEF GroupOf
<1>3. /\ Active(g.left) \in SUBSET (0 .. n - 1) /\ IsFiniteSet(Active(g.left))
      /\ Cardinality(Active(g.left)) \in Nat /\ L \in Nat \ {0}
  BY GroupActive
<1>4. L * Cardinality(Active(g.left)) \in Nat
  BY <1>3
<1>5. /\ h.left = [q \in 0 .. n - 1 |-> g.left[q] - Fewer(g.left[q], L)]
      /\ h.done = g.done + L
      /\ h.slot = g.slot - L * Cardinality(Active(g.left))
  BY <1>2 DEF NextGroup
<1>6. h = [left |-> h.left, done |-> h.done, slot |-> h.slot]
  BY DEF NextGroup
<1>7. h.left \in [0 .. n - 1 -> Nat] /\ h.done \in Nat
  <2>1. ASSUME NEW q \in 0 .. n - 1 PROVE h.left[q] \in Nat
    <3>1. h.left[q] = g.left[q] - Fewer(g.left[q], L) /\ g.left[q] \in Nat
      BY <1>2, <1>5
    <3> HIDE DEF h, L
    <3> QED BY <1>3, <3>1 DEF Fewer
  <2> HIDE DEF h, L
  <2> QED BY <1>2, <1>3, <1>5, <2>1
<1>8. h.slot \in Nat
  BY <1>2, <1>4, <1>5 DEF InGroup
<1>9. ASSUME NEW q \in 0 .. n - 1 PROVE h.left[q] = count[q] - Fewer(count[q], h.done)
  <2>1. h.left[q] = g.left[q] - Fewer(g.left[q], L)
    BY <1>5
  <2>2. g.left[q] = count[q] - Fewer(count[q], g.done)
    BY <1>1 DEF GroupOf
  <2>3. count[q] \in Nat
    OBVIOUS
  <2> HIDE DEF L, h
  <2>4. CASE count[q] <= g.done
    BY <1>2, <1>3, <1>5, <2>1, <2>2, <2>3, <2>4 DEF Fewer
  <2>5. CASE count[q] > g.done
    <3>1. g.left[q] = count[q] - g.done
      BY <1>2, <2>2, <2>3, <2>5 DEF Fewer
    <3> QED BY <1>2, <1>3, <1>5, <2>1, <3>1, <2>3, <2>5 DEF Fewer
  <2> QED BY <1>2, <2>3, <2>4, <2>5
<1>10. position = Passed(count, h.done) + h.slot
  <2>1. L \in 0 .. L
    BY <1>3
  <2>2. Passed(count, g.done + L) = Passed(count, g.done) + L * Cardinality(Active(g.left))
    BY <2>1, PassedMore
  <2>3. Passed(count, g.done) \in Nat
    BY <1>2, PassedType
  <2>4. position = Passed(count, g.done) + g.slot
    BY DEF GroupOf
  <2> HIDE DEF L, h
  <2> QED BY <1>2, <1>4, <1>5, <2>2, <2>3, <2>4
<1>11. GroupOf(count, position, h)
  <2>1. h \in [left : [0 .. n - 1 -> Nat], done : Nat, slot : Nat]
    <3> HIDE DEF h
    <3> QED BY <1>6, <1>7, <1>8
  <2> HIDE DEF h
  <2> QED BY <1>1, <1>9, <1>10, <2>1 DEF GroupOf
<1>12. Cardinality(Active(h.left)) < Cardinality(Active(g.left))
  <2>1. PICK q \in Active(g.left) : L = g.left[q]
    BY GroupActive
  <2>2. Active(h.left) \in SUBSET (Active(g.left) \ {q})
    <3>1. ASSUME NEW p \in Active(h.left) PROVE p \in Active(g.left) /\ p # q
      <4>1. p \in 0 .. n - 1 /\ h.left[p] > 0
        BY <1>7 DEF Active
      <4>2. h.left[p] = g.left[p] - Fewer(g.left[p], L)
        BY <1>5, <4>1
      <4>3. g.left[p] \in Nat
        BY <1>2, <4>1
      <4>4. g.left[p] > 0
        BY <1>3, <4>1, <4>2, <4>3 DEF Fewer
      <4>5. p # q
        BY <1>3, <2>1, <4>1, <4>2, <4>3 DEF Fewer
      <4> QED BY <1>2, <4>1, <4>4, <4>5 DEF Active
    <3> QED BY <3>1
  <2>3. /\ IsFiniteSet(Active(g.left) \ {q})
        /\ Cardinality(Active(g.left) \ {q}) = Cardinality(Active(g.left)) - 1
    BY <1>3, <2>1, FS_RemoveElement
  <2>4. Cardinality(Active(h.left)) <= Cardinality(Active(g.left) \ {q})
    BY <2>2, <2>3, FS_Subset
  <2>5. Cardinality(Active(h.left)) \in Nat
    BY <2>2, <2>3, FS_Subset, FS_CardinalityType
  <2> QED BY <1>3, <2>3, <2>4, <2>5
<1> QED BY <1>11, <1>12

LEMMA Division ==
  ASSUME NEW a \in Nat, NEW m \in Nat \ {0}
  PROVE  a \div m \in Nat /\ a % m \in Nat /\ a % m < m /\ a = (a \div m) * m + (a % m)
OBVIOUS

LEMMA Product ==
  ASSUME NEW a \in Nat, NEW b \in Nat, NEW c \in Nat, a >= b
  PROVE  a * c >= b * c
OBVIOUS

\* The row that the group of the position names is the position's.
LEMMA RowRight ==
  ASSUME NEW n \in Nat, NEW count \in [0 .. n - 1 -> Nat],
         NEW position \in 0 .. SumTo(count, n) - 1, NEW g, GroupOf(count, position, g),
         InGroup(g)
  PROVE  LET m == Cardinality(Active(g.left))
             q == Nth(Active(g.left), g.slot % m)
             k == g.done + (g.slot \div m)
         IN  /\ q \in 0 .. n - 1 /\ k \in 0 .. count[q] - 1
             /\ PositionOf(count, q, k) = position
<1> DEFINE A == Active(g.left)
<1> DEFINE L == Length(g.left)
<1> DEFINE m == Cardinality(A)
<1> DEFINE t == g.slot \div m
<1> DEFINE u == g.slot % m
<1> DEFINE q == Nth(A, u)
<1> DEFINE k == g.done + t
<1>1. DOMAIN count = 0 .. n - 1 /\ Cardinality(DOMAIN count) = n
  BY PassedType
<1>2. g.left \in [0 .. n - 1 -> Nat] /\ g.done \in Nat /\ g.slot \in Nat
  BY <1>1 DEF GroupOf
<1>3. /\ A \in SUBSET (0 .. n - 1) /\ IsFiniteSet(A) /\ A # {} /\ m \in Nat /\ L \in Nat \ {0}
      /\ \A p \in A : L <= g.left[p]
  BY GroupActive
<1>4. m # 0
  BY <1>3, FS_EmptySet
<1>5. t \in Nat /\ u \in Nat /\ u < m /\ g.slot = t * m + u
  <2>1. m \in Nat \ {0}
    BY <1>3, <1>4
  <2> HIDE DEF m
  <2> QED BY <1>2, <2>1, Division
<1>6. g.slot < L * m
  BY DEF InGroup
<1>7. t < L
  <2> SUFFICES ASSUME t >= L PROVE FALSE
    <3> HIDE DEF t, L
    <3> QED BY <1>3, <1>5
  <2> HIDE DEF t, L, m, u
  <2>1. t * m >= L * m
    BY <1>3, <1>5, Product
  <2>2. t * m \in Nat /\ L * m \in Nat
    BY <1>3, <1>5
  <2> QED BY <1>2, <1>5, <1>6, <2>1, <2>2
<1>8. q \in A /\ Cardinality({ p \in A : p < q }) = u
  <2> HIDE DEF A, m, u
  <2> QED BY <1>3, <1>5, NthRight DEF m
<1>9. q \in 0 .. n - 1
  BY <1>3, <1>8
<1>10. ASSUME NEW p \in 0 .. n - 1 PROVE p \in A <=> count[p] > k
  <2>1. g.left[p] = count[p] - Fewer(count[p], g.done) /\ count[p] \in Nat /\ g.left[p] \in Nat
    BY <1>1, <1>2 DEF GroupOf
  <2>2. p \in A <=> g.left[p] > 0
    BY <1>2 DEF Active
  <2>3. p \in A => L <= g.left[p]
    BY <1>3
  <2>4. t \in Nat /\ t < L /\ L \in Nat
    BY <1>3, <1>5, <1>7
  <2> HIDE DEF A, L, t
  <2>5. CASE count[p] <= g.done
    BY <1>2, <2>1, <2>2, <2>4, <2>5 DEF Fewer
  <2>6. CASE count[p] > g.done
    <3>1. g.left[p] = count[p] - g.done /\ p \in A
      BY <1>2, <2>1, <2>2, <2>6 DEF Fewer
    <3> QED BY <1>2, <2>1, <2>3, <2>4, <3>1
  <2> QED BY <1>2, <2>1, <2>5, <2>6
<1>11. k \in 0 .. count[q] - 1
  <2>1. count[q] > k /\ count[q] \in Nat
    BY <1>8, <1>9, <1>10
  <2> HIDE DEF q, t
  <2> QED BY <1>2, <1>5, <2>1
<1>12. { p \in DOMAIN count : p < q /\ count[p] > k } = { p \in A : p < q }
  <2> HIDE DEF q, k, A
  <2> QED BY <1>1, <1>3, <1>10
<1>13. Passed(count, k) = Passed(count, g.done) + t * m
  <2>1. t \in 0 .. Length(g.left)
    <3> HIDE DEF t
    <3> QED BY <1>3, <1>5, <1>7
  <2> HIDE DEF t
  <2> QED BY <2>1, PassedMore
<1>14. PositionOf(count, q, k) = Passed(count, k) + u
  <2> HIDE DEF q, k, A
  <2> QED BY <1>8, <1>12 DEF PositionOf, Passed
<1>15. PositionOf(count, q, k) = position
  <2>1. position = Passed(count, g.done) + g.slot
    BY DEF GroupOf
  <2>2. Passed(count, g.done) \in Nat /\ t * m \in Nat
    <3>1. Passed(count, g.done) \in Nat
      BY <1>2, PassedType
    <3> HIDE DEF t, m
    <3> QED BY <1>3, <1>5, <3>1
  <2> HIDE DEF q, k, t, m, u
  <2> QED BY <1>2, <1>5, <1>13, <1>14, <2>1, <2>2
<1> QED BY <1>9, <1>11, <1>15

\* The groups the loop goes through, up to the n-th.
GroupsOf(count) == [left : [DOMAIN count -> Nat], done : Nat, slot : Nat]
NextIn(count) == [g \in GroupsOf(count) |-> IF InGroup(g) THEN g ELSE NextGroup(g)]
FirstGroup(count, position) == [left |-> count, done |-> 0, slot |-> position]
IsWalk(w, count, position, n) ==
  w = [k \in 0 .. n |-> IF k = 0 THEN FirstGroup(count, position) ELSE NextIn(count)[w[k - 1]]]

LEMMA WalkExists ==
  ASSUME NEW n \in Nat, NEW count, NEW position
  PROVE  \E w : IsWalk(w, count, position, n)
<1> DEFINE First == FirstGroup(count, position)
<1> DEFINE Step == NextIn(count)
<1> HIDE DEF First, Step
<1> DEFINE S == { m \in Nat : \E w : IsWalk(w, count, position, m) }
<1>1. 0 \in S
  <2>1. IsWalk([k \in 0 .. 0 |-> First], count, position, 0)
    BY DEF IsWalk, First
  <2> QED BY <2>1
<1>2. ASSUME NEW m \in Nat, m \in S PROVE m + 1 \in S
  <2>1. PICK g : IsWalk(g, count, position, m)
    BY <1>2
  <2>a. g = [k \in 0 .. m |-> IF k = 0 THEN First ELSE Step[g[k - 1]]]
    BY <2>1 DEF IsWalk, First, Step
  <2> DEFINE h == [k \in 0 .. m + 1 |-> IF k = 0 THEN First ELSE Step[g[k - 1]]]
  <2>2. IsWalk(h, count, position, m + 1)
    <3>1. \A k \in 0 .. m : h[k] = g[k]
      BY <2>a
    <3>2. ASSUME NEW k \in 0 .. m + 1
          PROVE  h[k] = IF k = 0 THEN First ELSE Step[h[k - 1]]
      <4>1. CASE k = 0
        BY <4>1
      <4>2. CASE k # 0
        <5>1. k - 1 \in 0 .. m
          BY <4>2
        <5>2. h[k - 1] = g[k - 1]
          BY <3>1, <5>1
        <5>3. h[k] = Step[g[k - 1]]
          BY <4>2
        <5> QED BY <4>2, <5>2, <5>3
      <4> QED BY <4>1, <4>2
    <3>3. h = [k \in 0 .. m + 1 |-> h[k]]
      OBVIOUS
    <3> HIDE DEF h
    <3>4. h = [k \in 0 .. m + 1 |-> IF k = 0 THEN First ELSE Step[h[k - 1]]]
      BY <3>2, <3>3
    <3> QED
      BY <3>4 DEF IsWalk, First, Step
  <2> QED BY <2>2
<1> HIDE DEF S
<1>3. Nat \subseteq S
  BY <1>1, <1>2, Induct
<1> QED
  BY <1>3 DEF S

\* SourceOf is the row of the group the walk ends at.
LEMMA SourceUnfold ==
  ASSUME NEW n \in Nat, NEW count \in [0 .. n - 1 -> Nat], NEW position
  PROVE  \E w : /\ IsWalk(w, count, position, n)
                /\ w[n] \in GroupsOf(count) =>
                     SourceOf(count, position) =
                       <<Nth(Active(w[n].left), w[n].slot % Cardinality(Active(w[n].left))),
                         w[n].done + (w[n].slot \div Cardinality(Active(w[n].left)))>>
<1> DEFINE row == [g \in GroupsOf(count) |->
                     <<Nth(Active(g.left), g.slot % Cardinality(Active(g.left))),
                       g.done + (g.slot \div Cardinality(Active(g.left)))>>]
<1> DEFINE w == CHOOSE f : IsWalk(f, count, position, n)
<1>1. Cardinality(DOMAIN count) = n
  BY FS_Interval
<1>2. IsWalk(w, count, position, n)
  BY WalkExists
<1>3. SourceOf(count, position) = row[w[n]]
  BY <1>1 DEF SourceOf, IsWalk, NextIn, FirstGroup, GroupsOf
<1> HIDE DEF w
<1> QED BY <1>2, <1>3

\* The search finds the row of every position.
LEMMA SearchRight ==
  ASSUME NEW n \in Nat, NEW count \in [0 .. n - 1 -> Nat],
         NEW position \in 0 .. SumTo(count, n) - 1
  PROVE  LET src == SourceOf(count, position)
         IN  /\ src[1] \in 0 .. n - 1 /\ src[2] \in 0 .. count[src[1]] - 1
             /\ PositionOf(count, src[1], src[2]) = position
<1>1. DOMAIN count = 0 .. n - 1
  OBVIOUS
<1>2. PICK w : /\ IsWalk(w, count, position, n)
               /\ w[n] \in GroupsOf(count) =>
                    SourceOf(count, position) =
                      <<Nth(Active(w[n].left), w[n].slot % Cardinality(Active(w[n].left))),
                        w[n].done + (w[n].slot \div Cardinality(Active(w[n].left)))>>
  BY SourceUnfold
<1> DEFINE S == { k \in 0 .. n : /\ GroupOf(count, position, w[k])
                                 /\ \/ InGroup(w[k])
                                    \/ Cardinality(Active(w[k].left)) <= n - k }
<1>3. 0 \in S
  <2>1. w[0] = FirstGroup(count, position)
    BY <1>2 DEF IsWalk
  <2>2. Passed(count, 0) = 0
    <3> DEFINE d == [p \in DOMAIN count |-> Fewer(count[p], 0)]
    <3>1. \A k \in 0 .. n - 1 : d[k] = 0 * count[k]
      BY DEF Fewer
    <3> DEFINE S0 == { m \in 0 .. n : SumTo(d, m) = 0 }
    <3>2. 0 \in S0
      BY SumZero
    <3>3. ASSUME NEW k \in 0 .. n - 1, k \in S0 PROVE k + 1 \in S0
      <4>1. SumTo(d, k + 1) = SumTo(d, k) + d[k]
        BY SumStep
      <4>2. d[k] = 0
        BY <3>1
      <4> HIDE DEF d
      <4> QED BY <3>3, <4>1, <4>2
    <3>4. 0 .. n \subseteq S0
      <4> HIDE DEF S0
      <4> QED BY <3>2, <3>3, InductTo
    <3>5. SumTo(d, n) = 0
      BY <3>4
    <3>6. Cardinality(DOMAIN count) = n
      BY FS_Interval
    <3> QED BY <3>5, <3>6 DEF Passed
  <2>3. GroupOf(count, position, w[0])
    <3>1. \A q \in DOMAIN count : count[q] = count[q] - Fewer(count[q], 0)
      BY DEF Fewer
    <3>2. position \in Nat
      OBVIOUS
    <3> QED BY <2>1, <2>2, <3>1, <3>2 DEF GroupOf, FirstGroup
  <2>4. Cardinality(Active(w[0].left)) <= n - 0
    <3>1. Active(w[0].left) \in SUBSET (0 .. n - 1)
      BY <2>3, GroupActive
    <3>2. IsFiniteSet(0 .. n - 1) /\ Cardinality(0 .. n - 1) = n
      BY FS_Interval
    <3> QED BY <3>1, <3>2, FS_Subset
  <2> QED BY <2>3, <2>4
<1>4. ASSUME NEW k \in 0 .. n - 1, k \in S PROVE k + 1 \in S
  <2>1. w[k + 1] = NextIn(count)[w[k]]
    BY <1>2 DEF IsWalk
  <2>2. GroupOf(count, position, w[k]) /\ w[k] \in GroupsOf(count)
    BY <1>4 DEF GroupOf, GroupsOf
  <2>3. w[k + 1] = IF InGroup(w[k]) THEN w[k] ELSE NextGroup(w[k])
    BY <2>1, <2>2 DEF NextIn
  <2>4. CASE InGroup(w[k])
    <3>1. w[k + 1] = w[k]
      BY <2>3, <2>4
    <3> QED BY <2>2, <2>4, <3>1
  <2>5. CASE ~InGroup(w[k])
    <3>1. w[k + 1] = NextGroup(w[k])
      BY <2>3, <2>5
    <3>2. /\ GroupOf(count, position, NextGroup(w[k]))
          /\ Cardinality(Active(NextGroup(w[k]).left)) < Cardinality(Active(w[k].left))
      BY <2>2, <2>5, GroupStep
    <3>3. Cardinality(Active(w[k].left)) <= n - k
      BY <1>4, <2>5
    <3>4. /\ Cardinality(Active(w[k].left)) \in Nat
          /\ Cardinality(Active(NextGroup(w[k]).left)) \in Nat
      BY <2>2, <3>2, GroupActive
    <3>5. Cardinality(Active(NextGroup(w[k]).left)) <= n - (k + 1)
      BY <3>2, <3>3, <3>4
    <3> QED BY <3>1, <3>2, <3>5
  <2> QED BY <2>4, <2>5
<1>5. 0 .. n \subseteq S
  <2> HIDE DEF S
  <2> QED BY <1>3, <1>4, InductTo
<1>6. GroupOf(count, position, w[n])
  BY <1>5
<1>7. InGroup(w[n])
  <2> SUFFICES ASSUME ~InGroup(w[n]) PROVE FALSE
    OBVIOUS
  <2>1. Cardinality(Active(w[n].left)) <= n - n
    BY <1>5
  <2>2. /\ IsFiniteSet(Active(w[n].left)) /\ Cardinality(Active(w[n].left)) \in Nat
        /\ Active(w[n].left) # {}
    BY <1>6, GroupActive
  <2> QED BY <2>1, <2>2, FS_EmptySet
<1>8. SourceOf(count, position) =
        <<Nth(Active(w[n].left), w[n].slot % Cardinality(Active(w[n].left))),
          w[n].done + (w[n].slot \div Cardinality(Active(w[n].left)))>>
  BY <1>2, <1>6 DEF GroupOf, GroupsOf
<1> DEFINE m == Cardinality(Active(w[n].left))
<1> DEFINE q == Nth(Active(w[n].left), w[n].slot % m)
<1> DEFINE k == w[n].done + (w[n].slot \div m)
<1>9. /\ q \in 0 .. n - 1 /\ k \in 0 .. count[q] - 1
      /\ PositionOf(count, q, k) = position
  BY <1>6, <1>7, RowRight
<1>10. SourceOf(count, position) = <<q, k>>
  BY <1>8
<1> HIDE DEF q, k
<1> QED BY <1>9, <1>10

\* The pull loop of the fused kernel (dispatch warps): for any number of ranks
\* and of rows that they send, the search that every warp makes on its own ends
\* at an existing row of an existing rank, and at the one that the position
\* belongs to.
THEOREM SearchesRight == Spec => []SourceRight
<1>1. SourceRight
  <2> SUFFICES ASSUME NEW count \in Searches,
                      NEW position \in 0 .. SumTo(count, Cardinality(DOMAIN count)) - 1
               PROVE  LET src == SourceOf(count, position)
                      IN  /\ src[1] \in DOMAIN count /\ src[2] \in 0 .. count[src[1]] - 1
                          /\ PositionOf(count, src[1], src[2]) = position
    BY DEF SourceRight
  <2> DEFINE n == Cardinality(DOMAIN count)
  <2>1. count \in [0 .. n - 1 -> Nat]
    BY PullAssumption
  <2>2. DOMAIN count = 0 .. n - 1
    BY <2>1
  <2>3. n \in Nat
    BY PullAssumption, FS_CardinalityType
  <2> HIDE DEF n
  <2> QED BY <2>1, <2>2, <2>3, SearchRight DEF n
<1> QED BY <1>1, PTL

-----------------------------------------------------------------------------
(***************************************************************************)
(* The inductive invariant.                                                *)
(***************************************************************************)
PcStates == {"stake", "write", "broadcast", "fetch", "pull", "arrive", "grid2", "cleanup",
             "barrier3", "exited"}
MathStates == {"start", "claim", "load", "barrier2", "done"}
CountWords == [n : Nat, ctas : Nat]

TypeInv ==
  /\ setup \in Setups
  /\ sendCount \in [Ranks -> [AllExperts -> CountWords]]
  /\ srcIndex \in [Ranks -> [Experts -> [Ranks -> [Rows -> Rows \cup {NoRow}]]]]
  /\ recvCount \in [Ranks -> [Experts -> [Ranks -> Nat]]]
  /\ recvSum \in [Ranks -> [Experts -> CountWords]]
  /\ arrivals \in [Ranks -> [Blocks -> Nat]]
  /\ DOMAIN pool = Ranks /\ \A r \in Ranks : DOMAIN pool[r] = 0 .. PoolRows - 1
  /\ claimed \in [Ranks -> Nat]
  /\ nvSignals \in [Ranks -> Nat]
  /\ launch \in [Ranks -> Nat]
  /\ routing \in [Ranks -> [Rows -> AllExperts \cup {NoExpert}]]
  /\ pc \in [Ranks -> [SMs -> PcStates]]
  /\ todo \in [Ranks -> [SMs -> SUBSET (Rows \cup AllExperts)]]
  /\ slot \in [Ranks -> [SMs -> [AllExperts -> Nat]]]
  /\ seen \in [Ranks -> [SMs -> [Experts -> Nat]]]
  /\ token \in [Ranks -> [SMs -> Nat]]
  /\ math \in [Ranks -> [SMs -> MathStates]]
  /\ known \in [Ranks -> [SMs -> [Experts -> Nat]]]
  /\ task \in [Ranks -> [SMs -> Nat]]
  /\ loaded \in [Ranks -> SUBSET Nat]

(***************************************************************************)
(* Control: what the place of one CTA says of the others of its rank, what *)
(* a signal that was sent says of its sender, and how far ranks may be     *)
(* apart.                                                                  *)
(***************************************************************************)
AfterGrid(r, sm) == pc[r][sm] \notin {"stake", "write"}
Past1(r, sm) == pc[r][sm] \in {"fetch", "pull", "arrive", "grid2", "cleanup", "barrier3", "exited"}
Leaving(r, sm) == pc[r][sm] \in {"grid2", "cleanup", "barrier3", "exited"}
Ended(r, sm) == pc[r][sm] \in {"barrier3", "exited"}

\* The CTA that broadcasts an expert's count.
Teller(x) == IF setup.bcast THEN (x[1] * NumExperts + x[2]) % NumSMs ELSE 0

StageInv(r) ==
  \A sm \in SMs :
    /\ AfterGrid(r, sm) => \A o \in SMs : Written(r, o)
    /\ pc[r][sm] \notin {"write", "broadcast"} => todo[r][sm] = {}
    /\ pc[r][sm] = "write" => todo[r][sm] \subseteq RowsOf(r, sm)
    /\ pc[r][sm] = "broadcast" => \A x \in todo[r][sm] : x \in AllExperts /\ Teller(x) = sm
    /\ Leaving(r, sm) => math[r][sm] = "done"
    /\ FineCombine /\ Leaving(r, sm) /\ pc[r][sm] # "grid2" => \A o \in SMs : Leaving(r, o)
    /\ pc[r][sm] = "grid2" => FineCombine
    /\ math[r][sm] = "barrier2" => ~FineCombine
    /\ math[r][sm] \in {"barrier2", "done"} => Past1(r, sm)
    /\ pc[r][sm] = "exited" => InBarrier3(r)

AllPublished(r) ==
  \A sm \in SMs : sm = 0 \/ setup.bcast => AfterGrid(r, sm) /\ todo[r][sm] = {}

SignalInv(r) ==
  /\ Barrier(r, 0) <= nvSignals[r] /\ nvSignals[r] <= Barrier(r, BarriersPerLaunch)
  /\ nvSignals[r] = Barrier(r, BarriersPerLaunch) => InBarrier3(r)
  /\ nvSignals[r] >= Barrier(r, 1) => AllPublished(r)
  /\ ~FineCombine /\ nvSignals[r] >= Barrier(r, 2) =>
       \A sm \in SMs : math[r][sm] \in {"barrier2", "done"}
  /\ \A sm \in SMs : Past1(r, sm) => AllSignalled(Barrier(r, 1))
  /\ \A sm \in SMs : ~FineCombine /\ math[r][sm] = "done" => AllSignalled(Barrier(r, 2))
  /\ pc[r][0] = "exited" => AllSignalled(Barrier(r, BarriersPerLaunch))

SkewInv ==
  \A r, q \in Ranks : launch[r] > launch[q] =>
    launch[r] = launch[q] + 1 /\ nvSignals[q] = Barrier(q, BarriersPerLaunch)

ControlInv == (\A r \in Ranks : StageInv(r) /\ SignalInv(r)) /\ SkewInv

(***************************************************************************)
(* What a rank sends: its counts, and the indices in the ranges that its   *)
(* CTAs staked out.                                                        *)
(***************************************************************************)
RoutedRows(q, x) == { i \in Rows : routing[q][i] = x }
StakedRows(q, x) == { i \in RoutedRows(q, x) : pc[q][i % NumSMs] # "stake" }
Staked(q) == { sm \in SMs : pc[q][sm] # "stake" }

SendInv(q) ==
  \A x \in AllExperts :
    sendCount[q][x] =
      IF Ended(q, 0) THEN Zero
      ELSE [n |-> Cardinality(StakedRows(q, x)),
            ctas |-> IF setup.lean THEN 0 ELSE Cardinality(Staked(q))]

StillTo(q, sm, x) == { i \in todo[q][sm] : routing[q][i] = x }
Pending(q, sm, x) ==
  IF pc[q][sm] = "write"
    THEN slot[q][sm][x] .. slot[q][sm][x] + Cardinality(StillTo(q, sm, x)) - 1 ELSE {}
Slots(q, x) == 0 .. Cardinality(StakedRows(q, x)) - 1
Filled(q, x) == { k \in Slots(q, x) : \A sm \in SMs : k \notin Pending(q, sm, x) }
Landed(q, x) ==
  { i \in StakedRows(q, x) : pc[q][i % NumSMs] = "write" => i \notin todo[q][i % NumSMs] }

IndexInv(q) ==
  \A x \in AllExperts :
    /\ \A sm \in SMs : Pending(q, sm, x) \subseteq Slots(q, x)
    /\ \A sm, o \in SMs : sm # o => Pending(q, sm, x) \cap Pending(q, o, x) = {}
    /\ \A k \in Filled(q, x) : srcIndex[x[1]][x[2]][q][k] \in Landed(q, x)
    /\ \A j, k \in Filled(q, x) :
         srcIndex[x[1]][x[2]][q][j] = srcIndex[x[1]][x[2]][q][k] => j = k

(***************************************************************************)
(* What has arrived at a rank.  The words of an expert belong to the next  *)
(* launch as soon as the CTA that clears them has been through.            *)
(***************************************************************************)
Owner(e) == 1 + (e % (NumSMs - 1))
RecvLaunch(r, e) == IF Ended(r, Owner(e)) THEN launch[r] + 1 ELSE launch[r]
Sent(q, x) == AfterGrid(q, Teller(x)) /\ x \notin todo[q][Teller(x)]
Senders(r, e) == { q \in Ranks : launch[q] = RecvLaunch(r, e) /\ Sent(q, <<r, e>>) }

RecvInv(r) ==
  \A e \in Experts :
    /\ recvCount[r][e] =
         [q \in Ranks |-> IF q \in Senders(r, e) THEN Cardinality(RoutedRows(q, <<r, e>>)) ELSE 0]
    /\ recvSum[r][e] = [n |-> SumTo(recvCount[r][e], NumRanks),
                        ctas |-> NumSMs * Cardinality(Senders(r, e))]

(***************************************************************************)
(* What the warps of a rank know.                                          *)
(***************************************************************************)
AllSent(r) ==
  \A q \in Ranks : launch[q] = launch[r] /\ \A e \in Experts : Sent(q, <<r, e>>)
Busy(r) == nvSignals[r] < Barrier(r, BarriersPerLaunch)
Informed(r, sm) == pc[r][sm] \in {"pull", "arrive", "grid2", "cleanup"}

LearnInv(r) ==
  \A sm \in SMs :
    /\ Informed(r, sm) => seen[r][sm] = TrueCounts(r)
    /\ math[r][sm] \in {"claim", "load"} => known[r][sm] = TrueCounts(r)
    /\ Busy(r) /\ (Informed(r, sm) \/ math[r][sm] # "start") => AllSent(r)

(***************************************************************************)
(* Rows, positions and blocks.                                             *)
(***************************************************************************)
Running(r) == Busy(r) /\ AllSent(r)
Total(r) == FirstToken(TrueCounts(r), NumExperts)
TotalBlocks(r) == FirstBlock(TrueCounts(r), NumExperts)
ExpertAt(counts, t) ==
  CHOOSE e \in Experts : t \in FirstToken(counts, e) .. FirstToken(counts, e + 1) - 1
IndexAt(counts, t) == t - FirstToken(counts, ExpertAt(counts, t))
BlockAt(counts, t) == FirstBlock(counts, ExpertAt(counts, t)) + IndexAt(counts, t) \div BlockM
PlaceAt(counts, t) == FirstBlock(counts, ExpertAt(counts, t)) * BlockM + IndexAt(counts, t)
RowCounts(r, e) == [q \in Ranks |-> Cardinality(RoutedRows(q, <<r, e>>))]
Content(r, t) ==
  LET e == ExpertAt(TrueCounts(r), t)
      src == SourceOf(RowCounts(r, e), IndexAt(TrueCounts(r), t))
  IN  <<launch[r], src[1], srcIndex[r][e][src[1]][src[2]]>>

Counted(r, t) ==
  \/ pc[r][t % NumSMs] \in {"pull", "arrive"} /\ t < token[r][t % NumSMs]
  \/ Leaving(r, t % NumSMs)
Stored(r, t) == Counted(r, t) \/ (pc[r][t % NumSMs] = "arrive" /\ token[r][t % NumSMs] = t)

TokenInv(r) ==
  \A sm \in SMs :
    /\ pc[r][sm] \in {"pull", "arrive"} => token[r][sm] % NumSMs = sm
    /\ pc[r][sm] = "arrive" => token[r][sm] < Total(r)

StoredInv(r) ==
  Running(r) => \A t \in 0 .. Total(r) - 1 :
                  Stored(r, t) => pool[r][PlaceAt(TrueCounts(r), t)] = Content(r, t)

CountedIn(r, b) ==
  { t \in 0 .. Total(r) - 1 : /\ BlockAt(TrueCounts(r), t) = b
                              /\ Counted(r, t)
                              /\ ~Ended(r, Owner(ExpertAt(TrueCounts(r), t))) }
ArrivalInv(r) ==
  \A b \in Blocks : arrivals[r][b] = IF Running(r) THEN Cardinality(CountedIn(r, b)) ELSE 0

Taken(r, b) == b \in loaded[r] \/ \E sm \in SMs : math[r][sm] = "load" /\ task[r][sm] = b

LoadInv(r) ==
  /\ Ended(r, 0) => claimed[r] = 0
  /\ Busy(r) /\ ~AllSent(r) => claimed[r] = 0 /\ loaded[r] = {}
  /\ Running(r) =>
       /\ \A sm \in SMs : math[r][sm] = "load" => task[r][sm] < TotalBlocks(r)
       /\ \A b \in 0 .. TotalBlocks(r) - 1 :
            (b < claimed[r] \/ \E sm \in SMs : math[r][sm] \in {"barrier2", "done"})
              => Taken(r, b)
       /\ \A b \in loaded[r] : b < TotalBlocks(r)
       /\ \A t \in 0 .. Total(r) - 1 : BlockAt(TrueCounts(r), t) \in loaded[r] => Counted(r, t)

IInv ==
  /\ TypeInv /\ ControlInv
  /\ \A r \in Ranks : /\ SendInv(r) /\ IndexInv(r) /\ RecvInv(r) /\ LearnInv(r)
                      /\ TokenInv(r) /\ StoredInv(r) /\ ArrivalInv(r) /\ LoadInv(r)

-----------------------------------------------------------------------------
(***************************************************************************)
(* Types.                                                                  *)
(***************************************************************************)
LEMMA SetupFacts ==
  ASSUME setup \in Setups
  PROVE  /\ NumSMs \in Nat /\ NumSMs > 1 /\ BlockM \in Nat /\ BlockM > 0
         /\ NumRanks \in Nat /\ NumRanks > 0 /\ NumExperts \in Nat /\ NumExperts > 0
         /\ NumRows \in Nat /\ setup.launches \in Nat
         /\ setup.lanes \in Nat /\ setup.lanes > 0
         /\ setup.routings \subseteq [Rows -> AllExperts \cup {NoExpert}]
         /\ setup.lean \in BOOLEAN /\ setup.bcast \in BOOLEAN /\ FineCombine \in BOOLEAN
         /\ setup.single \in BOOLEAN
         /\ setup.single => NumRanks * NumRows <= BlockM * setup.lanes
<1>1. NumSMs \in Nat /\ NumSMs > 1 /\ BlockM \in Nat /\ BlockM > 0
  BY PullAssumption
<1>2. /\ setup.ranks \in 1 .. MaxRanks /\ setup.experts \in Nat \ {0} /\ setup.rows \in Nat
      /\ setup.lanes \in Nat \ {0} /\ setup.launches \in Nat
      /\ setup.single => setup.ranks * setup.rows <= BlockM * setup.lanes
      /\ {setup.lean, setup.bcast, setup.fine, setup.single} \subseteq BOOLEAN
      /\ setup.routings \subseteq
           [0 .. setup.rows - 1 ->
              ((0 .. setup.ranks - 1) \X (0 .. setup.experts - 1)) \cup {NoExpert}]
  BY PullAssumption
<1>3. setup.ranks \in Nat /\ setup.ranks > 0
  BY <1>2
<1> QED
  BY <1>1, <1>2, <1>3 DEF NumRanks, NumExperts, NumRows, FineCombine, Rows, AllExperts, Ranks, Experts

\* A behaviour is about one kernel and workload.
LEMMA SetupStands ==
  ASSUME setup' = setup
  PROVE  /\ NumRanks' = NumRanks /\ NumExperts' = NumExperts /\ NumRows' = NumRows
         /\ FineCombine' = FineCombine /\ PoolRows' = PoolRows
         /\ Ranks' = Ranks /\ Experts' = Experts /\ Rows' = Rows /\ AllExperts' = AllExperts
         /\ Blocks' = Blocks /\ BarriersPerLaunch' = BarriersPerLaunch
BY DEF NumRanks, NumExperts, NumRows, FineCombine, PoolRows, Ranks, Experts, Rows, AllExperts,
       Blocks, BarriersPerLaunch

LEMMA InitType == Init => TypeInv
<1> SUFFICES ASSUME Init PROVE TypeInv
  OBVIOUS
<1>1. setup \in Setups
  BY DEF Init
<1>2. /\ sendCount \in [Ranks -> [AllExperts -> CountWords]]
      /\ srcIndex \in [Ranks -> [Experts -> [Ranks -> [Rows -> Rows \cup {NoRow}]]]]
      /\ recvCount \in [Ranks -> [Experts -> [Ranks -> Nat]]]
      /\ recvSum \in [Ranks -> [Experts -> CountWords]]
      /\ arrivals \in [Ranks -> [Blocks -> Nat]]
  BY DEF Init, Zero, CountWords
<1>3. /\ DOMAIN pool = Ranks /\ \A r \in Ranks : DOMAIN pool[r] = 0 .. PoolRows - 1
      /\ claimed \in [Ranks -> Nat] /\ nvSignals \in [Ranks -> Nat] /\ launch \in [Ranks -> Nat]
      /\ routing \in [Ranks -> [Rows -> AllExperts \cup {NoExpert}]]
  BY DEF Init
<1>4. /\ pc \in [Ranks -> [SMs -> PcStates]] /\ math \in [Ranks -> [SMs -> MathStates]]
      /\ todo \in [Ranks -> [SMs -> SUBSET (Rows \cup AllExperts)]]
      /\ slot \in [Ranks -> [SMs -> [AllExperts -> Nat]]]
  BY DEF Init, PcStates, MathStates
<1>5. /\ seen \in [Ranks -> [SMs -> [Experts -> Nat]]]
      /\ token \in [Ranks -> [SMs -> Nat]]
      /\ known \in [Ranks -> [SMs -> [Experts -> Nat]]]
      /\ task \in [Ranks -> [SMs -> Nat]]
      /\ loaded \in [Ranks -> SUBSET Nat]
  BY DEF Init, NoCounts
<1> QED
  BY <1>1, <1>2, <1>3, <1>4, <1>5 DEF TypeInv

LEMMA SumIsNat == ASSUME NEW a \in Nat, NEW b \in Nat PROVE a + b \in Nat
OBVIOUS

LEMMA NextType == TypeInv /\ ControlInv /\ [Next]_vars => TypeInv'
<1> SUFFICES ASSUME TypeInv, ControlInv, [Next]_vars PROVE TypeInv'
  OBVIOUS
<1> USE SetupFacts DEF TypeInv
<1>1. CASE UNCHANGED vars
  BY <1>1, SetupStands DEF vars, countVars, poolVars, launchVars, pullVars, mathVars
<1>2. ASSUME NEW r \in Ranks, Launch(r) PROVE TypeInv'
  <2>1. /\ setup' = setup
        /\ UNCHANGED <<countVars, poolVars, nvSignals, todo, pullVars, claimed, known, task>>
    BY <1>2 DEF Launch
  <2>2. launch' \in [Ranks -> Nat] /\ pc' \in [Ranks -> [SMs -> PcStates]]
    BY <1>2 DEF Launch, PcStates
  <2>3. math' \in [Ranks -> [SMs -> MathStates]] /\ loaded' \in [Ranks -> SUBSET Nat]
    BY <1>2 DEF Launch, MathStates
  <2>4. routing' \in [Ranks -> [Rows -> AllExperts \cup {NoExpert}]]
    <3>1. PICK t \in setup.routings : routing' = [routing EXCEPT ![r] = t]
      BY <1>2 DEF Launch
    <3>2. t \in [Rows -> AllExperts \cup {NoExpert}]
      OBVIOUS
    <3> QED
      BY <3>1, <3>2
  <2> QED
    BY <2>1, <2>2, <2>3, <2>4, SetupStands DEF countVars, poolVars, pullVars
<1>3. ASSUME NEW r \in Ranks, NEW n, SendSignals(r, n) PROVE TypeInv'
  <2>1. /\ setup' = setup
        /\ UNCHANGED <<countVars, poolVars, launchVars, pc, todo, pullVars, mathVars>>
    BY <1>3 DEF SendSignals, launchVars
  <2>2. nvSignals' \in [Ranks -> Nat]
    BY <1>3 DEF SendSignals
  <2> QED
    BY <2>1, <2>2, SetupStands DEF countVars, poolVars, launchVars, pullVars, mathVars
<1>4. ASSUME NEW r \in Ranks, NEW sm \in SMs, DispatchStep(r, sm) PROVE TypeInv'
  <2>1. ASSUME StakeOut(r, sm) PROVE TypeInv'
    <3>1. /\ setup' = setup
          /\ UNCHANGED <<srcIndex, recvCount, recvSum, poolVars, nvSignals, launchVars,
                         seen, token, mathVars>>
      BY <2>1 DEF StakeOut, launchVars
    <3>2. pc' \in [Ranks -> [SMs -> PcStates]]
      BY <2>1 DEF StakeOut, Goto, PcStates
    <3>3. todo' \in [Ranks -> [SMs -> SUBSET (Rows \cup AllExperts)]]
      BY <2>1 DEF StakeOut, RowsOf
    <3>4. slot' \in [Ranks -> [SMs -> [AllExperts -> Nat]]]
      <4>1. \A x \in AllExperts : sendCount[r][x].n \in Nat
        BY DEF CountWords
      <4> QED
        BY <2>1, <4>1 DEF StakeOut
    <3>5. sendCount' \in [Ranks -> [AllExperts -> CountWords]]
      <4> DEFINE new == [x \in AllExperts |->
                  [n |-> sendCount[r][x].n + CountOf(r, sm, x),
                   ctas |-> IF setup.lean THEN 0 ELSE sendCount[r][x].ctas + 1]]
      <4>1. sendCount' = [sendCount EXCEPT ![r] = new]
        BY <2>1 DEF StakeOut
      <4>2. \A x \in AllExperts : sendCount[r][x] \in CountWords
        OBVIOUS
      <4>3. \A x \in AllExperts : CountOf(r, sm, x) \in Nat
        <5>1. IsFiniteSet(Rows)
          BY FS_Interval DEF Rows
        <5>2. \A x \in AllExperts : IsFiniteSet({ i \in RowsOf(r, sm) : routing[r][i] = x })
          BY <5>1, FS_Subset DEF RowsOf
        <5> QED
          BY <5>2, FS_CardinalityType DEF CountOf
      <4>4. \A x \in AllExperts : /\ sendCount[r][x].n + CountOf(r, sm, x) \in Nat
                                  /\ (IF setup.lean THEN 0 ELSE sendCount[r][x].ctas + 1) \in Nat
        BY <4>2, <4>3, SMTT(40) DEF CountWords
      <4>5. new \in [AllExperts -> CountWords]
        BY <4>4 DEF CountWords
      <4> HIDE DEF new
      <4> QED
        BY <4>1, <4>5
    <3> QED
      BY <3>1, <3>2, <3>3, <3>4, <3>5, SetupStands DEF poolVars, launchVars, mathVars
  <2>2. ASSUME NEW i \in Rows, WriteIndex(r, sm, i) PROVE TypeInv'
    <3>1. /\ setup' = setup
          /\ UNCHANGED <<sendCount, recvCount, recvSum, poolVars, nvSignals, launchVars,
                         pc, seen, token, mathVars>>
      BY <2>2 DEF WriteIndex, launchVars
    <3>2. todo' \in [Ranks -> [SMs -> SUBSET (Rows \cup AllExperts)]]
      BY <2>2 DEF WriteIndex
    <3>3. i \in RowsOf(r, sm)
      BY <2>2 DEF WriteIndex, ControlInv, StageInv
    <3>4. PICK x \in AllExperts : x = routing[r][i]
      BY <3>3 DEF RowsOf
    <3>5. slot' = [slot EXCEPT ![r][sm][x] = @ + 1]
      BY <2>2, <3>4 DEF WriteIndex
    <3>6. slot' \in [Ranks -> [SMs -> [AllExperts -> Nat]]]
      BY <3>5
    <3>7. srcIndex' = [srcIndex EXCEPT ![x[1]][x[2]][r][slot[r][sm][x]] = i]
      BY <2>2, <3>4 DEF WriteIndex
    <3>8. x[1] \in Ranks /\ x[2] \in Experts
      BY DEF AllExperts
    <3>9. srcIndex' \in [Ranks -> [Experts -> [Ranks -> [Rows -> Rows \cup {NoRow}]]]]
      <4>1. PICK o \in Ranks, e \in Experts : o = x[1] /\ e = x[2]
        BY <3>8
      <4>2. PICK s : s = slot[r][sm][x]
        OBVIOUS
      <4>3. srcIndex[o][e] \in [Ranks -> [Rows -> Rows \cup {NoRow}]]
        OBVIOUS
      <4>4. PICK f : f = [srcIndex[o][e][r] EXCEPT ![s] = i]
        OBVIOUS
      <4>5. f \in [Rows -> Rows \cup {NoRow}]
        BY <4>3, <4>4
      <4>6. PICK g : g = [srcIndex[o][e] EXCEPT ![r] = f]
        OBVIOUS
      <4>7. g \in [Ranks -> [Rows -> Rows \cup {NoRow}]]
        BY <4>3, <4>5, <4>6
      <4>8. srcIndex' = [srcIndex EXCEPT ![o][e] = g]
        BY <3>7, <4>1, <4>2, <4>4, <4>6
      <4> QED
        BY <4>7, <4>8
    <3> QED
      BY <3>1, <3>2, <3>6, <3>9, SetupStands DEF poolVars, launchVars, mathVars
  <2>3. ASSUME LeaveGridSync(r, sm) PROVE TypeInv'
    <3>1. /\ setup' = setup
          /\ UNCHANGED <<countVars, poolVars, nvSignals, launchVars, seen, token, mathVars>>
      BY <2>3 DEF LeaveGridSync, launchVars
    <3>2. pc' \in [Ranks -> [SMs -> PcStates]]
      BY <2>3 DEF LeaveGridSync, Goto, PcStates
    <3>3. todo' \in [Ranks -> [SMs -> SUBSET (Rows \cup AllExperts)]]
      BY <2>3 DEF LeaveGridSync
    <3>4. slot' \in [Ranks -> [SMs -> [AllExperts -> Nat]]]
      BY <2>3 DEF LeaveGridSync
    <3> QED
      BY <3>1, <3>2, <3>3, <3>4, SetupStands DEF countVars, poolVars, launchVars, mathVars
  <2>4. ASSUME NEW x \in AllExperts, Broadcast(r, sm, x) PROVE TypeInv'
    <3>1. /\ setup' = setup
          /\ UNCHANGED <<sendCount, srcIndex, poolVars, nvSignals, launchVars, pc, pullVars,
                         mathVars>>
      BY <2>4 DEF Broadcast, launchVars
    <3>2. todo' \in [Ranks -> [SMs -> SUBSET (Rows \cup AllExperts)]]
      BY <2>4 DEF Broadcast
    <3>3. x[1] \in Ranks /\ x[2] \in Experts
      BY DEF AllExperts
    <3>4. sendCount[r][x].n \in Nat /\ sendCount[r][x].ctas \in Nat
      BY DEF CountWords
    <3>5. recvCount' \in [Ranks -> [Experts -> [Ranks -> Nat]]]
      <4>1. PICK n \in Nat : n = sendCount[r][x].n
        BY <3>4
      <4>2. recvCount' = [recvCount EXCEPT ![x[1]][x[2]][r] = n]
        BY <2>4, <4>1 DEF Broadcast
      <4>3. PICK o \in Ranks, e \in Experts : o = x[1] /\ e = x[2]
        BY <3>3
      <4>4. recvCount' = [recvCount EXCEPT ![o][e][r] = n]
        BY <4>2, <4>3
      <4>5. PICK f : f = [recvCount[o][e] EXCEPT ![r] = n]
        OBVIOUS
      <4>6. f \in [Ranks -> Nat]
        BY <4>5
      <4>7. recvCount' = [recvCount EXCEPT ![o][e] = f]
        BY <4>4, <4>5
      <4> QED
        BY <4>6, <4>7
    <3>6. recvSum' \in [Ranks -> [Experts -> CountWords]]
      <4> DEFINE word == [n |-> recvSum[x[1]][x[2]].n + sendCount[r][x].n,
                          ctas |-> recvSum[x[1]][x[2]].ctas
                                     + (IF setup.lean THEN NumSMs ELSE sendCount[r][x].ctas)]
      <4>1. recvSum' = [recvSum EXCEPT ![x[1]][x[2]] = word]
        BY <2>4 DEF Broadcast
      <4>2. recvSum[x[1]][x[2]] \in CountWords
        BY <3>3
      <4>3. word \in CountWords
        <5>1. PICK c \in Nat : c = IF setup.lean THEN NumSMs ELSE sendCount[r][x].ctas
          BY <3>4
        <5>2. recvSum[x[1]][x[2]].n \in Nat /\ recvSum[x[1]][x[2]].ctas \in Nat
          BY <4>2 DEF CountWords
        <5>3. recvSum[x[1]][x[2]].n + sendCount[r][x].n \in Nat
          BY <3>4, <5>2, SumIsNat
        <5>4. recvSum[x[1]][x[2]].ctas + c \in Nat
          BY <5>2, SumIsNat
        <5> QED
          BY <5>1, <5>3, <5>4 DEF CountWords
      <4> HIDE DEF word
      <4> QED
        BY <3>3, <4>1, <4>3
    <3> QED
      BY <3>1, <3>2, <3>5, <3>6, SetupStands DEF poolVars, launchVars, pullVars, mathVars
  <2>5. ASSUME NEW where \in PcStates, Goto(r, sm, where),
               UNCHANGED <<countVars, poolVars, nvSignals, launchVars, todo, pullVars, mathVars>>
        PROVE  TypeInv'
    <3>1. setup' = setup
      BY <2>5 DEF launchVars
    <3>2. pc' \in [Ranks -> [SMs -> PcStates]]
      BY <2>5 DEF Goto
    <3> QED
      BY <2>5, <3>1, <3>2, SetupStands DEF countVars, poolVars, launchVars, pullVars, mathVars
  <2>6. ASSUME FetchCounts(r, sm) PROVE TypeInv'
    <3>1. /\ setup' = setup
          /\ UNCHANGED <<countVars, poolVars, nvSignals, launchVars, todo, slot, mathVars>>
      BY <2>6 DEF FetchCounts, launchVars
    <3>2. pc' \in [Ranks -> [SMs -> PcStates]] /\ token' \in [Ranks -> [SMs -> Nat]]
      BY <2>6 DEF FetchCounts, Goto, PcStates, SMs
    <3>3. Counts(r) \in [Experts -> Nat]
      BY DEF Counts, CountWords
    <3>4. seen' \in [Ranks -> [SMs -> [Experts -> Nat]]]
      BY <2>6, <3>3 DEF FetchCounts
    <3> QED
      BY <3>1, <3>2, <3>4, SetupStands DEF countVars, poolVars, launchVars, mathVars
  <2>7. ASSUME PullRow(r, sm) PROVE TypeInv'
    <3>1. /\ setup' = setup
          /\ UNCHANGED <<countVars, arrivals, nvSignals, launchVars, todo, pullVars, mathVars>>
      BY <2>7 DEF PullRow, launchVars
    <3>2. pc' \in [Ranks -> [SMs -> PcStates]]
      BY <2>7, SMTT(40) DEF PullRow, Goto, PcStates
    <3>3. PICK p, v : pool' = [pool EXCEPT ![r][p] = v]
      BY <2>7 DEF PullRow
    <3>4. DOMAIN pool' = Ranks /\ \A q \in Ranks : DOMAIN pool'[q] = 0 .. PoolRows - 1
      BY <3>3
    <3> QED
      BY <3>1, <3>2, <3>4, SetupStands DEF countVars, launchVars, pullVars, mathVars
  <2>8. ASSUME CountArrival(r, sm) PROVE TypeInv'
    <3>1. /\ setup' = setup
          /\ UNCHANGED <<countVars, pool, nvSignals, launchVars, todo, slot, seen, mathVars>>
      BY <2>8 DEF CountArrival, launchVars
    <3>2. pc' \in [Ranks -> [SMs -> PcStates]] /\ token' \in [Ranks -> [SMs -> Nat]]
      BY <2>8 DEF CountArrival, Goto, PcStates
    <3>3. PICK b : arrivals' = [arrivals EXCEPT ![r][b] = @ + 1]
      BY <2>8 DEF CountArrival
    <3>4. arrivals' \in [Ranks -> [Blocks -> Nat]]
      <4>1. PICK f \in [Blocks -> Nat] : f = [arrivals[r] EXCEPT ![b] = @ + 1]
        <5>1. arrivals[r] \in [Blocks -> Nat]
          OBVIOUS
        <5>2. PICK g : g = [arrivals[r] EXCEPT ![b] = @ + 1]
          OBVIOUS
        <5>3. g \in [Blocks -> Nat]
          <6>1. CASE b \in Blocks
            BY <5>1, <5>2, <6>1
          <6>2. CASE b \notin Blocks
            BY <5>1, <5>2, <6>2
          <6> QED
            BY <6>1, <6>2
        <5> QED
          BY <5>2, <5>3
      <4>2. arrivals' = [arrivals EXCEPT ![r] = f]
        BY <3>3, <4>1
      <4> QED
        BY <4>2
    <3> QED
      BY <3>1, <3>2, <3>4, SetupStands DEF countVars, launchVars, mathVars
  <2>9. ASSUME Cleanup(r, sm) PROVE TypeInv'
    <3>1. /\ setup' = setup
          /\ UNCHANGED <<srcIndex, pool, nvSignals, launchVars, todo, slot, math, known, task,
                         loaded>>
      BY <2>9 DEF Cleanup, launchVars
    <3>2. pc' \in [Ranks -> [SMs -> PcStates]]
      BY <2>9 DEF Cleanup, Goto, PcStates
    <3>3. seen' \in [Ranks -> [SMs -> [Experts -> Nat]]] /\ token' \in [Ranks -> [SMs -> Nat]]
      BY <2>9 DEF Cleanup, NoCounts
    <3>4. Zero \in CountWords
      BY DEF Zero, CountWords
    <3>5. CASE sm = 0
      <4>1. /\ sendCount' = [sendCount EXCEPT ![r] = [x \in AllExperts |-> Zero]]
            /\ claimed' = [claimed EXCEPT ![r] = 0]
            /\ UNCHANGED <<recvCount, recvSum, arrivals>>
        BY <2>9, <3>5 DEF Cleanup
      <4>2. sendCount' \in [Ranks -> [AllExperts -> CountWords]] /\ claimed' \in [Ranks -> Nat]
        BY <3>4, <4>1
      <4> QED
        BY <3>1, <3>2, <3>3, <4>1, <4>2, SetupStands DEF launchVars
    <3>6. CASE sm # 0
      <4>1. PICK mine, blocks :
              /\ recvSum' = [recvSum EXCEPT ![r] =
                     [e \in Experts |-> IF e \in mine THEN Zero ELSE @[e]]]
              /\ recvCount' = [recvCount EXCEPT ![r] =
                     [e \in Experts |-> IF e \in mine THEN [q \in Ranks |-> 0] ELSE @[e]]]
              /\ arrivals' = [arrivals EXCEPT ![r] =
                     [b \in Blocks |-> IF b \in blocks THEN 0 ELSE @[b]]]
              /\ UNCHANGED <<sendCount, claimed>>
        <5> DEFINE M == { e \in Experts : e % (NumSMs - 1) = sm - 1 }
                   B == UNION { Cleared(r, sm, e) : e \in M }
        <5>1. /\ recvSum' = [recvSum EXCEPT ![r] =
                     [e \in Experts |-> IF e \in M THEN Zero ELSE @[e]]]
              /\ recvCount' = [recvCount EXCEPT ![r] =
                     [e \in Experts |-> IF e \in M THEN [q \in Ranks |-> 0] ELSE @[e]]]
              /\ arrivals' = [arrivals EXCEPT ![r] =
                     [b \in Blocks |-> IF b \in B THEN 0 ELSE @[b]]]
              /\ UNCHANGED <<sendCount, claimed>>
          BY <2>9, <3>6 DEF Cleanup
        <5> HIDE DEF M, B
        <5> QED
          BY <5>1
      <4>2. recvSum' \in [Ranks -> [Experts -> CountWords]]
        BY <3>4, <4>1
      <4>3. recvCount' \in [Ranks -> [Experts -> [Ranks -> Nat]]]
        BY <4>1
      <4>4. arrivals' \in [Ranks -> [Blocks -> Nat]]
        BY <4>1
      <4> QED
        BY <3>1, <3>2, <3>3, <4>1, <4>2, <4>3, <4>4, SetupStands DEF launchVars
    <3> QED
      BY <3>5, <3>6
  <2>10. {"fetch", "grid2", "cleanup", "exited"} \subseteq PcStates
    BY DEF PcStates
  <2>11. LeaveBarrier1(r, sm) => TypeInv'
    BY <2>5, <2>10 DEF LeaveBarrier1
  <2>12. Join(r, sm) => TypeInv'
    BY <2>5, <2>10 DEF Join
  <2>13. LeaveGridSync2(r, sm) => TypeInv'
    BY <2>5, <2>10 DEF LeaveGridSync2
  <2>14. LeaveBarrier3(r, sm) => TypeInv'
    BY <2>5, <2>10 DEF LeaveBarrier3
  <2> QED
    BY <1>4, <2>1, <2>2, <2>3, <2>4, <2>6, <2>7, <2>8, <2>9, <2>11, <2>12, <2>13, <2>14
    DEF DispatchStep
<1>5. ASSUME NEW r \in Ranks, NEW sm \in SMs, MathStep(r, sm) PROVE TypeInv'
  <2>1. ASSUME NEW m \in MathStates, math' = [math EXCEPT ![r][sm] = m],
               known' \in [Ranks -> [SMs -> [Experts -> Nat]]],
               claimed' \in [Ranks -> Nat], task' \in [Ranks -> [SMs -> Nat]],
               loaded' \in [Ranks -> SUBSET Nat],
               UNCHANGED <<countVars, poolVars, nvSignals, launchVars, pc, todo, pullVars>>
        PROVE  TypeInv'
    <3>1. setup' = setup
      BY <2>1 DEF launchVars
    <3>2. math' \in [Ranks -> [SMs -> MathStates]]
      BY <2>1
    <3> QED
      BY <2>1, <3>1, <3>2, SetupStands DEF countVars, poolVars, launchVars, pullVars
  <2>2. {"claim", "load", "barrier2", "done"} \subseteq MathStates
    BY DEF MathStates
  <2>3. Counts(r) \in [Experts -> Nat] /\ NoCounts \in [Experts -> Nat]
    BY DEF Counts, CountWords, NoCounts
  <2>4. CASE StartTasks(r, sm)
    <3>1. /\ math' = [math EXCEPT ![r][sm] = "claim"]
          /\ known' = [known EXCEPT ![r][sm] = Counts(r)]
          /\ UNCHANGED <<claimed, task, loaded>>
          /\ UNCHANGED <<countVars, poolVars, nvSignals, launchVars, pc, todo, pullVars>>
      BY <2>4 DEF StartTasks
    <3>2. known' \in [Ranks -> [SMs -> [Experts -> Nat]]]
      BY <2>3, <3>1
    <3>3. claimed' \in [Ranks -> Nat] /\ task' \in [Ranks -> [SMs -> Nat]] /\ loaded' \in [Ranks -> SUBSET Nat]
      BY <3>1
    <3> QED
      BY <2>1, <2>2, <3>1, <3>2, <3>3
  <2>5. CASE ClaimBlock(r, sm)
    <3>1. /\ UNCHANGED <<countVars, poolVars, nvSignals, launchVars, pc, todo, pullVars, loaded>>
          /\ claimed' = [claimed EXCEPT ![r] = @ + 1]
      BY <2>5 DEF ClaimBlock
    <3>2. claimed' \in [Ranks -> Nat] /\ loaded' \in [Ranks -> SUBSET Nat]
      BY <3>1
    <3>3. CASE claimed[r] < FirstBlock(known[r][sm], NumExperts)
      <4>1. /\ math' = [math EXCEPT ![r][sm] = "load"]
            /\ task' = [task EXCEPT ![r][sm] = claimed[r]] /\ known' = known
        BY <2>5, <3>3 DEF ClaimBlock
      <4>2. task' \in [Ranks -> [SMs -> Nat]] /\ known' \in [Ranks -> [SMs -> [Experts -> Nat]]]
        BY <4>1
      <4> QED
        BY <2>1, <2>2, <3>1, <3>2, <4>1, <4>2
    <3>4. CASE ~(claimed[r] < FirstBlock(known[r][sm], NumExperts))
      <4>1. /\ math' = [math EXCEPT ![r][sm] = IF FineCombine THEN "done" ELSE "barrier2"]
            /\ task' = [task EXCEPT ![r][sm] = 0] /\ known' = [known EXCEPT ![r][sm] = NoCounts]
        BY <2>5, <3>4 DEF ClaimBlock
      <4>2. task' \in [Ranks -> [SMs -> Nat]] /\ known' \in [Ranks -> [SMs -> [Experts -> Nat]]]
        BY <2>3, <4>1
      <4>3. PICK m \in MathStates : math' = [math EXCEPT ![r][sm] = m]
        BY <2>2, <4>1
      <4> QED
        BY <2>1, <3>1, <3>2, <4>2, <4>3
    <3> QED
      BY <3>3, <3>4
  <2>6. CASE LoadBlock(r, sm)
    <3>1. /\ math' = [math EXCEPT ![r][sm] = "claim"]
          /\ loaded' = [loaded EXCEPT ![r] = @ \cup {task[r][sm]}]
          /\ UNCHANGED <<claimed, task, known>>
          /\ UNCHANGED <<countVars, poolVars, nvSignals, launchVars, pc, todo, pullVars>>
      BY <2>6 DEF LoadBlock
    <3>2. task[r][sm] \in Nat
      OBVIOUS
    <3>3. loaded' \in [Ranks -> SUBSET Nat]
      BY <3>1, <3>2
    <3>4. claimed' \in [Ranks -> Nat] /\ task' \in [Ranks -> [SMs -> Nat]]
          /\ known' \in [Ranks -> [SMs -> [Experts -> Nat]]]
      BY <3>1
    <3> QED
      BY <2>1, <2>2, <3>1, <3>3, <3>4
  <2>7. CASE LeaveBarrier2(r, sm)
    <3>1. /\ math' = [math EXCEPT ![r][sm] = "done"]
          /\ UNCHANGED <<claimed, task, known, loaded>>
          /\ UNCHANGED <<countVars, poolVars, nvSignals, launchVars, pc, todo, pullVars>>
      BY <2>7 DEF LeaveBarrier2
    <3>2. claimed' \in [Ranks -> Nat] /\ task' \in [Ranks -> [SMs -> Nat]]
          /\ known' \in [Ranks -> [SMs -> [Experts -> Nat]]] /\ loaded' \in [Ranks -> SUBSET Nat]
      BY <3>1
    <3> QED
      BY <2>1, <2>2, <3>1, <3>2
  <2> QED
    BY <1>5, <2>4, <2>5, <2>6, <2>7 DEF MathStep
<1>6. ASSUME NEW r \in Ranks, RankStep(r) PROVE TypeInv'
  BY <1>2, <1>3, <1>6 DEF RankStep, Signal1, Signal2, Signal3
<1> QED
  BY <1>1, <1>4, <1>5, <1>6 DEF Next, Finished

-----------------------------------------------------------------------------
(***************************************************************************)
(* Control.                                                                *)
(***************************************************************************)
LEMMA BarrierFacts ==
  ASSUME TypeInv, NEW r \in Ranks
  PROVE  /\ BarriersPerLaunch \in {2, 3} /\ (FineCombine <=> BarriersPerLaunch = 2)
         /\ \A k \in Int : Barrier(r, k) = BarriersPerLaunch * launch[r] - BarriersPerLaunch + k
         /\ \A k \in Int : Barrier(r, k) \in Int
         /\ launch[r] \in Nat /\ nvSignals[r] \in Nat
         /\ BarriersPerLaunch * launch[r] \in Nat
         /\ Barrier(r, BarriersPerLaunch) = BarriersPerLaunch * launch[r]
<1>1. launch[r] \in Nat /\ nvSignals[r] \in Nat
  BY DEF TypeInv
<1>2. BarriersPerLaunch \in {2, 3} /\ (FineCombine <=> BarriersPerLaunch = 2)
  BY SetupFacts DEF TypeInv, BarriersPerLaunch
<1>3. BarriersPerLaunch * launch[r] \in Nat
  BY <1>1, <1>2
<1> QED
  BY <1>1, <1>2, <1>3 DEF Barrier

LEMMA StageFrame ==
  ASSUME setup' = setup, NEW q, StageInv(q),
         pc'[q] = pc[q], todo'[q] = todo[q], math'[q] = math[q], routing'[q] = routing[q]
  PROVE  StageInv(q)'
<1>1. /\ AllExperts' = AllExperts /\ FineCombine' = FineCombine /\ NumExperts' = NumExperts
      /\ Rows' = Rows
  BY SetupStands
<1>2. \A o \in SMs : RowsOf(q, o)' = RowsOf(q, o) /\ Written(q, o)' = Written(q, o)
                     /\ AfterGrid(q, o)' = AfterGrid(q, o) /\ Leaving(q, o)' = Leaving(q, o)
                     /\ Past1(q, o)' = Past1(q, o)
  BY <1>1 DEF RowsOf, Written, AfterGrid, Leaving, Past1
<1>3. InBarrier3(q)' = InBarrier3(q) /\ \A x : Teller(x)' = Teller(x)
  BY <1>1 DEF InBarrier3, Teller
<1> QED
  BY <1>1, <1>2, <1>3 DEF StageInv

LEMMA AllSignalledKept ==
  ASSUME setup' = setup, TypeInv, TypeInv', \A o \in Ranks : nvSignals'[o] >= nvSignals[o],
         NEW n \in Int, AllSignalled(n)
  PROVE  AllSignalled(n)'
<1>1. \A o \in Ranks : nvSignals'[o] \in Nat /\ nvSignals[o] \in Nat
  BY SetupStands DEF TypeInv
<1> QED
  BY <1>1, SetupStands DEF AllSignalled

LEMMA SignalFrame ==
  ASSUME setup' = setup, TypeInv, TypeInv', NEW q \in Ranks, SignalInv(q),
         pc'[q] = pc[q], todo'[q] = todo[q], math'[q] = math[q], launch'[q] = launch[q],
         nvSignals'[q] = nvSignals[q], \A o \in Ranks : nvSignals'[o] >= nvSignals[o]
  PROVE  SignalInv(q)'
<1>1. /\ FineCombine' = FineCombine /\ BarriersPerLaunch' = BarriersPerLaunch
      /\ Ranks' = Ranks
  BY SetupStands
<1>2. \A k \in Int : Barrier(q, k)' = Barrier(q, k) /\ Barrier(q, k) \in Int
  BY <1>1, BarrierFacts DEF Barrier
<1>3. InBarrier3(q)' = InBarrier3(q) /\ AllPublished(q)' = AllPublished(q)
      /\ \A o \in SMs : Past1(q, o)' = Past1(q, o)
  BY DEF InBarrier3, AllPublished, Past1, AfterGrid
<1>4. \A k \in Int : AllSignalled(Barrier(q, k)) => AllSignalled(Barrier(q, k))'
  <2> TAKE k \in Int
  <2>1. AllSignalled(Barrier(q, k)) => \A o \in Ranks : nvSignals'[o] >= Barrier(q, k)
    <3>1. \A o \in Ranks : nvSignals'[o] \in Nat /\ nvSignals[o] \in Nat
      BY <1>1 DEF TypeInv
    <3> QED
      BY <1>2, <3>1 DEF AllSignalled
  <2> QED
    BY <1>1, <1>2, <2>1 DEF AllSignalled
<1>5. BarriersPerLaunch \in Int /\ 0 \in Int /\ 1 \in Int /\ 2 \in Int
  BY BarrierFacts
<1> QED
  BY <1>1, <1>2, <1>3, <1>4, <1>5 DEF SignalInv

LEMMA SkewFrame ==
  ASSUME setup' = setup, SkewInv, launch' = launch, nvSignals' = nvSignals
  PROVE  SkewInv'
<1>1. Ranks' = Ranks /\ BarriersPerLaunch' = BarriersPerLaunch
  BY SetupStands
<1>2. \A q, k : Barrier(q, k)' = Barrier(q, k)
  BY <1>1 DEF Barrier
<1> QED
  BY <1>1, <1>2 DEF SkewInv

\* A step of one CTA that only goes on.
LEMMA CtaControl ==
  ASSUME TypeInv, TypeInv', ControlInv, NEW r \in Ranks, NEW sm \in SMs,
         UNCHANGED <<setup, launch, routing, nvSignals>>,
         \A q \in Ranks : q # r => pc'[q] = pc[q] /\ todo'[q] = todo[q] /\ math'[q] = math[q],
         \A o \in SMs : o # sm =>
           pc'[r][o] = pc[r][o] /\ todo'[r][o] = todo[r][o] /\ math'[r][o] = math[r][o],
         AfterGrid(r, sm) => AfterGrid(r, sm)',
         AfterGrid(r, sm)' => AfterGrid(r, sm) \/ \A o \in SMs : Written(r, o),
         Written(r, sm) => Written(r, sm)',
         AfterGrid(r, sm) /\ todo[r][sm] = {} => todo'[r][sm] = {},
         pc'[r][sm] \notin {"write", "broadcast"} => todo'[r][sm] = {},
         pc'[r][sm] = "write" => todo'[r][sm] \subseteq RowsOf(r, sm),
         pc'[r][sm] = "broadcast" => \A x \in todo'[r][sm] : x \in AllExperts /\ Teller(x) = sm,
         Leaving(r, sm) => Leaving(r, sm)',
         Leaving(r, sm)' => math'[r][sm] = "done",
         FineCombine /\ Leaving(r, sm)' /\ pc'[r][sm] # "grid2" => \A o \in SMs : Leaving(r, o),
         pc'[r][sm] = "grid2" => FineCombine,
         math'[r][sm] = "barrier2" => ~FineCombine,
         math'[r][sm] \in {"barrier2", "done"} => Past1(r, sm)',
         math[r][sm] \in {"barrier2", "done"} => math'[r][sm] \in {"barrier2", "done"},
         Ended(r, sm) => Ended(r, sm)',
         pc'[r][sm] = "exited" => InBarrier3(r),
         Past1(r, sm)' => Past1(r, sm) \/ AllSignalled(Barrier(r, 1)),
         ~FineCombine /\ math'[r][sm] = "done" =>
           math[r][sm] = "done" \/ AllSignalled(Barrier(r, 2)),
         sm = 0 /\ pc'[r][sm] = "exited" =>
           pc[r][sm] = "exited" \/ AllSignalled(Barrier(r, BarriersPerLaunch))
  PROVE  ControlInv'
<1>1. /\ AllExperts' = AllExperts /\ FineCombine' = FineCombine /\ NumExperts' = NumExperts
      /\ Rows' = Rows /\ Ranks' = Ranks /\ BarriersPerLaunch' = BarriersPerLaunch
  BY SetupStands
<1>2. \A q \in Ranks : nvSignals'[q] >= nvSignals[q]
  BY DEF TypeInv
<1>3. SkewInv'
  BY SkewFrame DEF ControlInv
<1>4. ASSUME NEW q \in Ranks, q # r PROVE StageInv(q)' /\ SignalInv(q)'
  BY <1>2, <1>4, StageFrame, SignalFrame DEF ControlInv
<1>5. /\ \A o \in SMs : RowsOf(r, o)' = RowsOf(r, o)
      /\ \A x : Teller(x)' = Teller(x)
      /\ \A k : Barrier(r, k)' = Barrier(r, k)
      /\ \A k : AllSignalled(Barrier(r, k))' = AllSignalled(Barrier(r, k))
  BY <1>1 DEF RowsOf, Teller, Barrier, AllSignalled
<1>6. \A o \in SMs : o # sm =>
        /\ AfterGrid(r, o)' = AfterGrid(r, o) /\ Written(r, o)' = Written(r, o)
        /\ Leaving(r, o)' = Leaving(r, o) /\ Ended(r, o)' = Ended(r, o)
        /\ Past1(r, o)' = Past1(r, o)
  BY DEF AfterGrid, Written, Leaving, Ended, Past1
<1>7. InBarrier3(r) => InBarrier3(r)'
  <2>1. InBarrier3(r) <=> \A o \in SMs : Ended(r, o)
    BY DEF InBarrier3, Ended
  <2>2. InBarrier3(r)' <=> \A o \in SMs : Ended(r, o)'
    BY DEF InBarrier3, Ended
  <2> QED
    BY <1>6, <2>1, <2>2
<1>8. StageInv(r)'
  <2> SUFFICES ASSUME NEW o \in SMs
               PROVE  StageInv(r)!(o)'
    BY DEF StageInv
  <2>0. StageInv(r)
    BY DEF ControlInv
  <2>1. AfterGrid(r, o)' => \A k \in SMs : Written(r, k)'
    BY <1>6, <2>0 DEF StageInv
  <2>2. /\ pc'[r][o] \notin {"write", "broadcast"} => todo'[r][o] = {}
        /\ pc'[r][o] = "write" => todo'[r][o] \subseteq RowsOf(r, o)
        /\ pc'[r][o] = "broadcast" => \A x \in todo'[r][o] : x \in AllExperts /\ Teller(x) = o
    BY <2>0 DEF StageInv
  <2>3. /\ Leaving(r, o)' => math'[r][o] = "done"
        /\ pc'[r][o] = "grid2" => FineCombine
        /\ math'[r][o] = "barrier2" => ~FineCombine
        /\ math'[r][o] \in {"barrier2", "done"} => Past1(r, o)'
    BY <1>6, <2>0 DEF StageInv
  <2>4. FineCombine /\ Leaving(r, o)' /\ pc'[r][o] # "grid2" => \A k \in SMs : Leaving(r, k)'
    BY <1>6, <2>0 DEF StageInv
  <2>5. pc'[r][o] = "exited" => InBarrier3(r)'
    BY <1>7, <2>0 DEF StageInv
  <2> QED
    BY <1>1, <1>5, <2>1, <2>2, <2>3, <2>4, <2>5
<1>9. SignalInv(r)'
  <2>0. SignalInv(r)
    BY DEF ControlInv
  <2>1. AllPublished(r) => AllPublished(r)'
    BY <1>6 DEF AllPublished
  <2>2. \A o \in SMs : Past1(r, o)' => AllSignalled(Barrier(r, 1))
    BY <1>6, <2>0 DEF SignalInv
  <2>3. \A o \in SMs : ~FineCombine /\ math'[r][o] = "done" => AllSignalled(Barrier(r, 2))
    BY <2>0 DEF SignalInv
  <2>4. pc'[r][0] = "exited" => AllSignalled(Barrier(r, BarriersPerLaunch))
    BY <2>0, SetupFacts DEF SignalInv, SMs, TypeInv
  <2>5. (\A o \in SMs : math[r][o] \in {"barrier2", "done"}) =>
          \A o \in SMs : math'[r][o] \in {"barrier2", "done"}
    OBVIOUS
  <2> QED
    BY <1>1, <1>5, <1>7, <2>0, <2>1, <2>2, <2>3, <2>4, <2>5 DEF SignalInv
<1> QED
  BY <1>1, <1>3, <1>4, <1>8, <1>9 DEF ControlInv

LEMMA InitControl == Init => ControlInv
<1> SUFFICES ASSUME Init PROVE ControlInv
  OBVIOUS
<1>1. TypeInv
  BY InitType
<1>2. \A r \in Ranks : launch[r] = 0 /\ nvSignals[r] = 0
  BY DEF Init
<1>3. \A r \in Ranks : \A sm \in SMs :
        pc[r][sm] = "exited" /\ math[r][sm] = "done" /\ todo[r][sm] = {}
  BY DEF Init
<1>4. ASSUME NEW r \in Ranks PROVE StageInv(r)
  BY <1>3 DEF StageInv, AfterGrid, Written, Leaving, Past1, InBarrier3
<1>5. ASSUME NEW r \in Ranks PROVE SignalInv(r)
  <2>1. /\ Barrier(r, 0) < 0 /\ Barrier(r, 1) < 0 /\ Barrier(r, 2) <= 0
        /\ Barrier(r, BarriersPerLaunch) = 0
    BY <1>1, <1>2, BarrierFacts
  <2>2. /\ AllSignalled(Barrier(r, 1)) /\ AllSignalled(Barrier(r, 2))
        /\ AllSignalled(Barrier(r, BarriersPerLaunch))
    <3>1. \A k \in {1, 2, BarriersPerLaunch} : Barrier(r, k) \in Int /\ Barrier(r, k) <= 0
      BY <1>1, <2>1, BarrierFacts
    <3> QED
      BY <1>2, <3>1 DEF AllSignalled
  <2>3. InBarrier3(r) /\ AllPublished(r)
    BY <1>3 DEF InBarrier3, AllPublished, AfterGrid
  <2> QED
    <3>1. Barrier(r, 0) <= nvSignals[r] /\ nvSignals[r] <= Barrier(r, BarriersPerLaunch)
          /\ \A sm \in SMs : math[r][sm] \in {"barrier2", "done"}
      <4>1. Barrier(r, 0) \in Int
        BY <1>1, BarrierFacts
      <4> QED
        BY <1>2, <1>3, <2>1, <4>1
    <3> QED
      BY <2>2, <2>3, <3>1 DEF SignalInv
<1>6. SkewInv
  BY <1>2 DEF SkewInv
<1> QED
  BY <1>4, <1>5, <1>6 DEF ControlInv

LEMMA LaunchControl ==
  ASSUME TypeInv, TypeInv', ControlInv, NEW r \in Ranks, Launch(r)
  PROVE  /\ ControlInv'
         /\ launch'[r] = launch[r] + 1
         /\ \A q \in Ranks : nvSignals[q] >= BarriersPerLaunch * launch[r]
         /\ nvSignals[r] = BarriersPerLaunch * launch[r]
<1>1. /\ setup' = setup /\ nvSignals' = nvSignals /\ todo' = todo
      /\ launch' = [launch EXCEPT ![r] = @ + 1]
      /\ pc' = [pc EXCEPT ![r] = [sm \in SMs |-> "stake"]]
      /\ math' = [math EXCEPT ![r] = [sm \in SMs |-> "start"]]
      /\ \E t : routing' = [routing EXCEPT ![r] = t]
  BY DEF Launch
<1>2. /\ Ranks' = Ranks /\ BarriersPerLaunch' = BarriersPerLaunch /\ FineCombine' = FineCombine
  BY <1>1, SetupStands
<1>3. \A q \in Ranks : q # r => /\ pc'[q] = pc[q] /\ math'[q] = math[q] /\ routing'[q] = routing[q]
                                /\ launch'[q] = launch[q]
  BY <1>1 DEF TypeInv
<1>4. launch'[r] = launch[r] + 1 /\ \A sm \in SMs : pc'[r][sm] = "stake" /\ math'[r][sm] = "start"
  BY <1>1 DEF TypeInv
<1>5. \A sm \in SMs : pc[r][sm] = "exited" /\ math[r][sm] = "done" /\ todo[r][sm] = {}
  BY DEF Launch, Idle, ControlInv, StageInv
<1>6. AllSignalled(Barrier(r, BarriersPerLaunch)) /\ nvSignals[r] <= Barrier(r, BarriersPerLaunch)
  BY <1>5, SetupFacts DEF ControlInv, SignalInv, SMs, TypeInv
<1>7. \A q \in Ranks : nvSignals[q] >= BarriersPerLaunch * launch[r]
  BY <1>6, BarrierFacts DEF AllSignalled
<1>8. nvSignals[r] = BarriersPerLaunch * launch[r]
  <2>1. /\ nvSignals[r] <= BarriersPerLaunch * launch[r]
        /\ nvSignals[r] >= BarriersPerLaunch * launch[r]
        /\ nvSignals[r] \in Nat /\ BarriersPerLaunch * launch[r] \in Nat
    BY <1>6, <1>7, BarrierFacts
  <2> QED
    BY <2>1
<1>9. \A q \in Ranks : launch[q] >= launch[r]
  <2> TAKE q \in Ranks
  <2>1. nvSignals[q] <= BarriersPerLaunch * launch[q]
    BY BarrierFacts DEF ControlInv, SignalInv
  <2> QED
    BY <1>7, <2>1, BarrierFacts
<1>10. ASSUME NEW q \in Ranks, q # r PROVE StageInv(q)' /\ SignalInv(q)'
  <2>1. \A o \in Ranks : nvSignals'[o] >= nvSignals[o]
    BY <1>1 DEF TypeInv
  <2> QED
    BY <1>1, <1>3, <1>10, <2>1, StageFrame, SignalFrame DEF ControlInv
<1>11. StageInv(r)'
  BY <1>1, <1>4, <1>5 DEF StageInv, AfterGrid, Leaving, Past1
<1>12. SignalInv(r)'
  <2>1. \A k \in Int : Barrier(r, k)' = BarriersPerLaunch * launch[r] + k
    BY <1>2, <1>4, BarrierFacts DEF Barrier
  <2>2. /\ Barrier(r, 0)' = nvSignals'[r] /\ nvSignals'[r] < Barrier(r, 1)'
        /\ nvSignals'[r] < Barrier(r, 2)' /\ nvSignals'[r] < Barrier(r, BarriersPerLaunch)'
    BY <1>1, <1>2, <1>8, <2>1, BarrierFacts
  <2>3. \A sm \in SMs : ~Past1(r, sm)' /\ math'[r][sm] # "done" /\ pc'[r][sm] # "exited"
    BY <1>4 DEF Past1
  <2>4. 0 \in SMs
    BY SetupFacts DEF SMs, TypeInv
  <2>5. Barrier(r, BarriersPerLaunch)' \in Int /\ nvSignals'[r] \in Nat /\ Barrier(r, 1)' \in Int
        /\ Barrier(r, 2)' \in Int
    BY <1>1, <1>2, <2>1, BarrierFacts
  <2> QED
    BY <1>2, <2>2, <2>3, <2>4, <2>5 DEF SignalInv
<1>13. SkewInv'
  <2> SUFFICES ASSUME NEW p \in Ranks, NEW q \in Ranks, launch'[p] > launch'[q]
               PROVE  /\ launch'[p] = launch'[q] + 1
                      /\ nvSignals'[q] = Barrier(q, BarriersPerLaunch)'
    BY <1>2 DEF SkewInv
  <2>1. launch[p] \in Nat /\ launch[q] \in Nat
    BY BarrierFacts
  <2>2. CASE p = r
    <3>1. q # r
      BY <2>1, <2>2, <1>4
    <3>2. launch[q] = launch[r]
      <4>1. launch[r] + 1 > launch[q] /\ launch[q] >= launch[r]
        BY <1>3, <1>4, <1>9, <2>2, <3>1
      <4> QED
        BY <2>1, <2>2, <4>1
    <3>3. nvSignals[q] <= BarriersPerLaunch * launch[q]
      BY BarrierFacts DEF ControlInv, SignalInv
    <3>4. nvSignals[q] = BarriersPerLaunch * launch[q]
      <4>1. /\ nvSignals[q] >= BarriersPerLaunch * launch[q]
            /\ nvSignals[q] \in Nat /\ BarriersPerLaunch * launch[q] \in Nat
        BY <1>7, <3>2, BarrierFacts
      <4> QED
        BY <3>3, <4>1
    <3>5. Barrier(q, BarriersPerLaunch)' = BarriersPerLaunch * launch[q]
      BY <1>2, <1>3, <3>1, BarrierFacts DEF Barrier
    <3> QED
      BY <1>1, <1>3, <1>4, <2>2, <3>1, <3>2, <3>4, <3>5
  <2>3. CASE p # r
    <3>1. q # r
      <4>1. launch[p] <= launch[r] + 1
        BY <2>1, BarrierFacts DEF ControlInv, SkewInv
      <4> QED
        BY <1>3, <1>4, <2>1, <2>3, <4>1
    <3>2. Barrier(q, BarriersPerLaunch)' = Barrier(q, BarriersPerLaunch)
      BY <1>2, <1>3, <3>1 DEF Barrier
    <3> QED
      BY <1>1, <1>3, <2>3, <3>1, <3>2 DEF ControlInv, SkewInv
  <2> QED
    BY <2>2, <2>3
<1> QED
  BY <1>2, <1>4, <1>7, <1>8, <1>10, <1>11, <1>12, <1>13 DEF ControlInv

LEMMA SignalControl ==
  ASSUME TypeInv, TypeInv', ControlInv, NEW r \in Ranks, Signal1(r) \/ Signal2(r) \/ Signal3(r)
  PROVE  ControlInv'
<1>1. PICK k \in {1, 2, BarriersPerLaunch} :
        /\ SendSignals(r, Barrier(r, k))
        /\ k = 1 => AllPublished(r)
        /\ k = 2 /\ k # BarriersPerLaunch => \A sm \in SMs : math[r][sm] = "barrier2"
        /\ k = 2 => ~FineCombine \/ k = BarriersPerLaunch
        /\ k = BarriersPerLaunch => InBarrier3(r)
  <2>0. BarriersPerLaunch # 1 /\ (BarriersPerLaunch = 2 <=> FineCombine)
    BY BarrierFacts
  <2>1. CASE Signal1(r)
    <3>1. \A sm \in SMs : Published(r, sm) => AfterGrid(r, sm) /\ todo[r][sm] = {}
      BY DEF Published, AfterGrid
    <3> QED
      BY <2>0, <2>1, <3>1 DEF Signal1, AllPublished
  <2>2. CASE Signal2(r)
    BY <2>0, <2>2 DEF Signal2
  <2>3. CASE Signal3(r)
    BY <2>0, <2>3 DEF Signal3
  <2> QED
    BY <2>1, <2>2, <2>3
<1>2. /\ UNCHANGED <<setup, launch, routing, pc, todo, math>>
      /\ nvSignals[r] = Barrier(r, k) - 1 /\ nvSignals'[r] = Barrier(r, k)
      /\ \A q \in Ranks : q # r => nvSignals'[q] = nvSignals[q]
  <2>1. nvSignals[r] \in Nat /\ Barrier(r, k) \in Int
    BY BarrierFacts
  <2> QED
    BY <1>1, <2>1 DEF SendSignals, launchVars, mathVars, TypeInv
<1>3. \A q \in Ranks : nvSignals'[q] >= nvSignals[q]
  BY <1>2, BarrierFacts
<1>4. Ranks' = Ranks /\ BarriersPerLaunch' = BarriersPerLaunch /\ FineCombine' = FineCombine
  BY <1>2, SetupStands
<1>5. ASSUME NEW q \in Ranks PROVE StageInv(q)'
  BY <1>2, StageFrame DEF ControlInv
<1>6. ASSUME NEW q \in Ranks, q # r PROVE SignalInv(q)'
  BY <1>2, <1>3, <1>6, SignalFrame DEF ControlInv
<1>7. SignalInv(r)'
  <2>0. SignalInv(r)
    BY DEF ControlInv
  <2>1. \A j : Barrier(r, j)' = Barrier(r, j)
    BY <1>2, <1>4 DEF Barrier
  <2>2. Barrier(r, 0) <= nvSignals'[r] /\ nvSignals'[r] <= Barrier(r, BarriersPerLaunch)
    <3>1. 0 <= k /\ k <= BarriersPerLaunch
      BY BarrierFacts
    <3> QED
      BY <1>2, <3>1, BarrierFacts
  <2>3. nvSignals'[r] = Barrier(r, BarriersPerLaunch) => InBarrier3(r)'
    <3>1. nvSignals'[r] = Barrier(r, BarriersPerLaunch) => k = BarriersPerLaunch
      <4>1. /\ k \in Int /\ BarriersPerLaunch \in Int
            /\ BarriersPerLaunch * launch[r] \in Int
        BY BarrierFacts
      <4>2. Barrier(r, k) = BarriersPerLaunch * launch[r] - BarriersPerLaunch + k
            /\ Barrier(r, BarriersPerLaunch) = BarriersPerLaunch * launch[r]
        BY <4>1, BarrierFacts
      <4> QED
        BY <1>2, <4>1, <4>2
    <3> QED
      BY <1>1, <1>2, <3>1 DEF InBarrier3
  <2>4. AllPublished(r)'
    <3>1. CASE k = 1
      BY <1>1, <1>2, <3>1 DEF AllPublished, AfterGrid
    <3>2. CASE k # 1
      <4>1. nvSignals[r] >= Barrier(r, 1)
        <5>1. k >= 2 /\ k \in Int /\ BarriersPerLaunch \in Int
          BY <3>2, BarrierFacts
        <5>2. Barrier(r, k) - 1 >= Barrier(r, 1)
          BY <5>1, BarrierFacts
        <5> QED
          BY <1>2, <5>2
      <4> QED
        BY <1>2, <2>0, <4>1 DEF SignalInv, AllPublished, AfterGrid
    <3> QED
      BY <3>1, <3>2
  <2>5. ~FineCombine /\ nvSignals'[r] >= Barrier(r, 2) =>
          \A sm \in SMs : math'[r][sm] \in {"barrier2", "done"}
    <3>1. CASE ~FineCombine /\ k = 2
      BY <1>1, <1>2, <3>1, BarrierFacts
    <3>2. CASE ~FineCombine /\ k = BarriersPerLaunch
      <4>1. nvSignals[r] >= Barrier(r, 2)
        BY <1>2, <3>2, BarrierFacts
      <4> QED
        BY <1>2, <2>0, <3>2, <4>1 DEF SignalInv
    <3>3. CASE k = 1
      BY <1>2, <3>3, BarrierFacts
    <3> QED
      BY <3>1, <3>2, <3>3
  <2>6. /\ AllSignalled(Barrier(r, 1)) => AllSignalled(Barrier(r, 1))'
        /\ AllSignalled(Barrier(r, 2)) => AllSignalled(Barrier(r, 2))'
        /\ AllSignalled(Barrier(r, BarriersPerLaunch)) =>
             AllSignalled(Barrier(r, BarriersPerLaunch))'
    <3>1. /\ Barrier(r, 1) \in Int /\ Barrier(r, 2) \in Int
          /\ Barrier(r, BarriersPerLaunch) \in Int
      BY BarrierFacts
    <3>2. \A q \in Ranks : nvSignals'[q] \in Nat /\ nvSignals[q] \in Nat
      BY <1>4 DEF TypeInv
    <3> QED
      BY <1>3, <1>4, <2>1, <3>1, <3>2 DEF AllSignalled
  <2>7. /\ \A sm \in SMs : Past1(r, sm)' => AllSignalled(Barrier(r, 1))'
        /\ \A sm \in SMs : ~FineCombine /\ math'[r][sm] = "done" => AllSignalled(Barrier(r, 2))'
        /\ pc'[r][0] = "exited" => AllSignalled(Barrier(r, BarriersPerLaunch))'
    <3>2. \A sm \in SMs : Past1(r, sm)' = Past1(r, sm)
      BY <1>2 DEF Past1
    <3>3. \A sm \in SMs : Past1(r, sm) => AllSignalled(Barrier(r, 1))
      BY <2>0 DEF SignalInv
    <3>4. \A sm \in SMs : ~FineCombine /\ math[r][sm] = "done" => AllSignalled(Barrier(r, 2))
      BY <2>0 DEF SignalInv
    <3>5. pc[r][0] = "exited" => AllSignalled(Barrier(r, BarriersPerLaunch))
      BY <2>0 DEF SignalInv
    <3>6. math' = math /\ pc' = pc
      BY <1>2
    <3> QED
      BY <2>6, <3>2, <3>3, <3>4, <3>5, <3>6
  <2> QED
    BY <1>4, <2>1, <2>2, <2>3, <2>4, <2>5, <2>7 DEF SignalInv
<1>8. SkewInv'
  <2> SUFFICES ASSUME NEW p \in Ranks, NEW q \in Ranks, launch[p] > launch[q]
               PROVE  /\ launch[p] = launch[q] + 1
                      /\ nvSignals'[q] = Barrier(q, BarriersPerLaunch)'
    BY <1>2, <1>4 DEF SkewInv
  <2>1. launch[p] = launch[q] + 1 /\ nvSignals[q] = Barrier(q, BarriersPerLaunch)
    BY DEF ControlInv, SkewInv
  <2>2. q # r
    <3>1. Barrier(r, k) - 1 < Barrier(r, BarriersPerLaunch)
      BY BarrierFacts
    <3> QED
      BY <1>2, <2>1, <3>1, BarrierFacts
  <2> QED
    BY <1>2, <1>4, <2>1, <2>2 DEF Barrier
<1> QED
  BY <1>4, <1>5, <1>6, <1>7, <1>8 DEF ControlInv

\* What a dispatch warp's step does to the control of its rank.
CtaMove(r, sm, p, t) ==
  \/ pc[r][sm] = "stake" /\ p = "write" /\ t = RowsOf(r, sm)
  \/ pc[r][sm] = "write" /\ p = "write" /\ t \subseteq todo[r][sm]
  \/ /\ pc[r][sm] = "write" /\ p = "broadcast" /\ \A o \in SMs : Written(r, o)
     /\ t = { x \in AllExperts : Teller(x) = sm }
  \/ pc[r][sm] = "broadcast" /\ p = "broadcast" /\ t \subseteq todo[r][sm]
  \/ /\ pc[r][sm] = "broadcast" /\ p = "fetch" /\ t = {} /\ todo[r][sm] = {}
     /\ AllSignalled(Barrier(r, 1))
  \/ /\ t = todo[r][sm]
     /\ \/ pc[r][sm] = "fetch" /\ p = "pull"
        \/ pc[r][sm] = "pull" /\ p = "arrive"
        \/ pc[r][sm] = "arrive" /\ p = "pull"
        \/ pc[r][sm] = "pull" /\ p = "grid2" /\ FineCombine /\ math[r][sm] = "done"
        \/ pc[r][sm] = "pull" /\ p = "cleanup" /\ ~FineCombine /\ math[r][sm] = "done"
        \/ pc[r][sm] = "grid2" /\ p = "cleanup" /\ \A o \in SMs : Leaving(r, o)
        \/ pc[r][sm] = "cleanup" /\ p = "barrier3"
        \/ /\ pc[r][sm] = "barrier3" /\ p = "exited" /\ InBarrier3(r)
           /\ sm = 0 => AllSignalled(Barrier(r, BarriersPerLaunch))

LEMMA DispatchMove ==
  ASSUME TypeInv, NEW r \in Ranks, NEW sm \in SMs, DispatchStep(r, sm)
  PROVE  /\ UNCHANGED <<setup, launch, routing, nvSignals, math>>
         /\ \E p, t : /\ CtaMove(r, sm, p, t)
                      /\ pc' = [pc EXCEPT ![r][sm] = p] /\ todo' = [todo EXCEPT ![r][sm] = t]
<1> DEFINE Goal == /\ UNCHANGED <<setup, launch, routing, nvSignals, math>>
                   /\ \E p, t : /\ CtaMove(r, sm, p, t)
                                /\ pc' = [pc EXCEPT ![r][sm] = p]
                                /\ todo' = [todo EXCEPT ![r][sm] = t]
<1>1. ASSUME NEW p, NEW t, CtaMove(r, sm, p, t), Goto(r, sm, p),
             todo' = [todo EXCEPT ![r][sm] = t],
             UNCHANGED <<setup, launch, routing, nvSignals, math>>
      PROVE  Goal
  BY <1>1 DEF Goto
<1>2. todo' = todo => todo' = [todo EXCEPT ![r][sm] = todo[r][sm]]
  BY DEF TypeInv
<1>3. pc' = pc => Goto(r, sm, pc[r][sm])
  BY DEF TypeInv, Goto
<1> HIDE DEF Goal
<1> SUFFICES Goal
  BY DEF Goal
<1>4. CASE StakeOut(r, sm)
  <2>1. CtaMove(r, sm, "write", RowsOf(r, sm))
    BY <1>4 DEF StakeOut, CtaMove
  <2>2. /\ Goto(r, sm, "write") /\ todo' = [todo EXCEPT ![r][sm] = RowsOf(r, sm)]
        /\ UNCHANGED <<setup, launch, routing, nvSignals, math>>
    BY <1>4 DEF StakeOut, launchVars, mathVars
  <2> QED
    BY <1>1, <2>1, <2>2
<1>5. ASSUME NEW i \in Rows, WriteIndex(r, sm, i) PROVE Goal
  <2>1. todo' = [todo EXCEPT ![r][sm] = todo[r][sm] \ {i}]
    BY <1>5 DEF WriteIndex
  <2>2. CtaMove(r, sm, pc[r][sm], todo[r][sm] \ {i})
    BY <1>5 DEF WriteIndex, CtaMove
  <2>3. pc' = pc /\ UNCHANGED <<setup, launch, routing, nvSignals, math>>
    BY <1>5 DEF WriteIndex, launchVars, mathVars
  <2> QED
    BY <1>1, <1>3, <2>1, <2>2, <2>3
<1>6. CASE LeaveGridSync(r, sm)
  <2>1. todo' = [todo EXCEPT ![r][sm] = { x \in AllExperts : Teller(x) = sm }]
    <3>1. { x \in AllExperts : IF setup.bcast THEN (x[1] * NumExperts + x[2]) % NumSMs = sm
                                              ELSE sm = 0 }
            = { x \in AllExperts : Teller(x) = sm }
      <4>1. \A x \in AllExperts :
              (IF setup.bcast THEN (x[1] * NumExperts + x[2]) % NumSMs = sm ELSE sm = 0)
                <=> Teller(x) = sm
        BY DEF Teller
      <4> QED
        BY <4>1
    <3> QED
      BY <1>6, <3>1 DEF LeaveGridSync
  <2>2. CtaMove(r, sm, "broadcast", { x \in AllExperts : Teller(x) = sm })
    BY <1>6 DEF LeaveGridSync, CtaMove
  <2> QED
    <3>1. Goto(r, sm, "broadcast") /\ UNCHANGED <<setup, launch, routing, nvSignals, math>>
      BY <1>6 DEF LeaveGridSync, launchVars, mathVars
    <3> QED
      BY <1>1, <2>1, <2>2, <3>1
<1>7. ASSUME NEW x \in AllExperts, Broadcast(r, sm, x) PROVE Goal
  <2>1. todo' = [todo EXCEPT ![r][sm] = todo[r][sm] \ {x}]
    BY <1>7 DEF Broadcast
  <2>2. CtaMove(r, sm, pc[r][sm], todo[r][sm] \ {x})
    BY <1>7 DEF Broadcast, CtaMove
  <2>3. pc' = pc /\ UNCHANGED <<setup, launch, routing, nvSignals, math>>
    BY <1>7 DEF Broadcast, launchVars, mathVars
  <2> QED
    BY <1>1, <1>3, <2>1, <2>2, <2>3
<1>8. ASSUME NEW p, CtaMove(r, sm, p, todo[r][sm]), Goto(r, sm, p), todo' = todo,
             UNCHANGED <<setup, launch, routing, nvSignals, math>>
      PROVE  Goal
  BY <1>1, <1>2, <1>8
<1>9. CASE LeaveBarrier1(r, sm)
  <2>1. CtaMove(r, sm, "fetch", todo[r][sm])
    BY <1>9 DEF LeaveBarrier1, CtaMove, Published
  <2>2. /\ Goto(r, sm, "fetch") /\ todo' = todo
        /\ UNCHANGED <<setup, launch, routing, nvSignals, math>>
    BY <1>9 DEF LeaveBarrier1, launchVars, mathVars
  <2> QED
    BY <1>8, <2>1, <2>2
<1>10. CASE FetchCounts(r, sm)
  <2>1. CtaMove(r, sm, "pull", todo[r][sm])
    BY <1>10 DEF FetchCounts, CtaMove
  <2>2. /\ Goto(r, sm, "pull") /\ todo' = todo
        /\ UNCHANGED <<setup, launch, routing, nvSignals, math>>
    BY <1>10 DEF FetchCounts, launchVars, mathVars
  <2> QED
    BY <1>8, <2>1, <2>2
<1>11. CASE PullRow(r, sm)
  <2>1. CtaMove(r, sm, "arrive", todo[r][sm])
    BY <1>11 DEF PullRow, CtaMove
  <2>2. /\ Goto(r, sm, "arrive") /\ todo' = todo
        /\ UNCHANGED <<setup, launch, routing, nvSignals, math>>
    BY <1>11 DEF PullRow, launchVars, mathVars
  <2> QED
    BY <1>8, <2>1, <2>2
<1>12. CASE CountArrival(r, sm)
  <2>1. CtaMove(r, sm, "pull", todo[r][sm])
    BY <1>12 DEF CountArrival, CtaMove
  <2>2. /\ Goto(r, sm, "pull") /\ todo' = todo
        /\ UNCHANGED <<setup, launch, routing, nvSignals, math>>
    BY <1>12 DEF CountArrival, launchVars, mathVars
  <2> QED
    BY <1>8, <2>1, <2>2
<1>13. CASE Join(r, sm)
  <2>1. CtaMove(r, sm, IF FineCombine THEN "grid2" ELSE "cleanup", todo[r][sm])
    BY <1>13, SetupFacts DEF Join, CtaMove, TypeInv
  <2>2. /\ Goto(r, sm, IF FineCombine THEN "grid2" ELSE "cleanup") /\ todo' = todo
        /\ UNCHANGED <<setup, launch, routing, nvSignals, math>>
    BY <1>13 DEF Join, launchVars, mathVars
  <2> QED
    BY <1>8, <2>1, <2>2
<1>14. CASE LeaveGridSync2(r, sm)
  <2>1. CtaMove(r, sm, "cleanup", todo[r][sm])
    BY <1>14 DEF LeaveGridSync2, CtaMove, Leaving
  <2>2. /\ Goto(r, sm, "cleanup") /\ todo' = todo
        /\ UNCHANGED <<setup, launch, routing, nvSignals, math>>
    BY <1>14 DEF LeaveGridSync2, launchVars, mathVars
  <2> QED
    BY <1>8, <2>1, <2>2
<1>15. CASE Cleanup(r, sm)
  <2>1. CtaMove(r, sm, "barrier3", todo[r][sm])
    BY <1>15 DEF Cleanup, CtaMove
  <2>2. /\ Goto(r, sm, "barrier3") /\ todo' = todo
        /\ UNCHANGED <<setup, launch, routing, nvSignals, math>>
    BY <1>15 DEF Cleanup, launchVars, mathVars
  <2> QED
    BY <1>8, <2>1, <2>2
<1>16. CASE LeaveBarrier3(r, sm)
  <2>1. CtaMove(r, sm, "exited", todo[r][sm])
    BY <1>16 DEF LeaveBarrier3, CtaMove
  <2>2. /\ Goto(r, sm, "exited") /\ todo' = todo
        /\ UNCHANGED <<setup, launch, routing, nvSignals, math>>
    BY <1>16 DEF LeaveBarrier3, launchVars, mathVars
  <2> QED
    BY <1>8, <2>1, <2>2
<1> QED
  BY <1>4, <1>5, <1>6, <1>7, <1>9, <1>10, <1>11, <1>12, <1>13, <1>14, <1>15, <1>16
  DEF DispatchStep, Goal

LEMMA DispatchControl ==
  ASSUME TypeInv, TypeInv', ControlInv, NEW r \in Ranks, NEW sm \in SMs, DispatchStep(r, sm)
  PROVE  ControlInv'
<1>1. UNCHANGED <<setup, launch, routing, nvSignals, math>>
  BY DispatchMove
<1>2. PICK p, t : /\ CtaMove(r, sm, p, t)
                  /\ pc' = [pc EXCEPT ![r][sm] = p] /\ todo' = [todo EXCEPT ![r][sm] = t]
  BY DispatchMove
<1>3. /\ pc'[r][sm] = p /\ todo'[r][sm] = t
      /\ \A q \in Ranks : q # r => pc'[q] = pc[q] /\ todo'[q] = todo[q] /\ math'[q] = math[q]
      /\ \A o \in SMs : o # sm =>
           pc'[r][o] = pc[r][o] /\ todo'[r][o] = todo[r][o] /\ math'[r][o] = math[r][o]
      /\ math'[r][sm] = math[r][sm]
  BY <1>1, <1>2 DEF TypeInv
<1>4. p \in PcStates
  BY <1>1, <1>3, SetupStands DEF TypeInv
<1>5. StageInv(r) /\ SignalInv(r)
  BY DEF ControlInv
<1>6. /\ AfterGrid(r, sm) => AfterGrid(r, sm)'
      /\ AfterGrid(r, sm)' => AfterGrid(r, sm) \/ \A o \in SMs : Written(r, o)
      /\ Written(r, sm) => Written(r, sm)'
      /\ AfterGrid(r, sm) /\ todo[r][sm] = {} => todo'[r][sm] = {}
  BY <1>2, <1>3, <1>5 DEF CtaMove, AfterGrid, Written, StageInv
<1>7. /\ pc'[r][sm] \notin {"write", "broadcast"} => todo'[r][sm] = {}
      /\ pc'[r][sm] = "write" => todo'[r][sm] \subseteq RowsOf(r, sm)
      /\ pc'[r][sm] = "broadcast" => \A x \in todo'[r][sm] : x \in AllExperts /\ Teller(x) = sm
  BY <1>2, <1>3, <1>5 DEF CtaMove, StageInv
<1>8. /\ Leaving(r, sm) => Leaving(r, sm)'
      /\ Leaving(r, sm)' => math'[r][sm] = "done"
      /\ FineCombine /\ Leaving(r, sm)' /\ pc'[r][sm] # "grid2" => \A o \in SMs : Leaving(r, o)
      /\ pc'[r][sm] = "grid2" => FineCombine
  BY <1>2, <1>3, <1>5 DEF CtaMove, StageInv, Leaving
<1>9. /\ math'[r][sm] = "barrier2" => ~FineCombine
      /\ math'[r][sm] \in {"barrier2", "done"} => Past1(r, sm)'
      /\ math[r][sm] \in {"barrier2", "done"} => math'[r][sm] \in {"barrier2", "done"}
  BY <1>2, <1>3, <1>5 DEF CtaMove, StageInv, Past1
<1>10. /\ Ended(r, sm) => Ended(r, sm)'
       /\ pc'[r][sm] = "exited" => InBarrier3(r)
       /\ Past1(r, sm)' => Past1(r, sm) \/ AllSignalled(Barrier(r, 1))
       /\ ~FineCombine /\ math'[r][sm] = "done" =>
            math[r][sm] = "done" \/ AllSignalled(Barrier(r, 2))
       /\ sm = 0 /\ pc'[r][sm] = "exited" =>
            pc[r][sm] = "exited" \/ AllSignalled(Barrier(r, BarriersPerLaunch))
  BY <1>2, <1>3, <1>5 DEF CtaMove, Past1, Ended
<1> QED
  BY <1>1, <1>3, <1>6, <1>7, <1>8, <1>9, <1>10, CtaControl

LEMMA MathControl ==
  ASSUME TypeInv, TypeInv', ControlInv, NEW r \in Ranks, NEW sm \in SMs, MathStep(r, sm)
  PROVE  ControlInv'
<1>1. UNCHANGED <<setup, launch, routing, nvSignals, pc, todo>>
  BY DEF MathStep, StartTasks, ClaimBlock, LoadBlock, LeaveBarrier2, launchVars
<1>2. PICK m :
        /\ math' = [math EXCEPT ![r][sm] = m]
        /\ \/ math[r][sm] = "start" /\ m = "claim" /\ Complete(r)
           \/ math[r][sm] = "claim" /\ m = "load"
           \/ math[r][sm] = "load" /\ m = "claim"
           \/ /\ math[r][sm] = "claim" /\ m = IF FineCombine THEN "done" ELSE "barrier2"
              /\ pc[r][sm] \in {"fetch", "pull", "arrive"}
           \/ math[r][sm] = "barrier2" /\ m = "done" /\ AllSignalled(Barrier(r, 2))
  BY DEF MathStep, StartTasks, ClaimBlock, LoadBlock, LeaveBarrier2
<1>3. /\ math'[r][sm] = m
      /\ \A q \in Ranks : q # r => math'[q] = math[q]
      /\ \A o \in SMs : o # sm => math'[r][o] = math[r][o]
  BY <1>2 DEF TypeInv
<1>4. StageInv(r) /\ SignalInv(r) /\ FineCombine \in BOOLEAN
  BY SetupFacts DEF ControlInv, TypeInv
<1>5. /\ AfterGrid(r, sm)' = AfterGrid(r, sm) /\ Written(r, sm)' = Written(r, sm)
      /\ Leaving(r, sm)' = Leaving(r, sm) /\ Ended(r, sm)' = Ended(r, sm)
      /\ Past1(r, sm)' = Past1(r, sm)
  BY <1>1 DEF AfterGrid, Written, Leaving, Ended, Past1
<1>6. ~Leaving(r, sm) \/ m = "done"
  BY <1>2, <1>4 DEF StageInv
<1>7. /\ math'[r][sm] = "barrier2" => ~FineCombine
      /\ math'[r][sm] \in {"barrier2", "done"} => Past1(r, sm)
      /\ math[r][sm] \in {"barrier2", "done"} => math'[r][sm] \in {"barrier2", "done"}
      /\ ~FineCombine /\ math'[r][sm] = "done" =>
            math[r][sm] = "done" \/ AllSignalled(Barrier(r, 2))
  BY <1>2, <1>3, <1>4 DEF StageInv, Past1
<1>8. /\ pc[r][sm] \notin {"write", "broadcast"} => todo[r][sm] = {}
      /\ pc[r][sm] = "write" => todo[r][sm] \subseteq RowsOf(r, sm)
      /\ pc[r][sm] = "broadcast" => \A x \in todo[r][sm] : x \in AllExperts /\ Teller(x) = sm
      /\ FineCombine /\ Leaving(r, sm) /\ pc[r][sm] # "grid2" => \A o \in SMs : Leaving(r, o)
      /\ pc[r][sm] = "grid2" => FineCombine
      /\ pc[r][sm] = "exited" => InBarrier3(r)
  BY <1>4 DEF StageInv
<1> QED
  BY <1>1, <1>3, <1>5, <1>6, <1>7, <1>8, CtaControl

LEMMA NextControl == TypeInv /\ TypeInv' /\ ControlInv /\ [Next]_vars => ControlInv'
<1> SUFFICES ASSUME TypeInv, TypeInv', ControlInv, [Next]_vars PROVE ControlInv'
  OBVIOUS
<1>1. CASE UNCHANGED vars
  <2>1. UNCHANGED <<setup, launch, routing, nvSignals, math, pc, todo>>
    BY <1>1 DEF vars, launchVars, mathVars
  <2>2. \A q \in Ranks : nvSignals'[q] >= nvSignals[q]
    BY <2>1 DEF TypeInv
  <2>3. \A q \in Ranks : StageInv(q)' /\ SignalInv(q)'
    BY <2>1, <2>2, StageFrame, SignalFrame DEF ControlInv
  <2> QED
    BY <2>1, <2>3, SkewFrame, SetupStands DEF ControlInv
<1>2. CASE Next
  BY <1>1, <1>2, LaunchControl, SignalControl, DispatchControl, MathControl
  DEF Next, RankStep, Finished
<1> QED
  BY <1>1, <1>2

-----------------------------------------------------------------------------
(***************************************************************************)
(* What a rank sends.                                                      *)
(***************************************************************************)
LEMMA RowSets ==
  ASSUME TypeInv, NEW S \in SUBSET Rows
  PROVE  IsFiniteSet(S) /\ Cardinality(S) \in Nat /\ Cardinality(S) <= NumRows
<1>1. NumRows \in Nat
  BY SetupFacts DEF TypeInv
<1>2. IsFiniteSet(Rows) /\ Cardinality(Rows) = NumRows
  BY <1>1, FS_Interval DEF Rows
<1>3. IsFiniteSet(S) /\ Cardinality(S) <= Cardinality(Rows)
  BY <1>2, FS_Subset
<1> QED
  BY <1>2, <1>3, FS_CardinalityType

LEMMA CtaSets ==
  ASSUME TypeInv, NEW S \in SUBSET SMs
  PROVE  IsFiniteSet(S) /\ Cardinality(S) \in Nat
<1>1. IsFiniteSet(SMs)
  BY SetupFacts, FS_Interval DEF SMs, TypeInv
<1> QED
  BY <1>1, FS_Subset, FS_CardinalityType

\* The cardinality of two disjoint sets.
LEMMA Disjoint ==
  ASSUME NEW S, NEW T, IsFiniteSet(S), IsFiniteSet(T), S \cap T = {}
  PROVE  IsFiniteSet(S \cup T) /\ Cardinality(S \cup T) = Cardinality(S) + Cardinality(T)
<1>1. /\ IsFiniteSet(S \cup T)
      /\ Cardinality(S \cup T) = Cardinality(S) + Cardinality(T) - Cardinality(S \cap T)
  BY FS_Union
<1>2. Cardinality(S \cap T) = 0
  BY FS_EmptySet
<1> QED
  BY <1>1, <1>2, FS_CardinalityType

LEMMA SendFrame ==
  ASSUME setup' = setup, NEW q, SendInv(q), sendCount'[q] = sendCount[q],
         routing'[q] = routing[q],
         \A sm \in SMs : pc'[q][sm] = "stake" <=> pc[q][sm] = "stake",
         \A i \in Rows : i % NumSMs \in SMs,
         Ended(q, 0)' <=> Ended(q, 0)
  PROVE  SendInv(q)'
<1>1. AllExperts' = AllExperts /\ Rows' = Rows
  BY SetupStands
<1>2. \A x : StakedRows(q, x)' = StakedRows(q, x)
  <2>1. \A x : RoutedRows(q, x)' = RoutedRows(q, x)
    BY <1>1 DEF RoutedRows
  <2>2. \A x : RoutedRows(q, x) \subseteq Rows
    BY DEF RoutedRows
  <2> QED
    BY <2>1, <2>2 DEF StakedRows
<1>3. Staked(q)' = Staked(q)
  BY DEF Staked
<1> QED
  BY <1>1, <1>2, <1>3 DEF SendInv

LEMMA RowCta == ASSUME TypeInv, NEW i \in Rows PROVE i % NumSMs \in SMs
BY SetupFacts DEF Rows, SMs, TypeInv

\* What a step of rank r leaves alone at another rank.
Aside(q) ==
  /\ setup' = setup /\ launch'[q] = launch[q] /\ routing'[q] = routing[q]
  /\ pc'[q] = pc[q] /\ todo'[q] = todo[q] /\ math'[q] = math[q]
  /\ sendCount'[q] = sendCount[q] /\ slot'[q] = slot[q] /\ nvSignals'[q] = nvSignals[q]
  /\ \A o \in Ranks, e \in Experts : srcIndex'[o][e][q] = srcIndex[o][e][q]
  /\ seen'[q] = seen[q] /\ token'[q] = token[q] /\ known'[q] = known[q] /\ task'[q] = task[q]
  /\ arrivals'[q] = arrivals[q] /\ pool'[q] = pool[q] /\ claimed'[q] = claimed[q]
  /\ loaded'[q] = loaded[q]

LEMMA Others ==
  ASSUME TypeInv, NEW r \in Ranks, NEW q \in Ranks, q # r,
         RankStep(r) \/ \E sm \in SMs : DispatchStep(r, sm) \/ MathStep(r, sm)
  PROVE  Aside(q)
<1> USE DEF Aside
<1>1. CASE Launch(r)
  <2>1. /\ UNCHANGED <<setup, countVars, poolVars, nvSignals, todo, pullVars, claimed, known, task>>
        /\ launch' = [launch EXCEPT ![r] = @ + 1]
        /\ \E t : routing' = [routing EXCEPT ![r] = t]
        /\ \E t : pc' = [pc EXCEPT ![r] = t]
        /\ \E t : math' = [math EXCEPT ![r] = t]
        /\ \E t : loaded' = [loaded EXCEPT ![r] = t]
    BY <1>1 DEF Launch
  <2> QED
    BY <2>1 DEF countVars, poolVars, pullVars, TypeInv
<1>2. CASE Signal1(r) \/ Signal2(r) \/ Signal3(r)
  BY <1>2 DEF Signal1, Signal2, Signal3, SendSignals, TypeInv, countVars, poolVars, launchVars,
              pullVars, mathVars
<1>3. ASSUME NEW sm \in SMs, DispatchStep(r, sm) PROVE Aside(q)
  <2> USE DEF countVars, poolVars, launchVars, pullVars, mathVars, Goto, TypeInv
  <2>1. CASE StakeOut(r, sm)
    BY <2>1 DEF StakeOut
  <2>2. ASSUME NEW i \in Rows, WriteIndex(r, sm, i) PROVE Aside(q)
    <3>1. PICK a, b, s : srcIndex' = [srcIndex EXCEPT ![a][b][r][s] = i]
      BY <2>2 DEF WriteIndex
    <3>2. ASSUME NEW o \in Ranks, NEW e \in Experts PROVE srcIndex'[o][e][q] = srcIndex[o][e][q]
      <4>1. CASE o = a /\ e = b
        BY <3>1, <4>1
      <4>2. CASE ~(o = a /\ e = b)
        BY <3>1, <4>2
      <4> QED
        BY <4>1, <4>2
    <3>3. \E x, v : slot' = [slot EXCEPT ![r][sm][x] = v]
      BY <2>2 DEF WriteIndex
    <3> QED
      BY <2>2, <3>2, <3>3 DEF WriteIndex
  <2>3. CASE LeaveGridSync(r, sm)
    BY <2>3 DEF LeaveGridSync
  <2>4. ASSUME NEW x \in AllExperts, Broadcast(r, sm, x) PROVE Aside(q)
    BY <2>4 DEF Broadcast
  <2>5. CASE LeaveBarrier1(r, sm)
    BY <2>5 DEF LeaveBarrier1
  <2>6. CASE FetchCounts(r, sm)
    BY <2>6 DEF FetchCounts
  <2>7. CASE PullRow(r, sm)
    BY <2>7 DEF PullRow
  <2>8. CASE CountArrival(r, sm)
    BY <2>8 DEF CountArrival
  <2>9. CASE Join(r, sm)
    BY <2>9 DEF Join
  <2>10. CASE LeaveGridSync2(r, sm)
    BY <2>10 DEF LeaveGridSync2
  <2>11. CASE Cleanup(r, sm)
    <3>1. CASE sm = 0
      BY <2>11, <3>1 DEF Cleanup
    <3>2. CASE sm # 0
      BY <2>11, <3>2 DEF Cleanup
    <3> QED
      BY <3>1, <3>2
  <2>12. CASE LeaveBarrier3(r, sm)
    BY <2>12 DEF LeaveBarrier3
  <2> QED
    BY <1>3, <2>1, <2>2, <2>3, <2>4, <2>5, <2>6, <2>7, <2>8, <2>9, <2>10, <2>11, <2>12, SMTT(40)
    DEF DispatchStep
<1>4. ASSUME NEW sm \in SMs, MathStep(r, sm) PROVE Aside(q)
  <2> USE DEF countVars, poolVars, launchVars, pullVars, mathVars, TypeInv
  <2>1. CASE StartTasks(r, sm)
    BY <2>1 DEF StartTasks
  <2>2. CASE ClaimBlock(r, sm)
    BY <2>2 DEF ClaimBlock
  <2>3. CASE LoadBlock(r, sm)
    BY <2>3 DEF LoadBlock
  <2>4. CASE LeaveBarrier2(r, sm)
    BY <2>4 DEF LeaveBarrier2
  <2> QED
    BY <1>4, <2>1, <2>2, <2>3, <2>4 DEF MathStep
<1> QED
  BY <1>1, <1>2, <1>3, <1>4 DEF RankStep

\* The places of the warps that the ranges depend on.
LEMMA StakeMoves ==
  ASSUME TypeInv, NEW r \in Ranks, NEW sm \in SMs, DispatchStep(r, sm)
  PROVE  /\ \A o \in SMs : o # sm => pc'[r][o] = pc[r][o] /\ todo'[r][o] = todo[r][o]
         /\ pc'[r][sm] # "stake"
         /\ pc[r][sm] = "stake" => StakeOut(r, sm)
         /\ pc[r][sm] = "write" =>
              (\E i \in Rows : WriteIndex(r, sm, i)) \/ LeaveGridSync(r, sm)
         /\ pc[r][sm] \notin {"stake", "write"} => pc'[r][sm] # "write"
         /\ Ended(r, sm)' => Ended(r, sm) \/ Cleanup(r, sm)
         /\ Ended(r, sm) => Ended(r, sm)'
<1>1. PICK p, t : /\ CtaMove(r, sm, p, t)
                  /\ pc' = [pc EXCEPT ![r][sm] = p] /\ todo' = [todo EXCEPT ![r][sm] = t]
  BY DispatchMove
<1>2. /\ pc'[r][sm] = p
      /\ \A o \in SMs : o # sm => pc'[r][o] = pc[r][o] /\ todo'[r][o] = todo[r][o]
  BY <1>1 DEF TypeInv
<1>3. /\ p # "stake" /\ (pc[r][sm] \notin {"stake", "write"} => p # "write")
      /\ p = "barrier3" => pc[r][sm] = "cleanup"
      /\ p = "exited" => pc[r][sm] = "barrier3"
      /\ pc[r][sm] \in {"barrier3", "exited"} => p = "exited"
  BY <1>1 DEF CtaMove
<1>4. pc[r][sm] = "stake" => StakeOut(r, sm)
  BY DEF DispatchStep, StakeOut, WriteIndex, LeaveGridSync, Broadcast, LeaveBarrier1, Published,
         FetchCounts, PullRow, CountArrival, Join, LeaveGridSync2, Cleanup, LeaveBarrier3
<1>5. pc[r][sm] = "write" => (\E i \in Rows : WriteIndex(r, sm, i)) \/ LeaveGridSync(r, sm)
  BY DEF DispatchStep, StakeOut, Broadcast, LeaveBarrier1, Published,
         FetchCounts, PullRow, CountArrival, Join, LeaveGridSync2, Cleanup, LeaveBarrier3
<1>6. pc[r][sm] = "cleanup" => Cleanup(r, sm)
  BY DEF DispatchStep, StakeOut, WriteIndex, LeaveGridSync, Broadcast, LeaveBarrier1, Published,
         FetchCounts, PullRow, CountArrival, Join, LeaveGridSync2, LeaveBarrier3
<1> QED
  BY <1>2, <1>3, <1>4, <1>5, <1>6 DEF Ended

LEMMA LaunchSend ==
  ASSUME TypeInv, NEW r \in Ranks, SendInv(r), Launch(r)
  PROVE  SendInv(r)'
<1>1. /\ setup' = setup /\ sendCount' = sendCount
      /\ \A sm \in SMs : pc[r][sm] = "exited" /\ pc'[r][sm] = "stake"
  BY DEF Launch, Idle, countVars, TypeInv
<1>2. AllExperts' = AllExperts
  BY <1>1, SetupStands
<1>3. 0 \in SMs
  BY SetupFacts DEF TypeInv, SMs
<1>4. \A x \in AllExperts : sendCount[r][x] = Zero
  BY <1>1, <1>3 DEF SendInv, Ended
<1>5. \A x \in AllExperts : StakedRows(r, x)' = {}
  <2>1. Rows' = Rows
    BY <1>1, SetupStands
  <2> QED
    BY <1>1, <2>1, RowCta DEF StakedRows, RoutedRows
<1>6. Staked(r)' = {}
  BY <1>1 DEF Staked
<1>7. Cardinality({}) = 0
  BY FS_EmptySet
<1> QED
  BY <1>1, <1>2, <1>3, <1>4, <1>5, <1>6, <1>7 DEF SendInv, Zero, Ended

LEMMA StakeSend ==
  ASSUME TypeInv, ControlInv, NEW r \in Ranks, NEW sm \in SMs, SendInv(r), StakeOut(r, sm)
  PROVE  /\ SendInv(r)'
         /\ \A x \in AllExperts :
              LET mine == { i \in RowsOf(r, sm) : routing[r][i] = x }
              IN  /\ sendCount[r][x].n = Cardinality(StakedRows(r, x))
                  /\ StakedRows(r, x)' = StakedRows(r, x) \cup mine
                  /\ StakedRows(r, x) \cap mine = {}
                  /\ Cardinality(StakedRows(r, x)') = Cardinality(StakedRows(r, x)) + Cardinality(mine)
<1>1. /\ setup' = setup /\ routing' = routing /\ pc[r][sm] = "stake" /\ pc'[r][sm] = "write"
      /\ \A o \in SMs : o # sm => pc'[r][o] = pc[r][o]
  BY DEF StakeOut, launchVars, Goto, TypeInv
<1>2. AllExperts' = AllExperts /\ Rows' = Rows
  BY <1>1, SetupStands
<1>3. 0 \in SMs
  BY SetupFacts DEF TypeInv, SMs
<1>4. ~Ended(r, 0) /\ ~Ended(r, 0)'
  <2>1. ~AfterGrid(r, 0)
    BY <1>1, <1>3 DEF ControlInv, StageInv, Written
  <2> QED
    BY <1>1, <1>3, <2>1 DEF AfterGrid, Ended
<1>5. ASSUME NEW x \in AllExperts
      PROVE  LET mine == { i \in RowsOf(r, sm) : routing[r][i] = x }
             IN  /\ sendCount[r][x].n = Cardinality(StakedRows(r, x))
                 /\ sendCount'[r][x].n = Cardinality(StakedRows(r, x)')
                 /\ StakedRows(r, x)' = StakedRows(r, x) \cup mine
                 /\ StakedRows(r, x) \cap mine = {}
                 /\ Cardinality(StakedRows(r, x)') = Cardinality(StakedRows(r, x)) + Cardinality(mine)
  <2> DEFINE mine == { i \in RowsOf(r, sm) : routing[r][i] = x }
  <2>1. sendCount[r][x].n = Cardinality(StakedRows(r, x))
    <3>1. sendCount[r][x] = [n |-> Cardinality(StakedRows(r, x)),
                             ctas |-> IF setup.lean THEN 0 ELSE Cardinality(Staked(r))]
      BY <1>4 DEF SendInv
    <3> QED
      BY <3>1
  <2>2. x # NoExpert
    BY SetupFacts DEF AllExperts, Ranks, NoExpert, TypeInv
  <2>3. mine = { i \in Rows : i % NumSMs = sm /\ routing[r][i] = x }
    BY <2>2 DEF RowsOf
  <2>4. StakedRows(r, x)' = StakedRows(r, x) \cup mine
    <3>1. StakedRows(r, x)' = { i \in Rows : routing[r][i] = x /\ pc'[r][i % NumSMs] # "stake" }
      BY <1>1, <1>2 DEF StakedRows, RoutedRows
    <3>2. StakedRows(r, x) = { i \in Rows : routing[r][i] = x /\ pc[r][i % NumSMs] # "stake" }
      BY DEF StakedRows, RoutedRows
    <3>3. \A i \in Rows : i % NumSMs \in SMs
      BY RowCta
    <3> HIDE DEF mine
    <3> QED
      BY <1>1, <2>3, <3>1, <3>2, <3>3
  <2>5. StakedRows(r, x) \cap mine = {}
    BY <1>1, <2>3 DEF StakedRows
  <2>6. StakedRows(r, x) \in SUBSET Rows /\ mine \in SUBSET Rows
    BY <2>3 DEF StakedRows, RoutedRows
  <2>7. Cardinality(StakedRows(r, x)') = Cardinality(StakedRows(r, x)) + Cardinality(mine)
    <3> HIDE DEF mine
    <3> QED
      BY <2>4, <2>5, <2>6, RowSets, Disjoint
  <2>8. sendCount'[r][x].n = sendCount[r][x].n + Cardinality(mine)
    BY DEF StakeOut, CountOf, TypeInv
  <2> QED
    BY <2>1, <2>4, <2>5, <2>7, <2>8
<1>6. \A x \in AllExperts :
        sendCount'[r][x].ctas = IF setup.lean THEN 0 ELSE Cardinality(Staked(r)')
  <2>1. Staked(r)' = Staked(r) \cup {sm} /\ sm \notin Staked(r)
    BY <1>1 DEF Staked
  <2>2. IsFiniteSet(Staked(r))
    BY CtaSets DEF Staked
  <2>3. Cardinality(Staked(r)') = Cardinality(Staked(r)) + 1
    BY <2>1, <2>2, FS_AddElement
  <2>4. \A x \in AllExperts : setup.lean \/ sendCount[r][x].ctas = Cardinality(Staked(r))
    <3> TAKE x \in AllExperts
    <3>1. sendCount[r][x] = [n |-> Cardinality(StakedRows(r, x)),
                             ctas |-> IF setup.lean THEN 0 ELSE Cardinality(Staked(r))]
      BY <1>4 DEF SendInv
    <3>2. CASE setup.lean
      BY <3>2
    <3>3. CASE ~setup.lean
      BY <3>1, <3>3
    <3> QED
      BY <3>2, <3>3
  <2>5. \A x \in AllExperts :
          sendCount'[r][x].ctas = IF setup.lean THEN 0 ELSE sendCount[r][x].ctas + 1
    BY DEF StakeOut, TypeInv
  <2> QED
    BY <2>3, <2>4, <2>5
<1>7. \A x \in AllExperts : sendCount'[r][x] = [n |-> sendCount'[r][x].n, ctas |-> sendCount'[r][x].ctas]
  BY DEF StakeOut, TypeInv
<1>8. SendInv(r)'
  <2> SUFFICES ASSUME NEW x \in AllExperts
               PROVE  sendCount'[r][x] =
                        [n |-> Cardinality(StakedRows(r, x)'),
                         ctas |-> IF setup.lean THEN 0 ELSE Cardinality(Staked(r)')]
    BY <1>1, <1>2, <1>4 DEF SendInv
  <2>1. sendCount'[r][x].n = Cardinality(StakedRows(r, x)')
    BY <1>5
  <2>2. sendCount'[r][x].ctas = IF setup.lean THEN 0 ELSE Cardinality(Staked(r)')
    BY <1>6
  <2> QED
    BY <1>7, <2>1, <2>2
<1> QED
  BY <1>5, <1>8

LEMMA NextSend ==
  ASSUME TypeInv, ControlInv, NEW q \in Ranks, SendInv(q), [Next]_vars
  PROVE  SendInv(q)'
<1>0. \A i \in Rows : i % NumSMs \in SMs
  BY RowCta
<1>1. CASE UNCHANGED vars
  <2>1. UNCHANGED <<setup, sendCount, routing, pc>>
    BY <1>1 DEF vars, countVars, launchVars
  <2> QED
    BY <1>0, <2>1, SendFrame DEF Ended
<1>2. ASSUME NEW r \in Ranks, r # q, RankStep(r) \/ \E sm \in SMs : DispatchStep(r, sm) \/ MathStep(r, sm)
      PROVE  SendInv(q)'
  <2>1. Aside(q)
    BY <1>2, Others
  <2> QED
    BY <1>0, <2>1, SendFrame DEF Ended, Aside
<1>3. CASE RankStep(q)
  <2>1. CASE Launch(q)
    BY <2>1, LaunchSend
  <2>2. CASE Signal1(q) \/ Signal2(q) \/ Signal3(q)
    <3>1. UNCHANGED <<setup, sendCount, routing, pc>>
      BY <2>2 DEF Signal1, Signal2, Signal3, SendSignals, countVars, launchVars
    <3> QED
      BY <1>0, <3>1, SendFrame DEF Ended
  <2> QED
    BY <1>3, <2>1, <2>2 DEF RankStep
<1>4. ASSUME NEW sm \in SMs, MathStep(q, sm) PROVE SendInv(q)'
  <2>1. UNCHANGED <<setup, sendCount, routing, pc>>
    BY <1>4 DEF MathStep, StartTasks, ClaimBlock, LoadBlock, LeaveBarrier2, countVars, launchVars
  <2> QED
    BY <1>0, <2>1, SendFrame DEF Ended
<1>5. ASSUME NEW sm \in SMs, DispatchStep(q, sm) PROVE SendInv(q)'
  <2>1. CASE StakeOut(q, sm)
    BY <2>1, StakeSend
  <2>2. CASE Cleanup(q, sm) /\ sm = 0
    <3>1. sendCount' = [sendCount EXCEPT ![q] = [x \in AllExperts |-> Zero]]
      BY <2>2 DEF Cleanup
    <3>2. pc'[q][0] = "barrier3" /\ setup' = setup
      BY <2>2 DEF Cleanup, Goto, launchVars, TypeInv
    <3>3. AllExperts' = AllExperts
      BY <3>2, SetupStands
    <3> QED
      BY <3>1, <3>2, <3>3 DEF SendInv, Ended, TypeInv
  <2>3. CASE ~StakeOut(q, sm) /\ ~(Cleanup(q, sm) /\ sm = 0)
    <3>1. UNCHANGED <<setup, sendCount, routing>>
      BY <1>5, <2>3 DEF DispatchStep, WriteIndex, LeaveGridSync, Broadcast, LeaveBarrier1,
         FetchCounts, PullRow, CountArrival, Join, LeaveGridSync2, Cleanup, LeaveBarrier3,
         countVars, launchVars
    <3>2. \A o \in SMs : pc'[q][o] = "stake" <=> pc[q][o] = "stake"
      BY <1>5, <2>3, StakeMoves
    <3>3. Ended(q, 0)' <=> Ended(q, 0)
      <4>1. CASE sm = 0
        BY <1>5, <2>3, <4>1, StakeMoves
      <4>2. CASE sm # 0
        <5>1. pc'[q][0] = pc[q][0]
          <6>1. 0 \in SMs
            BY SetupFacts DEF SMs, TypeInv
          <6> QED
            BY <1>5, <4>2, <6>1, StakeMoves
        <5> QED
          BY <5>1 DEF Ended
      <4> QED
        BY <4>1, <4>2
    <3> QED
      BY <1>0, <3>1, <3>2, <3>3, SendFrame, SMTT(40)
  <2> QED
    BY <2>1, <2>2, <2>3
<1> QED
  BY <1>1, <1>2, <1>3, <1>4, <1>5 DEF Next, Finished

\* What IndexInv says of one expert.
IndexAtExpert(q, x) ==
  /\ \A sm \in SMs : Pending(q, sm, x) \subseteq Slots(q, x)
  /\ \A sm, o \in SMs : sm # o => Pending(q, sm, x) \cap Pending(q, o, x) = {}
  /\ \A k \in Filled(q, x) : srcIndex[x[1]][x[2]][q][k] \in Landed(q, x)
  /\ \A j, k \in Filled(q, x) :
       srcIndex[x[1]][x[2]][q][j] = srcIndex[x[1]][x[2]][q][k] => j = k

LEMMA IndexFrame ==
  ASSUME TypeInv, setup' = setup, NEW q, NEW x \in AllExperts, IndexAtExpert(q, x),
         routing'[q] = routing[q],
         srcIndex'[x[1]][x[2]][q] = srcIndex[x[1]][x[2]][q],
         \A sm \in SMs : pc'[q][sm] = "stake" <=> pc[q][sm] = "stake",
         \A sm \in SMs : Pending(q, sm, x)' = Pending(q, sm, x),
         \A i \in StakedRows(q, x) :
           (pc'[q][i % NumSMs] = "write" => i \notin todo'[q][i % NumSMs])
             <=> (pc[q][i % NumSMs] = "write" => i \notin todo[q][i % NumSMs])
  PROVE  IndexAtExpert(q, x)'
<1>1. AllExperts' = AllExperts /\ Rows' = Rows
  BY SetupStands
<1>2. StakedRows(q, x)' = StakedRows(q, x)
  <2>1. RoutedRows(q, x)' = RoutedRows(q, x)
    BY <1>1 DEF RoutedRows
  <2>2. RoutedRows(q, x) \subseteq Rows
    BY DEF RoutedRows
  <2> QED
    BY <2>1, <2>2, RowCta DEF StakedRows
<1>3. Slots(q, x)' = Slots(q, x)
  BY <1>2 DEF Slots
<1>4. Filled(q, x)' = Filled(q, x)
  BY <1>3 DEF Filled
<1>5. Landed(q, x)' = Landed(q, x)
  BY <1>2 DEF Landed
<1> QED
  BY <1>3, <1>4, <1>5 DEF IndexAtExpert

LEMMA LaunchIndex ==
  ASSUME TypeInv, NEW r \in Ranks, NEW x \in AllExperts, Launch(r)
  PROVE  IndexAtExpert(r, x)'
<1>1. setup' = setup /\ \A sm \in SMs : pc'[r][sm] = "stake"
  BY DEF Launch, Idle, TypeInv
<1>2. StakedRows(r, x)' = {}
  BY <1>1, SetupStands, RowCta DEF StakedRows, RoutedRows
<1>3. Slots(r, x)' = {}
  BY <1>2, FS_EmptySet DEF Slots
<1>4. Filled(r, x)' = {} /\ \A sm \in SMs : Pending(r, sm, x)' = {}
  BY <1>1, <1>3 DEF Filled, Pending
<1> QED
  BY <1>3, <1>4 DEF IndexAtExpert

LEMMA StakeIndex ==
  ASSUME TypeInv, ControlInv, NEW r \in Ranks, NEW sm \in SMs, SendInv(r), StakeOut(r, sm),
         NEW x \in AllExperts, IndexAtExpert(r, x)
  PROVE  IndexAtExpert(r, x)'
<1> DEFINE mine == { i \in RowsOf(r, sm) : routing[r][i] = x }
           c == Cardinality(StakedRows(r, x))
           m == Cardinality(mine)
<1>1. /\ setup' = setup /\ routing' = routing /\ srcIndex' = srcIndex
      /\ pc[r][sm] = "stake" /\ pc'[r][sm] = "write"
      /\ \A o \in SMs : o # sm => /\ pc'[r][o] = pc[r][o] /\ todo'[r][o] = todo[r][o]
                                  /\ slot'[r][o] = slot[r][o]
      /\ todo'[r][sm] = RowsOf(r, sm) /\ slot'[r][sm][x] = sendCount[r][x].n
  BY DEF StakeOut, launchVars, Goto, TypeInv
<1>2. AllExperts' = AllExperts /\ Rows' = Rows
  BY <1>1, SetupStands
<1>3. /\ sendCount[r][x].n = c
      /\ StakedRows(r, x)' = StakedRows(r, x) \cup mine
      /\ StakedRows(r, x) \cap mine = {}
      /\ Cardinality(StakedRows(r, x)') = c + m
  BY StakeSend
<1>4. c \in Nat /\ m \in Nat
  <2>1. StakedRows(r, x) \in SUBSET Rows /\ mine \in SUBSET Rows
    BY DEF StakedRows, RoutedRows, RowsOf
  <2> HIDE DEF mine
  <2> QED
    BY <2>1, RowSets
<1>5. Slots(r, x)' = 0 .. c + m - 1 /\ Slots(r, x) = 0 .. c - 1
  <2> HIDE DEF mine, m
  <2> QED
    <3>1. Slots(r, x)' = 0 .. Cardinality(StakedRows(r, x)') - 1
      BY DEF Slots
    <3>2. Slots(r, x) = 0 .. c - 1
      BY DEF Slots
    <3>3. Slots(r, x)' = 0 .. c + m - 1
      BY <1>3, <1>4, <3>1
    <3> QED
      BY <3>2, <3>3
<1>6. Pending(r, sm, x)' = c .. c + m - 1
  <2>1. StillTo(r, sm, x)' = mine
    BY <1>1 DEF StillTo
  <2> HIDE DEF mine
  <2> QED
    BY <1>1, <1>3, <2>1 DEF Pending, m
<1>7. Pending(r, sm, x) = {}
  BY <1>1 DEF Pending
<1>8. \A o \in SMs : o # sm => Pending(r, o, x)' = Pending(r, o, x)
  BY <1>1 DEF Pending, StillTo
<1>9. \A i \in mine : i % NumSMs = sm
  BY DEF RowsOf
<1>10. Landed(r, x) \subseteq Landed(r, x)'
  <2> SUFFICES ASSUME NEW i \in Landed(r, x)
               PROVE  i \in Landed(r, x)'
    OBVIOUS
  <2>1. /\ i \in StakedRows(r, x) /\ i \in Rows
        /\ pc[r][i % NumSMs] = "write" => i \notin todo[r][i % NumSMs]
    BY DEF Landed, StakedRows, RoutedRows
  <2>2. i % NumSMs \in SMs /\ i % NumSMs # sm
    BY <1>1, <2>1, RowCta DEF StakedRows
  <2> QED
    BY <1>1, <1>3, <2>1, <2>2 DEF Landed
<1> HIDE DEF mine, c, m
<1>11. \A o \in SMs : Pending(r, o, x) \subseteq 0 .. c - 1
  BY <1>5 DEF IndexAtExpert
<1>12. Filled(r, x)' = Filled(r, x)
  <2>1. Filled(r, x)' = { k \in 0 .. c + m - 1 : \A o \in SMs : k \notin Pending(r, o, x)' }
    BY <1>5 DEF Filled
  <2>2. Filled(r, x) = { k \in 0 .. c - 1 : \A o \in SMs : k \notin Pending(r, o, x) }
    BY <1>5 DEF Filled
  <2>3. ASSUME NEW k \in 0 .. c - 1 PROVE k \in Filled(r, x)' <=> k \in Filled(r, x)
    <3>1. k \notin Pending(r, sm, x)' /\ k \in 0 .. c + m - 1
      BY <1>4, <1>6
    <3> QED
      BY <1>7, <1>8, <2>1, <2>2, <3>1
  <2>4. ASSUME NEW k \in 0 .. c + m - 1, k \notin 0 .. c - 1 PROVE k \notin Filled(r, x)'
    BY <1>4, <1>6, <2>1, <2>4
  <2>5. 0 .. c - 1 \subseteq 0 .. c + m - 1
    BY <1>4
  <2>6. Filled(r, x)' \subseteq 0 .. c + m - 1 /\ Filled(r, x) \subseteq 0 .. c - 1
    BY <2>1, <2>2
  <2> QED
    BY <2>3, <2>4, <2>5, <2>6
<1>13. \A o \in SMs : Pending(r, o, x)' \subseteq Slots(r, x)'
  <2>1. \A o \in SMs : o # sm => Pending(r, o, x)' \subseteq 0 .. c - 1
    BY <1>8, <1>11
  <2>2. c .. c + m - 1 \subseteq 0 .. c + m - 1 /\ 0 .. c - 1 \subseteq 0 .. c + m - 1
    BY <1>4
  <2> QED
    BY <1>5, <1>6, <2>1, <2>2
<1>14. \A p, o \in SMs : p # o => Pending(r, p, x)' \cap Pending(r, o, x)' = {}
  <2>1. \A o \in SMs : o # sm => Pending(r, sm, x)' \cap Pending(r, o, x)' = {}
    BY <1>4, <1>6, <1>8, <1>11
  <2>2. \A p, o \in SMs : p # o /\ p # sm /\ o # sm => Pending(r, p, x)' \cap Pending(r, o, x)' = {}
    BY <1>8 DEF IndexAtExpert
  <2> QED
    BY <2>1, <2>2
<1> QED
  BY <1>1, <1>10, <1>12, <1>13, <1>14 DEF IndexAtExpert

LEMMA WriteRow ==
  ASSUME TypeInv, ControlInv, NEW r \in Ranks, NEW sm \in SMs, NEW i \in Rows,
         WriteIndex(r, sm, i), NEW x \in AllExperts, IndexAtExpert(r, x)
  PROVE  IndexAtExpert(r, x)'
<1> DEFINE y == routing[r][i]
           s == slot[r][sm][y]
<1>1. /\ setup' = setup /\ routing' = routing /\ pc' = pc /\ pc[r][sm] = "write"
      /\ i \in todo[r][sm] /\ todo'[r][sm] = todo[r][sm] \ {i}
      /\ srcIndex' = [srcIndex EXCEPT ![y[1]][y[2]][r][s] = i]
      /\ slot' = [slot EXCEPT ![r][sm][y] = @ + 1]
      /\ \A o \in SMs : o # sm => todo'[r][o] = todo[r][o]
  BY DEF WriteIndex, launchVars, TypeInv
<1>2. i \in RowsOf(r, sm) /\ todo[r][sm] \subseteq RowsOf(r, sm)
  BY <1>1 DEF ControlInv, StageInv
<1>3. y \in AllExperts /\ i % NumSMs = sm
  BY <1>2 DEF RowsOf, TypeInv
<1>4. /\ slot[r][sm][x] \in Nat /\ s \in Nat
      /\ slot'[r][sm][x] = IF x = y THEN s + 1 ELSE slot[r][sm][x]
      /\ \A o \in SMs : o # sm => slot'[r][o] = slot[r][o]
  BY <1>1, <1>3 DEF TypeInv
<1>5. \A j \in StakedRows(r, x) : j \in Rows /\ j % NumSMs \in SMs
  BY RowCta DEF StakedRows, RoutedRows
<1>6. \A o \in SMs : o # sm => Pending(r, o, x)' = Pending(r, o, x)
  BY <1>1, <1>4 DEF Pending, StillTo
<1>7. StakedRows(r, x)' = StakedRows(r, x) /\ Slots(r, x)' = Slots(r, x)
  BY <1>1, SetupStands DEF StakedRows, RoutedRows, Slots
<1>8. CASE x # y
  <2>1. StillTo(r, sm, x)' = StillTo(r, sm, x)
    BY <1>1, <1>8 DEF StillTo
  <2>2. \A o \in SMs : Pending(r, o, x)' = Pending(r, o, x)
    BY <1>1, <1>4, <1>6, <1>8, <2>1 DEF Pending
  <2>3. srcIndex'[x[1]][x[2]][r] = srcIndex[x[1]][x[2]][r]
    <3>1. x = <<x[1], x[2]>> /\ y = <<y[1], y[2]>> /\ x[1] \in Ranks /\ x[2] \in Experts
          /\ y[1] \in Ranks /\ y[2] \in Experts
      BY <1>3 DEF AllExperts
    <3>2. x[1] # y[1] \/ x[2] # y[2]
      BY <1>8, <3>1
    <3> QED
      BY <1>1, <3>1, <3>2, SMTT(40) DEF TypeInv
  <2>4. \A j \in StakedRows(r, x) : j # i
    BY <1>8 DEF StakedRows, RoutedRows
  <2>5. \A j \in StakedRows(r, x) :
          (pc'[r][j % NumSMs] = "write" => j \notin todo'[r][j % NumSMs])
            <=> (pc[r][j % NumSMs] = "write" => j \notin todo[r][j % NumSMs])
    <3> TAKE j \in StakedRows(r, x)
    <3>1. j \in todo'[r][j % NumSMs] <=> j \in todo[r][j % NumSMs]
      <4>1. CASE j % NumSMs = sm
        BY <1>1, <2>4, <4>1
      <4>2. CASE j % NumSMs # sm
        BY <1>1, <1>5, <4>2
      <4> QED
        BY <4>1, <4>2
    <3> QED
      BY <1>1, <3>1
  <2> QED
    BY <1>1, <2>2, <2>3, <2>5, IndexFrame
<1>9. CASE x = y
  <2> DEFINE m == Cardinality(StillTo(r, sm, x))
             old == srcIndex[x[1]][x[2]][r]
             new == srcIndex'[x[1]][x[2]][r]
  <2>1. /\ StillTo(r, sm, x)' = StillTo(r, sm, x) \ {i} /\ i \in StillTo(r, sm, x)
        /\ StillTo(r, sm, x) \in SUBSET Rows
    BY <1>1, <1>2, <1>9 DEF StillTo, RowsOf
  <2>2. /\ m \in Nat /\ m > 0 /\ Cardinality(StillTo(r, sm, x)') = m - 1
    <3>1. IsFiniteSet(StillTo(r, sm, x)) /\ m \in Nat
      BY <2>1, RowSets
    <3>2. Cardinality(StillTo(r, sm, x)') = m - 1
      <4>1. Cardinality(StillTo(r, sm, x) \ {i}) = m - 1
        <5> HIDE DEF y, s
        <5> QED
          BY <2>1, <3>1, FS_RemoveElement
      <4> QED
        BY <2>1, <4>1
    <3>3. StillTo(r, sm, x)' \in SUBSET Rows
      BY <2>1
    <3>4. Cardinality(StillTo(r, sm, x)') \in Nat
      BY <3>3, RowSets
    <3> QED
      BY <3>1, <3>2, <3>4
  <2>3. Pending(r, sm, x) = s .. s + m - 1
    BY <1>1, <1>9 DEF Pending
  <2>4. Pending(r, sm, x)' = s + 1 .. s + m - 1
    <3>1. Pending(r, sm, x)' = s + 1 .. (s + 1) + (m - 1) - 1
      BY <1>1, <1>4, <1>9, <2>2 DEF Pending
    <3>2. (s + 1) + (m - 1) - 1 = s + m - 1
      BY <1>4, <2>2
    <3> QED
      BY <3>1, <3>2
  <2> HIDE DEF m
  <2>5. s \in Pending(r, sm, x) /\ s \notin Pending(r, sm, x)'
    BY <1>4, <2>2, <2>3, <2>4
  <2>6. \A k \in Nat : k # s => (k \in Pending(r, sm, x) <=> k \in Pending(r, sm, x)')
    BY <1>4, <2>2, <2>3, <2>4
  <2>7. s \in Slots(r, x) /\ s \in Rows
    <3>1. s \in Slots(r, x)
      BY <2>5 DEF IndexAtExpert
    <3>2. StakedRows(r, x) \in SUBSET Rows
      BY <1>5
    <3>3. Cardinality(StakedRows(r, x)) \in Nat /\ Cardinality(StakedRows(r, x)) <= NumRows
      BY <3>2, RowSets
    <3>4. NumRows \in Nat
      BY SetupFacts DEF TypeInv
    <3> QED
      BY <3>1, <3>3, <3>4 DEF Slots, Rows
  <2>8. \A o \in SMs : o # sm => s \notin Pending(r, o, x)
    BY <2>5 DEF IndexAtExpert
  <2>9. Filled(r, x)' = Filled(r, x) \cup {s} /\ s \notin Filled(r, x)
    <3>1. \A k \in Slots(r, x) : k \in Nat
      <4>1. Cardinality(StakedRows(r, x)) \in Nat
        <5>1. StakedRows(r, x) \in SUBSET Rows
          BY <1>5
        <5> QED
          BY <5>1, RowSets
      <4> QED
        BY <4>1 DEF Slots
    <3>2. ASSUME NEW k \in Slots(r, x)
          PROVE  k \in Filled(r, x)' <=> k \in Filled(r, x) \cup {s}
      <4>1. CASE k = s
        BY <1>6, <1>7, <2>5, <2>7, <2>8, <4>1 DEF Filled
      <4>2. CASE k # s
        BY <1>6, <1>7, <2>6, <3>1, <4>2 DEF Filled
      <4> QED
        BY <4>1, <4>2
    <3>3. Filled(r, x)' \subseteq Slots(r, x) /\ Filled(r, x) \subseteq Slots(r, x)
      BY <1>7 DEF Filled
    <3>4. s \notin Filled(r, x)
      BY <2>5 DEF Filled
    <3> QED
      BY <2>7, <3>2, <3>3, <3>4
  <2>10. /\ new[s] = i /\ \A k \in Rows : k # s => new[k] = old[k]
    <3>1. x[1] \in Ranks /\ x[2] \in Experts
      BY DEF AllExperts
    <3>2. srcIndex' = [srcIndex EXCEPT ![x[1]][x[2]][r][s] = i]
      BY <1>1, <1>9
    <3> QED
      <4>1. PICK a \in Ranks, b \in Experts : a = x[1] /\ b = x[2]
        BY <3>1
      <4> HIDE DEF s, y
      <4>2. /\ srcIndex' = [srcIndex EXCEPT ![a][b][r][s] = i]
            /\ new = srcIndex'[a][b][r] /\ old = srcIndex[a][b][r]
        BY <3>2, <4>1
      <4>3. srcIndex[a][b] \in [Ranks -> [Rows -> Rows \cup {NoRow}]]
        BY DEF TypeInv
      <4>4. srcIndex'[a][b] = [srcIndex[a][b] EXCEPT ![r][s] = i]
        BY <4>2 DEF TypeInv
      <4>5. new = [old EXCEPT ![s] = i]
        BY <4>2, <4>3, <4>4
      <4>6. old \in [Rows -> Rows \cup {NoRow}]
        BY <4>2, <4>3
      <4> HIDE DEF new, old
      <4> QED
        BY <2>7, <4>5, <4>6
  <2>11. Filled(r, x) \subseteq Rows
    <3>1. StakedRows(r, x) \in SUBSET Rows
      BY <1>5
    <3>2. Cardinality(StakedRows(r, x)) \in Nat /\ Cardinality(StakedRows(r, x)) <= NumRows
      BY <3>1, RowSets
    <3>3. NumRows \in Nat
      BY SetupFacts DEF TypeInv
    <3> QED
      BY <3>2, <3>3 DEF Filled, Slots, Rows
  <2>12. i \in StakedRows(r, x)
    BY <1>1, <1>3, <1>9 DEF StakedRows, RoutedRows
  <2>13. Landed(r, x)' = Landed(r, x) \cup {i} /\ i \notin Landed(r, x)
    <3>1. ASSUME NEW j \in StakedRows(r, x)
          PROVE  j \in Landed(r, x)' <=> j \in Landed(r, x) \cup {i}
      <4>1. CASE j = i
        BY <1>1, <1>3, <1>7, <2>12, <4>1 DEF Landed
      <4>2. CASE j # i
        <5>1. j \in todo'[r][j % NumSMs] <=> j \in todo[r][j % NumSMs]
          <6>1. CASE j % NumSMs = sm
            BY <1>1, <4>2, <6>1
          <6>2. CASE j % NumSMs # sm
            BY <1>1, <1>5, <6>2
          <6> QED
            BY <6>1, <6>2
        <5> QED
          BY <1>1, <1>7, <4>2, <5>1 DEF Landed
      <4> QED
        BY <4>1, <4>2
    <3>2. Landed(r, x)' \subseteq StakedRows(r, x) /\ Landed(r, x) \subseteq StakedRows(r, x)
      BY <1>7 DEF Landed
    <3>3. i \notin Landed(r, x)
      BY <1>1, <1>3 DEF Landed
    <3> QED
      BY <2>12, <3>1, <3>2, <3>3
  <2>14. \A o \in SMs : Pending(r, o, x)' \subseteq Pending(r, o, x)
    <3>1. s + 1 .. s + m - 1 \subseteq s .. s + m - 1
      BY <1>4, <2>2
    <3> QED
      BY <1>6, <2>3, <2>4, <3>1
  <2> HIDE DEF s, y, old, new
  <2>15. \A k \in Filled(r, x) : old[k] \in Landed(r, x)
    BY DEF IndexAtExpert, old
  <2>16. \A j, k \in Filled(r, x) : old[j] = old[k] => j = k
    BY DEF IndexAtExpert, old
  <2>17. \A k \in Filled(r, x)' : new[k] \in Landed(r, x)'
    BY <2>9, <2>10, <2>11, <2>13, <2>15
  <2>18. \A j, k \in Filled(r, x)' : new[j] = new[k] => j = k
    <3>1. \A k \in Filled(r, x) : new[k] = old[k] /\ new[k] # i
      BY <2>9, <2>10, <2>11, <2>13, <2>15
    <3> QED
      BY <2>9, <2>10, <2>16, <3>1
  <2>19. \A o \in SMs : Pending(r, o, x)' \subseteq Slots(r, x)'
    BY <1>7, <2>14 DEF IndexAtExpert
  <2>20. \A p, o \in SMs : p # o => Pending(r, p, x)' \cap Pending(r, o, x)' = {}
    BY <2>14 DEF IndexAtExpert
  <2> QED
    BY <2>17, <2>18, <2>19, <2>20 DEF IndexAtExpert, new
<1> QED
  BY <1>8, <1>9

LEMMA SetupKept ==
  ASSUME TypeInv, [Next]_vars
  PROVE  setup' = setup
<1>1. UNCHANGED vars => setup' = setup
  BY DEF vars, launchVars
<1>2. ASSUME NEW r \in Ranks, RankStep(r) PROVE setup' = setup
  BY <1>2 DEF RankStep, Launch, Signal1, Signal2, Signal3, SendSignals, launchVars
<1>3. ASSUME NEW r \in Ranks, NEW sm \in SMs, DispatchStep(r, sm) PROVE setup' = setup
  BY <1>3, DispatchMove
<1>4. ASSUME NEW r \in Ranks, NEW sm \in SMs, MathStep(r, sm) PROVE setup' = setup
  BY <1>4 DEF MathStep, StartTasks, ClaimBlock, LoadBlock, LeaveBarrier2, launchVars
<1> QED
  BY <1>1, <1>2, <1>3, <1>4 DEF Next, Finished

LEMMA NextIndex ==
  ASSUME TypeInv, ControlInv, NEW q \in Ranks, SendInv(q), IndexInv(q), [Next]_vars
  PROVE  IndexInv(q)'
<1>1. \A x \in AllExperts : IndexAtExpert(q, x)
  BY DEF IndexInv, IndexAtExpert
<1>2. setup' = setup
  BY SetupKept
<1>3. AllExperts' = AllExperts
  BY <1>2, SetupStands
<1> SUFFICES ASSUME NEW x \in AllExperts PROVE IndexAtExpert(q, x)'
  BY <1>3 DEF IndexInv, IndexAtExpert
<1>4. x[1] \in Ranks /\ x[2] \in Experts
  BY DEF AllExperts
<1>5. \A i \in StakedRows(q, x) : i % NumSMs \in SMs
  BY RowCta DEF StakedRows, RoutedRows
\* A step that leaves the ranges and the list of this expert alone.
<1>6. ASSUME routing'[q] = routing[q], srcIndex'[x[1]][x[2]][q] = srcIndex[x[1]][x[2]][q],
             \A o \in SMs : pc'[q][o] = "stake" <=> pc[q][o] = "stake",
             \A o \in SMs : pc'[q][o] = "write" <=> pc[q][o] = "write",
             \A o \in SMs : pc[q][o] = "write" => todo'[q][o] = todo[q][o] /\ slot'[q][o] = slot[q][o]
      PROVE  IndexAtExpert(q, x)'
  <2>1. \A o \in SMs : Pending(q, o, x)' = Pending(q, o, x)
    BY <1>6 DEF Pending, StillTo
  <2> QED
    BY <1>1, <1>2, <1>5, <1>6, <2>1, IndexFrame
<1>7. CASE UNCHANGED vars
  BY <1>6, <1>7 DEF vars, countVars, launchVars, pullVars
<1>8. ASSUME NEW r \in Ranks, r # q, RankStep(r) \/ \E sm \in SMs : DispatchStep(r, sm) \/ MathStep(r, sm)
      PROVE  IndexAtExpert(q, x)'
  <2>1. Aside(q)
    BY <1>8, Others
  <2> QED
    BY <1>4, <1>6, <2>1 DEF Aside
<1>9. CASE RankStep(q)
  <2>1. CASE Launch(q)
    BY <2>1, LaunchIndex
  <2>2. CASE Signal1(q) \/ Signal2(q) \/ Signal3(q)
    <3>1. UNCHANGED <<srcIndex, routing, pc, todo, slot>>
      BY <2>2 DEF Signal1, Signal2, Signal3, SendSignals, countVars, launchVars, pullVars
    <3> QED
      BY <1>6, <3>1
  <2> QED
    BY <1>9, <2>1, <2>2 DEF RankStep
<1>10. ASSUME NEW sm \in SMs, MathStep(q, sm) PROVE IndexAtExpert(q, x)'
  <2>1. UNCHANGED <<srcIndex, routing, pc, todo, slot>>
    BY <1>10 DEF MathStep, StartTasks, ClaimBlock, LoadBlock, LeaveBarrier2, countVars, launchVars,
       pullVars
  <2> QED
    BY <1>6, <2>1
<1>11. ASSUME NEW sm \in SMs, DispatchStep(q, sm) PROVE IndexAtExpert(q, x)'
  <2>1. CASE StakeOut(q, sm)
    BY <1>1, <2>1, StakeIndex
  <2>2. CASE \E i \in Rows : WriteIndex(q, sm, i)
    BY <1>1, <2>2, WriteRow
  <2>3. CASE LeaveGridSync(q, sm)
    <3>1. /\ pc[q][sm] = "write" /\ todo[q][sm] = {} /\ pc'[q][sm] = "broadcast"
          /\ routing' = routing /\ srcIndex' = srcIndex /\ slot[q][sm][x] \in Nat
          /\ \A o \in SMs : o # sm =>
               pc'[q][o] = pc[q][o] /\ todo'[q][o] = todo[q][o] /\ slot'[q][o] = slot[q][o]
      BY <2>3 DEF LeaveGridSync, Goto, countVars, launchVars, TypeInv
    <3>2. StillTo(q, sm, x) = {}
      BY <3>1 DEF StillTo
    <3>3. Pending(q, sm, x)' = Pending(q, sm, x)
      BY <3>1, <3>2, FS_EmptySet DEF Pending
    <3>4. \A o \in SMs : Pending(q, o, x)' = Pending(q, o, x)
      BY <3>1, <3>3 DEF Pending, StillTo
    <3>5. \A i \in StakedRows(q, x) :
            (pc'[q][i % NumSMs] = "write" => i \notin todo'[q][i % NumSMs])
              <=> (pc[q][i % NumSMs] = "write" => i \notin todo[q][i % NumSMs])
      <4> TAKE i \in StakedRows(q, x)
      <4>1. CASE i % NumSMs = sm
        BY <3>1, <4>1
      <4>2. CASE i % NumSMs # sm
        BY <1>5, <3>1, <4>2
      <4> QED
        BY <4>1, <4>2
    <3>6. \A o \in SMs : pc'[q][o] = "stake" <=> pc[q][o] = "stake"
      BY <3>1
    <3> QED
      BY <1>1, <1>2, <3>1, <3>4, <3>5, <3>6, IndexFrame
  <2>4. CASE pc[q][sm] \notin {"stake", "write"}
    <3>1. UNCHANGED <<routing, srcIndex>>
      BY <1>11, <2>4, ZenonT(60) DEF DispatchStep, StakeOut, WriteIndex, LeaveGridSync, Broadcast, LeaveBarrier1,
         FetchCounts, PullRow, CountArrival, Join, LeaveGridSync2, Cleanup, LeaveBarrier3,
         countVars, launchVars
    <3>2. \A o \in SMs : o # sm => slot'[q][o] = slot[q][o]
      BY <1>11, <2>4 DEF DispatchStep, StakeOut, WriteIndex, LeaveGridSync, Broadcast, LeaveBarrier1,
         FetchCounts, PullRow, CountArrival, Join, LeaveGridSync2, Cleanup, LeaveBarrier3,
         pullVars, TypeInv
    <3>3. /\ \A o \in SMs : o # sm => pc'[q][o] = pc[q][o] /\ todo'[q][o] = todo[q][o]
          /\ pc'[q][sm] \notin {"stake", "write"}
      BY <1>11, <2>4, StakeMoves
    <3> QED
      BY <1>6, <2>4, <3>1, <3>2, <3>3, SMTT(40)
  <2> QED
    BY <1>11, <2>1, <2>2, <2>3, <2>4, StakeMoves
<1> QED
  BY <1>7, <1>8, <1>9, <1>10, <1>11 DEF Next, Finished

-----------------------------------------------------------------------------
(***************************************************************************)
(* What has arrived.                                                       *)
(***************************************************************************)
RecvAt(r, e) ==
  /\ recvCount[r][e] =
       [q \in Ranks |-> IF q \in Senders(r, e) THEN Cardinality(RoutedRows(q, <<r, e>>)) ELSE 0]
  /\ recvSum[r][e] = [n |-> SumTo(recvCount[r][e], NumRanks),
                      ctas |-> NumSMs * Cardinality(Senders(r, e))]

LEMMA TellerType ==
  ASSUME TypeInv, NEW x \in AllExperts
  PROVE  Teller(x) \in SMs
<1>1. x[1] \in Nat /\ x[2] \in Nat /\ NumExperts \in Nat /\ NumSMs \in Nat /\ NumSMs > 1
  BY SetupFacts DEF AllExperts, Ranks, Experts, TypeInv
<1>2. PICK n \in Nat : n = x[1] * NumExperts + x[2]
  BY <1>1
<1>3. n % NumSMs \in 0 .. NumSMs - 1
  BY <1>1
<1> QED
  BY <1>1, <1>2, <1>3 DEF Teller, SMs

LEMMA OwnerType ==
  ASSUME TypeInv, NEW e \in Experts
  PROVE  /\ Owner(e) \in SMs /\ Owner(e) # 0
         /\ \A sm \in SMs : sm # 0 => (e % (NumSMs - 1) = sm - 1 <=> Owner(e) = sm)
<1>1. NumSMs - 1 \in Nat \ {0} /\ NumSMs \in Nat /\ e \in Nat
  BY SetupFacts DEF Experts, TypeInv
<1>2. e % (NumSMs - 1) \in 0 .. (NumSMs - 1) - 1
  BY <1>1
<1> QED
  BY <1>1, <1>2 DEF Owner, SMs

LEMMA RankSets ==
  ASSUME TypeInv, NEW S \in SUBSET Ranks
  PROVE  IsFiniteSet(S) /\ Cardinality(S) \in Nat /\ Cardinality(Ranks) = NumRanks
         /\ Cardinality(S) <= NumRanks /\ (Cardinality(S) = NumRanks => S = Ranks)
<1>1. NumRanks \in Nat /\ NumRanks > 0
  BY SetupFacts DEF TypeInv
<1>2. IsFiniteSet(Ranks) /\ Cardinality(Ranks) = NumRanks
  BY <1>1, FS_Interval DEF Ranks
<1> QED
  BY <1>1, <1>2, FS_Subset, FS_CardinalityType

LEMMA RoutedType ==
  ASSUME TypeInv, NEW q, NEW x
  PROVE  /\ IsFiniteSet(RoutedRows(q, x)) /\ Cardinality(RoutedRows(q, x)) \in Nat
         /\ Cardinality(RoutedRows(q, x)) <= NumRows
<1>1. RoutedRows(q, x) \in SUBSET Rows
  BY DEF RoutedRows
<1> QED
  BY <1>1, RowSets

LEMMA RecvFrame ==
  ASSUME setup' = setup, NEW r, NEW e, RecvAt(r, e),
         recvCount'[r][e] = recvCount[r][e], recvSum'[r][e] = recvSum[r][e],
         Senders(r, e)' = Senders(r, e),
         \A q \in Senders(r, e) : routing'[q] = routing[q]
  PROVE  RecvAt(r, e)'
<1>1. Ranks' = Ranks /\ Rows' = Rows /\ NumRanks' = NumRanks
  BY SetupStands
<1>2. \A q \in Senders(r, e) : RoutedRows(q, <<r, e>>)' = RoutedRows(q, <<r, e>>)
  BY <1>1 DEF RoutedRows
<1> QED
  BY <1>1, <1>2 DEF RecvAt

LEMMA SentFrame ==
  ASSUME TypeInv, ControlInv, NEW q \in Ranks, NEW sm \in SMs, DispatchStep(q, sm),
         NEW x \in AllExperts, ~Broadcast(q, sm, x)
  PROVE  Sent(q, x)' <=> Sent(q, x)
<1>1. PICK p, t : /\ CtaMove(q, sm, p, t) /\ setup' = setup
                  /\ pc' = [pc EXCEPT ![q][sm] = p] /\ todo' = [todo EXCEPT ![q][sm] = t]
  BY DispatchMove
<1>2. /\ pc'[q][sm] = p /\ todo'[q][sm] = t
      /\ \A o \in SMs : o # sm => pc'[q][o] = pc[q][o] /\ todo'[q][o] = todo[q][o]
  BY <1>1 DEF TypeInv
<1>3. Teller(x)' = Teller(x) /\ Teller(x) \in SMs
  BY <1>1, TellerType, SetupStands DEF Teller
<1>4. Sent(q, x)' <=> pc'[q][Teller(x)] \notin {"stake", "write"} /\ x \notin todo'[q][Teller(x)]
  BY <1>3 DEF Sent, AfterGrid
<1>5. Sent(q, x) <=> pc[q][Teller(x)] \notin {"stake", "write"} /\ x \notin todo[q][Teller(x)]
  BY DEF Sent, AfterGrid
<1>6. CASE Teller(x) # sm
  BY <1>2, <1>3, <1>4, <1>5, <1>6
<1>7. CASE Teller(x) = sm
  <2>1. CASE pc[q][sm] = "broadcast" /\ p = "broadcast"
    <3>1. PICK y \in AllExperts : Broadcast(q, sm, y)
      BY <1>2, <2>1 DEF DispatchStep, StakeOut, WriteIndex, LeaveGridSync, LeaveBarrier1,
         FetchCounts, PullRow, CountArrival, Join, LeaveGridSync2, Cleanup, LeaveBarrier3, Published,
         Goto, TypeInv
    <3>2. todo'[q][sm] = todo[q][sm] \ {y} /\ y # x
      BY <3>1 DEF Broadcast, TypeInv
    <3> QED
      BY <1>2, <1>4, <1>5, <1>7, <2>1, <3>2
  <2>2. CASE ~(pc[q][sm] = "broadcast" /\ p = "broadcast")
    BY <1>1, <1>2, <1>4, <1>5, <1>7, <2>2 DEF CtaMove
  <2> QED
    BY <2>1, <2>2
<1> QED
  BY <1>6, <1>7

\* A rank that still broadcasts sends to the launch that the words are for.
LEMMA BroadcastLaunch ==
  ASSUME TypeInv, ControlInv, NEW q \in Ranks, NEW sm \in SMs, pc[q][sm] = "broadcast",
         NEW r \in Ranks, NEW e \in Experts, <<r, e>> \in todo[q][sm]
  PROVE  /\ launch[q] = RecvLaunch(r, e) /\ ~Ended(q, 0) /\ ~Sent(q, <<r, e>>)
         /\ nvSignals[q] < Barrier(q, 1)
<1>1. Teller(<<r, e>>) = sm /\ <<r, e>> \in AllExperts
  BY DEF ControlInv, StageInv
<1>2. ~AllPublished(q)
  BY <1>1 DEF AllPublished, Teller
<1>3. nvSignals[q] < Barrier(q, 1)
  BY <1>2, BarrierFacts DEF ControlInv, SignalInv
<1>4. \A o \in SMs, p \in Ranks : launch[p] = launch[q] => ~Past1(p, o)
  <2> SUFFICES ASSUME NEW o \in SMs, NEW p \in Ranks, launch[p] = launch[q], Past1(p, o)
               PROVE  FALSE
    OBVIOUS
  <2>1. nvSignals[q] >= Barrier(p, 1)
    BY DEF ControlInv, SignalInv, AllSignalled
  <2>2. Barrier(p, 1) = Barrier(q, 1)
    BY DEF Barrier
  <2> QED
    BY <1>3, <2>1, <2>2, BarrierFacts
<1>5. Owner(e) \in SMs /\ 0 \in SMs
  <2>1. 0 \in SMs
    BY SetupFacts DEF SMs, TypeInv
  <2> QED
    BY <2>1, OwnerType
<1>6. launch[r] <= launch[q]
  <2>1. nvSignals[q] # Barrier(q, BarriersPerLaunch)
    BY <1>3, BarrierFacts
  <2> QED
    BY <2>1, BarrierFacts DEF ControlInv, SkewInv
<1>7. CASE launch[r] = launch[q]
  BY <1>1, <1>3, <1>4, <1>5, <1>7 DEF RecvLaunch, Ended, Past1, Sent
<1>8. CASE launch[r] # launch[q]
  <2>1. launch[q] > launch[r]
    <3>1. launch[q] \in Nat /\ launch[r] \in Nat
      BY BarrierFacts
    <3> QED
      BY <1>6, <1>8, <3>1
  <2>2. launch[q] = launch[r] + 1 /\ nvSignals[r] = Barrier(r, BarriersPerLaunch)
    BY <2>1 DEF ControlInv, SkewInv
  <2>3. InBarrier3(r)
    BY <2>2 DEF ControlInv, SignalInv
  <2>4. RecvLaunch(r, e) = launch[r] + 1
    BY <1>5, <2>3 DEF RecvLaunch, Ended, InBarrier3
  <2> QED
    BY <1>1, <1>3, <1>4, <1>5, <2>2, <2>4 DEF Ended, Past1, Sent
<1> QED
  BY <1>7, <1>8

\* Once one CTA is past the grid sync, all rows have their places.
LEMMA AllStaked ==
  ASSUME TypeInv, ControlInv, NEW q \in Ranks, NEW sm \in SMs, AfterGrid(q, sm), NEW x
  PROVE  /\ \A o \in SMs : Written(q, o) /\ pc[q][o] # "stake"
         /\ StakedRows(q, x) = RoutedRows(q, x) /\ Staked(q) = SMs /\ Cardinality(SMs) = NumSMs
<1>1. \A o \in SMs : Written(q, o)
  BY DEF ControlInv, StageInv
<1>2. Cardinality(SMs) = NumSMs
  BY SetupFacts, FS_Interval DEF SMs, TypeInv
<1> QED
  BY <1>1, <1>2, RowCta DEF Written, StakedRows, RoutedRows, Staked

LEMMA BroadcastRecv ==
  ASSUME TypeInv, ControlInv, NEW q \in Ranks, SendInv(q), NEW sm \in SMs,
         NEW r \in Ranks, NEW e \in Experts, RecvAt(r, e), Broadcast(q, sm, <<r, e>>)
  PROVE  RecvAt(r, e)'
<1> DEFINE x == <<r, e>>
           n == Cardinality(RoutedRows(q, x))
           old == recvCount[r][e]
           new == recvCount'[r][e]
<1>1. /\ pc[q][sm] = "broadcast" /\ x \in todo[q][sm] /\ pc' = pc
      /\ todo'[q][sm] = todo[q][sm] \ {x}
      /\ \A p \in Ranks, o \in SMs : p # q \/ o # sm => todo'[p][o] = todo[p][o]
      /\ UNCHANGED <<setup, launch, routing>>
  BY DEF Broadcast, launchVars, TypeInv
<1>2. /\ launch[q] = RecvLaunch(r, e) /\ ~Ended(q, 0) /\ ~Sent(q, x)
  BY <1>1, BroadcastLaunch
<1>3. /\ x \in AllExperts /\ Teller(x) = sm
  BY <1>1 DEF ControlInv, StageInv
<1>4. AfterGrid(q, sm)
  BY <1>1 DEF AfterGrid
<1>5. sendCount[q][x] = [n |-> n, ctas |-> IF setup.lean THEN 0 ELSE NumSMs]
  BY <1>2, <1>3, <1>4, AllStaked DEF SendInv
<1>6. q \notin Senders(r, e)
  BY <1>2 DEF Senders
<1>7. /\ Ranks' = Ranks /\ Rows' = Rows /\ NumRanks' = NumRanks /\ Teller(x)' = Teller(x)
      /\ RecvLaunch(r, e)' = RecvLaunch(r, e)
  BY <1>1, SetupStands DEF RecvLaunch, Ended, Teller
<1>8. Sent(q, x)' /\ \A p \in Ranks : p # q => (Sent(p, x)' <=> Sent(p, x))
  BY <1>1, <1>3, <1>4, <1>7 DEF Sent, AfterGrid
<1>9. Senders(r, e)' = Senders(r, e) \cup {q}
  BY <1>1, <1>2, <1>7, <1>8 DEF Senders
<1>10. /\ Senders(r, e) \in SUBSET Ranks /\ IsFiniteSet(Senders(r, e))
       /\ Cardinality(Senders(r, e)) \in Nat
       /\ Cardinality(Senders(r, e)') = Cardinality(Senders(r, e)) + 1
  <2>1. Senders(r, e) \in SUBSET Ranks
    BY DEF Senders
  <2>2. IsFiniteSet(Senders(r, e)) /\ Cardinality(Senders(r, e)) \in Nat
    BY <2>1, RankSets
  <2>3. Cardinality(Senders(r, e)') = Cardinality(Senders(r, e)) + 1
    BY <1>6, <1>9, <2>2, FS_AddElement
  <2> QED
    BY <2>1, <2>2, <2>3
<1>11. \A p : RoutedRows(p, x)' = RoutedRows(p, x)
  BY <1>1, <1>7 DEF RoutedRows
<1>12. n \in Nat
  BY RoutedType
<1> HIDE DEF n
<1>13. /\ recvCount' = [recvCount EXCEPT ![r][e][q] = n]
       /\ recvSum' = [recvSum EXCEPT ![r][e] = [n |-> @.n + n, ctas |-> @.ctas + NumSMs]]
  <2>1. x[1] = r /\ x[2] = e /\ sendCount[q][x].n = n
    BY <1>5
  <2>2. (IF setup.lean THEN NumSMs ELSE sendCount[q][x].ctas) = NumSMs
    <3>1. CASE setup.lean
      BY <3>1
    <3>2. CASE ~setup.lean
      BY <1>5, <3>2
    <3> QED
      BY <3>1, <3>2
  <2>3. /\ recvCount' = [recvCount EXCEPT ![x[1]][x[2]][q] = sendCount[q][x].n]
        /\ recvSum' = [recvSum EXCEPT ![x[1]][x[2]] =
              [n |-> @.n + sendCount[q][x].n,
               ctas |-> @.ctas + (IF setup.lean THEN NumSMs ELSE sendCount[q][x].ctas)]]
    BY DEF Broadcast
  <2> HIDE DEF x
  <2> QED
    BY <2>1, <2>2, <2>3
<1>14. /\ old \in [Ranks -> Nat] /\ new = [old EXCEPT ![q] = n]
       /\ recvSum'[r][e] = [n |-> recvSum[r][e].n + n, ctas |-> recvSum[r][e].ctas + NumSMs]
  <2>1. old \in [Ranks -> Nat]
    BY DEF TypeInv
  <2>2. recvCount' = [recvCount EXCEPT ![r] = [@ EXCEPT ![e] = [old EXCEPT ![q] = n]]]
    BY <1>13
  <2>3. recvCount \in [Ranks -> [Experts -> [Ranks -> Nat]]]
    BY DEF TypeInv
  <2>4. new = [old EXCEPT ![q] = n]
    BY <2>2, <2>3
  <2>5. recvSum'[r][e] = [n |-> recvSum[r][e].n + n, ctas |-> recvSum[r][e].ctas + NumSMs]
    BY <1>13 DEF TypeInv
  <2> QED
    BY <2>1, <2>4, <2>5
<1>15. old = [p \in Ranks |-> IF p \in Senders(r, e) THEN Cardinality(RoutedRows(p, x)) ELSE 0]
       /\ recvSum[r][e] = [n |-> SumTo(old, NumRanks), ctas |-> NumSMs * Cardinality(Senders(r, e))]
  BY DEF RecvAt
<1> HIDE DEF x, old, new
<1>16. new = [p \in Ranks |-> IF p \in Senders(r, e)' THEN Cardinality(RoutedRows(p, x)) ELSE 0]
  BY <1>9, <1>14, <1>15 DEF n
<1>17. SumTo(new, NumRanks) = SumTo(old, NumRanks) + n
  <2>1. old[q] = 0
    BY <1>6, <1>15
  <2>2. {q} \in SUBSET (0 .. NumRanks - 1) /\ NumRanks \in Nat
    BY SetupFacts DEF Ranks, TypeInv
  <2>3. \A k \in 0 .. NumRanks - 1 : old[k] \in Nat
    BY <1>14 DEF Ranks
  <2>4. \A k \in {q} : new[k] = old[k] + n
    BY <1>12, <1>14, <2>1
  <2>5. \A k \in (0 .. NumRanks - 1) \ {q} : new[k] = old[k]
    BY <1>14 DEF Ranks
  <2>6. SumTo(new, NumRanks) = SumTo(old, NumRanks) + n * Cardinality({q})
    BY <1>12, <2>2, <2>3, <2>4, <2>5, SumAdd
  <2>7. Cardinality({q}) = 1
    BY FS_Singleton
  <2> QED
    BY <1>12, <2>6, <2>7
<1>18. recvSum'[r][e] = [n |-> SumTo(new, NumRanks), ctas |-> NumSMs * Cardinality(Senders(r, e)')]
  <2>1. NumSMs * Cardinality(Senders(r, e)') = NumSMs * Cardinality(Senders(r, e)) + NumSMs
    BY <1>10, SetupFacts DEF TypeInv
  <2>2. recvSum[r][e].n = SumTo(old, NumRanks) /\ recvSum[r][e].ctas = NumSMs * Cardinality(Senders(r, e))
    BY <1>15
  <2> QED
    BY <1>14, <1>17, <2>1, <2>2
<1>19. recvCount'[r][e] = [p \in Ranks |-> IF p \in Senders(r, e)' THEN Cardinality(RoutedRows(p, <<r, e>>)') ELSE 0]
  BY <1>11, <1>16 DEF x, new
<1> QED
  BY <1>7, <1>18, <1>19 DEF RecvAt, new

LEMMA SumZeros ==
  ASSUME NEW n \in Nat, NEW c, \A k \in 0 .. n - 1 : c[k] = 0
  PROVE  SumTo(c, n) = 0
<1> DEFINE S == { k \in 0 .. n : SumTo(c, k) = 0 }
<1>1. 0 \in S
  BY SumZero
<1>2. ASSUME NEW k \in 0 .. n - 1, k \in S PROVE k + 1 \in S
  <2>1. SumTo(c, k + 1) = SumTo(c, k) + c[k]
    BY SumStep
  <2> QED
    BY <1>2, <2>1
<1> HIDE DEF S
<1>3. 0 .. n \subseteq S
  BY <1>1, <1>2, InductTo
<1> QED
  BY <1>3 DEF S

LEMMA CleanupRecv ==
  ASSUME TypeInv, TypeInv', ControlInv, NEW r \in Ranks, NEW sm \in SMs, Cleanup(r, sm),
         NEW e \in Experts, RecvAt(r, e)
  PROVE  RecvAt(r, e)'
<1>1. /\ UNCHANGED <<setup, launch, routing, todo>>
      /\ pc[r][sm] = "cleanup" /\ pc'[r][sm] = "barrier3"
      /\ \A q \in Ranks, o \in SMs : q # r \/ o # sm => pc'[q][o] = pc[q][o]
  BY DEF Cleanup, Goto, launchVars, TypeInv
<1>2. Ranks' = Ranks /\ Rows' = Rows /\ NumRanks' = NumRanks
  BY <1>1, SetupStands
<1>3. \A q \in Ranks : Sent(q, <<r, e>>)' <=> Sent(q, <<r, e>>)
  <2>1. <<r, e>> \in AllExperts
    BY DEF AllExperts
  <2>2. Teller(<<r, e>>) \in SMs /\ Teller(<<r, e>>)' = Teller(<<r, e>>)
    BY <1>1, <2>1, TellerType, SetupStands DEF Teller
  <2> QED
    BY <1>1, <2>2 DEF Sent, AfterGrid
<1>4. Owner(e) \in SMs /\ Owner(e) # 0 /\ (sm # 0 => (e % (NumSMs - 1) = sm - 1 <=> Owner(e) = sm))
  BY OwnerType
<1>5. CASE Owner(e) # sm
  <2>1. RecvLaunch(r, e)' = RecvLaunch(r, e)
    BY <1>1, <1>4, <1>5 DEF RecvLaunch, Ended
  <2>2. Senders(r, e)' = Senders(r, e)
    BY <1>1, <1>2, <1>3, <2>1 DEF Senders
  <2>3. recvCount'[r][e] = recvCount[r][e] /\ recvSum'[r][e] = recvSum[r][e]
    <3>1. CASE sm = 0
      BY <3>1 DEF Cleanup
    <3>2. CASE sm # 0
      BY <1>4, <1>5, <3>2 DEF Cleanup, TypeInv
    <3> QED
      BY <3>1, <3>2
  <2> QED
    BY <1>1, <2>2, <2>3, RecvFrame
<1>6. CASE Owner(e) = sm
  <2>1. RecvLaunch(r, e)' = launch[r] + 1
    BY <1>1, <1>6 DEF RecvLaunch, Ended
  <2>2. \A q \in Ranks : launch[q] # launch[r] + 1
    <3> SUFFICES ASSUME NEW q \in Ranks, launch[q] = launch[r] + 1
                 PROVE  FALSE
      OBVIOUS
    <3>1. nvSignals[r] = Barrier(r, BarriersPerLaunch)
      BY BarrierFacts DEF ControlInv, SkewInv
    <3>2. InBarrier3(r)
      BY <3>1 DEF ControlInv, SignalInv
    <3> QED
      BY <1>1, <3>2 DEF InBarrier3
  <2>3. Senders(r, e)' = {}
    BY <1>1, <1>2, <2>1, <2>2 DEF Senders
  <2>4. recvCount'[r][e] = [q \in Ranks |-> 0] /\ recvSum'[r][e] = Zero
    BY <1>4, <1>6 DEF Cleanup, TypeInv
  <2>5. SumTo(recvCount'[r][e], NumRanks) = 0
    <3>1. NumRanks \in Nat
      BY SetupFacts DEF TypeInv
    <3>2. \A k \in 0 .. NumRanks - 1 : recvCount'[r][e][k] = 0
      BY <2>4 DEF Ranks
    <3> QED
      BY <3>1, <3>2, SumZeros
  <2>6. NumSMs * Cardinality({}) = 0
    BY FS_EmptySet, SetupFacts DEF TypeInv
  <2> QED
    BY <1>2, <2>3, <2>4, <2>5, <2>6 DEF RecvAt, Zero
<1> QED
  BY <1>5, <1>6

\* No sender of a launch starts the next one before the words have been cleared.
LEMMA LaunchRecv ==
  ASSUME TypeInv, TypeInv', ControlInv, NEW q \in Ranks, Launch(q),
         NEW r \in Ranks, NEW e \in Experts, RecvAt(r, e)
  PROVE  RecvAt(r, e)'
<1>1. /\ UNCHANGED <<setup, todo, recvCount, recvSum>>
      /\ launch'[q] = launch[q] + 1
      /\ \A sm \in SMs : pc[q][sm] = "exited" /\ pc'[q][sm] = "stake"
      /\ \A p \in Ranks : p # q => /\ launch'[p] = launch[p] /\ pc'[p] = pc[p]
                                   /\ routing'[p] = routing[p]
  BY DEF Launch, Idle, countVars, TypeInv
<1>2. Ranks' = Ranks
  BY <1>1, SetupStands
<1>3. \A p \in Ranks : nvSignals[p] >= BarriersPerLaunch * launch[q]
  BY LaunchControl
<1>4. Owner(e) \in SMs /\ <<r, e>> \in AllExperts
  BY OwnerType DEF AllExperts
<1>5. Teller(<<r, e>>) \in SMs /\ Teller(<<r, e>>)' = Teller(<<r, e>>)
  BY <1>1, <1>4, TellerType, SetupStands DEF Teller
<1>6. q \notin Senders(r, e)
  <2> SUFFICES ASSUME launch[q] = RecvLaunch(r, e) PROVE FALSE
    BY DEF Senders
  <2>1. nvSignals[r] <= BarriersPerLaunch * launch[r]
    BY BarrierFacts DEF ControlInv, SignalInv
  <2>2. launch[r] >= launch[q]
    BY <1>3, <2>1, BarrierFacts
  <2>3. ~Ended(r, Owner(e)) /\ launch[q] = launch[r]
    BY <2>2, BarrierFacts DEF RecvLaunch
  <2>4. nvSignals[r] = Barrier(r, BarriersPerLaunch)
    <3>1. /\ nvSignals[r] >= BarriersPerLaunch * launch[r] /\ nvSignals[r] \in Nat
          /\ BarriersPerLaunch * launch[r] \in Nat
          /\ Barrier(r, BarriersPerLaunch) = BarriersPerLaunch * launch[r]
      BY <1>3, <2>3, BarrierFacts
    <3> QED
      BY <2>1, <3>1
  <2>5. InBarrier3(r)
    BY <2>4 DEF ControlInv, SignalInv
  <2> QED
    BY <1>4, <2>3, <2>5 DEF InBarrier3, Ended
<1>7. q \notin Senders(r, e)'
  BY <1>1, <1>5 DEF Senders, Sent, AfterGrid
<1>8. RecvLaunch(r, e)' = RecvLaunch(r, e)
  <2>1. CASE r = q
    BY <1>1, <1>4, <2>1 DEF RecvLaunch, Ended
  <2>2. CASE r # q
    BY <1>1, <1>4, <2>2 DEF RecvLaunch, Ended
  <2> QED
    BY <2>1, <2>2
<1>9. \A p \in Ranks : p # q => (Sent(p, <<r, e>>)' <=> Sent(p, <<r, e>>))
  BY <1>1, <1>5 DEF Sent, AfterGrid
<1>10. Senders(r, e)' = Senders(r, e)
  BY <1>1, <1>2, <1>6, <1>7, <1>8, <1>9 DEF Senders
<1>11. \A p \in Senders(r, e) : routing'[p] = routing[p]
  BY <1>1, <1>6 DEF Senders
<1> QED
  BY <1>1, <1>10, <1>11, RecvFrame

LEMMA NextRecv ==
  ASSUME TypeInv, TypeInv', ControlInv, \A q \in Ranks : SendInv(q),
         NEW r \in Ranks, RecvInv(r), [Next]_vars
  PROVE  RecvInv(r)'
<1>1. setup' = setup
  BY SetupKept
<1>2. Experts' = Experts /\ Ranks' = Ranks
  BY <1>1, SetupStands
<1> SUFFICES ASSUME NEW e \in Experts PROVE RecvAt(r, e)'
  BY <1>2 DEF RecvInv, RecvAt
<1>3. RecvAt(r, e)
  BY DEF RecvInv, RecvAt
<1>4. /\ Owner(e) \in SMs /\ <<r, e>> \in AllExperts /\ Teller(<<r, e>>) \in SMs
      /\ Teller(<<r, e>>)' = Teller(<<r, e>>)
  BY <1>1, OwnerType, TellerType, SetupStands DEF AllExperts, Teller
<1>5. ASSUME UNCHANGED <<launch, routing, recvCount, recvSum>>,
             Ended(r, Owner(e))' <=> Ended(r, Owner(e)),
             \A q \in Ranks : Sent(q, <<r, e>>)' <=> Sent(q, <<r, e>>)
      PROVE  RecvAt(r, e)'
  <2>1. Senders(r, e)' = Senders(r, e)
    BY <1>2, <1>5 DEF Senders, RecvLaunch
  <2> QED
    BY <1>1, <1>3, <1>5, <2>1, RecvFrame
<1>6. ASSUME UNCHANGED <<launch, routing, recvCount, recvSum, pc, todo>>
      PROVE  RecvAt(r, e)'
  BY <1>4, <1>5, <1>6 DEF Ended, Sent, AfterGrid
<1>7. CASE UNCHANGED vars
  BY <1>6, <1>7 DEF vars, countVars, launchVars
<1>8. ASSUME NEW q \in Ranks, RankStep(q) PROVE RecvAt(r, e)'
  <2>1. CASE Launch(q)
    BY <1>3, <2>1, LaunchRecv
  <2>2. CASE Signal1(q) \/ Signal2(q) \/ Signal3(q)
    BY <1>6, <2>2 DEF Signal1, Signal2, Signal3, SendSignals, countVars, launchVars
  <2> QED
    BY <1>8, <2>1, <2>2 DEF RankStep
<1>9. ASSUME NEW q \in Ranks, NEW sm \in SMs, MathStep(q, sm) PROVE RecvAt(r, e)'
  BY <1>6, <1>9 DEF MathStep, StartTasks, ClaimBlock, LoadBlock, LeaveBarrier2, countVars, launchVars
<1>10. ASSUME NEW q \in Ranks, NEW sm \in SMs, DispatchStep(q, sm) PROVE RecvAt(r, e)'
  <2>1. CASE Broadcast(q, sm, <<r, e>>)
    BY <1>3, <2>1, BroadcastRecv
  <2>2. CASE Cleanup(q, sm) /\ q = r
    BY <1>3, <2>2, CleanupRecv
  <2>3. CASE ~Broadcast(q, sm, <<r, e>>) /\ ~(Cleanup(q, sm) /\ q = r)
    <3>1. UNCHANGED <<launch, routing>>
      BY <1>10, DispatchMove
    <3>2. \A p \in Ranks : Sent(p, <<r, e>>)' <=> Sent(p, <<r, e>>)
      <4>1. Sent(q, <<r, e>>)' <=> Sent(q, <<r, e>>)
        BY <1>4, <1>10, <2>3, SentFrame
      <4>2. ASSUME NEW p \in Ranks, p # q PROVE Sent(p, <<r, e>>)' <=> Sent(p, <<r, e>>)
        <5>1. Aside(p)
          BY <1>10, <4>2, Others
        <5> QED
          BY <1>4, <5>1 DEF Aside, Sent, AfterGrid
      <4> QED
        BY <4>1, <4>2
    <3>3. Ended(r, Owner(e))' <=> Ended(r, Owner(e))
      <4>1. CASE r # q
        <5>1. Aside(r)
          BY <1>10, <4>1, Others
        <5> QED
          BY <5>1 DEF Aside, Ended
      <4>2. CASE r = q /\ Owner(e) # sm
        <5>1. pc'[r][Owner(e)] = pc[r][Owner(e)]
          BY <1>4, <1>10, <4>2, StakeMoves
        <5> QED
          BY <5>1 DEF Ended
      <4>3. CASE r = q /\ Owner(e) = sm
        BY <1>10, <2>3, <4>3, StakeMoves
      <4> QED
        BY <4>1, <4>2, <4>3
    <3>4. recvCount'[r][e] = recvCount[r][e] /\ recvSum'[r][e] = recvSum[r][e]
      <4>1. CASE \E y \in AllExperts : Broadcast(q, sm, y)
        <5>1. PICK y \in AllExperts : Broadcast(q, sm, y)
          BY <4>1
        <5>2. y = <<y[1], y[2]>> /\ y # <<r, e>>
          BY <2>3, <5>1 DEF AllExperts
        <5>3. PICK v, w : /\ recvCount' = [recvCount EXCEPT ![y[1]][y[2]][q] = v]
                          /\ recvSum' = [recvSum EXCEPT ![y[1]][y[2]] = w]
          BY <5>1 DEF Broadcast
        <5>4. y[1] # r \/ y[2] # e
          BY <5>2
        <5> QED
          <6>1. CASE y[1] = r
            <7>1. y[2] # e
              BY <5>4, <6>1
            <7> QED
              <8>1. PICK d : d = y[2] /\ d # e
                BY <7>1
              <8>2. PICK g : g = [recvCount[r][d] EXCEPT ![q] = v]
                OBVIOUS
              <8>3. recvCount' = [recvCount EXCEPT ![r][d] = g] /\ recvSum' = [recvSum EXCEPT ![r][d] = w]
                BY <5>3, <6>1, <8>1, <8>2
              <8> QED
                <9>1. recvCount[r] \in [Experts -> [Ranks -> Nat]] /\ recvSum[r] \in [Experts -> CountWords]
                  BY DEF TypeInv
                <9>2. recvCount'[r] = [recvCount[r] EXCEPT ![d] = g]
                  BY <8>3 DEF TypeInv
                <9>3. recvSum'[r] = [recvSum[r] EXCEPT ![d] = w]
                  BY <8>3 DEF TypeInv
                <9>4. recvCount'[r][e] = recvCount[r][e]
                  BY <8>1, <9>1, <9>2
                <9>5. recvSum'[r][e] = recvSum[r][e]
                  BY <8>1, <9>1, <9>3
                <9> QED
                  BY <9>4, <9>5
          <6>2. CASE y[1] # r
            BY <5>3, <6>2 DEF TypeInv
          <6> QED
            BY <6>1, <6>2
      <4>2. CASE Cleanup(q, sm) /\ q # r
        <5>1. CASE sm = 0
          BY <4>2, <5>1 DEF Cleanup
        <5>2. CASE sm # 0
          <6>1. PICK v, w : /\ recvSum' = [recvSum EXCEPT ![q] = v]
                            /\ recvCount' = [recvCount EXCEPT ![q] = w]
            BY <4>2, <5>2 DEF Cleanup
          <6> QED
            BY <4>2, <6>1 DEF TypeInv
        <5> QED
          BY <5>1, <5>2
      <4>3. CASE ~(\E y \in AllExperts : Broadcast(q, sm, y)) /\ ~Cleanup(q, sm)
        BY <1>10, <4>3 DEF DispatchStep, StakeOut, WriteIndex, LeaveGridSync, LeaveBarrier1,
           FetchCounts, PullRow, CountArrival, Join, LeaveGridSync2, LeaveBarrier3, countVars
      <4> QED
        BY <2>3, <4>1, <4>2, <4>3
    <3>5. Senders(r, e)' = Senders(r, e)
      BY <1>2, <3>1, <3>2, <3>3 DEF Senders, RecvLaunch
    <3> QED
      BY <1>1, <1>3, <3>1, <3>4, <3>5, RecvFrame
  <2> QED
    BY <2>1, <2>2, <2>3
<1> QED
  BY <1>7, <1>8, <1>9, <1>10 DEF Next, Finished

-----------------------------------------------------------------------------
(***************************************************************************)
(* What the warps of a rank know.                                          *)
(***************************************************************************)
LEMMA RoutedSum ==
  ASSUME TypeInv, NEW r \in Ranks, NEW e \in Experts, \A q \in Ranks : launch[q] = launch[r]
  PROVE  /\ IsFiniteSet(Routed(r, e))
         /\ Cardinality(Routed(r, e)) = SumTo(RowCounts(r, e), NumRanks)
         /\ RowCounts(r, e) \in [Ranks -> Nat]
         /\ Cardinality(Routed(r, e)) \in Nat
<1> DEFINE x == <<r, e>>
           Upto(m) == { y \in Routed(r, e) : y[2] < m }
           One(m) == { <<launch[r], m, i>> : i \in RoutedRows(m, x) }
           c == RowCounts(r, e)
           S == { m \in 0 .. NumRanks : /\ IsFiniteSet(Upto(m))
                                        /\ Cardinality(Upto(m)) = SumTo(c, m) }
<1>1. NumRanks \in Nat /\ NumRanks > 0 /\ Ranks = 0 .. NumRanks - 1
  BY SetupFacts DEF TypeInv, Ranks
<1>2. c \in [Ranks -> Nat] /\ \A m \in Ranks : c[m] = Cardinality(RoutedRows(m, x))
  BY RoutedType DEF RowCounts
<1>3. Routed(r, e) = { <<launch[r], p[1], p[2]>> :
                         p \in { y \in Ranks \X Rows : routing[y[1]][y[2]] = x } }
  BY DEF Routed
<1>4. \A y : y \in Routed(r, e) <=>
        \E q \in Ranks, i \in Rows : y = <<launch[r], q, i>> /\ routing[q][i] = x
  <2> DEFINE P == { y \in Ranks \X Rows : routing[y[1]][y[2]] = x }
  <2>1. ASSUME NEW y \in Routed(r, e)
        PROVE  \E q \in Ranks, i \in Rows : y = <<launch[r], q, i>> /\ routing[q][i] = x
    <3>1. PICK p \in P : y = <<launch[r], p[1], p[2]>>
      BY <1>3
    <3> QED
      BY <3>1
  <2>2. ASSUME NEW q \in Ranks, NEW i \in Rows, routing[q][i] = x
        PROVE  <<launch[r], q, i>> \in Routed(r, e)
    <3>1. <<q, i>> \in P
      BY <2>2
    <3> HIDE DEF P
    <3>2. <<launch[r], <<q, i>>[1], <<q, i>>[2]>> \in Routed(r, e)
      BY <1>3, <3>1 DEF P
    <3> QED
      BY <3>2
  <2> QED
    BY <2>1, <2>2
<1>5. Upto(0) = {}
  BY <1>1, <1>4
<1>6. 0 \in S
  <2>1. SumTo(c, 0) = 0
    BY SumZero
  <2>2. IsFiniteSet(Upto(0)) /\ Cardinality(Upto(0)) = 0
    BY <1>5, FS_EmptySet
  <2> HIDE DEF c, Upto
  <2> QED
    BY <1>1, <2>1, <2>2
<1>7. ASSUME NEW m \in 0 .. NumRanks - 1, m \in S PROVE m + 1 \in S
  <2>1. m \in Ranks /\ m + 1 \in 0 .. NumRanks /\ m \in Nat
    BY <1>1
  <2>2. Upto(m + 1) = Upto(m) \cup One(m)
    <3>1. ASSUME NEW y \in Upto(m + 1) PROVE y \in Upto(m) \cup One(m)
      <4>1. PICK q \in Ranks, i \in Rows : y = <<launch[r], q, i>> /\ routing[q][i] = x
        BY <1>4
      <4>2. q < m \/ q = m
        BY <1>1, <2>1, <4>1
      <4> QED
        BY <4>1, <4>2 DEF RoutedRows
    <3>2. ASSUME NEW y \in One(m) PROVE y \in Upto(m + 1)
      <4>1. PICK i \in RoutedRows(m, x) : y = <<launch[r], m, i>>
        OBVIOUS
      <4>2. i \in Rows /\ routing[m][i] = x
        BY DEF RoutedRows
      <4>3. y \in Routed(r, e)
        BY <1>4, <2>1, <4>1, <4>2
      <4> QED
        BY <2>1, <4>1, <4>3
    <3>3. ASSUME NEW y \in Upto(m) PROVE y \in Upto(m + 1)
      <4>1. PICK q \in Ranks, i \in Rows : y = <<launch[r], q, i>> /\ routing[q][i] = x
        BY <1>4
      <4> QED
        BY <1>1, <2>1, <4>1
    <3> QED
      BY <3>1, <3>2, <3>3
  <2>3. Upto(m) \cap One(m) = {}
    BY <2>1
  <2>4. IsFiniteSet(One(m)) /\ Cardinality(One(m)) = Cardinality(RoutedRows(m, x))
    <3> DEFINE B == RoutedRows(m, x)
               T == One(m)
               f == [i \in B |-> <<launch[r], m, i>>]
    <3>1. f \in [B -> T] /\ \A t \in T : \E i \in B : f[i] = t
      OBVIOUS
    <3>2. ASSUME NEW i \in B, NEW j \in B, f[i] = f[j] PROVE i = j
      BY <3>2
    <3>3. f \in Bijection(B, T)
      BY <3>1, <3>2 DEF Bijection, Injection, Surjection, IsInjective
    <3>4. ExistsBijection(B, T)
      BY <3>3 DEF ExistsBijection
    <3>5. IsFiniteSet(B)
      BY RoutedType
    <3> HIDE DEF B, T
    <3>6. IsFiniteSet(T) /\ Cardinality(T) = Cardinality(B)
      BY <3>4, <3>5, FS_Bijection
    <3> QED
      BY <3>6 DEF B, T
  <2> HIDE DEF Upto, One, c
  <2>5. IsFiniteSet(Upto(m)) /\ Cardinality(Upto(m)) = SumTo(c, m)
    BY <1>7
  <2>6. /\ IsFiniteSet(Upto(m) \cup One(m))
        /\ Cardinality(Upto(m) \cup One(m)) = Cardinality(Upto(m)) + Cardinality(One(m))
    BY <2>3, <2>4, <2>5, Disjoint
  <2>7. SumTo(c, m + 1) = SumTo(c, m) + c[m]
    BY <2>1, SumStep
  <2>8. Cardinality(Upto(m + 1)) = SumTo(c, m + 1)
    BY <1>2, <2>1, <2>2, <2>4, <2>5, <2>6, <2>7
  <2> QED
    BY <2>1, <2>2, <2>6, <2>8
<1>8. Upto(NumRanks) = Routed(r, e)
  BY <1>1, <1>4
<1> HIDE DEF S, c
<1>9. NumRanks \in S
  BY <1>1, <1>6, <1>7, InductTo
<1>10. SumTo(c, NumRanks) \in Nat
  <2>1. \A k \in 0 .. NumRanks - 1 : c[k] \in Nat
    BY <1>1, <1>2
  <2>2. \A m \in 0 .. NumRanks : SumTo(c, m) \in Nat
    BY <1>1, <2>1, SumType
  <2> QED
    BY <1>1, <2>2
<1> QED
  BY <1>2, <1>8, <1>9, <1>10 DEF S, c

LEMMA TrueCountsType ==
  ASSUME TypeInv, NEW r \in Ranks, AllSent(r)
  PROVE  TrueCounts(r) \in [Experts -> Nat]
<1>1. \A q \in Ranks : launch[q] = launch[r]
  BY DEF AllSent
<1> QED
  BY <1>1, RoutedSum DEF TrueCounts

LEMMA BusyCta ==
  ASSUME TypeInv, ControlInv, NEW r \in Ranks, NEW sm \in SMs, ~Ended(r, sm)
  PROVE  Busy(r)
<1>1. ~InBarrier3(r)
  BY DEF InBarrier3, Ended
<1>2. nvSignals[r] <= Barrier(r, BarriersPerLaunch) /\ nvSignals[r] # Barrier(r, BarriersPerLaunch)
  BY <1>1 DEF ControlInv, SignalInv
<1>3. nvSignals[r] \in Nat /\ Barrier(r, BarriersPerLaunch) \in Nat
  BY BarrierFacts
<1> QED
  BY <1>2, <1>3 DEF Busy

\* While the rows of a launch are under way nobody starts the next one.
LEMMA RunningKept ==
  ASSUME TypeInv, TypeInv', ControlInv, NEW r \in Ranks, Running(r), [Next]_vars
  PROVE  /\ UNCHANGED <<setup, launch, routing>>
         /\ AllSent(r)'
         /\ TrueCounts(r)' = TrueCounts(r)
         /\ \A e \in Experts : RowCounts(r, e)' = RowCounts(r, e)
<1>1. setup' = setup
  BY SetupKept
<1>2. Experts' = Experts /\ Ranks' = Ranks /\ Rows' = Rows
  BY <1>1, SetupStands
<1>3. ASSUME NEW q \in Ranks, Launch(q) PROVE FALSE
  <2>1. nvSignals[r] >= BarriersPerLaunch * launch[q]
    BY <1>3, LaunchControl
  <2>2. launch[q] = launch[r]
    BY DEF Running, AllSent
  <2>3. Barrier(r, BarriersPerLaunch) = BarriersPerLaunch * launch[r] /\ nvSignals[r] \in Nat
        /\ BarriersPerLaunch * launch[r] \in Nat
    BY BarrierFacts
  <2> QED
    BY <2>1, <2>2, <2>3 DEF Running, Busy
<1>4. UNCHANGED <<launch, routing>>
  <2>1. CASE UNCHANGED vars
    BY <2>1 DEF vars, launchVars
  <2>2. CASE \E q \in Ranks : RankStep(q)
    BY <1>3, <2>2 DEF RankStep, Signal1, Signal2, Signal3, SendSignals, launchVars
  <2>3. CASE \E q \in Ranks, sm \in SMs : DispatchStep(q, sm)
    BY <2>3, DispatchMove
  <2>4. CASE \E q \in Ranks, sm \in SMs : MathStep(q, sm)
    BY <2>4 DEF MathStep, StartTasks, ClaimBlock, LoadBlock, LeaveBarrier2, launchVars
  <2> QED
    BY <2>1, <2>2, <2>3, <2>4 DEF Next, Finished
<1>5. ASSUME NEW p \in Ranks, NEW e \in Experts PROVE Sent(p, <<r, e>>)'
  <2>0. <<r, e>> \in AllExperts
    BY DEF AllExperts
  <2>1. Sent(p, <<r, e>>)
    BY DEF Running, AllSent
  <2>2. Teller(<<r, e>>)' = Teller(<<r, e>>) /\ Teller(<<r, e>>) \in SMs
    BY <1>1, <2>0, TellerType, SetupStands DEF Teller
  <2>3. CASE UNCHANGED <<pc, todo>>
    BY <2>1, <2>2, <2>3 DEF Sent, AfterGrid
  <2>4. ASSUME NEW q \in Ranks, NEW sm \in SMs, DispatchStep(q, sm) PROVE Sent(p, <<r, e>>)'
    <3>1. CASE p # q
      <4>1. Aside(p)
        BY <2>4, <3>1, Others
      <4> QED
        BY <2>1, <2>2, <4>1 DEF Aside, Sent, AfterGrid
    <3>2. CASE p = q
      <4>1. ASSUME Broadcast(q, sm, <<r, e>>) PROVE FALSE
        <5>1. pc[q][sm] = "broadcast" /\ <<r, e>> \in todo[q][sm]
          BY <4>1 DEF Broadcast
        <5> QED
          BY <2>1, <3>2, <5>1, BroadcastLaunch
      <4> QED
        BY <2>0, <2>1, <2>4, <3>2, <4>1, SentFrame
    <3> QED
      BY <3>1, <3>2
  <2>5. CASE UNCHANGED vars
    BY <2>3, <2>5 DEF vars
  <2>6. CASE \E q \in Ranks : RankStep(q)
    BY <1>3, <2>3, <2>6 DEF RankStep, Signal1, Signal2, Signal3, SendSignals
  <2>7. CASE \E q \in Ranks, sm \in SMs : MathStep(q, sm)
    BY <2>3, <2>7 DEF MathStep, StartTasks, ClaimBlock, LoadBlock, LeaveBarrier2
  <2> QED
    BY <2>4, <2>5, <2>6, <2>7 DEF Next, Finished
<1>6. AllSent(r)'
  BY <1>2, <1>4, <1>5 DEF AllSent, Running
<1>7. TrueCounts(r)' = TrueCounts(r)
  BY <1>2, <1>4 DEF TrueCounts, Routed
<1>8. \A e \in Experts : RowCounts(r, e)' = RowCounts(r, e)
  BY <1>2, <1>4 DEF RowCounts, RoutedRows
<1> QED
  BY <1>1, <1>4, <1>6, <1>7, <1>8

\* The words of an expert that has not been cleared yet.
LEMMA RunningRecv ==
  ASSUME TypeInv, NEW r \in Ranks, AllSent(r), RecvInv(r), NEW e \in Experts,
         ~Ended(r, Owner(e))
  PROVE  recvCount[r][e] = RowCounts(r, e) /\ recvSum[r][e].n = TrueCounts(r)[e]
<1>1. Senders(r, e) = Ranks
  BY DEF Senders, RecvLaunch, AllSent
<1>2. recvCount[r][e] = RowCounts(r, e)
  BY <1>1 DEF RecvInv, RowCounts
<1>3. recvSum[r][e].n = SumTo(recvCount[r][e], NumRanks)
  <2>1. recvSum[r][e] = [n |-> SumTo(recvCount[r][e], NumRanks),
                         ctas |-> NumSMs * Cardinality(Senders(r, e))]
    BY DEF RecvInv
  <2> QED
    BY <2>1
<1>4. \A q \in Ranks : launch[q] = launch[r]
  BY DEF AllSent
<1>5. TrueCounts(r)[e] = SumTo(RowCounts(r, e), NumRanks)
  BY <1>4, RoutedSum DEF TrueCounts
<1> QED
  BY <1>2, <1>3, <1>5

LEMMA CompleteSent ==
  ASSUME TypeInv, ControlInv, NEW r \in Ranks, RecvInv(r), Complete(r)
  PROVE  Running(r) /\ Counts(r) = TrueCounts(r)
<1>1. ASSUME NEW e \in Experts
      PROVE  Senders(r, e) = Ranks /\ ~Ended(r, Owner(e)) /\ \A q \in Ranks : launch[q] = launch[r]
  <2>1. NumSMs * Cardinality(Senders(r, e)) = NumSMs * NumRanks
    <3>1. recvSum[r][e] = [n |-> SumTo(recvCount[r][e], NumRanks),
                           ctas |-> NumSMs * Cardinality(Senders(r, e))]
      BY DEF RecvInv
    <3>2. recvSum[r][e].ctas = NumSMs * NumRanks
      BY DEF Complete
    <3> QED
      BY <3>1, <3>2
  <2>2. Senders(r, e) \in SUBSET Ranks
    BY DEF Senders
  <2>3. NumSMs \in Nat /\ NumSMs > 1 /\ NumRanks \in Nat
    BY SetupFacts DEF TypeInv
  <2>4. PICK n \in Nat : n = Cardinality(Senders(r, e))
    BY <2>2, RankSets
  <2>5. n = NumRanks
    BY <2>1, <2>3, <2>4
  <2>6. Senders(r, e) = Ranks
    BY <2>2, <2>4, <2>5, RankSets
  <2>7. \A q \in Ranks : launch[q] = RecvLaunch(r, e)
    BY <2>6 DEF Senders
  <2>8. launch[r] \in Nat
    BY DEF TypeInv
  <2> QED
    BY <2>6, <2>7, <2>8 DEF RecvLaunch
<1>2. 0 \in Experts
  BY SetupFacts DEF Experts, TypeInv
<1>3. AllSent(r)
  BY <1>1, <1>2 DEF AllSent, Senders
<1>4. Busy(r)
  BY <1>1, <1>2, OwnerType, BusyCta
<1>5. \A e \in Experts : recvSum[r][e].n = TrueCounts(r)[e]
  BY <1>1, <1>3, RunningRecv
<1>6. TrueCounts(r) = [e \in Experts |-> TrueCounts(r)[e]]
  BY DEF TrueCounts
<1>7. Counts(r) = TrueCounts(r)
  BY <1>5, <1>6 DEF Counts
<1> QED
  BY <1>3, <1>4, <1>7 DEF Running

LEMMA LearnMoves ==
  ASSUME TypeInv, NEW r \in Ranks, NEW sm \in SMs, [Next]_vars
  PROVE  /\ Informed(r, sm)' => \/ Informed(r, sm) /\ seen'[r][sm] = seen[r][sm]
                                \/ Complete(r) /\ seen'[r][sm] = Counts(r)
         /\ math'[r][sm] \in {"claim", "load"} =>
              \/ math[r][sm] \in {"claim", "load"} /\ known'[r][sm] = known[r][sm]
              \/ Complete(r) /\ known'[r][sm] = Counts(r)
         /\ math'[r][sm] # "start" => math[r][sm] # "start" \/ Complete(r)
<1> DEFINE A == Informed(r, sm)' => \/ Informed(r, sm) /\ seen'[r][sm] = seen[r][sm]
                                    \/ Complete(r) /\ seen'[r][sm] = Counts(r)
           B == math'[r][sm] \in {"claim", "load"} =>
                  \/ math[r][sm] \in {"claim", "load"} /\ known'[r][sm] = known[r][sm]
                  \/ Complete(r) /\ known'[r][sm] = Counts(r)
           C == math'[r][sm] # "start" => math[r][sm] # "start" \/ Complete(r)
           Goal == A /\ B /\ C
<1> SUFFICES Goal
  OBVIOUS
<1>1. ASSUME pc'[r] = pc[r], seen'[r] = seen[r], math'[r] = math[r], known'[r] = known[r]
      PROVE  Goal
  BY <1>1 DEF Informed
<1>2. CASE UNCHANGED vars
  BY <1>1, <1>2 DEF vars, pullVars, mathVars
<1>3. ASSUME NEW q \in Ranks, q # r,
             RankStep(q) \/ \E o \in SMs : DispatchStep(q, o) \/ MathStep(q, o)
      PROVE  Goal
  <2>1. Aside(r)
    BY <1>3, Others
  <2> QED
    BY <1>1, <2>1 DEF Aside
<1>4. CASE RankStep(r)
  <2>1. CASE Launch(r)
    <3>1. pc'[r][sm] = "stake" /\ math'[r][sm] = "start"
      BY <2>1 DEF Launch, TypeInv
    <3> QED
      BY <3>1 DEF Informed
  <2>2. CASE Signal1(r) \/ Signal2(r) \/ Signal3(r)
    BY <1>1, <2>2 DEF Signal1, Signal2, Signal3, SendSignals, pullVars, mathVars
  <2> QED
    BY <1>4, <2>1, <2>2 DEF RankStep
<1>5. ASSUME NEW o \in SMs, DispatchStep(r, o) PROVE Goal
  <2>1. UNCHANGED <<math, known>>
    BY <1>5 DEF DispatchStep, StakeOut, WriteIndex, LeaveGridSync, Broadcast, LeaveBarrier1, FetchCounts,
       PullRow, CountArrival, Join, LeaveGridSync2, Cleanup, LeaveBarrier3, mathVars
  <2>2. B /\ C
    BY <2>1
  <2>3. A
    <3>1. CASE o # sm
      <4>1. pc'[r][sm] = pc[r][sm]
        BY <1>5, <3>1, StakeMoves
      <4>2. seen'[r][sm] = seen[r][sm]
        <5>1. seen' = seen \/ \E s : seen' = [seen EXCEPT ![r][o] = s]
          BY <1>5 DEF DispatchStep, StakeOut, WriteIndex, LeaveGridSync, Broadcast, LeaveBarrier1,
             FetchCounts, PullRow, CountArrival, Join, LeaveGridSync2, Cleanup, LeaveBarrier3, pullVars
        <5> QED
          BY <3>1, <5>1, SMTT(40) DEF TypeInv
      <4> QED
        BY <4>1, <4>2 DEF Informed
    <3>2. CASE o = sm
      <4>1. CASE FetchCounts(r, sm)
        BY <4>1 DEF FetchCounts, TypeInv
      <4>2. CASE PullRow(r, sm) \/ CountArrival(r, sm) \/ Join(r, sm) \/ LeaveGridSync2(r, sm)
        BY <4>2 DEF PullRow, CountArrival, Join, LeaveGridSync2, pullVars, Informed
      <4>3. ASSUME NEW p \in {"write", "broadcast", "fetch", "barrier3", "exited"},
                   pc' = [pc EXCEPT ![r][sm] = p]
            PROVE  A
        BY <4>3 DEF Informed, TypeInv
      <4>4. ASSUME pc' = pc, seen' = seen
            PROVE  A
        BY <4>4 DEF Informed
      <4>5. CASE StakeOut(r, sm) \/ LeaveGridSync(r, sm) \/ LeaveBarrier1(r, sm) \/ Cleanup(r, sm)
                   \/ LeaveBarrier3(r, sm)
        BY <4>3, <4>5, SMTT(40) DEF StakeOut, LeaveGridSync, LeaveBarrier1, Cleanup, LeaveBarrier3, Goto
      <4>6. CASE (\E i \in Rows : WriteIndex(r, sm, i)) \/ \E x \in AllExperts : Broadcast(r, sm, x)
        BY <4>4, <4>6 DEF WriteIndex, Broadcast, pullVars
      <4> QED
        BY <1>5, <3>2, <4>1, <4>2, <4>5, <4>6 DEF DispatchStep
    <3> QED
      BY <3>1, <3>2
  <2> QED
    BY <2>2, <2>3, SMTT(40)
<1>6. ASSUME NEW o \in SMs, MathStep(r, o) PROVE Goal
  <2>1. pc' = pc /\ seen' = seen
    BY <1>6 DEF MathStep, StartTasks, ClaimBlock, LoadBlock, LeaveBarrier2, pullVars
  <2>2. A
    BY <2>1 DEF Informed
  <2>3. PICK m : math' = [math EXCEPT ![r][o] = m]
    BY <1>6 DEF MathStep, StartTasks, ClaimBlock, LoadBlock, LeaveBarrier2
  <2>4. known' = known \/ \E k : known' = [known EXCEPT ![r][o] = k]
    BY <1>6 DEF MathStep, StartTasks, ClaimBlock, LoadBlock, LeaveBarrier2
  <2>5. CASE o # sm
    <3>1. math'[r][sm] = math[r][sm] /\ known'[r][sm] = known[r][sm]
      BY <2>3, <2>4, <2>5 DEF TypeInv
    <3> QED
      BY <2>2, <3>1
  <2>6. CASE o = sm
    <3>1. CASE StartTasks(r, sm)
      <4>1. Complete(r) /\ known'[r][sm] = Counts(r)
        BY <3>1 DEF StartTasks, TypeInv
      <4> QED
        BY <2>2, <4>1
    <3>2. CASE ClaimBlock(r, sm)
      <4>1. math[r][sm] = "claim"
        BY <3>2 DEF ClaimBlock
      <4>2. math'[r][sm] \in {"claim", "load"} => known'[r][sm] = known[r][sm]
        BY <3>2 DEF ClaimBlock, TypeInv
      <4> QED
        BY <2>2, <4>1, <4>2
    <3>3. CASE LoadBlock(r, sm)
      BY <2>2, <3>3 DEF LoadBlock
    <3>4. CASE LeaveBarrier2(r, sm)
      <4>1. math[r][sm] = "barrier2" /\ math'[r][sm] = "done"
        BY <3>4 DEF LeaveBarrier2, TypeInv
      <4> QED
        BY <2>2, <4>1
    <3> QED
      BY <1>6, <2>6, <3>1, <3>2, <3>3, <3>4 DEF MathStep
  <2> QED
    BY <2>5, <2>6
<1> HIDE DEF Goal
<1> QED
  BY <1>2, <1>3, <1>4, <1>5, <1>6 DEF Next, Finished

\* A launch that is under way after a step was so before it, or starts with it.
LEMMA BusyBefore ==
  ASSUME TypeInv, TypeInv', ControlInv, NEW r \in Ranks, [Next]_vars, Busy(r)', ~Launch(r)
  PROVE  Busy(r) /\ launch'[r] = launch[r]
<1>1. setup' = setup
  BY SetupKept
<1>2. launch'[r] = launch[r] /\ nvSignals'[r] >= nvSignals[r]
  <2>0. nvSignals[r] \in Nat /\ launch[r] \in Nat
    BY DEF TypeInv
  <2>1. CASE UNCHANGED <<launch, nvSignals>>
    BY <2>0, <2>1
  <2>2. CASE UNCHANGED vars
    BY <2>1, <2>2 DEF vars, launchVars
  <2>3. ASSUME NEW q \in Ranks, q # r, RankStep(q) PROVE launch'[r] = launch[r] /\ nvSignals'[r] = nvSignals[r]
    BY <2>3, Others DEF Aside
  <2>4. CASE RankStep(r)
    BY <2>0, <2>4 DEF RankStep, Signal1, Signal2, Signal3, SendSignals, launchVars, TypeInv
  <2>5. CASE \E q \in Ranks, sm \in SMs : DispatchStep(q, sm)
    BY <2>1, <2>5, DispatchMove
  <2>6. CASE \E q \in Ranks, sm \in SMs : MathStep(q, sm)
    BY <2>1, <2>6 DEF MathStep, StartTasks, ClaimBlock, LoadBlock, LeaveBarrier2, launchVars
  <2> QED
    BY <2>0, <2>2, <2>3, <2>4, <2>5, <2>6 DEF Next, Finished
<1>3. Barrier(r, BarriersPerLaunch)' = Barrier(r, BarriersPerLaunch)
  BY <1>1, <1>2, SetupStands DEF Barrier
<1>4. nvSignals'[r] \in Nat /\ nvSignals[r] \in Nat /\ Barrier(r, BarriersPerLaunch) \in Nat
  BY <1>1, BarrierFacts, SetupStands DEF TypeInv
<1> QED
  BY <1>2, <1>3, <1>4 DEF Busy

LEMMA NextLearn ==
  ASSUME TypeInv, TypeInv', ControlInv, NEW r \in Ranks, RecvInv(r), LearnInv(r), [Next]_vars
  PROVE  LearnInv(r)'
<1> SUFFICES ASSUME NEW sm \in SMs
             PROVE  /\ Informed(r, sm)' => (seen[r][sm] = TrueCounts(r))'
                    /\ (math[r][sm] \in {"claim", "load"})' => (known[r][sm] = TrueCounts(r))'
                    /\ Busy(r)' /\ (Informed(r, sm)' \/ (math[r][sm] # "start")') => AllSent(r)'
  BY DEF LearnInv
<1>1. /\ Informed(r, sm) => seen[r][sm] = TrueCounts(r)
      /\ math[r][sm] \in {"claim", "load"} => known[r][sm] = TrueCounts(r)
      /\ Busy(r) /\ (Informed(r, sm) \/ math[r][sm] # "start") => AllSent(r)
  BY DEF LearnInv
<1>2. Complete(r) => Running(r) /\ Counts(r) = TrueCounts(r)
  BY CompleteSent
<1>3. Running(r) => AllSent(r)' /\ TrueCounts(r)' = TrueCounts(r)
  BY RunningKept
<1>4. Informed(r, sm) => Running(r)
  BY <1>1, BusyCta DEF Running, Informed, Ended
<1>5. math[r][sm] \in {"claim", "load"} => Running(r)
  <2>1. SUFFICES ASSUME math[r][sm] \in {"claim", "load"} PROVE Busy(r)
    BY <1>1 DEF Running
  <2>2. ~Ended(r, sm)
    BY <2>1 DEF ControlInv, StageInv, Leaving, Ended
  <2> QED
    BY <2>2, BusyCta
<1>6. Informed(r, sm)' => (seen[r][sm] = TrueCounts(r))'
  BY <1>1, <1>2, <1>3, <1>4, LearnMoves
<1>7. (math[r][sm] \in {"claim", "load"})' => (known[r][sm] = TrueCounts(r))'
  BY <1>1, <1>2, <1>3, <1>5, LearnMoves
<1>8. ASSUME Busy(r)', Informed(r, sm)' \/ (math[r][sm] # "start")' PROVE AllSent(r)'
  <2>1. ~Launch(r)
    <3>1. SUFFICES ASSUME Launch(r) PROVE pc'[r][sm] = "stake" /\ math'[r][sm] = "start"
      BY <1>8 DEF Informed
    <3> QED
      BY <3>1 DEF Launch, TypeInv
  <2>2. Busy(r)
    BY <1>8, <2>1, BusyBefore
  <2> QED
    BY <1>1, <1>2, <1>3, <1>4, <1>8, <2>2, LearnMoves DEF Running
<1> QED
  BY <1>6, <1>7, <1>8

-----------------------------------------------------------------------------
(***************************************************************************)
(* Rows and blocks of the experts.                                         *)
(***************************************************************************)
LEMMA Segment ==
  ASSUME NEW n \in Nat, NEW c, \A k \in 0 .. n - 1 : c[k] \in Nat,
         NEW t \in Nat, t < SumTo(c, n)
  PROVE  \E e \in 0 .. n - 1 : SumTo(c, e) <= t /\ t < SumTo(c, e + 1)
<1> DEFINE T == { m \in 0 .. n : t < SumTo(c, m) }
<1>1. n \in T /\ T \in SUBSET Nat
  OBVIOUS
<1>2. PICK m \in T : \A o \in T : m <= o
  BY <1>1, Least
<1>3. m # 0
  <2>1. SumTo(c, 0) = 0
    BY SumZero
  <2> QED
    BY <1>2, <2>1
<1>4. m - 1 \in 0 .. n - 1 /\ m - 1 \in 0 .. n /\ m - 1 \notin T /\ (m - 1) + 1 = m
  BY <1>2, <1>3
<1>5. SumTo(c, m - 1) \in Nat
  BY <1>4, SumType
<1>6. SumTo(c, m - 1) <= t /\ t < SumTo(c, (m - 1) + 1)
  BY <1>2, <1>4, <1>5
<1> QED
  BY <1>4, <1>6

LEMMA SegmentUnique ==
  ASSUME NEW n \in Nat, NEW c, \A k \in 0 .. n - 1 : c[k] \in Nat, NEW t \in Nat,
         NEW e \in 0 .. n - 1, SumTo(c, e) <= t, t < SumTo(c, e + 1),
         NEW f \in 0 .. n - 1, SumTo(c, f) <= t, t < SumTo(c, f + 1)
  PROVE  e = f
<1>1. ASSUME NEW a \in 0 .. n - 1, NEW b \in 0 .. n - 1, a < b,
             SumTo(c, b) <= t, t < SumTo(c, a + 1)
      PROVE  FALSE
  <2>1. a + 1 \in 0 .. b /\ b \in Nat
    BY <1>1
  <2>2. \A k \in 0 .. b - 1 : c[k] \in Nat
    OBVIOUS
  <2>3. SumTo(c, a + 1) <= SumTo(c, b)
    BY <2>1, <2>2, SumMonotone
  <2>4. SumTo(c, a + 1) \in Nat /\ SumTo(c, b) \in Nat
    BY <2>1, SumType
  <2> QED
    BY <1>1, <2>3, <2>4
<1> QED
  BY <1>1

LEMMA Ceil ==
  ASSUME NEW a \in Nat, NEW m \in Nat \ {0}
  PROVE  /\ CeilDiv(a, m) \in Nat
         /\ a <= CeilDiv(a, m) * m
         /\ CeilDiv(a, m) * m <= a + m - 1
         /\ \A i \in 0 .. a - 1 : i \div m < CeilDiv(a, m)
         /\ \A b \in 0 .. CeilDiv(a, m) - 1 : b * m < a
<1> DEFINE s == a + m - 1
           d == s \div m
<1>1. s \in Nat /\ CeilDiv(a, m) = d
  BY DEF CeilDiv
<1>2. d \in Nat /\ s % m \in Nat /\ s % m < m /\ s = d * m + (s % m)
  BY <1>1, Division
<1>3. PICK x \in Nat : x = d * m
  BY <1>2
<1>4. a <= x /\ x <= a + m - 1
  BY <1>2, <1>3
<1>5. ASSUME NEW i \in 0 .. a - 1 PROVE i \div m < d
  <2> DEFINE j == i \div m
  <2>1. j \in Nat /\ i % m \in Nat /\ i = j * m + (i % m)
    BY Division
  <2>2. SUFFICES ASSUME j >= d PROVE FALSE
    BY <1>2, <2>1
  <2>3. j * m >= d * m
    BY <1>2, <2>1, <2>2, Product
  <2>4. PICK y \in Nat : y = j * m
    BY <2>1
  <2> QED
    BY <1>3, <1>4, <2>1, <2>3, <2>4
<1>6. ASSUME NEW b \in 0 .. d - 1 PROVE b * m < a
  <2>1. b + 1 \in Nat /\ d >= b + 1
    BY <1>2
  <2>2. d * m >= (b + 1) * m
    BY <1>2, <2>1, Product
  <2>3. (b + 1) * m = b * m + m
    OBVIOUS
  <2>4. PICK y \in Nat : y = b * m
    OBVIOUS
  <2> QED
    BY <1>3, <1>4, <2>2, <2>3, <2>4
<1> QED
  BY <1>1, <1>2, <1>3, <1>4, <1>5, <1>6

BlocksOf(counts) == [f \in Experts |-> CeilDiv(counts[f], BlockM)]

LEMMA CountSums ==
  ASSUME TypeInv, NEW c \in [Experts -> Nat]
  PROVE  /\ NumExperts \in Nat /\ NumExperts > 0 /\ Experts = 0 .. NumExperts - 1
         /\ BlockM \in Nat \ {0}
         /\ \A e \in 0 .. NumExperts :
              /\ FirstToken(c, e) \in Nat /\ FirstBlock(c, e) \in Nat
              /\ FirstBlock(c, e) = SumTo(BlocksOf(c), e)
              /\ FirstToken(c, e) <= FirstToken(c, NumExperts)
              /\ FirstBlock(c, e) <= FirstBlock(c, NumExperts)
         /\ \A e \in Experts :
              /\ e \in 0 .. NumExperts /\ e + 1 \in 0 .. NumExperts
              /\ FirstToken(c, e + 1) = FirstToken(c, e) + c[e]
              /\ FirstBlock(c, e + 1) = FirstBlock(c, e) + CeilDiv(c[e], BlockM)
         /\ \A e \in Experts : BlocksOf(c)[e] = CeilDiv(c[e], BlockM) /\ BlocksOf(c)[e] \in Nat
<1>1. NumExperts \in Nat /\ NumExperts > 0 /\ Experts = 0 .. NumExperts - 1 /\ BlockM \in Nat \ {0}
  BY SetupFacts DEF TypeInv, Experts
<1>2. \A e \in Experts : BlocksOf(c)[e] = CeilDiv(c[e], BlockM) /\ BlocksOf(c)[e] \in Nat
  BY <1>1, Ceil DEF BlocksOf
<1>3. \A e \in 0 .. NumExperts : FirstToken(c, e) \in Nat
  BY <1>1, SumType DEF FirstToken
<1>4. \A e : FirstBlock(c, e) = SumTo(BlocksOf(c), e)
  BY DEF FirstBlock, BlocksOf
<1>5. \A e \in 0 .. NumExperts : SumTo(BlocksOf(c), e) \in Nat
  BY <1>1, <1>2, SumType
<1>6. \A e \in 0 .. NumExperts : FirstToken(c, e) <= FirstToken(c, NumExperts)
  BY <1>1, SumMonotone DEF FirstToken
<1>7. \A e \in 0 .. NumExperts : SumTo(BlocksOf(c), e) <= SumTo(BlocksOf(c), NumExperts)
  BY <1>1, <1>2, SumMonotone
<1>8. ASSUME NEW e \in Experts
      PROVE  /\ e \in 0 .. NumExperts /\ e + 1 \in 0 .. NumExperts
             /\ FirstToken(c, e + 1) = FirstToken(c, e) + c[e]
             /\ FirstBlock(c, e + 1) = FirstBlock(c, e) + CeilDiv(c[e], BlockM)
  <2>1. e \in Nat /\ e \in 0 .. NumExperts /\ e + 1 \in 0 .. NumExperts
    BY <1>1
  <2>2. SumTo(c, e + 1) = SumTo(c, e) + c[e]
    BY <2>1, SumStep
  <2>3. SumTo(BlocksOf(c), e + 1) = SumTo(BlocksOf(c), e) + BlocksOf(c)[e]
    BY <2>1, SumStep
  <2> QED
    BY <1>2, <1>4, <2>1, <2>2, <2>3 DEF FirstToken
<1> QED
  BY <1>1, <1>2, <1>3, <1>4, <1>5, <1>6, <1>7, <1>8

\* The expert of a position, and of a block.
LEMMA ExpertAtRight ==
  ASSUME TypeInv, NEW c \in [Experts -> Nat], NEW t \in 0 .. FirstToken(c, NumExperts) - 1
  PROVE  /\ ExpertAt(c, t) \in Experts
         /\ FirstToken(c, ExpertAt(c, t)) \in Nat
         /\ IndexAt(c, t) \in 0 .. c[ExpertAt(c, t)] - 1
         /\ t = FirstToken(c, ExpertAt(c, t)) + IndexAt(c, t)
<1>1. /\ NumExperts \in Nat /\ Experts = 0 .. NumExperts - 1 /\ t \in Nat
      /\ t < SumTo(c, NumExperts)
  BY CountSums DEF FirstToken
<1>2. \E e \in Experts : FirstToken(c, e) <= t /\ t < FirstToken(c, e + 1)
  BY <1>1, Segment DEF FirstToken
<1>3. \A e \in Experts : FirstToken(c, e) \in Nat /\ FirstToken(c, e + 1) \in Nat
  BY CountSums
<1>4. \A e \in Experts : t \in FirstToken(c, e) .. FirstToken(c, e + 1) - 1
                         <=> FirstToken(c, e) <= t /\ t < FirstToken(c, e + 1)
  BY <1>1, <1>3
<1>5. \E e \in Experts : t \in FirstToken(c, e) .. FirstToken(c, e + 1) - 1
  BY <1>2, <1>4
<1>6. ExpertAt(c, t) \in Experts
      /\ t \in FirstToken(c, ExpertAt(c, t)) .. FirstToken(c, ExpertAt(c, t) + 1) - 1
  BY <1>5 DEF ExpertAt
<1>7. FirstToken(c, ExpertAt(c, t) + 1) = FirstToken(c, ExpertAt(c, t)) + c[ExpertAt(c, t)]
  BY <1>6, CountSums
<1>8. FirstToken(c, ExpertAt(c, t)) \in Nat /\ c[ExpertAt(c, t)] \in Nat
  BY <1>3, <1>6
<1> QED
  BY <1>1, <1>6, <1>7, <1>8 DEF IndexAt

LEMMA ExpertAtUnique ==
  ASSUME TypeInv, NEW c \in [Experts -> Nat], NEW e \in Experts, NEW i \in 0 .. c[e] - 1,
         NEW t, t = FirstToken(c, e) + i
  PROVE  t \in 0 .. FirstToken(c, NumExperts) - 1 /\ ExpertAt(c, t) = e /\ IndexAt(c, t) = i
<1>1. /\ NumExperts \in Nat /\ Experts = 0 .. NumExperts - 1
      /\ FirstToken(c, e) \in Nat /\ FirstToken(c, e + 1) = FirstToken(c, e) + c[e]
      /\ FirstToken(c, e + 1) <= FirstToken(c, NumExperts) /\ FirstToken(c, NumExperts) \in Nat
  BY CountSums
<1>2. t \in 0 .. FirstToken(c, NumExperts) - 1 /\ c[e] \in Nat /\ t \in Nat
      /\ FirstToken(c, e) <= t /\ t < FirstToken(c, e + 1)
  BY <1>1
<1> DEFINE f == ExpertAt(c, t)
<1>3. f \in Experts /\ FirstToken(c, f) <= t /\ t < FirstToken(c, f + 1)
  <2>1. f \in Experts /\ FirstToken(c, f) \in Nat /\ IndexAt(c, t) \in 0 .. c[f] - 1
        /\ t = FirstToken(c, f) + IndexAt(c, t)
    BY <1>2, ExpertAtRight
  <2>2. FirstToken(c, f + 1) = FirstToken(c, f) + c[f] /\ c[f] \in Nat
    BY <2>1, CountSums
  <2> QED
    BY <2>1, <2>2
<1>4. f = e
  BY <1>1, <1>2, <1>3, SegmentUnique DEF FirstToken
<1> QED
  BY <1>1, <1>2, <1>4 DEF IndexAt

LEMMA ExpertOfRight ==
  ASSUME TypeInv, NEW c \in [Experts -> Nat], NEW b \in 0 .. FirstBlock(c, NumExperts) - 1
  PROVE  /\ ExpertOf(c, b) \in Experts
         /\ FirstBlock(c, ExpertOf(c, b)) \in Nat
         /\ b - FirstBlock(c, ExpertOf(c, b)) \in 0 .. CeilDiv(c[ExpertOf(c, b)], BlockM) - 1
<1> DEFINE d == BlocksOf(c)
<1>1. /\ NumExperts \in Nat /\ Experts = 0 .. NumExperts - 1 /\ b \in Nat
      /\ FirstBlock(c, NumExperts) = SumTo(d, NumExperts)
      /\ \A k \in 0 .. NumExperts - 1 : d[k] \in Nat
  BY CountSums
<1>2. \A e \in Experts : /\ FirstBlock(c, e) \in Nat /\ FirstBlock(c, e + 1) \in Nat
                         /\ FirstBlock(c, e) = SumTo(d, e) /\ FirstBlock(c, e + 1) = SumTo(d, e + 1)
                         /\ FirstBlock(c, e + 1) = FirstBlock(c, e) + CeilDiv(c[e], BlockM)
                         /\ CeilDiv(c[e], BlockM) \in Nat
  BY CountSums
<1> HIDE DEF d
<1>3. b < SumTo(d, NumExperts)
  <2>1. FirstBlock(c, NumExperts) \in Nat
    BY CountSums
  <2> QED
    BY <1>1, <2>1
<1>4. \E e \in Experts : SumTo(d, e) <= b /\ b < SumTo(d, e + 1)
  BY <1>1, <1>3, Segment
<1>5. \E e \in Experts : b \in FirstBlock(c, e) .. FirstBlock(c, e + 1) - 1
  BY <1>1, <1>2, <1>4
<1>6. ExpertOf(c, b) \in Experts
      /\ b \in FirstBlock(c, ExpertOf(c, b)) .. FirstBlock(c, ExpertOf(c, b) + 1) - 1
  BY <1>5 DEF ExpertOf
<1> DEFINE e == ExpertOf(c, b)
<1> HIDE DEF e
<1>7. e \in Experts /\ b \in FirstBlock(c, e) .. FirstBlock(c, e + 1) - 1
  BY <1>6 DEF e
<1>8. /\ FirstBlock(c, e) \in Nat
      /\ b - FirstBlock(c, e) \in 0 .. CeilDiv(c[e], BlockM) - 1
  <2>1. PICK x \in Nat, y \in Nat, k \in Nat :
          x = FirstBlock(c, e) /\ y = FirstBlock(c, e + 1) /\ k = CeilDiv(c[e], BlockM)
    BY <1>2, <1>7
  <2>2. y = x + k
    BY <1>2, <1>7, <2>1
  <2>3. b \in x .. y - 1
    BY <1>7, <2>1
  <2>4. b - x \in 0 .. k - 1
    BY <1>1, <2>2, <2>3
  <2> QED
    BY <2>1, <2>4
<1> QED
  BY <1>7, <1>8 DEF e

LEMMA ExpertOfUnique ==
  ASSUME TypeInv, NEW c \in [Experts -> Nat], NEW e \in Experts,
         NEW j \in 0 .. CeilDiv(c[e], BlockM) - 1
  PROVE  /\ FirstBlock(c, e) + j \in 0 .. FirstBlock(c, NumExperts) - 1
         /\ ExpertOf(c, FirstBlock(c, e) + j) = e
<1> DEFINE d == BlocksOf(c)
           b == FirstBlock(c, e) + j
<1>1. /\ NumExperts \in Nat /\ Experts = 0 .. NumExperts - 1
      /\ \A k \in 0 .. NumExperts - 1 : d[k] \in Nat
  BY CountSums
<1>2. /\ FirstBlock(c, e) \in Nat /\ FirstBlock(c, e + 1) = FirstBlock(c, e) + CeilDiv(c[e], BlockM)
      /\ CeilDiv(c[e], BlockM) \in Nat
      /\ FirstBlock(c, e + 1) <= FirstBlock(c, NumExperts) /\ FirstBlock(c, NumExperts) \in Nat
      /\ FirstBlock(c, e) = SumTo(d, e) /\ FirstBlock(c, e + 1) = SumTo(d, e + 1)
  BY CountSums
<1>3. b \in 0 .. FirstBlock(c, NumExperts) - 1 /\ b \in Nat
      /\ SumTo(d, e) <= b /\ b < SumTo(d, e + 1)
  BY <1>2
<1> HIDE DEF b
<1> DEFINE f == ExpertOf(c, b)
<1>4. /\ f \in Experts /\ FirstBlock(c, f) \in Nat
      /\ b - FirstBlock(c, f) \in 0 .. CeilDiv(c[f], BlockM) - 1
  BY <1>3, ExpertOfRight
<1>5. /\ FirstBlock(c, f + 1) = FirstBlock(c, f) + CeilDiv(c[f], BlockM)
      /\ CeilDiv(c[f], BlockM) \in Nat
      /\ FirstBlock(c, f) = SumTo(d, f) /\ FirstBlock(c, f + 1) = SumTo(d, f + 1)
  BY <1>4, CountSums
<1>6. SumTo(d, f) <= b /\ b < SumTo(d, f + 1)
  BY <1>3, <1>4, <1>5
<1> HIDE DEF d, f
<1>7. f = e
  BY <1>1, <1>3, <1>4, <1>6, SegmentUnique
<1> QED
  BY <1>3, <1>7 DEF b, f

-----------------------------------------------------------------------------
(***************************************************************************)
(* Positions and the places of the pool.                                   *)
(***************************************************************************)
LEMMA Digits ==
  ASSUME NEW m \in Nat \ {0}, NEW a \in Nat, NEW b \in Nat, NEW x \in 0 .. m - 1, NEW y \in 0 .. m - 1,
         a * m + x = b * m + y
  PROVE  a = b /\ x = y
<1>1. ASSUME NEW g \in Nat, NEW h \in Nat, g >= h + 1
      PROVE  g * m >= h * m + m
  <2>1. g * m >= (h + 1) * m
    BY <1>1, Product
  <2>2. (h + 1) * m = h * m + m
    OBVIOUS
  <2> QED
    BY <2>1, <2>2
<1>2. PICK s \in Nat, t \in Nat : s = a * m /\ t = b * m
  OBVIOUS
<1>3. ~(a >= b + 1)
  <2>1. SUFFICES ASSUME a >= b + 1 PROVE FALSE
    OBVIOUS
  <2>2. s >= t + m
    BY <1>1, <1>2, <2>1
  <2> QED
    BY <1>2, <2>2
<1>4. ~(b >= a + 1)
  <2>1. SUFFICES ASSUME b >= a + 1 PROVE FALSE
    OBVIOUS
  <2>2. t >= s + m
    BY <1>1, <1>2, <2>1
  <2> QED
    BY <1>2, <2>2
<1>5. a = b
  BY <1>3, <1>4
<1> QED
  BY <1>2, <1>5

\* The block of a position, and its row within the block.
LEMMA BlockOfRow ==
  ASSUME TypeInv, NEW c \in [Experts -> Nat], NEW t \in 0 .. FirstToken(c, NumExperts) - 1
  PROVE  /\ BlockAt(c, t) \in 0 .. FirstBlock(c, NumExperts) - 1
         /\ ExpertOf(c, BlockAt(c, t)) = ExpertAt(c, t)
         /\ PlaceAt(c, t) = BlockAt(c, t) * BlockM + (IndexAt(c, t) % BlockM)
         /\ IndexAt(c, t) % BlockM \in 0 .. BlockM - 1
<1> DEFINE e == ExpertAt(c, t)
           i == IndexAt(c, t)
           b == FirstBlock(c, e)
<1>1. e \in Experts /\ i \in 0 .. c[e] - 1 /\ i \in Nat /\ b \in Nat /\ BlockM \in Nat \ {0}
      /\ c[e] \in Nat
  BY ExpertAtRight, CountSums
<1>2. BlockAt(c, t) = b + i \div BlockM /\ PlaceAt(c, t) = b * BlockM + i
  BY DEF BlockAt, PlaceAt
<1> HIDE DEF e, i, b
<1>3. PICK j \in Nat, k \in 0 .. BlockM - 1 : j = i \div BlockM /\ k = i % BlockM /\ i = j * BlockM + k
  BY <1>1, Division
<1>4. j \in 0 .. CeilDiv(c[e], BlockM) - 1
  <2>1. CeilDiv(c[e], BlockM) \in Nat /\ i \div BlockM < CeilDiv(c[e], BlockM)
    BY <1>1, Ceil
  <2> QED
    BY <1>3, <2>1
<1>5. /\ FirstBlock(c, e) + j \in 0 .. FirstBlock(c, NumExperts) - 1
      /\ ExpertOf(c, FirstBlock(c, e) + j) = e
  BY <1>1, <1>4, ExpertOfUnique
<1>6. BlockAt(c, t) = b + j
  BY <1>2, <1>3
<1>7. (b + j) * BlockM = b * BlockM + j * BlockM
  BY <1>1, <1>3
<1>8. b * BlockM \in Nat /\ j * BlockM \in Nat
  BY <1>1, <1>3
<1>9. PlaceAt(c, t) = (b + j) * BlockM + k
  BY <1>2, <1>3, <1>7, <1>8
<1>10. BlockAt(c, t) \in 0 .. FirstBlock(c, NumExperts) - 1 /\ ExpertOf(c, BlockAt(c, t)) = e
  BY <1>5, <1>6 DEF b
<1>11. i % BlockM \in 0 .. BlockM - 1 /\ PlaceAt(c, t) = BlockAt(c, t) * BlockM + (i % BlockM)
  BY <1>3, <1>6, <1>9
<1> QED
  BY <1>10, <1>11 DEF e, i

LEMMA PlaceInjective ==
  ASSUME TypeInv, NEW c \in [Experts -> Nat], NEW t \in 0 .. FirstToken(c, NumExperts) - 1,
         NEW u \in 0 .. FirstToken(c, NumExperts) - 1, PlaceAt(c, t) = PlaceAt(c, u)
  PROVE  t = u
<1>1. BlockM \in Nat \ {0}
  BY CountSums
<1>2. \A w \in {t, u} : \E b \in Nat, k \in 0 .. BlockM - 1 :
        b = BlockAt(c, w) /\ ExpertOf(c, b) = ExpertAt(c, w) /\ PlaceAt(c, w) = b * BlockM + k
  <2> SUFFICES ASSUME NEW w \in 0 .. FirstToken(c, NumExperts) - 1
               PROVE  \E b \in Nat, k \in 0 .. BlockM - 1 :
        b = BlockAt(c, w) /\ ExpertOf(c, b) = ExpertAt(c, w) /\ PlaceAt(c, w) = b * BlockM + k
    OBVIOUS
  <2> DEFINE g == BlockAt(c, w)
             h == IndexAt(c, w) % BlockM
  <2>1. /\ g \in 0 .. FirstBlock(c, NumExperts) - 1 /\ ExpertOf(c, g) = ExpertAt(c, w)
        /\ PlaceAt(c, w) = g * BlockM + h /\ h \in 0 .. BlockM - 1
    BY BlockOfRow
  <2> HIDE DEF g, h
  <2>2. g \in Nat /\ g = BlockAt(c, w)
    <3>1. FirstBlock(c, NumExperts) \in Nat
      BY CountSums
    <3> QED
      BY <2>1, <3>1 DEF g
  <2> QED
    BY <2>1, <2>2
<1>3. PICK b \in Nat, k \in 0 .. BlockM - 1 :
        b = BlockAt(c, t) /\ ExpertOf(c, b) = ExpertAt(c, t) /\ PlaceAt(c, t) = b * BlockM + k
  BY <1>2
<1>31. PICK d \in Nat, l \in 0 .. BlockM - 1 :
        d = BlockAt(c, u) /\ ExpertOf(c, d) = ExpertAt(c, u) /\ PlaceAt(c, u) = d * BlockM + l
  BY <1>2
<1>32. b * BlockM + k = d * BlockM + l
  BY <1>3, <1>31
<1>4. b = d
  BY <1>1, <1>32, Digits
<1>5. ExpertAt(c, t) = ExpertAt(c, u)
  BY <1>3, <1>31, <1>4
<1> DEFINE e == ExpertAt(c, t)
<1>6. e \in Experts /\ FirstToken(c, e) \in Nat /\ FirstBlock(c, e) \in Nat
  BY ExpertAtRight, CountSums
<1>7. PICK i \in Nat, j \in Nat : /\ i = IndexAt(c, t) /\ j = IndexAt(c, u)
                                  /\ t = FirstToken(c, e) + i /\ u = FirstToken(c, e) + j
  BY <1>5, ExpertAtRight
<1>8. FirstBlock(c, e) * BlockM + i = FirstBlock(c, e) * BlockM + j
  BY <1>5, <1>7 DEF PlaceAt
<1>9. FirstBlock(c, e) * BlockM \in Nat
  BY <1>1, <1>6
<1>10. i = j
  BY <1>8, <1>9
<1> QED
  BY <1>7, <1>10

\* The rows of a block are a range of positions.
LEMMA RowsOfBlock ==
  ASSUME TypeInv, NEW c \in [Experts -> Nat], NEW b \in 0 .. FirstBlock(c, NumExperts) - 1
  PROVE  LET e == ExpertOf(c, b)
             first == FirstToken(c, e) + (b - FirstBlock(c, e)) * BlockM
         IN  /\ first \in Nat /\ ValidM(c, b) \in Nat /\ e \in Experts
             /\ first + ValidM(c, b) <= FirstToken(c, e) + c[e]
             /\ \A t \in first .. first + ValidM(c, b) - 1 :
                  /\ t \in 0 .. FirstToken(c, NumExperts) - 1
                  /\ BlockAt(c, t) = b /\ ExpertAt(c, t) = e
                  /\ PlaceAt(c, t) = b * BlockM + (t - first)
             /\ \A t \in 0 .. FirstToken(c, NumExperts) - 1 :
                  BlockAt(c, t) = b => t \in first .. first + ValidM(c, b) - 1
<1> DEFINE e == ExpertOf(c, b)
           j == b - FirstBlock(c, e)
           f == FirstToken(c, e)
           first == f + j * BlockM
           v == ValidM(c, b)
<1>1. e \in Experts /\ FirstBlock(c, e) \in Nat /\ j \in 0 .. CeilDiv(c[e], BlockM) - 1 /\ b \in Nat
  BY ExpertOfRight
<1>2. BlockM \in Nat \ {0} /\ f \in Nat /\ c[e] \in Nat
  BY <1>1, CountSums
<1>3. v = Fewer(c[e] - j * BlockM, BlockM)
  BY DEF ValidM
<1>4. b = FirstBlock(c, e) + j
  BY <1>1
<1> HIDE DEF e, v
<1>5. j \in Nat /\ j * BlockM < c[e]
  <2>1. CeilDiv(c[e], BlockM) \in Nat /\ j * BlockM < c[e]
    BY <1>1, <1>2, Ceil
  <2> QED
    BY <1>1, <2>1
<1> HIDE DEF j, f
<1>6. PICK g \in Nat : g = j * BlockM
  BY <1>2, <1>5
<1>7. v \in Nat /\ v <= BlockM /\ g + v <= c[e] /\ v > 0
      /\ \A k \in 0 .. BlockM - 1 : g + k < c[e] => k < v
  BY <1>2, <1>3, <1>5, <1>6 DEF Fewer
<1>8. first = f + g /\ first \in Nat /\ first + v <= f + c[e]
  BY <1>2, <1>6, <1>7
<1>9. ASSUME NEW t \in first .. first + v - 1
      PROVE  /\ t \in 0 .. FirstToken(c, NumExperts) - 1
             /\ BlockAt(c, t) = b /\ ExpertAt(c, t) = e
             /\ PlaceAt(c, t) = b * BlockM + (t - first)
  <2> DEFINE k == t - first
             i == g + k
  <2>1. k \in 0 .. BlockM - 1 /\ i \in 0 .. c[e] - 1 /\ t = f + i
    BY <1>2, <1>7, <1>8
  <2>2. t \in 0 .. FirstToken(c, NumExperts) - 1 /\ ExpertAt(c, t) = e /\ IndexAt(c, t) = i
    BY <1>1, <2>1, ExpertAtUnique DEF f
  <2>3. PICK a \in Nat, x \in 0 .. BlockM - 1 : a = i \div BlockM /\ i = a * BlockM + x
    <3>1. i \in Nat
      BY <2>1
    <3> HIDE DEF i
    <3>2. i \div BlockM \in Nat /\ i % BlockM \in 0 .. BlockM - 1
          /\ i = (i \div BlockM) * BlockM + (i % BlockM)
      BY <1>2, <3>1, Division
    <3> QED
      BY <3>2
  <2>4. a * BlockM + x = j * BlockM + k
    BY <1>6, <2>3
  <2> HIDE DEF k, i
  <2>5. a = j
    BY <1>2, <1>5, <2>1, <2>3, <2>4, Digits
  <2>6. BlockAt(c, t) = b
    BY <1>4, <2>2, <2>3, <2>5 DEF BlockAt
  <2>7. PlaceAt(c, t) = FirstBlock(c, e) * BlockM + i
    BY <2>2 DEF PlaceAt
  <2>8. b * BlockM = FirstBlock(c, e) * BlockM + j * BlockM
    BY <1>1, <1>2, <1>4, <1>5
  <2>9. FirstBlock(c, e) * BlockM \in Nat
    BY <1>1, <1>2
  <2>10. PlaceAt(c, t) = b * BlockM + k
    BY <1>6, <2>1, <2>7, <2>8, <2>9 DEF i
  <2> QED
    BY <2>2, <2>6, <2>10 DEF k
<1>10. ASSUME NEW t \in 0 .. FirstToken(c, NumExperts) - 1, BlockAt(c, t) = b
       PROVE  t \in first .. first + v - 1
  <2>1. ExpertAt(c, t) = e
    BY <1>10, BlockOfRow DEF e
  <2>2. PICK i \in 0 .. c[e] - 1 : i = IndexAt(c, t) /\ t = f + i
    BY <2>1, ExpertAtRight DEF f
  <2>3. i \in Nat
    BY <1>2, <2>2
  <2>4. PICK a \in Nat, x \in 0 .. BlockM - 1 : a = i \div BlockM /\ i = a * BlockM + x
    <3>1. i \div BlockM \in Nat /\ i % BlockM \in 0 .. BlockM - 1
          /\ i = (i \div BlockM) * BlockM + (i % BlockM)
      BY <1>2, <2>3, Division
    <3> QED
      BY <3>1
  <2>5. FirstBlock(c, e) + a = b
    BY <1>10, <2>1, <2>2, <2>4 DEF BlockAt
  <2>6. a = j
    BY <1>1, <1>4, <1>5, <2>4, <2>5
  <2>7. i = g + x
    BY <1>6, <2>4, <2>6
  <2>8. x < v
    BY <1>2, <1>7, <2>2, <2>4, <2>7
  <2> QED
    BY <1>2, <1>7, <1>8, <2>2, <2>4, <2>7, <2>8
<1> HIDE DEF first
<1> QED
  BY <1>1, <1>7, <1>8, <1>9, <1>10 DEF first, e, j, f, v

LEMMA BlockRowCount ==
  ASSUME TypeInv, NEW c \in [Experts -> Nat], NEW b \in 0 .. FirstBlock(c, NumExperts) - 1
  PROVE  LET rows == { t \in 0 .. FirstToken(c, NumExperts) - 1 : BlockAt(c, t) = b }
         IN  IsFiniteSet(rows) /\ Cardinality(rows) = ValidM(c, b)
<1> DEFINE rows == { t \in 0 .. FirstToken(c, NumExperts) - 1 : BlockAt(c, t) = b }
           e == ExpertOf(c, b)
           first == FirstToken(c, e) + (b - FirstBlock(c, e)) * BlockM
           v == ValidM(c, b)
<1>1. /\ first \in Nat /\ v \in Nat
      /\ \A t \in first .. first + v - 1 :
           t \in 0 .. FirstToken(c, NumExperts) - 1 /\ BlockAt(c, t) = b
      /\ \A t \in 0 .. FirstToken(c, NumExperts) - 1 : BlockAt(c, t) = b => t \in first .. first + v - 1
  BY RowsOfBlock
<1> HIDE DEF first, v
<1>2. rows = first .. first + v - 1
  BY <1>1
<1>3. IsFiniteSet(first .. first + v - 1) /\ Cardinality(first .. first + v - 1) = v
  <2>1. first \in Int /\ first + v - 1 \in Int
    BY <1>1
  <2>2. IsFiniteSet(first .. first + v - 1)
        /\ Cardinality(first .. first + v - 1)
             = IF first > first + v - 1 THEN 0 ELSE (first + v - 1) - first + 1
    BY <2>1, FS_Interval
  <2> QED
    BY <1>1, <2>2
<1> QED
  BY <1>2, <1>3 DEF v

LEMMA BlocksBound ==
  ASSUME TypeInv, NEW c \in [Experts -> Nat]
  PROVE  FirstBlock(c, NumExperts) * BlockM <= FirstToken(c, NumExperts) + NumExperts * BlockM
<1> DEFINE S == { k \in 0 .. NumExperts : FirstBlock(c, k) * BlockM <= FirstToken(c, k) + k * BlockM }
<1>1. NumExperts \in Nat /\ Experts = 0 .. NumExperts - 1 /\ BlockM \in Nat \ {0}
  BY CountSums
<1>2. 0 \in S
  <2>1. FirstBlock(c, 0) = 0 /\ FirstToken(c, 0) = 0
    BY SumZero DEF FirstBlock, FirstToken
  <2> QED
    BY <1>1, <2>1
<1>3. ASSUME NEW k \in 0 .. NumExperts - 1, k \in S PROVE k + 1 \in S
  <2>1. k \in Experts /\ k \in Nat
    BY <1>1
  <2>2. PICK f \in Nat, d \in Nat, t \in Nat, n \in Nat :
          /\ f = FirstBlock(c, k) /\ d = CeilDiv(c[k], BlockM) /\ t = FirstToken(c, k) /\ n = c[k]
          /\ FirstBlock(c, k + 1) = f + d /\ FirstToken(c, k + 1) = t + n /\ k + 1 \in 0 .. NumExperts
    <3>1. CeilDiv(c[k], BlockM) \in Nat /\ c[k] \in Nat
      BY <1>1, <2>1, Ceil
    <3> QED
      BY <2>1, <3>1, CountSums
  <2>3. d * BlockM <= n + BlockM - 1
    BY <1>1, <2>2, Ceil
  <2>4. (f + d) * BlockM = f * BlockM + d * BlockM /\ (k + 1) * BlockM = k * BlockM + BlockM
    BY <1>1, <2>1
  <2>5. PICK x \in Nat, y \in Nat, z \in Nat : x = f * BlockM /\ y = d * BlockM /\ z = k * BlockM
    BY <1>1, <2>1
  <2>6. x <= t + z
    BY <1>3, <2>2, <2>5
  <2>61. y <= n + BlockM - 1
    BY <2>3, <2>5
  <2>7. x + y <= t + n + (z + BlockM)
    <3>1. ASSUME NEW m \in Nat, y <= n + m - 1 PROVE x + y <= t + n + (z + m)
      BY <2>6, <3>1
    <3> QED
      BY <1>1, <2>61, <3>1
  <2>8. (f + d) * BlockM <= (t + n) + (k + 1) * BlockM
    BY <1>1, <2>2, <2>4, <2>5, <2>7
  <2> QED
    BY <2>2, <2>8
<1> HIDE DEF S
<1>4. NumExperts \in S
  <2>1. 0 .. NumExperts \subseteq S
    BY <1>1, <1>2, <1>3, InductTo
  <2> QED
    BY <1>1, <2>1
<1> QED
  BY <1>4 DEF S

\* No more rows arrive at a rank than all ranks route.
LEMMA TotalBound ==
  ASSUME TypeInv, NEW r \in Ranks, AllSent(r)
  PROVE  Total(r) <= NumRanks * NumRows
<1> DEFINE c == TrueCounts(r)
           B == Ranks \X Rows
           T == { <<launch[r], p[1], p[2]>> : p \in B }
           f == [p \in B |-> <<launch[r], p[1], p[2]>>]
           Upto(m) == { y \in T : \E e \in 0 .. m - 1 : y \in Routed(r, e) }
           S == { m \in 0 .. NumExperts : /\ IsFiniteSet(Upto(m))
                                          /\ Cardinality(Upto(m)) = SumTo(c, m) }
<1>1. NumExperts \in Nat /\ Experts = 0 .. NumExperts - 1 /\ NumRanks \in Nat /\ NumRows \in Nat
  BY SetupFacts DEF TypeInv, Experts
<1>2. \A q \in Ranks : launch[q] = launch[r]
  BY DEF AllSent
<1>3. IsFiniteSet(T) /\ Cardinality(T) = NumRanks * NumRows
  <2>1. IsFiniteSet(Ranks) /\ Cardinality(Ranks) = NumRanks /\ IsFiniteSet(Rows)
        /\ Cardinality(Rows) = NumRows
    <3>1. IsFiniteSet(Rows) /\ Cardinality(Rows) = NumRows
      <4>1. IsFiniteSet(0 .. NumRows - 1)
            /\ Cardinality(0 .. NumRows - 1)
                 = IF 0 > NumRows - 1 THEN 0 ELSE (NumRows - 1) - 0 + 1
        BY <1>1, FS_Interval
      <4> QED
        BY <1>1, <4>1 DEF Rows
    <3> QED
      BY <3>1, RankSets
  <2>2. IsFiniteSet(B) /\ Cardinality(B) = NumRanks * NumRows
    <3>1. IsFiniteSet(B) /\ Cardinality(B) = Cardinality(Ranks) * Cardinality(Rows)
      BY <2>1, FS_Product
    <3> QED
      BY <2>1, <3>1
  <2>3. f \in [B -> T] /\ \A t \in T : \E p \in B : f[p] = t
    OBVIOUS
  <2>4. ASSUME NEW p \in B, NEW o \in B, f[p] = f[o] PROVE p = o
    BY <2>4
  <2>5. f \in Bijection(B, T)
    BY <2>3, <2>4 DEF Bijection, Injection, Surjection, IsInjective
  <2>6. ExistsBijection(B, T)
    BY <2>5 DEF ExistsBijection
  <2> HIDE DEF B, T
  <2>7. IsFiniteSet(T) /\ Cardinality(T) = Cardinality(B)
    BY <2>2, <2>6, FS_Bijection
  <2> QED
    BY <2>2, <2>7
<1>4. \A e : \A y \in Routed(r, e) : y \in T /\ routing[y[2]][y[3]] = <<r, e>>
  BY DEF Routed
<1>5. \A e \in Experts : /\ IsFiniteSet(Routed(r, e)) /\ c[e] = Cardinality(Routed(r, e))
                         /\ c[e] \in Nat
  BY <1>2, RoutedSum DEF TrueCounts
<1>6. Upto(0) = {}
  OBVIOUS
<1>7. 0 \in S
  <2>1. SumTo(c, 0) = 0
    BY SumZero
  <2>2. IsFiniteSet(Upto(0)) /\ Cardinality(Upto(0)) = 0
    BY <1>6, FS_EmptySet
  <2> HIDE DEF c, Upto
  <2> QED
    BY <1>1, <2>1, <2>2
<1>8. ASSUME NEW m \in 0 .. NumExperts - 1, m \in S PROVE m + 1 \in S
  <2>1. m \in Experts /\ m \in Nat /\ m + 1 \in 0 .. NumExperts
    BY <1>1
  <2>2. 0 .. (m + 1) - 1 = (0 .. m - 1) \cup {m} /\ m \notin 0 .. m - 1
    BY <2>1
  <2>3. Upto(m + 1) = Upto(m) \cup Routed(r, m)
    BY <1>4, <2>2
  <2>4. Upto(m) \cap Routed(r, m) = {}
    <3>1. SUFFICES ASSUME NEW y \in Upto(m), y \in Routed(r, m) PROVE FALSE
      OBVIOUS
    <3>2. PICK e \in 0 .. m - 1 : y \in Routed(r, e)
      OBVIOUS
    <3>3. <<r, e>> = <<r, m>>
      BY <1>4, <3>1, <3>2
    <3> QED
      BY <2>2, <3>3
  <2> HIDE DEF Upto, c
  <2>5. IsFiniteSet(Upto(m)) /\ Cardinality(Upto(m)) = SumTo(c, m)
    BY <1>8
  <2>6. /\ IsFiniteSet(Upto(m) \cup Routed(r, m))
        /\ Cardinality(Upto(m) \cup Routed(r, m)) = Cardinality(Upto(m)) + Cardinality(Routed(r, m))
    BY <1>5, <2>1, <2>4, <2>5, Disjoint
  <2>7. SumTo(c, m + 1) = SumTo(c, m) + c[m]
    BY <2>1, SumStep
  <2>8. Cardinality(Upto(m + 1)) = SumTo(c, m + 1)
    BY <1>5, <2>1, <2>3, <2>5, <2>6, <2>7
  <2> QED
    BY <2>1, <2>3, <2>6, <2>8
<1> HIDE DEF S
<1>9. NumExperts \in S
  BY <1>1, <1>7, <1>8, InductTo
<1>10. Cardinality(Upto(NumExperts)) = Total(r)
  BY <1>9 DEF S, Total, FirstToken
<1>11. Upto(NumExperts) \in SUBSET T
  OBVIOUS
<1> HIDE DEF Upto, T
<1> QED
  BY <1>3, <1>10, <1>11, FS_Subset

LEMMA PoolFits ==
  ASSUME TypeInv, NEW r \in Ranks, AllSent(r)
  PROVE  /\ \A b \in 0 .. TotalBlocks(r) - 1 : b \in Blocks
         /\ \A t \in 0 .. Total(r) - 1 : PlaceAt(TrueCounts(r), t) \in 0 .. PoolRows - 1
<1> DEFINE c == TrueCounts(r)
<1>1. c \in [Experts -> Nat]
  BY TrueCountsType
<1>2. NumRanks \in Nat /\ NumRows \in Nat /\ NumExperts \in Nat /\ BlockM \in Nat \ {0}
  BY SetupFacts DEF TypeInv
<1>3. PICK n \in Nat, k \in Nat : n = NumRanks * NumRows /\ k = NumExperts * BlockM
  BY <1>2
<1>4. PoolRows = n + k
  BY <1>3 DEF PoolRows
<1>5. Total(r) \in Nat /\ TotalBlocks(r) \in Nat
  BY <1>1, CountSums DEF Total, TotalBlocks
<1>6. TotalBlocks(r) * BlockM <= Total(r) + k
  BY <1>1, <1>3, BlocksBound DEF Total, TotalBlocks
<1>7. Total(r) <= n
  BY <1>3, TotalBound
<1>8. PICK x \in Nat : x = TotalBlocks(r) * BlockM
  BY <1>2, <1>5
<1>9. x <= PoolRows
  BY <1>4, <1>5, <1>6, <1>7, <1>8
<1>10. ASSUME NEW b \in 0 .. TotalBlocks(r) - 1
       PROVE  b \in Nat /\ b * BlockM + BlockM <= x
  <2>1. b \in Nat /\ TotalBlocks(r) >= b + 1
    BY <1>5
  <2>2. TotalBlocks(r) * BlockM >= (b + 1) * BlockM
    BY <1>2, <1>5, <2>1, Product
  <2>3. (b + 1) * BlockM = b * BlockM + BlockM
    BY <1>2, <2>1
  <2> QED
    BY <1>8, <2>1, <2>2, <2>3
<1>11. ASSUME NEW b \in 0 .. TotalBlocks(r) - 1 PROVE b \in Blocks
  <2>1. PoolRows \in Nat
    BY <1>4
  <2>2. PICK d \in Nat, m \in 0 .. BlockM - 1 : d = PoolRows \div BlockM /\ PoolRows = d * BlockM + m
    BY <1>2, <2>1, Division
  <2>3. b \in Nat /\ b * BlockM + BlockM <= PoolRows
    <3>1. PICK y \in Nat : y = b * BlockM
      BY <1>2, <1>10
    <3> QED
      BY <1>2, <1>4, <1>9, <1>10, <3>1
  <2>4. SUFFICES ASSUME ~(b <= d) PROVE FALSE
    BY <2>2, <2>3 DEF Blocks
  <2>5. b >= d + 1
    BY <2>2, <2>3, <2>4
  <2>6. b * BlockM >= (d + 1) * BlockM
    BY <1>2, <2>2, <2>3, <2>5, Product
  <2>7. (d + 1) * BlockM = d * BlockM + BlockM
    BY <1>2, <2>2
  <2>8. PICK y \in Nat, z \in Nat : y = b * BlockM /\ z = d * BlockM
    BY <1>2, <2>2, <2>3
  <2> QED
    BY <1>2, <2>2, <2>3, <2>6, <2>7, <2>8
<1>12. ASSUME NEW t \in 0 .. Total(r) - 1 PROVE PlaceAt(c, t) \in 0 .. PoolRows - 1
  <2>0. /\ BlockAt(c, t) \in 0 .. TotalBlocks(r) - 1 /\ IndexAt(c, t) % BlockM \in 0 .. BlockM - 1
        /\ PlaceAt(c, t) = BlockAt(c, t) * BlockM + (IndexAt(c, t) % BlockM)
    BY <1>1, BlockOfRow DEF Total, TotalBlocks
  <2>1. PICK b \in 0 .. TotalBlocks(r) - 1, k2 \in 0 .. BlockM - 1 : PlaceAt(c, t) = b * BlockM + k2
    BY <2>0
  <2>2. PICK y \in Nat : y = b * BlockM
    BY <1>2, <1>10
  <2>3. y + BlockM <= x
    BY <1>10, <2>2
  <2> QED
    BY <1>2, <1>4, <1>8, <1>9, <2>1, <2>2, <2>3
<1> QED
  BY <1>11, <1>12

-----------------------------------------------------------------------------
(***************************************************************************)
(* The positions that the dispatch warps have been through.                *)
(***************************************************************************)
LEMMA TokenCta ==
  ASSUME TypeInv, NEW t \in Nat
  PROVE  t % NumSMs \in SMs /\ t % NumSMs \in Nat /\ t % NumSMs <= t
<1>1. NumSMs \in Nat \ {0}
  BY SetupFacts DEF TypeInv
<1>2. PICK a \in Nat, x \in Nat : a = t \div NumSMs /\ x = t % NumSMs /\ x < NumSMs /\ t = a * NumSMs + x
  BY <1>1, Division
<1>3. a * NumSMs \in Nat
  BY <1>1
<1> QED
  BY <1>1, <1>2, <1>3 DEF SMs

\* Two positions of a CTA are apart by its stride.
LEMMA SameCta ==
  ASSUME TypeInv, NEW t \in Nat, NEW u \in Nat, t % NumSMs = u % NumSMs, u <= t, t < u + NumSMs
  PROVE  t = u
<1>1. NumSMs \in Nat \ {0}
  BY SetupFacts DEF TypeInv
<1>2. PICK a \in Nat, x \in 0 .. NumSMs - 1 : x = t % NumSMs /\ t = a * NumSMs + x
  <2>1. t \div NumSMs \in Nat /\ t % NumSMs \in 0 .. NumSMs - 1
        /\ t = (t \div NumSMs) * NumSMs + (t % NumSMs)
    BY <1>1, Division
  <2> QED
    BY <2>1
<1>3. PICK b \in Nat, y \in 0 .. NumSMs - 1 : y = u % NumSMs /\ u = b * NumSMs + y
  <2>1. u \div NumSMs \in Nat /\ u % NumSMs \in 0 .. NumSMs - 1
        /\ u = (u \div NumSMs) * NumSMs + (u % NumSMs)
    BY <1>1, Division
  <2> QED
    BY <2>1
<1>4. x = y
  BY <1>2, <1>3
<1>5. PICK v \in Nat, w \in Nat : v = a * NumSMs /\ w = b * NumSMs
  BY <1>1
<1>6. w <= v /\ v < w + NumSMs
  BY <1>1, <1>2, <1>3, <1>4, <1>5
<1>7. b * NumSMs + (v - w) = a * NumSMs + 0
  BY <1>5, <1>6
<1>8. v - w \in 0 .. NumSMs - 1 /\ 0 \in 0 .. NumSMs - 1
  BY <1>1, <1>6
<1>9. v - w = 0
  <2>1. ASSUME NEW g \in 0 .. NumSMs - 1, b * NumSMs + g = a * NumSMs + 0 PROVE g = 0
    BY <1>1, <1>8, <2>1, Digits
  <2> QED
    BY <1>7, <1>8, <2>1
<1> QED
  BY <1>2, <1>3, <1>4, <1>5, <1>9

LEMMA NextPosition ==
  ASSUME TypeInv, NEW u \in Nat
  PROVE  (u + NumSMs) % NumSMs = u % NumSMs
<1>1. NumSMs \in Nat \ {0}
  BY SetupFacts DEF TypeInv
<1> DEFINE w == u + NumSMs
<1>2. w \in Nat
  BY <1>1
<1>3. PICK a \in Nat, x \in 0 .. NumSMs - 1 : x = w % NumSMs /\ w = a * NumSMs + x
  <2> HIDE DEF w
  <2>1. w \div NumSMs \in Nat /\ w % NumSMs \in 0 .. NumSMs - 1
        /\ w = (w \div NumSMs) * NumSMs + (w % NumSMs)
    BY <1>1, <1>2, Division
  <2> QED
    BY <2>1
<1>4. PICK b \in Nat, y \in 0 .. NumSMs - 1 : y = u % NumSMs /\ u = b * NumSMs + y
  <2>1. u \div NumSMs \in Nat /\ u % NumSMs \in 0 .. NumSMs - 1
        /\ u = (u \div NumSMs) * NumSMs + (u % NumSMs)
    BY <1>1, Division
  <2> QED
    BY <2>1
<1>5. (b + 1) * NumSMs = b * NumSMs + NumSMs
  BY <1>1, <1>4
<1>6. b * NumSMs \in Nat
  BY <1>1, <1>4
<1>7. (b + 1) * NumSMs + y = a * NumSMs + x
  BY <1>1, <1>3, <1>4, <1>5, <1>6
<1>8. b + 1 \in Nat
  OBVIOUS
<1>9. y = x
  BY <1>1, <1>7, <1>8, Digits
<1> QED
  BY <1>3, <1>4, <1>9

\* While a launch is running its warps know its counts.
LEMMA InformedRuns ==
  ASSUME TypeInv, ControlInv, NEW r \in Ranks, LearnInv(r), NEW sm \in SMs, Informed(r, sm)
  PROVE  Running(r) /\ seen[r][sm] = TrueCounts(r) /\ TrueCounts(r) \in [Experts -> Nat]
<1>1. ~Ended(r, sm)
  BY DEF Informed, Ended
<1>2. Running(r) /\ seen[r][sm] = TrueCounts(r)
  BY <1>1, BusyCta DEF LearnInv, Running
<1> QED
  BY <1>2, TrueCountsType DEF Running

LEMMA LoaderRuns ==
  ASSUME TypeInv, ControlInv, NEW r \in Ranks, LearnInv(r), NEW sm \in SMs,
         math[r][sm] \in {"claim", "load"}
  PROVE  Running(r) /\ known[r][sm] = TrueCounts(r) /\ TrueCounts(r) \in [Experts -> Nat]
<1>1. ~Ended(r, sm)
  BY DEF ControlInv, StageInv, Leaving, Ended
<1>2. Running(r) /\ known[r][sm] = TrueCounts(r)
  BY <1>1, BusyCta DEF LearnInv, Running
<1> QED
  BY <1>2, TrueCountsType DEF Running

\* A launch starts running with nothing fetched.
LEMMA RunningStarts ==
  ASSUME TypeInv, TypeInv', ControlInv, ControlInv', NEW r \in Ranks, RecvInv(r), LearnInv(r),
         [Next]_vars, ~Running(r), Running(r)'
  PROVE  /\ ~Launch(r) /\ Busy(r) /\ ~AllSent(r)
         /\ \A sm \in SMs : /\ math[r][sm] = "start" /\ math'[r][sm] = "start"
                            /\ ~Informed(r, sm) /\ ~Informed(r, sm)'
                            /\ ~Leaving(r, sm)'
<1>1. setup' = setup /\ 0 \in Experts /\ Experts' = Experts /\ Ranks' = Ranks
  <2>1. setup' = setup
    BY SetupKept
  <2>2. 0 \in Experts
    BY SetupFacts DEF TypeInv, Experts
  <2> QED
    BY <2>1, <2>2, SetupStands
<1>2. ~Launch(r)
  <2>1. SUFFICES ASSUME Launch(r) PROVE ~Sent(r, <<r, 0>>)'
    BY <1>1 DEF Running, AllSent
  <2>2. \A sm \in SMs : pc'[r][sm] = "stake"
    BY <2>1 DEF Launch, TypeInv
  <2>3. Teller(<<r, 0>>)' \in SMs
    <3>1. Teller(<<r, 0>>)' = Teller(<<r, 0>>)
      BY <1>1, SetupStands DEF Teller
    <3>2. <<r, 0>> \in AllExperts
      BY <1>1 DEF AllExperts
    <3> QED
      BY <3>1, <3>2, TellerType
  <2> QED
    BY <2>2, <2>3 DEF Sent, AfterGrid
<1>3. Busy(r) /\ ~AllSent(r)
  BY <1>2, BusyBefore DEF Running
<1>4. ~Complete(r)
  BY CompleteSent
<1>5. ASSUME NEW sm \in SMs
      PROVE  /\ math[r][sm] = "start" /\ math'[r][sm] = "start"
             /\ ~Informed(r, sm) /\ ~Informed(r, sm)'
  BY <1>3, <1>4, LearnMoves DEF LearnInv
<1>6. ASSUME NEW sm \in SMs PROVE ~Leaving(r, sm)'
  BY <1>1, <1>5 DEF ControlInv, StageInv
<1> QED
  BY <1>2, <1>3, <1>5, <1>6

LEMMA SourceFixed ==
  ASSUME TypeInv, ControlInv, NEW r \in Ranks, Running(r), [Next]_vars
  PROVE  srcIndex' = srcIndex
<1>1. ASSUME NEW q \in Ranks, NEW sm \in SMs, NEW i \in Rows, WriteIndex(q, sm, i) PROVE FALSE
  <2>1. 0 \in Experts /\ <<r, 0>> \in AllExperts
    BY SetupFacts DEF TypeInv, Experts, AllExperts
  <2>2. AfterGrid(q, Teller(<<r, 0>>)) /\ Teller(<<r, 0>>) \in SMs
    BY <2>1, TellerType DEF Running, AllSent, Sent
  <2>3. Written(q, sm)
    BY <2>2, AllStaked
  <2> QED
    BY <1>1, <2>3 DEF Written, WriteIndex
<1>2. CASE UNCHANGED vars
  BY <1>2 DEF vars, countVars
<1>3. CASE \E q \in Ranks : RankStep(q)
  BY <1>3 DEF RankStep, Launch, Signal1, Signal2, Signal3, SendSignals, countVars
<1>4. CASE \E q \in Ranks, sm \in SMs : DispatchStep(q, sm)
  <2> SUFFICES ASSUME NEW q \in Ranks, NEW sm \in SMs, DispatchStep(q, sm) PROVE srcIndex' = srcIndex
    BY <1>4
  <2>1. CASE StakeOut(q, sm) \/ LeaveGridSync(q, sm) \/ (\E x \in AllExperts : Broadcast(q, sm, x))
    BY <2>1 DEF StakeOut, LeaveGridSync, Broadcast, countVars
  <2>2. CASE LeaveBarrier1(q, sm) \/ FetchCounts(q, sm) \/ PullRow(q, sm) \/ CountArrival(q, sm)
    BY <2>2 DEF LeaveBarrier1, FetchCounts, PullRow, CountArrival, countVars
  <2>3. CASE Join(q, sm) \/ LeaveGridSync2(q, sm) \/ Cleanup(q, sm) \/ LeaveBarrier3(q, sm)
    BY <2>3 DEF Join, LeaveGridSync2, Cleanup, LeaveBarrier3, countVars
  <2> QED
    BY <1>1, <2>1, <2>2, <2>3 DEF DispatchStep
<1>5. CASE \E q \in Ranks, sm \in SMs : MathStep(q, sm)
  BY <1>5 DEF MathStep, StartTasks, ClaimBlock, LoadBlock, LeaveBarrier2, countVars
<1> QED
  BY <1>2, <1>3, <1>4, <1>5 DEF Next, Finished

\* What a step changes of a CTA's place and position.
PullMove(r, sm, p, u) ==
  \/ pc[r][sm] \notin {"pull", "arrive"} /\ ~Leaving(r, sm) /\ u = token[r][sm]
       /\ p \in {"write", "broadcast", "fetch"}
  \/ FetchCounts(r, sm) /\ pc[r][sm] = "fetch" /\ p = "pull" /\ u = sm
  \/ PullRow(r, sm) /\ pc[r][sm] = "pull" /\ p = "arrive" /\ u = token[r][sm]
  \/ CountArrival(r, sm) /\ pc[r][sm] = "arrive" /\ p = "pull" /\ u = token[r][sm] + NumSMs
  \/ pc[r][sm] = "pull" /\ ~InRange(r, sm) /\ p \in {"grid2", "cleanup"} /\ u = token[r][sm]
  \/ Leaving(r, sm) /\ p \in {"cleanup", "barrier3", "exited"}

LEMMA PullMoves ==
  ASSUME TypeInv, NEW r \in Ranks, NEW sm \in SMs, DispatchStep(r, sm)
  PROVE  /\ \A o \in SMs : o # sm => pc'[r][o] = pc[r][o] /\ token'[r][o] = token[r][o]
         /\ \/ pc'[r][sm] = pc[r][sm] /\ token'[r][sm] = token[r][sm]
            \/ PullMove(r, sm, pc'[r][sm], token'[r][sm])
<1>1. \A o \in SMs : o # sm => pc'[r][o] = pc[r][o]
  BY StakeMoves
<1>2. ASSUME NEW o \in SMs, o # sm PROVE token'[r][o] = token[r][o]
  <2>1. token' = token \/ \E n : token' = [token EXCEPT ![r][sm] = n]
    BY DEF DispatchStep, StakeOut, WriteIndex, LeaveGridSync, Broadcast, LeaveBarrier1,
       FetchCounts, PullRow, CountArrival, Join, LeaveGridSync2, Cleanup, LeaveBarrier3, pullVars
  <2> QED
    BY <1>2, <2>1, SMTT(40) DEF TypeInv
<1> DEFINE Goal == \/ pc'[r][sm] = pc[r][sm] /\ token'[r][sm] = token[r][sm]
                   \/ PullMove(r, sm, pc'[r][sm], token'[r][sm])
<1> SUFFICES Goal
  BY <1>1, <1>2
<1>3. ASSUME NEW p, pc' = [pc EXCEPT ![r][sm] = p] PROVE pc'[r][sm] = p
  BY <1>3 DEF TypeInv
<1>4. CASE StakeOut(r, sm) \/ LeaveGridSync(r, sm) \/ LeaveBarrier1(r, sm)
  <2>1. pc[r][sm] \in {"stake", "write", "broadcast"} /\ token' = token
    BY <1>4 DEF StakeOut, LeaveGridSync, LeaveBarrier1, Published, pullVars
  <2>2. pc'[r][sm] \in {"write", "broadcast", "fetch"}
    BY <1>3, <1>4 DEF StakeOut, LeaveGridSync, LeaveBarrier1, Goto
  <2> QED
    BY <2>1, <2>2 DEF PullMove, Leaving
<1>5. CASE (\E i \in Rows : WriteIndex(r, sm, i)) \/ \E x \in AllExperts : Broadcast(r, sm, x)
  BY <1>5 DEF WriteIndex, Broadcast, pullVars
<1>6. CASE FetchCounts(r, sm)
  <2>1. pc[r][sm] = "fetch" /\ pc'[r][sm] = "pull" /\ token'[r][sm] = sm
    BY <1>3, <1>6 DEF FetchCounts, Goto, TypeInv
  <2> QED
    BY <1>6, <2>1 DEF PullMove
<1>7. CASE PullRow(r, sm)
  <2>1. pc[r][sm] = "pull" /\ pc'[r][sm] = "arrive" /\ token'[r][sm] = token[r][sm]
    BY <1>3, <1>7 DEF PullRow, Goto, pullVars
  <2> QED
    BY <1>7, <2>1 DEF PullMove
<1>8. CASE CountArrival(r, sm)
  <2>1. pc[r][sm] = "arrive" /\ pc'[r][sm] = "pull" /\ token'[r][sm] = token[r][sm] + NumSMs
    BY <1>3, <1>8 DEF CountArrival, Goto, TypeInv
  <2> QED
    BY <1>8, <2>1 DEF PullMove
<1>9. CASE Join(r, sm)
  <2>1. pc[r][sm] = "pull" /\ ~InRange(r, sm) /\ pc'[r][sm] \in {"grid2", "cleanup"}
        /\ token'[r][sm] = token[r][sm]
    BY <1>3, <1>9 DEF Join, Goto, pullVars
  <2> QED
    BY <2>1 DEF PullMove
<1>10. CASE LeaveGridSync2(r, sm) \/ Cleanup(r, sm) \/ LeaveBarrier3(r, sm)
  <2>1. Leaving(r, sm)
    BY <1>10 DEF LeaveGridSync2, Cleanup, LeaveBarrier3, Leaving
  <2>2. pc'[r][sm] \in {"cleanup", "barrier3", "exited"}
    BY <1>3, <1>10 DEF LeaveGridSync2, Cleanup, LeaveBarrier3, Goto
  <2> QED
    BY <2>1, <2>2 DEF PullMove
<1> HIDE DEF Goal
<1> QED
  BY <1>4, <1>5, <1>6, <1>7, <1>8, <1>9, <1>10 DEF DispatchStep

\* Of another rank, and of the math warps and signals, the positions do not notice.
LEMMA PullSteps ==
  ASSUME TypeInv, NEW r \in Ranks, [Next]_vars, ~Launch(r),
         ~ \E sm \in SMs : DispatchStep(r, sm)
  PROVE  pc'[r] = pc[r] /\ token'[r] = token[r] /\ pool'[r] = pool[r] /\ arrivals'[r] = arrivals[r]
<1>1. CASE UNCHANGED vars
  BY <1>1 DEF vars, pullVars, poolVars
<1>2. ASSUME NEW q \in Ranks, q # r,
             RankStep(q) \/ \E o \in SMs : DispatchStep(q, o) \/ MathStep(q, o)
      PROVE  Aside(r)
  BY <1>2, Others
<1>3. CASE \E sm \in SMs : MathStep(r, sm)
  BY <1>3 DEF MathStep, StartTasks, ClaimBlock, LoadBlock, LeaveBarrier2, pullVars, poolVars
<1>4. CASE RankStep(r)
  BY <1>4 DEF RankStep, Signal1, Signal2, Signal3, SendSignals, pullVars, poolVars
<1> QED
  BY <1>1, <1>2, <1>3, <1>4 DEF Next, Finished, Aside

LEMMA NextToken ==
  ASSUME TypeInv, TypeInv', ControlInv, NEW r \in Ranks, LearnInv(r), TokenInv(r), [Next]_vars
  PROVE  TokenInv(r)'
<1> SUFFICES ASSUME NEW sm \in SMs, pc'[r][sm] \in {"pull", "arrive"}
             PROVE  token'[r][sm] % NumSMs = sm /\ (pc'[r][sm] = "arrive" => token'[r][sm] < Total(r)')
  BY DEF TokenInv
<1>0. /\ pc[r][sm] \in {"pull", "arrive"} => token[r][sm] % NumSMs = sm
      /\ pc[r][sm] = "arrive" => token[r][sm] < Total(r)
      /\ token[r][sm] \in Nat
  BY DEF TokenInv, TypeInv
<1>1. ~Launch(r)
  BY DEF Launch, TypeInv
<1>2. Running(r) => Total(r)' = Total(r)
  <2>1. SUFFICES ASSUME Running(r) PROVE Total(r)' = Total(r)
    OBVIOUS
  <2>2. TrueCounts(r)' = TrueCounts(r) /\ NumExperts' = NumExperts
    BY <2>1, RunningKept, SetupStands
  <2> QED
    BY <2>2 DEF Total, FirstToken, SumTo
<1>3. pc[r][sm] \in {"pull", "arrive"} => Running(r) /\ seen[r][sm] = TrueCounts(r)
  BY InformedRuns DEF Informed
<1>4. ASSUME pc'[r][sm] = pc[r][sm], token'[r][sm] = token[r][sm]
      PROVE  token'[r][sm] % NumSMs = sm /\ (pc'[r][sm] = "arrive" => token'[r][sm] < Total(r)')
  BY <1>0, <1>2, <1>3, <1>4
<1>5. CASE ~ \E o \in SMs : DispatchStep(r, o)
  BY <1>1, <1>4, <1>5, PullSteps
<1>6. ASSUME NEW o \in SMs, DispatchStep(r, o), o # sm
      PROVE  token'[r][sm] % NumSMs = sm /\ (pc'[r][sm] = "arrive" => token'[r][sm] < Total(r)')
  BY <1>4, <1>6, PullMoves
<1>7. CASE DispatchStep(r, sm)
  <2>1. CASE pc'[r][sm] = pc[r][sm] /\ token'[r][sm] = token[r][sm]
    BY <1>4, <2>1
  <2>2. CASE PullMove(r, sm, pc'[r][sm], token'[r][sm])
    <3>1. CASE FetchCounts(r, sm) /\ pc'[r][sm] = "pull" /\ token'[r][sm] = sm
      <4>1. sm % NumSMs = sm
        <5>1. NumSMs \in Nat \ {0} /\ sm \in 0 .. NumSMs - 1
          BY SetupFacts DEF SMs, TypeInv
        <5> QED
          BY <5>1
      <4> QED
        BY <3>1, <4>1
    <3>2. CASE PullRow(r, sm) /\ pc[r][sm] = "pull" /\ token'[r][sm] = token[r][sm]
      <4>1. InRange(r, sm)
        BY <3>2 DEF PullRow
      <4>2. token[r][sm] < Total(r)
        BY <1>3, <3>2, <4>1 DEF InRange, Total
      <4> QED
        BY <1>0, <1>2, <1>3, <3>2, <4>2
    <3>3. CASE CountArrival(r, sm) /\ pc[r][sm] = "arrive" /\ pc'[r][sm] = "pull"
                 /\ token'[r][sm] = token[r][sm] + NumSMs
      BY <1>0, <3>3, NextPosition
    <3> QED
      BY <2>2, <3>1, <3>2, <3>3 DEF PullMove
  <2> QED
    BY <1>7, <2>1, <2>2, PullMoves
<1> QED
  BY <1>5, <1>6, <1>7

-----------------------------------------------------------------------------
LEMMA NoLaunch ==
  ASSUME TypeInv, TypeInv', ControlInv, NEW r \in Ranks, Running(r), [Next]_vars
  PROVE  ~Launch(r)
<1>1. launch' = launch /\ launch[r] \in Nat
  BY RunningKept DEF TypeInv
<1>2. SUFFICES ASSUME Launch(r) PROVE FALSE
  OBVIOUS
<1>3. launch'[r] = launch[r] + 1
  BY <1>2, LaunchControl
<1> QED
  BY <1>1, <1>3

LEMMA CountedMoves ==
  ASSUME TypeInv, TypeInv', ControlInv, NEW r \in Ranks, LearnInv(r), TokenInv(r), Running(r),
         [Next]_vars, NEW t \in 0 .. Total(r) - 1
  PROVE  /\ Counted(r, t) => Counted(r, t)'
         /\ Counted(r, t)' => Counted(r, t) \/ \E sm \in SMs : CountArrival(r, sm) /\ token[r][sm] = t
         /\ Stored(r, t)' => Stored(r, t) \/ \E sm \in SMs : PullRow(r, sm) /\ token[r][sm] = t
<1> DEFINE sm == t % NumSMs
           Goal == /\ Counted(r, t) => Counted(r, t)'
                   /\ Counted(r, t)' =>
                        Counted(r, t) \/ \E o \in SMs : CountArrival(r, o) /\ token[r][o] = t
                   /\ Stored(r, t)' => Stored(r, t) \/ \E o \in SMs : PullRow(r, o) /\ token[r][o] = t
<1> SUFFICES Goal
  OBVIOUS
<1>1. TrueCounts(r) \in [Experts -> Nat] /\ Total(r) \in Nat /\ t \in Nat
  <2>1. TrueCounts(r) \in [Experts -> Nat]
    BY TrueCountsType DEF Running
  <2>2. Total(r) \in Nat
    BY <2>1, CountSums DEF Total
  <2> QED
    BY <2>1, <2>2
<1>2. sm \in SMs /\ sm <= t /\ sm \in Nat
  BY <1>1, TokenCta
<1>3. token[r][sm] \in Nat
  BY <1>2 DEF TypeInv
<1>4. ASSUME pc'[r][sm] = pc[r][sm], token'[r][sm] = token[r][sm] PROVE Goal
  BY <1>4 DEF Counted, Stored, Leaving
<1>5. CASE ~ \E o \in SMs : DispatchStep(r, o)
  BY <1>4, <1>5, PullSteps, NoLaunch
<1>6. ASSUME NEW o \in SMs, DispatchStep(r, o), o # sm PROVE Goal
  BY <1>2, <1>4, <1>6, PullMoves
<1>7. CASE DispatchStep(r, sm)
  <2>1. CASE pc'[r][sm] = pc[r][sm] /\ token'[r][sm] = token[r][sm]
    BY <1>4, <2>1
  <2>2. CASE PullMove(r, sm, pc'[r][sm], token'[r][sm])
    <3>1. CASE pc[r][sm] \notin {"pull", "arrive"} /\ ~Leaving(r, sm)
                 /\ pc'[r][sm] \in {"write", "broadcast", "fetch"}
      BY <3>1 DEF Counted, Stored, Leaving
    <3>2. CASE pc[r][sm] = "fetch" /\ pc'[r][sm] = "pull" /\ token'[r][sm] = sm
      BY <1>1, <1>2, <3>2 DEF Counted, Stored, Leaving
    <3>3. CASE PullRow(r, sm) /\ pc[r][sm] = "pull" /\ pc'[r][sm] = "arrive"
                 /\ token'[r][sm] = token[r][sm]
      <4>1. Counted(r, t)' <=> Counted(r, t)
        BY <3>3 DEF Counted, Leaving
      <4> QED
        BY <1>2, <3>3, <4>1 DEF Stored
    <3>4. CASE CountArrival(r, sm) /\ pc[r][sm] = "arrive" /\ pc'[r][sm] = "pull"
                 /\ token'[r][sm] = token[r][sm] + NumSMs
      <4>0. NumSMs \in Nat
        BY SetupFacts DEF TypeInv
      <4>1. Counted(r, t) => Counted(r, t)'
        <5>1. t < token[r][sm] => t < token[r][sm] + NumSMs
          BY <1>1, <1>3, <4>0
        <5> QED
          BY <3>4, <5>1 DEF Counted, Leaving
      <4>2. ASSUME Counted(r, t)', ~Counted(r, t) PROVE token[r][sm] = t
        <5>1. t < token[r][sm] + NumSMs /\ token[r][sm] <= t
          BY <1>1, <1>3, <3>4, <4>2 DEF Counted, Leaving
        <5>2. token[r][sm] % NumSMs = t % NumSMs
          BY <1>2, <3>4 DEF TokenInv
        <5> QED
          BY <1>1, <1>3, <5>1, <5>2, SameCta
      <4>3. Stored(r, t)' => Counted(r, t)'
        BY <3>4 DEF Stored
      <4>4. token[r][sm] = t => Stored(r, t)
        BY <3>4 DEF Stored
      <4>5. Counted(r, t) => Stored(r, t)
        BY DEF Stored
      <4> QED
        BY <1>2, <3>4, <4>1, <4>2, <4>3, <4>4, <4>5
    <3>5. CASE pc[r][sm] = "pull" /\ ~InRange(r, sm) /\ pc'[r][sm] \in {"grid2", "cleanup"}
      <4>1. seen[r][sm] = TrueCounts(r)
        BY <1>2, <3>5, InformedRuns DEF Informed
      <4>2. t < token[r][sm]
        BY <1>1, <1>3, <3>5, <4>1 DEF InRange, Total
      <4> QED
        BY <3>5, <4>2 DEF Counted, Stored, Leaving
    <3>6. CASE Leaving(r, sm) /\ pc'[r][sm] \in {"cleanup", "barrier3", "exited"}
      BY <3>6 DEF Counted, Stored, Leaving
    <3> HIDE DEF Goal
    <3> QED
      BY <2>2, <3>1, <3>2, <3>3, <3>4, <3>5, <3>6 DEF PullMove
  <2> QED
    BY <1>2, <1>7, <2>1, <2>2, PullMoves
<1> QED
  BY <1>5, <1>6, <1>7

LEMMA AllCounted ==
  ASSUME TypeInv, ControlInv, NEW r \in Ranks, LearnInv(r), LoadInv(r), Running(r),
         NEW o \in SMs, pc[r][o] \in {"cleanup", "barrier3", "exited"}
  PROVE  /\ \A t \in 0 .. Total(r) - 1 : Counted(r, t)
         /\ \A sm \in SMs : math[r][sm] \in {"barrier2", "done"}
<1>1. TrueCounts(r) \in [Experts -> Nat]
  BY TrueCountsType DEF Running
<1>2. Total(r) \in Nat /\ TotalBlocks(r) \in Nat
  BY <1>1, CountSums DEF Total, TotalBlocks
<1>3. Leaving(r, o) /\ pc[r][o] # "grid2"
  BY DEF Leaving
<1>4. CASE FineCombine
  <2>1. \A sm \in SMs : Leaving(r, sm)
    BY <1>3, <1>4 DEF ControlInv, StageInv
  <2>2. \A sm \in SMs : math[r][sm] = "done"
    BY <2>1 DEF ControlInv, StageInv
  <2>3. \A t \in 0 .. Total(r) - 1 : t % NumSMs \in SMs
    BY <1>2, TokenCta
  <2> QED
    BY <2>1, <2>2, <2>3 DEF Counted
<1>5. CASE ~FineCombine
  <2>1. math[r][o] = "done"
    BY <1>3 DEF ControlInv, StageInv
  <2>2. nvSignals[r] >= Barrier(r, 2)
    BY <1>5, <2>1 DEF ControlInv, SignalInv, AllSignalled
  <2>3. \A sm \in SMs : math[r][sm] \in {"barrier2", "done"}
    BY <1>5, <2>2 DEF ControlInv, SignalInv
  <2>4. \A b \in 0 .. TotalBlocks(r) - 1 : b \in loaded[r]
    BY <2>3 DEF LoadInv, Taken
  <2>5. \A t \in 0 .. Total(r) - 1 : BlockAt(TrueCounts(r), t) \in 0 .. TotalBlocks(r) - 1
    BY <1>1, BlockOfRow DEF Total, TotalBlocks
  <2>6. \A t \in 0 .. Total(r) - 1 : Counted(r, t)
    BY <2>4, <2>5 DEF LoadInv
  <2> QED
    BY <2>3, <2>6
<1> QED
  BY <1>4, <1>5

\* The row that is pulled is the right one, and so is its place.
LEMMA PullRowRight ==
  ASSUME TypeInv, ControlInv, NEW r \in Ranks, RecvInv(r), LearnInv(r),
         NEW sm \in SMs, PullRow(r, sm)
  PROVE  LET c == TrueCounts(r)
             t == token[r][sm]
         IN  /\ Running(r) /\ t \in 0 .. Total(r) - 1
             /\ pool' = [pool EXCEPT ![r][PlaceAt(c, t)] = Content(r, t)]
<1> DEFINE c == TrueCounts(r)
           t == token[r][sm]
           e == ExpertAt(c, t)
           i == IndexAt(c, t)
<1>1. pc[r][sm] = "pull" /\ InRange(r, sm)
  BY DEF PullRow
<1>2. Running(r) /\ seen[r][sm] = c /\ c \in [Experts -> Nat]
  BY <1>1, InformedRuns DEF Informed
<1>3. t \in 0 .. Total(r) - 1
  <2>1. t \in Nat
    BY DEF TypeInv
  <2>2. t < Total(r) /\ Total(r) \in Nat
    BY <1>1, <1>2, CountSums DEF InRange, Total
  <2> QED
    BY <2>1, <2>2
<1>4. e \in Experts /\ i \in 0 .. c[e] - 1 /\ i \in Nat /\ c[e] \in Nat
  BY <1>2, <1>3, ExpertAtRight DEF Total
<1>5. Target(r, sm).expert = e /\ Target(r, sm).index = i
  BY <1>2, SMTT(40) DEF Target, ExpertAt, IndexAt
<1>6. i < SumTo(recvCount[r][e], NumRanks)
  BY <1>5 DEF PullRow
<1> HIDE DEF t, e, i, c
<1>7. ~Ended(r, Owner(e))
  <2>1. SUFFICES ASSUME Ended(r, Owner(e)) PROVE SumTo(recvCount[r][e], NumRanks) = 0
    BY <1>4, <1>6
  <2>2. launch[r] \in Nat /\ \A q \in Ranks : launch[q] = launch[r]
    BY <1>2 DEF Running, AllSent, TypeInv
  <2>3. Senders(r, e) = {}
    BY <2>1, <2>2 DEF Senders, RecvLaunch
  <2>4. recvCount[r][e] = [q \in Ranks |-> 0]
    BY <1>4, <2>3 DEF RecvInv
  <2>5. NumRanks \in Nat /\ Ranks = 0 .. NumRanks - 1
    BY SetupFacts DEF TypeInv, Ranks
  <2>6. \A k \in 0 .. NumRanks - 1 : recvCount[r][e][k] = 0
    BY <2>4, <2>5
  <2> QED
    BY <2>5, <2>6, SumZeros
<1>8. recvCount[r][e] = RowCounts(r, e) /\ RowCounts(r, e) \in [Ranks -> Nat]
  BY <1>2, <1>4, <1>7, RunningRecv, RoutedType DEF Running, RowCounts
<1> DEFINE src == SourceOf(RowCounts(r, e), i)
<1>9. src[1] \in Ranks
  <2>1. NumRanks \in Nat /\ Ranks = 0 .. NumRanks - 1
    BY SetupFacts DEF TypeInv, Ranks
  <2>2. SumTo(RowCounts(r, e), NumRanks) \in Nat
    BY <1>8, <2>1, SumType
  <2>3. i \in 0 .. SumTo(RowCounts(r, e), NumRanks) - 1
    BY <1>4, <1>6, <1>8, <2>2
  <2> QED
    BY <1>8, <2>1, <2>3, SearchRight
<1>10. launch[src[1]] = launch[r]
  BY <1>2, <1>9 DEF Running, AllSent
<1>11. pool' = [pool EXCEPT ![r][FirstBlock(seen[r][sm], Target(r, sm).expert) * BlockM
                                  + Target(r, sm).index] =
                 <<launch[SourceOf(recvCount[r][Target(r, sm).expert], Target(r, sm).index)[1]],
                   SourceOf(recvCount[r][Target(r, sm).expert], Target(r, sm).index)[1],
                   srcIndex[r][Target(r, sm).expert]
                     [SourceOf(recvCount[r][Target(r, sm).expert], Target(r, sm).index)[1]]
                     [SourceOf(recvCount[r][Target(r, sm).expert], Target(r, sm).index)[2]]>>]
  BY DEF PullRow
<1>12. pool' = [pool EXCEPT ![r][FirstBlock(c, e) * BlockM + i] =
                 <<launch[src[1]], src[1], srcIndex[r][e][src[1]][src[2]]>>]
  BY <1>2, <1>5, <1>8, <1>11
<1>13. Content(r, t) = <<launch[r], src[1], srcIndex[r][e][src[1]][src[2]]>>
  BY DEF Content, e, i, c
<1>14. PlaceAt(c, t) = FirstBlock(c, e) * BlockM + i
  BY DEF PlaceAt, e, i
<1>15. pool' = [pool EXCEPT ![r][PlaceAt(c, t)] = Content(r, t)]
  BY <1>10, <1>12, <1>13, <1>14
<1> QED
  BY <1>2, <1>3, <1>15 DEF t, c

LEMMA PoolMoves ==
  ASSUME TypeInv, NEW r \in Ranks, [Next]_vars, ~ \E sm \in SMs : PullRow(r, sm)
  PROVE  pool'[r] = pool[r]
<1>1. CASE UNCHANGED vars
  BY <1>1 DEF vars, poolVars
<1>2. ASSUME NEW q \in Ranks, q # r,
             RankStep(q) \/ \E o \in SMs : DispatchStep(q, o) \/ MathStep(q, o)
      PROVE  pool'[r] = pool[r]
  BY <1>2, Others DEF Aside
<1>3. CASE \E sm \in SMs : MathStep(r, sm)
  BY <1>3 DEF MathStep, StartTasks, ClaimBlock, LoadBlock, LeaveBarrier2, poolVars
<1>4. CASE RankStep(r)
  BY <1>4 DEF RankStep, Launch, Signal1, Signal2, Signal3, SendSignals, poolVars
<1>5. ASSUME NEW sm \in SMs, DispatchStep(r, sm) PROVE pool'[r] = pool[r]
  <2>1. CASE StakeOut(r, sm) \/ LeaveGridSync(r, sm) \/ (\E x \in AllExperts : Broadcast(r, sm, x))
    BY <2>1 DEF StakeOut, LeaveGridSync, Broadcast, poolVars
  <2>2. CASE LeaveBarrier1(r, sm) \/ FetchCounts(r, sm) \/ (\E i \in Rows : WriteIndex(r, sm, i))
    BY <2>2 DEF LeaveBarrier1, FetchCounts, WriteIndex, poolVars
  <2>3. CASE CountArrival(r, sm) \/ Join(r, sm) \/ LeaveGridSync2(r, sm) \/ Cleanup(r, sm)
               \/ LeaveBarrier3(r, sm)
    BY <2>3 DEF CountArrival, Join, LeaveGridSync2, Cleanup, LeaveBarrier3, poolVars
  <2> QED
    BY <1>5, <2>1, <2>2, <2>3 DEF DispatchStep
<1> QED
  BY <1>1, <1>2, <1>3, <1>4, <1>5 DEF Next, Finished

LEMMA NextStored ==
  ASSUME TypeInv, TypeInv', ControlInv, ControlInv', NEW r \in Ranks,
         RecvInv(r), LearnInv(r), TokenInv(r), StoredInv(r), [Next]_vars
  PROVE  StoredInv(r)'
<1> SUFFICES ASSUME Running(r)', NEW t \in 0 .. Total(r)' - 1, Stored(r, t)'
             PROVE  (pool[r][PlaceAt(TrueCounts(r), t)] = Content(r, t))'
  BY DEF StoredInv
<1>1. Running(r)
  <2>1. SUFFICES ASSUME ~Running(r) PROVE FALSE
    OBVIOUS
  <2>2. \A sm \in SMs : ~Informed(r, sm)' /\ ~Leaving(r, sm)'
    BY <2>1, RunningStarts
  <2>4. t \in Nat
    OBVIOUS
  <2>5. t % NumSMs \in SMs
    BY <2>4, TokenCta
  <2> QED
    BY <2>2, <2>5 DEF Stored, Counted, Informed
<1>2. /\ setup' = setup /\ launch' = launch /\ TrueCounts(r)' = TrueCounts(r)
      /\ \A e \in Experts : RowCounts(r, e)' = RowCounts(r, e)
  BY <1>1, RunningKept
<1>3. srcIndex' = srcIndex
  BY <1>1, SourceFixed
<1> DEFINE c == TrueCounts(r)
<1>4. c \in [Experts -> Nat]
  BY <1>1, TrueCountsType DEF Running
<1>5. Experts' = Experts /\ NumExperts' = NumExperts
  BY <1>2, SetupStands
<1>6. Total(r)' = Total(r)
  BY <1>2, <1>5 DEF Total, FirstToken, SumTo
<1>7. t \in 0 .. Total(r) - 1
  BY <1>6
<1>8. /\ ExpertAt(TrueCounts(r), t)' = ExpertAt(c, t) /\ IndexAt(TrueCounts(r), t)' = IndexAt(c, t)
      /\ PlaceAt(TrueCounts(r), t)' = PlaceAt(c, t)
  BY <1>2, <1>5 DEF ExpertAt, IndexAt, PlaceAt, FirstBlock, FirstToken, SumTo
<1>9. ExpertAt(c, t) \in Experts
  BY <1>4, <1>7, ExpertAtRight DEF Total
<1>10. Content(r, t)' = Content(r, t)
  BY <1>2, <1>3, <1>8, <1>9 DEF Content
<1>11. /\ DOMAIN pool = Ranks /\ DOMAIN pool[r] = 0 .. PoolRows - 1
       /\ PlaceAt(c, t) \in 0 .. PoolRows - 1
  BY <1>1, <1>7, PoolFits DEF TypeInv, Running
<1>12. SUFFICES pool'[r][PlaceAt(c, t)] = Content(r, t)
  BY <1>8, <1>10
<1>13. Stored(r, t) => pool[r][PlaceAt(c, t)] = Content(r, t)
  BY <1>1, <1>7 DEF StoredInv
<1>14. CASE ~ \E sm \in SMs : PullRow(r, sm)
  BY <1>1, <1>7, <1>13, <1>14, PoolMoves, CountedMoves
<1>15. ASSUME NEW sm \in SMs, PullRow(r, sm) PROVE pool'[r][PlaceAt(c, t)] = Content(r, t)
  <2> DEFINE u == token[r][sm]
  <2>1. u \in 0 .. Total(r) - 1 /\ pool' = [pool EXCEPT ![r][PlaceAt(c, u)] = Content(r, u)]
    BY <1>15, PullRowRight
  <2> HIDE DEF u
  <2>2. CASE t = u
    BY <1>11, <2>1, <2>2
  <2>3. CASE t # u
    <3>1. PlaceAt(c, t) # PlaceAt(c, u)
      BY <1>4, <1>7, <2>1, <2>3, PlaceInjective DEF Total
    <3>2. pool'[r][PlaceAt(c, t)] = pool[r][PlaceAt(c, t)]
      BY <1>11, <2>1, <3>1
    <3>3. Stored(r, t)
      <4>1. ASSUME NEW o \in SMs, PullRow(r, o), token[r][o] = t PROVE FALSE
        <5>1. pc[r][o] = "pull" /\ pc'[r][o] = "arrive"
          BY <4>1 DEF PullRow, Goto, TypeInv
        <5>2. pc[r][sm] = "pull" /\ pc' = [pc EXCEPT ![r][sm] = "arrive"]
          BY <1>15 DEF PullRow, Goto
        <5>3. o = sm
          BY <5>1, <5>2 DEF TypeInv
        <5> QED
          BY <2>3, <4>1, <5>3, SMTT(40) DEF u
      <4> QED
        BY <1>1, <1>7, <4>1, CountedMoves
    <3> QED
      BY <1>13, <3>2, <3>3
  <2> QED
    BY <2>2, <2>3
<1> QED
  BY <1>14, <1>15

-----------------------------------------------------------------------------
(***************************************************************************)
(* The arrival counts.                                                     *)
(***************************************************************************)
LEMMA ArrivalMoves ==
  ASSUME TypeInv, NEW r \in Ranks, [Next]_vars,
         ~ \E sm \in SMs : CountArrival(r, sm) \/ Cleanup(r, sm)
  PROVE  arrivals'[r] = arrivals[r]
<1>1. CASE UNCHANGED vars
  BY <1>1 DEF vars, poolVars
<1>2. ASSUME NEW q \in Ranks, q # r,
             RankStep(q) \/ \E o \in SMs : DispatchStep(q, o) \/ MathStep(q, o)
      PROVE  arrivals'[r] = arrivals[r]
  BY <1>2, Others DEF Aside
<1>3. CASE \E sm \in SMs : MathStep(r, sm)
  BY <1>3 DEF MathStep, StartTasks, ClaimBlock, LoadBlock, LeaveBarrier2, poolVars
<1>4. CASE RankStep(r)
  BY <1>4 DEF RankStep, Launch, Signal1, Signal2, Signal3, SendSignals, poolVars
<1>5. ASSUME NEW sm \in SMs, DispatchStep(r, sm) PROVE arrivals'[r] = arrivals[r]
  <2>1. CASE StakeOut(r, sm) \/ LeaveGridSync(r, sm) \/ (\E x \in AllExperts : Broadcast(r, sm, x))
    BY <2>1 DEF StakeOut, LeaveGridSync, Broadcast, poolVars
  <2>2. CASE LeaveBarrier1(r, sm) \/ FetchCounts(r, sm) \/ (\E i \in Rows : WriteIndex(r, sm, i))
    BY <2>2 DEF LeaveBarrier1, FetchCounts, WriteIndex, poolVars
  <2>3. CASE PullRow(r, sm) \/ Join(r, sm) \/ LeaveGridSync2(r, sm) \/ LeaveBarrier3(r, sm)
    BY <2>3 DEF PullRow, Join, LeaveGridSync2, LeaveBarrier3, poolVars
  <2> QED
    BY <1>5, <2>1, <2>2, <2>3 DEF DispatchStep
<1> QED
  BY <1>1, <1>2, <1>3, <1>4, <1>5 DEF Next, Finished

LEMMA EndedMoves ==
  ASSUME TypeInv, NEW r \in Ranks, [Next]_vars, ~Launch(r), NEW o \in SMs, ~Cleanup(r, o)
  PROVE  Ended(r, o)' <=> Ended(r, o)
<1>1. CASE ~ \E sm \in SMs : DispatchStep(r, sm)
  BY <1>1, PullSteps DEF Ended
<1>2. ASSUME NEW sm \in SMs, DispatchStep(r, sm) PROVE Ended(r, o)' <=> Ended(r, o)
  <2>1. CASE sm = o
    BY <1>2, <2>1, StakeMoves
  <2>2. CASE sm # o
    BY <1>2, <2>2, StakeMoves DEF Ended
  <2> QED
    BY <2>1, <2>2
<1> QED
  BY <1>1, <1>2

LEMMA CountedInSets ==
  ASSUME TypeInv, NEW r \in Ranks, AllSent(r), NEW b
  PROVE  /\ Total(r) \in Nat
         /\ IsFiniteSet(CountedIn(r, b)) /\ Cardinality(CountedIn(r, b)) \in Nat
<1>1. Total(r) \in Nat
  BY TrueCountsType, CountSums DEF Total
<1>2. IsFiniteSet(0 .. Total(r) - 1)
  BY <1>1, FS_Interval
<1>3. CountedIn(r, b) \in SUBSET (0 .. Total(r) - 1)
  BY DEF CountedIn
<1> QED
  BY <1>1, <1>2, <1>3, FS_Subset, FS_CardinalityType

\* The rows counted in a block after a step.
LEMMA CountedAfter ==
  ASSUME TypeInv, TypeInv', ControlInv, NEW r \in Ranks, Running(r), [Next]_vars, NEW b
  PROVE  CountedIn(r, b)' =
           { t \in 0 .. Total(r) - 1 : /\ BlockAt(TrueCounts(r), t) = b
                                       /\ Counted(r, t)'
                                       /\ pc'[r][Owner(ExpertAt(TrueCounts(r), t))]
                                            \notin {"barrier3", "exited"} }
<1> DEFINE c == TrueCounts(r)
<1>1. setup' = setup /\ TrueCounts(r)' = c
  BY RunningKept
<1>2. Experts' = Experts /\ NumExperts' = NumExperts
  BY <1>1, SetupStands
<1>3. Total(r)' = Total(r)
  BY <1>1, <1>2 DEF Total, FirstToken, SumTo
<1>4. ASSUME NEW t
      PROVE  /\ ExpertAt(TrueCounts(r), t)' = ExpertAt(c, t)
             /\ BlockAt(TrueCounts(r), t)' = BlockAt(c, t)
  BY <1>1, <1>2 DEF ExpertAt, IndexAt, BlockAt, FirstBlock, FirstToken, SumTo
<1>5. ASSUME NEW t
      PROVE  Ended(r, Owner(ExpertAt(TrueCounts(r), t)))'
               <=> pc'[r][Owner(ExpertAt(c, t))] \in {"barrier3", "exited"}
  BY <1>4 DEF Ended, Owner
<1>6. CountedIn(r, b)' =
        { t \in 0 .. Total(r)' - 1 : /\ BlockAt(TrueCounts(r), t)' = b
                                     /\ Counted(r, t)'
                                     /\ ~Ended(r, Owner(ExpertAt(TrueCounts(r), t)))' }
  BY DEF CountedIn
<1> QED
  BY <1>3, <1>4, <1>5, <1>6

LEMMA CountArrivalStep ==
  ASSUME TypeInv, TypeInv', ControlInv, NEW r \in Ranks, LearnInv(r), TokenInv(r), LoadInv(r),
         ArrivalInv(r), Running(r), [Next]_vars, NEW sm \in SMs, CountArrival(r, sm),
         NEW b \in Blocks
  PROVE  arrivals'[r][b] = Cardinality(CountedIn(r, b)')
<1>0. PICK t : t = token[r][sm]
  OBVIOUS
<1> DEFINE c == TrueCounts(r)
           e == ExpertAt(c, t)
           a == BlockAt(c, t)
<1>1. pc[r][sm] = "arrive" /\ pc' = [pc EXCEPT ![r][sm] = "pull"]
  BY DEF CountArrival, Goto
<1>2. seen[r][sm] = c /\ c \in [Experts -> Nat]
  BY <1>1, InformedRuns DEF Informed
<1>3. Total(r) \in Nat /\ IsFiniteSet(CountedIn(r, b)) /\ Cardinality(CountedIn(r, b)) \in Nat
  BY CountedInSets DEF Running
<1>4. t \in 0 .. Total(r) - 1 /\ t \in Nat /\ t % NumSMs = sm
  BY <1>0, <1>1, <1>3 DEF TokenInv, TypeInv
<1>5. e \in Experts /\ a \in Blocks
  <2>1. e \in Experts /\ a \in 0 .. TotalBlocks(r) - 1
    BY <1>2, <1>4, ExpertAtRight, BlockOfRow DEF Total, TotalBlocks
  <2> QED
    BY <2>1, PoolFits DEF Running
<1>6. arrivals'[r] = [arrivals[r] EXCEPT ![a] = @ + 1]
  <2>1. Target(r, sm).expert = e /\ Target(r, sm).index = IndexAt(c, t)
    BY <1>0, <1>2 DEF Target, ExpertAt, IndexAt
  <2>2. FirstBlock(seen[r][sm], Target(r, sm).expert) + Target(r, sm).index \div BlockM = a
    BY <1>2, <2>1 DEF BlockAt
  <2>3. arrivals' = [arrivals EXCEPT ![r][a] = @ + 1]
    BY <2>2 DEF CountArrival
  <2> QED
    BY <2>3 DEF TypeInv
<1>7. ~Counted(r, t)
  BY <1>0, <1>1, <1>4 DEF Counted, Leaving
<1>8. Counted(r, t)'
  <2>1. pc'[r][sm] = "pull" /\ token'[r][sm] = t + NumSMs /\ NumSMs \in Nat /\ NumSMs > 0
    BY <1>0, <1>1, SetupFacts DEF CountArrival, TypeInv
  <2>2. t < t + NumSMs
    BY <1>4, <2>1
  <2> QED
    BY <1>4, <2>1, <2>2 DEF Counted
<1>9. Owner(e) \in SMs /\ pc'[r][Owner(e)] \notin {"barrier3", "exited"}
  <2>1. Owner(e) \in SMs
    BY <1>5, OwnerType
  <2>2. ASSUME pc[r][Owner(e)] \in {"barrier3", "exited"} PROVE FALSE
    BY <1>4, <1>7, <2>1, <2>2, AllCounted
  <2> QED
    BY <1>1, <2>1, <2>2 DEF TypeInv
<1>10. ASSUME NEW u \in 0 .. Total(r) - 1, u # t
       PROVE  u \in CountedIn(r, b)' <=> u \in CountedIn(r, b)
  <2>1. Counted(r, u)' <=> Counted(r, u)
    <3>1. ASSUME NEW o \in SMs, CountArrival(r, o), token[r][o] = u PROVE FALSE
      <4>1. pc[r][o] = "arrive" /\ pc'[r][o] = "pull"
        BY <3>1 DEF CountArrival, Goto, TypeInv
      <4>2. o = sm
        BY <1>1, <4>1 DEF TypeInv
      <4> QED
        BY <1>0, <1>10, <3>1, <4>2
    <3> QED
      BY <3>1, CountedMoves
  <2>2. ExpertAt(c, u) \in Experts
    BY <1>2, ExpertAtRight DEF Total
  <2>3. PICK o \in SMs : o = Owner(ExpertAt(c, u))
    BY <2>2, OwnerType
  <2>4. pc'[r][o] \in {"barrier3", "exited"} <=> Ended(r, o)
    <3>1. ~Launch(r) /\ ~Cleanup(r, o)
      <4>1. ~Launch(r)
        BY NoLaunch
      <4>2. SUFFICES ASSUME Cleanup(r, o) PROVE FALSE
        BY <4>1
      <4>3. pc[r][o] = "cleanup" /\ pc'[r][o] = "barrier3"
        BY <4>2 DEF Cleanup, Goto, TypeInv
      <4> QED
        BY <1>1, <4>3 DEF TypeInv
    <3> QED
      BY <3>1, EndedMoves DEF Ended
  <2>5. u \in CountedIn(r, b)' <=>
          BlockAt(c, u) = b /\ Counted(r, u)' /\ pc'[r][o] \notin {"barrier3", "exited"}
    BY <2>3, CountedAfter
  <2>6. u \in CountedIn(r, b) <=> BlockAt(c, u) = b /\ Counted(r, u) /\ ~Ended(r, o)
    BY <2>3 DEF CountedIn
  <2> QED
    BY <2>1, <2>4, <2>5, <2>6
<1>11. t \notin CountedIn(r, b)
  BY <1>7 DEF CountedIn
<1>12. t \in CountedIn(r, b)' <=> a = b
  BY <1>4, <1>8, <1>9, CountedAfter
<1>13. CountedIn(r, b)' \subseteq 0 .. Total(r) - 1 /\ CountedIn(r, b) \subseteq 0 .. Total(r) - 1
  <2>1. CountedIn(r, b)' \subseteq 0 .. Total(r) - 1
    BY CountedAfter
  <2> QED
    BY <2>1 DEF CountedIn
<1>14. arrivals[r][b] = Cardinality(CountedIn(r, b))
  BY DEF ArrivalInv
<1> HIDE DEF a
<1>15. CASE a = b
  <2>1. CountedIn(r, b)' = CountedIn(r, b) \cup {t}
    BY <1>4, <1>10, <1>12, <1>13, <1>15
  <2>2. Cardinality(CountedIn(r, b) \cup {t}) = Cardinality(CountedIn(r, b)) + 1
    BY <1>3, <1>11, FS_AddElement
  <2>3. arrivals'[r][b] = arrivals[r][b] + 1
    BY <1>5, <1>6, <1>15 DEF TypeInv
  <2> QED
    BY <1>14, <2>1, <2>2, <2>3
<1>16. CASE a # b
  <2>1. CountedIn(r, b)' = CountedIn(r, b)
    BY <1>10, <1>11, <1>12, <1>13, <1>16
  <2>2. arrivals'[r][b] = arrivals[r][b]
    BY <1>6, <1>16
  <2> QED
    BY <1>14, <2>1, <2>2
<1> QED
  BY <1>15, <1>16

\* The blocks that a warp computes for an expert are those of the expert.
LEMMA ClearedRight ==
  ASSUME TypeInv, NEW r \in Ranks, NEW sm \in SMs, NEW e \in Experts, AllSent(r),
         seen[r][sm] = TrueCounts(r), recvSum[r][e].n = TrueCounts(r)[e]
  PROVE  Cleared(r, sm, e) = { FirstBlock(TrueCounts(r), e) + j :
                                 j \in 0 .. CeilDiv(TrueCounts(r)[e], BlockM) - 1 }
<1> DEFINE c == TrueCounts(r)
           n == c[e]
<1>1. c \in [Experts -> Nat] /\ n \in Nat
  BY TrueCountsType
<1>2. /\ BlockM \in Nat \ {0} /\ setup.lanes \in Nat \ {0} /\ NumRanks \in Nat /\ NumRows \in Nat
      /\ setup.single => NumRanks * NumRows <= BlockM * setup.lanes
  BY SetupFacts DEF TypeInv
<1>3. CeilDiv(n, BlockM) \in Nat
  BY <1>1, <1>2, Ceil
<1>4. ASSUME NEW j \in 0 .. CeilDiv(n, BlockM) - 1
      PROVE  CleanupOffset(r, sm, e, (j \div setup.lanes) % NumDispatchWarps) = FirstBlock(c, e)
  <2>1. CASE ~setup.single
    BY <2>1 DEF CleanupOffset
  <2>2. CASE setup.single
    <3>1. j \in Nat /\ j * BlockM < n
      <4>1. j \in Nat
        BY <1>3
      <4>2. \A k \in 0 .. CeilDiv(n, BlockM) - 1 : k * BlockM < n
        BY <1>1, <1>2, Ceil
      <4> HIDE DEF n
      <4> QED
        BY <4>1, <4>2
    <3>2. n <= Total(r) /\ Total(r) \in Nat
      <4>1. /\ FirstToken(c, e) \in Nat /\ FirstToken(c, e + 1) = FirstToken(c, e) + n
            /\ FirstToken(c, e + 1) <= FirstToken(c, NumExperts) /\ FirstToken(c, NumExperts) \in Nat
        BY <1>1, CountSums
      <4> QED
        BY <1>1, <4>1 DEF Total
    <3>3. Total(r) <= BlockM * setup.lanes
      <4>1. PICK x \in Nat, y \in Nat : x = NumRanks * NumRows /\ y = BlockM * setup.lanes
        BY <1>2
      <4>2. Total(r) <= x
        BY <4>1, TotalBound
      <4> QED
        BY <1>2, <2>2, <3>2, <4>1, <4>2
    <3>4. j < setup.lanes
      <4>1. SUFFICES ASSUME j >= setup.lanes PROVE FALSE
        BY <1>2, <3>1
      <4>2. j * BlockM >= setup.lanes * BlockM
        BY <1>2, <3>1, <4>1, Product
      <4>3. PICK x \in Nat, y \in Nat : x = j * BlockM /\ y = setup.lanes * BlockM
        BY <1>2, <3>1
      <4>4. setup.lanes * BlockM = BlockM * setup.lanes
        BY <1>2
      <4> QED
        BY <1>1, <3>1, <3>2, <3>3, <4>2, <4>3, <4>4
    <3>5. j \div setup.lanes = 0
      <4>1. PICK l \in Nat \ {0} : l = setup.lanes
        BY <1>2
      <4>2. PICK x \in Nat, y \in Nat : x = j \div l /\ y = j % l /\ y < l /\ j = x * l + y
        BY <3>1, <4>1, Division, ZenonT(60)
      <4>3. SUFFICES ASSUME x >= 1 PROVE FALSE
        BY <4>1, <4>2
      <4>4. x * l >= 1 * l
        BY <4>3, Product
      <4>5. PICK z \in Nat : z = x * l
        BY <4>2
      <4> QED
        BY <3>1, <3>4, <4>1, <4>2, <4>4, <4>5
    <3>6. (j \div setup.lanes) % NumDispatchWarps = 0
      BY <3>5 DEF NumDispatchWarps
    <3> QED
      BY <3>6 DEF CleanupOffset
  <2> QED
    BY <2>1, <2>2
<1>5. Cleared(r, sm, e) =
        { CleanupOffset(r, sm, e, (j \div setup.lanes) % NumDispatchWarps) + j :
            j \in 0 .. CeilDiv(n, BlockM) - 1 }
  BY DEF Cleared
<1> QED
  BY <1>4, <1>5

LEMMA CleanupStep ==
  ASSUME TypeInv, TypeInv', ControlInv, NEW r \in Ranks, RecvInv(r), LearnInv(r), TokenInv(r),
         LoadInv(r), ArrivalInv(r), Running(r), [Next]_vars, NEW sm \in SMs, Cleanup(r, sm),
         NEW b \in Blocks
  PROVE  arrivals'[r][b] = Cardinality(CountedIn(r, b)')
<1> DEFINE c == TrueCounts(r)
           mine == { e \in Experts : e % (NumSMs - 1) = sm - 1 }
           blocks == UNION { Cleared(r, sm, e) : e \in mine }
<1>1. pc[r][sm] = "cleanup" /\ pc' = [pc EXCEPT ![r][sm] = "barrier3"]
  BY DEF Cleanup, Goto
<1>2. seen[r][sm] = c /\ c \in [Experts -> Nat]
  BY <1>1, InformedRuns DEF Informed
<1>3. \A t \in 0 .. Total(r) - 1 : Counted(r, t) /\ Counted(r, t)'
  BY <1>1, AllCounted, CountedMoves
<1>4. arrivals[r][b] = Cardinality(CountedIn(r, b))
  BY DEF ArrivalInv
<1>5. \A t \in 0 .. Total(r) - 1 : ExpertAt(c, t) \in Experts /\ Owner(ExpertAt(c, t)) \in SMs
  BY <1>2, ExpertAtRight, OwnerType DEF Total
<1>6. \A o \in SMs : pc'[r][o] \in {"barrier3", "exited"} <=> Ended(r, o) \/ o = sm
  BY <1>1 DEF Ended, TypeInv
<1>7. CountedIn(r, b)' = { t \in CountedIn(r, b) : Owner(ExpertAt(c, t)) # sm }
  <2>1. CountedIn(r, b)' =
           { t \in 0 .. Total(r) - 1 : /\ BlockAt(c, t) = b
                                       /\ Counted(r, t)'
                                       /\ pc'[r][Owner(ExpertAt(c, t))] \notin {"barrier3", "exited"} }
    BY CountedAfter
  <2> QED
    BY <1>3, <1>5, <1>6, <2>1 DEF CountedIn
<1>8. \A e \in Experts : Owner(e) # 0 /\ (sm # 0 => (e \in mine <=> Owner(e) = sm))
  BY OwnerType
<1>9. CASE sm = 0
  <2>1. CountedIn(r, b)' = CountedIn(r, b)
    BY <1>5, <1>7, <1>8, <1>9 DEF CountedIn
  <2>2. arrivals' = arrivals
    BY <1>9 DEF Cleanup
  <2> QED
    BY <1>4, <2>1, <2>2
<1>10. CASE sm # 0
  <2>1. arrivals'[r][b] = IF b \in blocks THEN 0 ELSE arrivals[r][b]
    <3>1. arrivals' = [arrivals EXCEPT ![r] =
             [d \in Blocks |-> IF d \in blocks THEN 0 ELSE @[d]]]
      BY <1>10 DEF Cleanup
    <3> HIDE DEF blocks
    <3>2. arrivals'[r] = [d \in Blocks |-> IF d \in blocks THEN 0 ELSE arrivals[r][d]]
      BY <3>1 DEF TypeInv
    <3> QED
      BY <3>2
  <2>2. ASSUME NEW e \in mine
        PROVE  Cleared(r, sm, e) = { FirstBlock(c, e) + j : j \in 0 .. CeilDiv(c[e], BlockM) - 1 }
    <3>1. Owner(e) = sm /\ ~Ended(r, Owner(e))
      BY <1>1, <1>8, <1>10 DEF Ended
    <3>2. recvSum[r][e].n = c[e]
      BY <3>1, RunningRecv DEF Running
    <3> QED
      BY <1>2, <3>2, ClearedRight DEF Running
  <2>3. CASE b \in blocks
    <3>1. PICK e \in mine : b \in Cleared(r, sm, e)
      BY <2>3
    <3>2. PICK j \in 0 .. CeilDiv(c[e], BlockM) - 1 : b = FirstBlock(c, e) + j
      BY <2>2, <3>1
    <3>3. ExpertOf(c, b) = e
      BY <1>2, <3>2, ExpertOfUnique
    <3>4. ASSUME NEW t \in CountedIn(r, b) PROVE Owner(ExpertAt(c, t)) = sm
      <4>1. t \in 0 .. FirstToken(c, NumExperts) - 1 /\ BlockAt(c, t) = b
        BY DEF CountedIn, Total
      <4>2. ExpertAt(c, t) = e
        BY <1>2, <3>3, <4>1, BlockOfRow
      <4> QED
        BY <1>8, <1>10, <4>2
    <3>5. CountedIn(r, b)' = {}
      BY <1>7, <3>4
    <3> QED
      BY <2>1, <2>3, <3>5, FS_EmptySet
  <2>4. CASE b \notin blocks
    <3>1. ASSUME NEW t \in CountedIn(r, b) PROVE Owner(ExpertAt(c, t)) # sm
      <4>1. t \in 0 .. FirstToken(c, NumExperts) - 1 /\ BlockAt(c, t) = b
        BY DEF CountedIn, Total
      <4> DEFINE e == ExpertAt(c, t)
      <4>2. b \in 0 .. FirstBlock(c, NumExperts) - 1 /\ ExpertOf(c, b) = e
        BY <1>2, <4>1, BlockOfRow
      <4>3. e \in Experts /\ FirstBlock(c, e) \in Nat
            /\ b - FirstBlock(c, e) \in 0 .. CeilDiv(c[e], BlockM) - 1
        BY <1>2, <4>2, ExpertOfRight
      <4>4. SUFFICES ASSUME e \in mine PROVE FALSE
        BY <1>8, <1>10, <4>3
      <4>5. b = FirstBlock(c, e) + (b - FirstBlock(c, e))
        BY <4>2, <4>3
      <4> HIDE DEF e
      <4>6. b \in Cleared(r, sm, e)
        BY <2>2, <4>3, <4>4, <4>5
      <4> QED
        BY <2>4, <4>4, <4>6
    <3>2. CountedIn(r, b)' = CountedIn(r, b)
      BY <1>7, <3>1
    <3> QED
      BY <1>4, <2>1, <2>4, <3>2
  <2> QED
    BY <2>3, <2>4
<1> QED
  BY <1>9, <1>10

LEMMA NextArrival ==
  ASSUME TypeInv, TypeInv', ControlInv, ControlInv', NEW r \in Ranks, RecvInv(r), LearnInv(r),
         TokenInv(r), LoadInv(r), ArrivalInv(r), [Next]_vars
  PROVE  ArrivalInv(r)'
<1>1. setup' = setup /\ Blocks' = Blocks
  BY SetupKept, SetupStands
<1> SUFFICES ASSUME NEW b \in Blocks
             PROVE  arrivals'[r][b] = IF Running(r)' THEN Cardinality(CountedIn(r, b)') ELSE 0
  BY <1>1 DEF ArrivalInv
<1>2. arrivals[r][b] = IF Running(r) THEN Cardinality(CountedIn(r, b)) ELSE 0
  BY DEF ArrivalInv
<1>3. CASE ~Running(r)
  <2>1. ~ \E sm \in SMs : CountArrival(r, sm) \/ Cleanup(r, sm)
    BY <1>3, InformedRuns DEF CountArrival, Cleanup, Informed
  <2>2. arrivals'[r][b] = 0
    BY <1>2, <1>3, <2>1, ArrivalMoves
  <2>3. ASSUME Running(r)' PROVE CountedIn(r, b)' = {}
    <3>1. \A sm \in SMs : ~Informed(r, sm)' /\ ~Leaving(r, sm)'
      BY <1>3, <2>3, RunningStarts
    <3>2. ASSUME NEW t \in Nat PROVE ~Counted(r, t)'
      <4>1. t % NumSMs \in SMs
        BY TokenCta
      <4> QED
        BY <3>1, <4>1 DEF Counted, Informed
    <3>3. \A t \in 0 .. Total(r)' - 1 : t \in Nat
      OBVIOUS
    <3> QED
      BY <3>2, <3>3 DEF CountedIn
  <2> QED
    BY <2>2, <2>3, FS_EmptySet
<1>4. CASE Running(r) /\ ~Running(r)'
  <2>1. ~Busy(r)' /\ launch' = launch
    BY <1>4, RunningKept DEF Running
  <2>2. nvSignals'[r] # nvSignals[r]
    <3>1. Barrier(r, BarriersPerLaunch)' = Barrier(r, BarriersPerLaunch)
      BY <1>1, <2>1, SetupStands DEF Barrier
    <3> QED
      BY <1>4, <2>1, <3>1 DEF Running, Busy
  <2>3. pc' = pc /\ arrivals' = arrivals
    <3>1. CASE UNCHANGED vars
      BY <2>2, <3>1 DEF vars
    <3>2. ASSUME NEW q \in Ranks, RankStep(q) PROVE pc' = pc /\ arrivals' = arrivals
      <4>1. CASE q # r
        BY <2>2, <3>2, <4>1, Others DEF Aside
      <4>2. CASE q = r
        BY <1>4, <3>2, <4>2, NoLaunch DEF RankStep, Signal1, Signal2, Signal3, SendSignals, poolVars
      <4> QED
        BY <4>1, <4>2
    <3>3. CASE \E q \in Ranks, sm \in SMs : DispatchStep(q, sm)
      BY <2>2, <3>3, DispatchMove
    <3>4. CASE \E q \in Ranks, sm \in SMs : MathStep(q, sm)
      BY <2>2, <3>4 DEF MathStep, StartTasks, ClaimBlock, LoadBlock, LeaveBarrier2
    <3> QED
      BY <3>1, <3>2, <3>3, <3>4 DEF Next, Finished
  <2>4. InBarrier3(r)'
    <3>1. /\ nvSignals'[r] <= Barrier(r, BarriersPerLaunch)'
          /\ nvSignals'[r] = Barrier(r, BarriersPerLaunch)' => InBarrier3(r)'
      BY <1>1, SetupStands DEF ControlInv, SignalInv
    <3>2. nvSignals'[r] \in Nat /\ Barrier(r, BarriersPerLaunch)' \in Nat
      <4>1. Barrier(r, BarriersPerLaunch)' = Barrier(r, BarriersPerLaunch)
        BY <1>1, <2>1, SetupStands DEF Barrier
      <4>2. Barrier(r, BarriersPerLaunch) \in Nat
        BY BarrierFacts
      <4>3. nvSignals'[r] \in Nat
        BY <1>1, SetupStands DEF TypeInv
      <4> QED
        BY <4>1, <4>2, <4>3
    <3> QED
      BY <2>1, <3>1, <3>2 DEF Busy
  <2>5. \A sm \in SMs : Ended(r, sm)
    BY <2>3, <2>4 DEF InBarrier3, Ended
  <2>6. \A t \in 0 .. Total(r) - 1 : Owner(ExpertAt(TrueCounts(r), t)) \in SMs
    BY <1>4, TrueCountsType, ExpertAtRight, OwnerType DEF Total, Running
  <2>7. CountedIn(r, b) = {}
    BY <2>5, <2>6 DEF CountedIn
  <2> QED
    BY <1>2, <1>4, <2>3, <2>7, FS_EmptySet
<1>5. CASE Running(r) /\ Running(r)'
  <2>1. CASE \E sm \in SMs : CountArrival(r, sm)
    BY <1>5, <2>1, CountArrivalStep
  <2>2. CASE \E sm \in SMs : Cleanup(r, sm)
    BY <1>5, <2>2, CleanupStep
  <2>3. CASE ~ \E sm \in SMs : CountArrival(r, sm) \/ Cleanup(r, sm)
    <3>1. arrivals'[r] = arrivals[r]
      BY <2>3, ArrivalMoves
    <3>2. ASSUME NEW t \in 0 .. Total(r) - 1
          PROVE  /\ Counted(r, t)' <=> Counted(r, t)
                 /\ pc'[r][Owner(ExpertAt(TrueCounts(r), t))] \in {"barrier3", "exited"}
                      <=> Ended(r, Owner(ExpertAt(TrueCounts(r), t)))
      <4>1. Counted(r, t)' <=> Counted(r, t)
        BY <1>5, <2>3, CountedMoves
      <4>2. PICK o \in SMs : o = Owner(ExpertAt(TrueCounts(r), t))
        BY <1>5, TrueCountsType, ExpertAtRight, OwnerType DEF Total, Running
      <4>3. Ended(r, o)' <=> Ended(r, o)
        BY <1>5, <2>3, NoLaunch, EndedMoves
      <4>4. pc'[r][o] \in {"barrier3", "exited"} <=> Ended(r, o)
        BY <4>3 DEF Ended
      <4> QED
        BY <4>1, <4>2, <4>4
    <3>3. CountedIn(r, b)' = CountedIn(r, b)
      <4>1. CountedIn(r, b)' =
           { t \in 0 .. Total(r) - 1 : /\ BlockAt(TrueCounts(r), t) = b
                                       /\ Counted(r, t)'
                                       /\ pc'[r][Owner(ExpertAt(TrueCounts(r), t))]
                                            \notin {"barrier3", "exited"} }
        BY <1>5, CountedAfter
      <4> QED
        BY <3>2, <4>1 DEF CountedIn
    <3> QED
      BY <1>2, <1>5, <3>1, <3>3
  <2> QED
    BY <2>1, <2>2, <2>3
<1> QED
  BY <1>3, <1>4, <1>5

-----------------------------------------------------------------------------
(***************************************************************************)
(* The blocks that are claimed and read.                                   *)
(***************************************************************************)
LEMMA LoadMoves ==
  ASSUME TypeInv, NEW r \in Ranks, [Next]_vars
  PROVE  /\ ~Cleanup(r, 0) /\ (\A sm \in SMs : ~ClaimBlock(r, sm)) => claimed'[r] = claimed[r]
         /\ ~Launch(r) /\ (\A sm \in SMs : ~LoadBlock(r, sm)) => loaded'[r] = loaded[r]
         /\ ~Launch(r) /\ (\A sm \in SMs : ~MathStep(r, sm)) =>
              math'[r] = math[r] /\ task'[r] = task[r]
<1> DEFINE A == ~Cleanup(r, 0) /\ (\A sm \in SMs : ~ClaimBlock(r, sm)) => claimed'[r] = claimed[r]
           B == ~Launch(r) /\ (\A sm \in SMs : ~LoadBlock(r, sm)) => loaded'[r] = loaded[r]
           C == ~Launch(r) /\ (\A sm \in SMs : ~MathStep(r, sm)) =>
                  math'[r] = math[r] /\ task'[r] = task[r]
           Goal == A /\ B /\ C
<1> SUFFICES Goal
  OBVIOUS
<1>1. CASE UNCHANGED vars
  BY <1>1 DEF vars, mathVars
<1>2. ASSUME NEW q \in Ranks, q # r,
             RankStep(q) \/ \E o \in SMs : DispatchStep(q, o) \/ MathStep(q, o)
      PROVE  Goal
  BY <1>2, Others DEF Aside
<1>3. CASE RankStep(r)
  <2>1. CASE Launch(r)
    BY <2>1 DEF Launch
  <2>2. CASE Signal1(r) \/ Signal2(r) \/ Signal3(r)
    BY <2>2 DEF Signal1, Signal2, Signal3, SendSignals, mathVars
  <2> QED
    BY <1>3, <2>1, <2>2 DEF RankStep
<1>4. ASSUME NEW sm \in SMs, DispatchStep(r, sm) PROVE Goal
  <2>1. CASE StakeOut(r, sm) \/ LeaveGridSync(r, sm) \/ (\E x \in AllExperts : Broadcast(r, sm, x))
    BY <2>1 DEF StakeOut, LeaveGridSync, Broadcast, mathVars
  <2>2. CASE LeaveBarrier1(r, sm) \/ FetchCounts(r, sm) \/ (\E i \in Rows : WriteIndex(r, sm, i))
    BY <2>2 DEF LeaveBarrier1, FetchCounts, WriteIndex, mathVars
  <2>3. CASE PullRow(r, sm) \/ CountArrival(r, sm) \/ Join(r, sm) \/ LeaveGridSync2(r, sm)
               \/ LeaveBarrier3(r, sm)
    BY <2>3 DEF PullRow, CountArrival, Join, LeaveGridSync2, LeaveBarrier3, mathVars
  <2>4. CASE Cleanup(r, sm)
    <3>1. UNCHANGED <<math, task, loaded>>
      BY <2>4 DEF Cleanup
    <3>2. sm # 0 => claimed' = claimed
      BY <2>4 DEF Cleanup
    <3> QED
      BY <2>4, <3>1, <3>2
  <2> HIDE DEF Goal
  <2> QED
    BY <1>4, <2>1, <2>2, <2>3, <2>4 DEF DispatchStep
<1>5. ASSUME NEW sm \in SMs, MathStep(r, sm) PROVE Goal
  <2>1. C
    BY <1>5
  <2>2. A
    BY <1>5 DEF MathStep, StartTasks, ClaimBlock, LoadBlock, LeaveBarrier2
  <2>3. B
    BY <1>5 DEF MathStep, StartTasks, ClaimBlock, LoadBlock, LeaveBarrier2
  <2> QED
    BY <2>1, <2>2, <2>3
<1> HIDE DEF Goal
<1> QED
  BY <1>1, <1>2, <1>3, <1>4, <1>5 DEF Next, Finished

\* When the loader of a block sees it complete, all its rows have been counted.
LEMMA LoadRead ==
  ASSUME TypeInv, ControlInv, NEW r \in Ranks, LearnInv(r), ArrivalInv(r), LoadInv(r),
         NEW sm \in SMs, LoadBlock(r, sm)
  PROVE  /\ Running(r) /\ task[r][sm] \in 0 .. TotalBlocks(r) - 1
         /\ \A t \in 0 .. Total(r) - 1 :
              BlockAt(TrueCounts(r), t) = task[r][sm] => Counted(r, t)
<1> DEFINE c == TrueCounts(r)
           b == task[r][sm]
           rows == { t \in 0 .. Total(r) - 1 : BlockAt(c, t) = b }
<1>1. math[r][sm] = "load" /\ arrivals[r][b] = ValidM(known[r][sm], b)
  BY DEF LoadBlock
<1>2. Running(r) /\ known[r][sm] = c /\ c \in [Experts -> Nat]
  BY <1>1, LoaderRuns
<1>3. b \in 0 .. TotalBlocks(r) - 1
  <2>1. b \in Nat /\ b < TotalBlocks(r)
    BY <1>1, <1>2 DEF LoadInv, TypeInv
  <2>2. TotalBlocks(r) \in Nat
    BY <1>2, CountSums DEF TotalBlocks
  <2> QED
    BY <2>1, <2>2
<1>4. b \in Blocks
  BY <1>2, <1>3, PoolFits DEF Running
<1>5. Cardinality(CountedIn(r, b)) = ValidM(c, b)
  BY <1>1, <1>2, <1>4 DEF ArrivalInv
<1>6. IsFiniteSet(rows) /\ Cardinality(rows) = ValidM(c, b)
  BY <1>2, <1>3, BlockRowCount DEF Total, TotalBlocks
<1>7. CountedIn(r, b) \in SUBSET rows
  BY DEF CountedIn
<1> HIDE DEF b, rows
<1>8. CountedIn(r, b) = rows
  BY <1>5, <1>6, <1>7, FS_Subset
<1>9. \A t \in 0 .. Total(r) - 1 : BlockAt(c, t) = b => Counted(r, t)
  BY <1>8 DEF rows, CountedIn
<1> QED
  BY <1>2, <1>3, <1>9 DEF b, c

LoadRun(r) ==
  /\ \A sm \in SMs : math[r][sm] = "load" => task[r][sm] < TotalBlocks(r)
  /\ \A b \in 0 .. TotalBlocks(r) - 1 :
       (b < claimed[r] \/ \E sm \in SMs : math[r][sm] \in {"barrier2", "done"}) => Taken(r, b)
  /\ \A b \in loaded[r] : b < TotalBlocks(r)
  /\ \A t \in 0 .. Total(r) - 1 : BlockAt(TrueCounts(r), t) \in loaded[r] => Counted(r, t)

LEMMA TakenKept ==
  ASSUME TypeInv, NEW r \in Ranks, NEW sm \in SMs, MathStep(r, sm), NEW b, Taken(r, b)
  PROVE  Taken(r, b)'
<1>1. \A o \in SMs : o # sm => math'[r][o] = math[r][o] /\ task'[r][o] = task[r][o]
  BY DEF MathStep, StartTasks, ClaimBlock, LoadBlock, LeaveBarrier2, TypeInv
<1>2. loaded[r] \subseteq loaded'[r]
  BY DEF MathStep, StartTasks, ClaimBlock, LoadBlock, LeaveBarrier2, TypeInv
<1>3. math[r][sm] = "load" /\ task[r][sm] = b => b \in loaded'[r]
  BY DEF MathStep, StartTasks, ClaimBlock, LoadBlock, LeaveBarrier2, TypeInv
<1> QED
  BY <1>1, <1>2, <1>3 DEF Taken

LEMMA LoadRunMath ==
  ASSUME TypeInv, TypeInv', ControlInv, NEW r \in Ranks, LearnInv(r), TokenInv(r), ArrivalInv(r),
         LoadInv(r), Running(r), LoadRun(r), [Next]_vars, NEW sm \in SMs, MathStep(r, sm)
  PROVE  /\ \A o \in SMs : math'[r][o] = "load" => task'[r][o] < TotalBlocks(r)
         /\ \A b \in 0 .. TotalBlocks(r) - 1 :
              (b < claimed'[r] \/ \E o \in SMs : math'[r][o] \in {"barrier2", "done"}) => Taken(r, b)'
         /\ \A b \in loaded'[r] : b < TotalBlocks(r)
         /\ \A t \in 0 .. Total(r) - 1 :
              BlockAt(TrueCounts(r), t) \in loaded'[r] => Counted(r, t)'
<1>1. /\ \A o \in SMs : o # sm => math'[r][o] = math[r][o] /\ task'[r][o] = task[r][o]
      /\ claimed[r] \in Nat
  <2>1. \A o \in SMs : o # sm => math'[r][o] = math[r][o] /\ task'[r][o] = task[r][o]
    <3>1. \E m : math' = [math EXCEPT ![r][sm] = m]
      BY DEF MathStep, StartTasks, ClaimBlock, LoadBlock, LeaveBarrier2
    <3>2. task' = task \/ \E b : task' = [task EXCEPT ![r][sm] = b]
      BY DEF MathStep, StartTasks, ClaimBlock, LoadBlock, LeaveBarrier2
    <3> QED
      BY <3>1, <3>2 DEF TypeInv
  <2>2. claimed[r] \in Nat
    BY DEF TypeInv
  <2> QED
    BY <2>1, <2>2
<1>2. \A b : Taken(r, b) => Taken(r, b)'
  BY TakenKept
<1>3. TrueCounts(r) \in [Experts -> Nat] /\ TotalBlocks(r) \in Nat
  BY TrueCountsType, CountSums DEF Running, TotalBlocks
<1>4. ASSUME NEW t \in 0 .. Total(r) - 1, BlockAt(TrueCounts(r), t) \in loaded'[r]
      PROVE  Counted(r, t)'
  <2>1. Counted(r, t)
    <3>1. CASE BlockAt(TrueCounts(r), t) \in loaded[r]
      BY <3>1 DEF LoadRun
    <3>2. CASE BlockAt(TrueCounts(r), t) \notin loaded[r]
      <4>1. LoadBlock(r, sm) /\ loaded'[r] = loaded[r] \cup {task[r][sm]}
        BY <1>4, <3>2 DEF MathStep, StartTasks, ClaimBlock, LoadBlock, LeaveBarrier2, TypeInv
      <4> QED
        BY <1>4, <3>2, <4>1, LoadRead
    <3> QED
      BY <3>1, <3>2
  <2> QED
    BY <2>1, CountedMoves
<1>5. ASSUME NEW b \in loaded'[r] PROVE b < TotalBlocks(r)
  <2>1. CASE b \in loaded[r]
    BY <2>1 DEF LoadRun
  <2>2. CASE b \notin loaded[r]
    <3>1. LoadBlock(r, sm) /\ loaded'[r] = loaded[r] \cup {task[r][sm]}
      BY <1>5, <2>2 DEF MathStep, StartTasks, ClaimBlock, LoadBlock, LeaveBarrier2, TypeInv
    <3> QED
      BY <1>3, <1>5, <2>2, <3>1, LoadRead
  <2> QED
    BY <2>1, <2>2
<1>6. CASE ClaimBlock(r, sm)
  <2>0. math[r][sm] = "claim" /\ known[r][sm] = TrueCounts(r) /\ claimed'[r] = claimed[r] + 1
    BY <1>6, LoaderRuns DEF ClaimBlock, TypeInv
  <2>1. CASE claimed[r] < FirstBlock(known[r][sm], NumExperts)
    <3>1. math'[r][sm] = "load" /\ task'[r][sm] = claimed[r] /\ claimed[r] < TotalBlocks(r)
      BY <1>6, <2>0, <2>1 DEF ClaimBlock, TotalBlocks, TypeInv
    <3>2. \A o \in SMs : math'[r][o] = "load" => task'[r][o] < TotalBlocks(r)
      BY <1>1, <3>1 DEF LoadRun
    <3>3. ASSUME NEW b \in 0 .. TotalBlocks(r) - 1,
                 b < claimed'[r] \/ \E o \in SMs : math'[r][o] \in {"barrier2", "done"}
          PROVE  Taken(r, b)'
      <4>1. CASE b = claimed[r]
        BY <3>1, <4>1 DEF Taken
      <4>2. CASE b # claimed[r] /\ b < claimed'[r]
        <5>1. b < claimed[r]
          BY <1>1, <1>3, <2>0, <4>2
        <5> QED
          BY <1>2, <5>1 DEF LoadRun
      <4>3. CASE \E o \in SMs : math'[r][o] \in {"barrier2", "done"}
        <5>1. \E o \in SMs : math[r][o] \in {"barrier2", "done"}
          BY <1>1, <3>1, <4>3
        <5> QED
          BY <1>2, <5>1 DEF LoadRun
      <4> QED
        BY <3>3, <4>1, <4>2, <4>3
    <3> QED
      BY <1>4, <1>5, <3>2, <3>3
  <2>2. CASE ~(claimed[r] < FirstBlock(known[r][sm], NumExperts))
    <3>1. math'[r][sm] \in {"barrier2", "done"} /\ claimed[r] >= TotalBlocks(r)
      BY <1>1, <1>3, <1>6, <2>0, <2>2 DEF ClaimBlock, TotalBlocks, TypeInv
    <3>2. \A o \in SMs : math'[r][o] = "load" => task'[r][o] < TotalBlocks(r)
      BY <1>1, <3>1 DEF LoadRun
    <3>3. ASSUME NEW b \in 0 .. TotalBlocks(r) - 1 PROVE Taken(r, b)'
      <4>1. b < claimed[r]
        BY <1>1, <1>3, <3>1
      <4> QED
        BY <1>2, <4>1 DEF LoadRun
    <3> QED
      BY <1>4, <1>5, <3>2, <3>3
  <2> QED
    BY <2>1, <2>2
<1>7. CASE StartTasks(r, sm) \/ LoadBlock(r, sm) \/ LeaveBarrier2(r, sm)
  <2>1. claimed' = claimed /\ math'[r][sm] # "load"
    BY <1>7 DEF StartTasks, LoadBlock, LeaveBarrier2, TypeInv
  <2>2. math'[r][sm] \in {"barrier2", "done"} => math[r][sm] \in {"barrier2", "done"}
    BY <1>7 DEF StartTasks, LoadBlock, LeaveBarrier2, TypeInv
  <2>3. \A o \in SMs : math'[r][o] = "load" => task'[r][o] < TotalBlocks(r)
    BY <1>1, <2>1 DEF LoadRun
  <2>4. ASSUME NEW b \in 0 .. TotalBlocks(r) - 1,
               b < claimed'[r] \/ \E o \in SMs : math'[r][o] \in {"barrier2", "done"}
        PROVE  Taken(r, b)'
    <3>1. b < claimed[r] \/ \E o \in SMs : math[r][o] \in {"barrier2", "done"}
      BY <1>1, <2>1, <2>2, <2>4
    <3> QED
      BY <1>2, <3>1 DEF LoadRun
  <2> QED
    BY <1>4, <1>5, <2>3, <2>4
<1> QED
  BY <1>6, <1>7 DEF MathStep

LEMMA NextLoad ==
  ASSUME TypeInv, TypeInv', ControlInv, ControlInv', NEW r \in Ranks, RecvInv(r), LearnInv(r),
         TokenInv(r), ArrivalInv(r), LoadInv(r), [Next]_vars
  PROVE  LoadInv(r)'
<1>0. 0 \in SMs
  BY SetupFacts DEF SMs, TypeInv
<1>1. Ended(r, 0)' => claimed'[r] = 0
  <2>1. SUFFICES ASSUME Ended(r, 0)' PROVE claimed'[r] = 0
    OBVIOUS
  <2>2. ~Launch(r)
    BY <1>0, <2>1 DEF Launch, Ended, TypeInv
  <2>3. CASE Cleanup(r, 0)
    BY <2>3 DEF Cleanup, TypeInv
  <2>4. CASE ~Cleanup(r, 0)
    <3>1. Ended(r, 0)
      BY <1>0, <2>1, <2>2, <2>4, EndedMoves
    <3>2. claimed[r] = 0
      BY <3>1 DEF LoadInv
    <3>3. ASSUME NEW sm \in SMs, ClaimBlock(r, sm) PROVE FALSE
      <4>1. math[r][sm] = "claim"
        BY <3>3 DEF ClaimBlock
      <4>2. Running(r)
        BY <4>1, LoaderRuns
      <4> QED
        BY <1>0, <3>1, <4>1, <4>2, AllCounted DEF Ended
    <3> QED
      BY <2>4, <3>2, <3>3, LoadMoves
  <2> QED
    BY <2>3, <2>4
<1>2. ASSUME ~Running(r), ~Launch(r), Busy(r)
      PROVE  claimed'[r] = 0 /\ loaded'[r] = {}
  <2>1. claimed[r] = 0 /\ loaded[r] = {}
    BY <1>2 DEF LoadInv, Running
  <2>2. \A sm \in SMs : ~ClaimBlock(r, sm) /\ ~LoadBlock(r, sm)
    BY <1>2, LoaderRuns DEF ClaimBlock, LoadBlock
  <2>3. ~Cleanup(r, 0)
    BY <1>0, <1>2, InformedRuns DEF Cleanup, Informed
  <2> QED
    BY <1>2, <2>1, <2>2, <2>3, LoadMoves
<1>3. Busy(r)' /\ ~AllSent(r)' => claimed'[r] = 0 /\ loaded'[r] = {}
  <2>1. SUFFICES ASSUME Busy(r)', ~AllSent(r)' PROVE claimed'[r] = 0 /\ loaded'[r] = {}
    OBVIOUS
  <2>2. ~Running(r)
    BY <2>1, RunningKept
  <2>3. CASE Launch(r)
    <3>1. Ended(r, 0) /\ claimed' = claimed /\ loaded'[r] = {}
      BY <1>0, <2>3 DEF Launch, Idle, Ended, TypeInv
    <3> QED
      BY <3>1 DEF LoadInv
  <2>4. CASE ~Launch(r)
    BY <1>2, <2>1, <2>2, <2>4, BusyBefore
  <2> QED
    BY <2>3, <2>4
<1>4. Running(r)' => LoadRun(r)'
  <2>1. SUFFICES ASSUME Running(r)' PROVE LoadRun(r)'
    OBVIOUS
  <2>2. CASE ~Running(r)
    <3>1. /\ ~Launch(r) /\ Busy(r)
          /\ \A sm \in SMs : math'[r][sm] = "start"
      BY <2>1, <2>2, RunningStarts
    <3>2. claimed'[r] = 0 /\ loaded'[r] = {}
      BY <1>2, <2>2, <3>1
    <3>3. \A b \in 0 .. TotalBlocks(r)' - 1 : ~(b < 0)
      OBVIOUS
    <3> QED
      BY <3>1, <3>2, <3>3 DEF LoadRun
  <2>3. CASE Running(r)
    <3> DEFINE c == TrueCounts(r)
    <3>1. setup' = setup /\ TrueCounts(r)' = c
      BY <2>3, RunningKept
    <3>2. Experts' = Experts /\ NumExperts' = NumExperts
      BY <3>1, SetupStands
    <3>3. Total(r)' = Total(r) /\ TotalBlocks(r)' = TotalBlocks(r)
      BY <3>1, <3>2 DEF Total, TotalBlocks, FirstToken, FirstBlock, SumTo
    <3>4. ASSUME NEW t PROVE BlockAt(TrueCounts(r), t)' = BlockAt(c, t)
      BY <3>1, <3>2 DEF ExpertAt, IndexAt, BlockAt, FirstBlock, FirstToken, SumTo
    <3>5. LoadRun(r)
      BY <2>3 DEF LoadInv, LoadRun
    <3> DEFINE Goal ==
         /\ \A o \in SMs : math'[r][o] = "load" => task'[r][o] < TotalBlocks(r)
         /\ \A b \in 0 .. TotalBlocks(r) - 1 :
              (b < claimed'[r] \/ \E o \in SMs : math'[r][o] \in {"barrier2", "done"}) => Taken(r, b)'
         /\ \A b \in loaded'[r] : b < TotalBlocks(r)
         /\ \A t \in 0 .. Total(r) - 1 :
              BlockAt(TrueCounts(r), t) \in loaded'[r] => Counted(r, t)'
    <3> SUFFICES Goal
      BY <3>3, <3>4 DEF LoadRun
    <3>6. CASE \E sm \in SMs : MathStep(r, sm)
      BY <2>3, <3>5, <3>6, LoadRunMath
    <3>7. CASE \A sm \in SMs : ~MathStep(r, sm)
      <4>1. ~Launch(r)
        BY <2>3, NoLaunch
      <4>2. \A sm \in SMs : ~ClaimBlock(r, sm) /\ ~LoadBlock(r, sm)
        BY <3>7 DEF MathStep
      <4>3. math'[r] = math[r] /\ task'[r] = task[r] /\ loaded'[r] = loaded[r]
        BY <3>7, <4>1, <4>2, LoadMoves
      <4>4. claimed'[r] = claimed[r] \/ claimed'[r] = 0
        <5>1. CASE Cleanup(r, 0)
          BY <5>1 DEF Cleanup, TypeInv
        <5>2. CASE ~Cleanup(r, 0)
          BY <4>2, <5>2, LoadMoves
        <5> QED
          BY <5>1, <5>2
      <4>5. \A b : Taken(r, b)' <=> Taken(r, b)
        BY <4>3 DEF Taken
      <4>6. ASSUME NEW b \in 0 .. TotalBlocks(r) - 1,
                   b < claimed'[r] \/ \E o \in SMs : math'[r][o] \in {"barrier2", "done"}
            PROVE  Taken(r, b)'
        <5>1. ~(b < 0)
          BY SMT
        <5>2. b < claimed[r] \/ \E o \in SMs : math[r][o] \in {"barrier2", "done"}
          BY <4>3, <4>4, <4>6, <5>1
        <5> QED
          BY <3>5, <4>5, <5>2 DEF LoadRun
      <4>7. ASSUME NEW t \in 0 .. Total(r) - 1, BlockAt(c, t) \in loaded'[r] PROVE Counted(r, t)'
        <5>1. Counted(r, t)
          BY <3>5, <4>3, <4>7 DEF LoadRun
        <5> QED
          BY <2>3, <5>1, CountedMoves
      <4> QED
        BY <3>5, <4>3, <4>6, <4>7 DEF LoadRun
    <3> HIDE DEF Goal
    <3> QED
      BY <3>6, <3>7
  <2> QED
    BY <2>2, <2>3
<1> QED
  BY <1>1, <1>3, <1>4 DEF LoadInv, LoadRun

-----------------------------------------------------------------------------
(***************************************************************************)
(* The invariant.                                                          *)
(***************************************************************************)
LEMMA InitRank ==
  ASSUME Init, NEW r \in Ranks
  PROVE  /\ SendInv(r) /\ IndexInv(r) /\ RecvInv(r) /\ LearnInv(r)
         /\ TokenInv(r) /\ StoredInv(r) /\ ArrivalInv(r) /\ LoadInv(r)
<1>1. TypeInv
  BY InitType
<1>2. \A q \in Ranks : launch[q] = 0 /\ nvSignals[q] = 0 /\ claimed[q] = 0
  BY DEF Init
<1>3. \A q \in Ranks, sm \in SMs :
        pc[q][sm] = "exited" /\ math[q][sm] = "done" /\ todo[q][sm] = {}
  BY DEF Init
<1>4. ~Busy(r)
  <2>1. Barrier(r, BarriersPerLaunch) = BarriersPerLaunch * launch[r] /\ BarriersPerLaunch \in {2, 3}
    BY <1>1, BarrierFacts
  <2> QED
    BY <1>2, <2>1 DEF Busy
<1>5. 0 \in SMs
  BY <1>1, SetupFacts DEF SMs, TypeInv
<1>6. SendInv(r)
  BY <1>3, <1>5 DEF Init, SendInv, Ended
<1>7. IndexInv(r)
  <2>1. ASSUME NEW x \in AllExperts PROVE StakedRows(r, x) = {}
    <3>1. x # NoExpert
      BY DEF AllExperts, Ranks, NoExpert
    <3>2. \A i \in Rows : routing[r][i] = NoExpert
      BY DEF Init
    <3> QED
      BY <3>1, <3>2 DEF StakedRows, RoutedRows
  <2>2. ASSUME NEW x \in AllExperts PROVE Slots(r, x) = {} /\ Filled(r, x) = {}
    BY <2>1, FS_EmptySet DEF Slots, Filled
  <2>3. ASSUME NEW x \in AllExperts, NEW sm \in SMs PROVE Pending(r, sm, x) = {}
    BY <1>3 DEF Pending
  <2> QED
    BY <2>2, <2>3 DEF IndexInv
<1>8. RecvInv(r)
  <2> SUFFICES ASSUME NEW e \in Experts PROVE RecvAt(r, e)
    BY DEF RecvInv, RecvAt
  <2>1. Owner(e) \in SMs
    BY <1>1, OwnerType
  <2>2. Senders(r, e) = {}
    BY <1>2, <1>3, <2>1 DEF Senders, RecvLaunch, Ended
  <2>3. recvCount[r][e] = [q \in Ranks |-> 0] /\ recvSum[r][e] = [n |-> 0, ctas |-> 0]
    BY DEF Init, Zero
  <2>4. NumRanks \in Nat /\ Ranks = 0 .. NumRanks - 1 /\ NumSMs \in Nat
    BY <1>1, SetupFacts DEF TypeInv, Ranks
  <2>5. SumTo(recvCount[r][e], NumRanks) = 0
    <3>1. \A k \in 0 .. NumRanks - 1 : recvCount[r][e][k] = 0
      BY <2>3, <2>4
    <3> QED
      BY <2>4, <3>1, SumZeros
  <2>6. NumSMs * Cardinality(Senders(r, e)) = 0
    BY <2>2, <2>4, FS_EmptySet
  <2> QED
    BY <2>2, <2>3, <2>5, <2>6 DEF RecvAt
<1>9. LearnInv(r) /\ TokenInv(r)
  BY <1>3, <1>4 DEF LearnInv, TokenInv, Informed
<1>10. StoredInv(r) /\ ArrivalInv(r)
  BY <1>4 DEF StoredInv, ArrivalInv, Running, Init
<1>11. LoadInv(r)
  BY <1>2, <1>4 DEF LoadInv, Running
<1> QED
  BY <1>6, <1>7, <1>8, <1>9, <1>10, <1>11

LEMMA NextRank ==
  ASSUME IInv, TypeInv', ControlInv', [Next]_vars, NEW r \in Ranks
  PROVE  (/\ SendInv(r) /\ IndexInv(r) /\ RecvInv(r) /\ LearnInv(r)
          /\ TokenInv(r) /\ StoredInv(r) /\ ArrivalInv(r) /\ LoadInv(r))'
<1>1. TypeInv /\ ControlInv /\ \A q \in Ranks : SendInv(q)
  BY DEF IInv
<1>2. /\ SendInv(r) /\ IndexInv(r) /\ RecvInv(r) /\ LearnInv(r)
      /\ TokenInv(r) /\ StoredInv(r) /\ ArrivalInv(r) /\ LoadInv(r)
  BY DEF IInv
<1>3. SendInv(r)' /\ IndexInv(r)'
  BY <1>1, <1>2, NextSend, NextIndex
<1>4. RecvInv(r)' /\ LearnInv(r)'
  BY <1>1, <1>2, NextRecv, NextLearn
<1>5. TokenInv(r)' /\ StoredInv(r)'
  BY <1>1, <1>2, NextToken, NextStored
<1>6. ArrivalInv(r)' /\ LoadInv(r)'
  BY <1>1, <1>2, NextArrival, NextLoad
<1> QED
  BY <1>3, <1>4, <1>5, <1>6

\* The invariant holds, for every number of ranks, CTAs, experts and rows, every
\* routing and every launch.
THEOREM PullInvariant == Spec => []IInv
<1>1. Init => IInv
  BY InitType, InitControl, InitRank DEF IInv
<1>2. IInv /\ [Next]_vars => IInv'
  <2> SUFFICES ASSUME IInv, [Next]_vars PROVE IInv'
    OBVIOUS
  <2>1. TypeInv /\ ControlInv
    BY DEF IInv
  <2>2. TypeInv'
    BY <2>1, NextType
  <2>3. ControlInv'
    BY <2>1, <2>2, NextControl
  <2>4. Ranks' = Ranks
    BY <2>1, SetupKept, SetupStands
  <2>5. \A r \in Ranks : (/\ SendInv(r) /\ IndexInv(r) /\ RecvInv(r) /\ LearnInv(r)
                          /\ TokenInv(r) /\ StoredInv(r) /\ ArrivalInv(r) /\ LoadInv(r))'
    BY <2>2, <2>3, NextRank
  <2> QED
    BY <2>2, <2>3, <2>4, <2>5 DEF IInv
<1> QED
  BY <1>1, <1>2, PTL DEF Spec

-----------------------------------------------------------------------------
(***************************************************************************)
(* What the loaders read.                                                  *)
(***************************************************************************)
\* Once all counts are out, all indices are: every row routed to an expert is in
\* the expert's order once.
LEMMA AllLanded ==
  ASSUME TypeInv, ControlInv, NEW r \in Ranks, AllSent(r), NEW q \in Ranks, IndexInv(q),
         NEW e \in Experts
  PROVE  /\ \A k \in 0 .. RowCounts(r, e)[q] - 1 :
              srcIndex[r][e][q][k] \in Rows /\ routing[q][srcIndex[r][e][q][k]] = <<r, e>>
         /\ \A j, k \in 0 .. RowCounts(r, e)[q] - 1 :
              srcIndex[r][e][q][j] = srcIndex[r][e][q][k] => j = k
<1> DEFINE x == <<r, e>>
<1>1. x \in AllExperts
  BY DEF AllExperts
<1>2. AfterGrid(q, Teller(x)) /\ Teller(x) \in SMs
  BY <1>1, TellerType DEF AllSent, Sent
<1>3. /\ \A o \in SMs : Written(q, o) /\ pc[q][o] # "stake"
      /\ StakedRows(q, x) = RoutedRows(q, x)
  BY <1>2, AllStaked
<1>4. ASSUME NEW o \in SMs PROVE Pending(q, o, x) = {}
  <2>1. CASE pc[q][o] # "write"
    BY <2>1 DEF Pending
  <2>2. CASE pc[q][o] = "write"
    <3>1. todo[q][o] = {}
      BY <1>3, <2>2 DEF Written
    <3>2. StillTo(q, o, x) = {}
      BY <3>1 DEF StillTo
    <3>3. Cardinality(StillTo(q, o, x)) = 0
      BY <3>2, FS_EmptySet
    <3>4. slot[q][o][x] \in Nat
      BY <1>1 DEF TypeInv
    <3> QED
      BY <3>3, <3>4 DEF Pending
  <2> QED
    BY <2>1, <2>2
<1>5. Filled(q, x) = 0 .. Cardinality(RoutedRows(q, x)) - 1
  BY <1>3, <1>4 DEF Filled, Slots
<1>6. RowCounts(r, e)[q] = Cardinality(RoutedRows(q, x))
  BY DEF RowCounts
<1>7. /\ \A k \in Filled(q, x) : srcIndex[r][e][q][k] \in Landed(q, x)
      /\ \A j, k \in Filled(q, x) : srcIndex[r][e][q][j] = srcIndex[r][e][q][k] => j = k
  BY <1>1 DEF IndexInv
<1>8. \A i \in Landed(q, x) : i \in Rows /\ routing[q][i] = x
  BY DEF Landed, StakedRows, RoutedRows
<1> QED
  BY <1>5, <1>6, <1>7, <1>8

\* What the search finds for a position of an expert.
LEMMA SourceFacts ==
  ASSUME TypeInv, NEW r \in Ranks, AllSent(r), NEW e \in Experts,
         NEW i \in 0 .. TrueCounts(r)[e] - 1
  PROVE  LET src == SourceOf(RowCounts(r, e), i)
         IN  /\ src[1] \in Ranks /\ src[2] \in 0 .. RowCounts(r, e)[src[1]] - 1
             /\ PositionOf(RowCounts(r, e), src[1], src[2]) = i
<1>1. \A q \in Ranks : launch[q] = launch[r]
  BY DEF AllSent
<1>2. RowCounts(r, e) \in [Ranks -> Nat] /\ TrueCounts(r)[e] = SumTo(RowCounts(r, e), NumRanks)
  BY <1>1, RoutedSum DEF TrueCounts
<1>3. NumRanks \in Nat /\ Ranks = 0 .. NumRanks - 1
  BY SetupFacts DEF TypeInv, Ranks
<1> DEFINE c == RowCounts(r, e)
<1> HIDE DEF c
<1>4. c \in [0 .. NumRanks - 1 -> Nat] /\ i \in 0 .. SumTo(c, NumRanks) - 1
  BY <1>2, <1>3 DEF c
<1>5. LET src == SourceOf(c, i)
      IN  /\ src[1] \in 0 .. NumRanks - 1 /\ src[2] \in 0 .. c[src[1]] - 1
          /\ PositionOf(c, src[1], src[2]) = i
  BY <1>3, <1>4, SearchRight
<1> QED
  BY <1>3, <1>5 DEF c

LEMMA ContentRight ==
  ASSUME IInv, NEW r \in Ranks, Running(r), NEW t \in 0 .. Total(r) - 1
  PROVE  /\ Content(r, t) \in Routed(r, ExpertAt(TrueCounts(r), t))
         /\ routing[Content(r, t)[2]][Content(r, t)[3]] = <<r, ExpertAt(TrueCounts(r), t)>>
<1> DEFINE c == TrueCounts(r)
           e == ExpertAt(c, t)
           i == IndexAt(c, t)
           src == SourceOf(RowCounts(r, e), i)
           row == srcIndex[r][e][src[1]][src[2]]
<1>1. TypeInv /\ ControlInv /\ \A q \in Ranks : IndexInv(q)
  BY DEF IInv
<1>2. c \in [Experts -> Nat] /\ AllSent(r)
  BY <1>1, TrueCountsType DEF Running
<1>3. e \in Experts /\ i \in 0 .. c[e] - 1
  BY <1>1, <1>2, ExpertAtRight DEF Total
<1>4. Content(r, t) = <<launch[r], src[1], row>>
  BY DEF Content
<1> HIDE DEF e, i
<1>5. src[1] \in Ranks /\ src[2] \in 0 .. RowCounts(r, e)[src[1]] - 1
  BY <1>1, <1>2, <1>3, SourceFacts, SMTT(40)
<1>6. row \in Rows /\ routing[src[1]][row] = <<r, e>> /\ launch[src[1]] = launch[r]
  BY <1>1, <1>2, <1>3, <1>5, AllLanded DEF AllSent
<1> HIDE DEF src, row
<1> DEFINE p == <<src[1], row>>
           P == { x \in Ranks \X Rows : launch[x[1]] = launch[r] /\ routing[x[1]][x[2]] = <<r, e>> }
<1>7. p \in P
  BY <1>5, <1>6
<1>8. Routed(r, e) = { <<launch[r], x[1], x[2]>> : x \in P }
  BY DEF Routed
<1> HIDE DEF P
<1>9. <<launch[r], p[1], p[2]>> \in Routed(r, e)
  BY <1>7, <1>8
<1>10. Content(r, t) \in Routed(r, e) /\ routing[Content(r, t)[2]][Content(r, t)[3]] = <<r, e>>
  BY <1>4, <1>6, <1>9
<1> QED
  BY <1>10 DEF e

LEMMA ContentInjective ==
  ASSUME IInv, NEW r \in Ranks, Running(r), NEW t \in 0 .. Total(r) - 1,
         NEW u \in 0 .. Total(r) - 1, Content(r, t) = Content(r, u)
  PROVE  t = u
<1> DEFINE c == TrueCounts(r)
           e == ExpertAt(c, t)
           i == IndexAt(c, t)
           j == IndexAt(c, u)
           src == SourceOf(RowCounts(r, e), i)
           tgt == SourceOf(RowCounts(r, e), j)
<1>1. TypeInv /\ ControlInv /\ \A q \in Ranks : IndexInv(q)
  BY DEF IInv
<1>2. c \in [Experts -> Nat] /\ AllSent(r)
  BY <1>1, TrueCountsType DEF Running
<1>3. ExpertAt(c, u) = e
  <2>1. <<r, ExpertAt(c, t)>> = <<r, ExpertAt(c, u)>>
    BY ContentRight
  <2> QED
    BY <2>1
<1>4. /\ e \in Experts /\ FirstToken(c, e) \in Nat /\ i \in 0 .. c[e] - 1 /\ j \in 0 .. c[e] - 1
      /\ t = FirstToken(c, e) + i /\ u = FirstToken(c, e) + j
  <2>1. /\ e \in Experts /\ FirstToken(c, e) \in Nat /\ i \in 0 .. c[e] - 1
        /\ t = FirstToken(c, e) + i
    BY <1>1, <1>2, ExpertAtRight DEF Total
  <2>2. j \in 0 .. c[ExpertAt(c, u)] - 1 /\ u = FirstToken(c, ExpertAt(c, u)) + j
    BY <1>1, <1>2, ExpertAtRight DEF Total
  <2> QED
    BY <1>3, <2>1, <2>2
<1>5. /\ Content(r, t) = <<launch[r], src[1], srcIndex[r][e][src[1]][src[2]]>>
      /\ Content(r, u) = <<launch[r], tgt[1], srcIndex[r][e][tgt[1]][tgt[2]]>>
  BY <1>3 DEF Content
<1> HIDE DEF c, e, i, j
<1>6. /\ src[1] \in Ranks /\ src[2] \in 0 .. RowCounts(r, e)[src[1]] - 1
      /\ PositionOf(RowCounts(r, e), src[1], src[2]) = i
  BY <1>1, <1>2, <1>4, SourceFacts DEF c
<1>7. /\ tgt[1] \in Ranks /\ tgt[2] \in 0 .. RowCounts(r, e)[tgt[1]] - 1
      /\ PositionOf(RowCounts(r, e), tgt[1], tgt[2]) = j
  BY <1>1, <1>2, <1>4, SourceFacts DEF c
<1> HIDE DEF src, tgt
<1>8. src[1] = tgt[1] /\ srcIndex[r][e][src[1]][src[2]] = srcIndex[r][e][src[1]][tgt[2]]
  <2>1. PICK m, x, y : m = launch[r] /\ x = srcIndex[r][e][src[1]][src[2]]
                       /\ y = srcIndex[r][e][tgt[1]][tgt[2]]
    OBVIOUS
  <2>2. <<m, src[1], x>> = <<m, tgt[1], y>>
    BY <1>5, <2>1
  <2>3. src[1] = tgt[1] /\ x = y
    BY <2>2
  <2> QED
    BY <2>1, <2>3
<1>9. src[2] = tgt[2]
  BY <1>1, <1>2, <1>4, <1>6, <1>7, <1>8, AllLanded
<1>10. i = j
  BY <1>6, <1>7, <1>8, <1>9
<1> QED
  BY <1>4, <1>10

\* The row of a block at a place.
LEMMA PlaceRow ==
  ASSUME IInv, NEW r \in Ranks, Running(r), NEW b \in loaded[r],
         NEW p \in b * BlockM .. b * BlockM + ValidM(TrueCounts(r), b) - 1
  PROVE  \E t \in 0 .. Total(r) - 1 :
           /\ PlaceAt(TrueCounts(r), t) = p /\ pool[r][p] = Content(r, t)
           /\ ExpertOf(TrueCounts(r), p \div BlockM) = ExpertAt(TrueCounts(r), t)
<1> DEFINE c == TrueCounts(r)
           e == ExpertOf(c, b)
           first == FirstToken(c, e) + (b - FirstBlock(c, e)) * BlockM
           k == p - b * BlockM
           v == ValidM(c, b)
<1>1. TypeInv /\ ControlInv /\ LoadInv(r) /\ StoredInv(r)
  BY DEF IInv
<1>2. c \in [Experts -> Nat] /\ AllSent(r) /\ BlockM \in Nat \ {0}
  BY <1>1, TrueCountsType, CountSums DEF Running
<1>3. b \in Nat /\ b \in 0 .. FirstBlock(c, NumExperts) - 1
  <2>1. b \in Nat /\ b < TotalBlocks(r)
    BY <1>1 DEF LoadInv, TypeInv
  <2>2. TotalBlocks(r) \in Nat
    BY <1>1, <1>2, CountSums DEF TotalBlocks
  <2> QED
    BY <2>1, <2>2 DEF TotalBlocks
<1>4. /\ first \in Nat /\ v \in Nat
      /\ \A t \in first .. first + v - 1 :
           /\ t \in 0 .. FirstToken(c, NumExperts) - 1
           /\ BlockAt(c, t) = b /\ ExpertAt(c, t) = e
           /\ PlaceAt(c, t) = b * BlockM + (t - first)
  BY <1>1, <1>2, <1>3, RowsOfBlock
<1> HIDE DEF first, v, e
<1>5. b * BlockM \in Nat
  BY <1>2, <1>3
<1>6. k \in 0 .. v - 1 /\ p = b * BlockM + k
  BY <1>4, <1>5 DEF v
<1> DEFINE t == first + k
<1>7. t \in first .. first + v - 1 /\ t - first = k
  BY <1>4, <1>6
<1> HIDE DEF t, k
<1>8. /\ t \in 0 .. Total(r) - 1 /\ BlockAt(c, t) = b /\ ExpertAt(c, t) = e
      /\ PlaceAt(c, t) = p
  BY <1>4, <1>6, <1>7 DEF Total
<1>9. Counted(r, t)
  BY <1>1, <1>8 DEF LoadInv
<1>10. pool[r][p] = Content(r, t)
  BY <1>1, <1>8, <1>9 DEF StoredInv, Stored
<1>11. p \div BlockM = b
  <2>1. PICK g \in 0 .. BlockM - 1, d \in Nat : p = d * BlockM + g /\ d = BlockAt(c, t)
    <3>1. /\ PlaceAt(c, t) = BlockAt(c, t) * BlockM + (IndexAt(c, t) % BlockM)
          /\ IndexAt(c, t) % BlockM \in 0 .. BlockM - 1
      BY <1>1, <1>2, <1>8, BlockOfRow DEF Total
    <3> QED
      BY <1>3, <1>8, <3>1
  <2>2. p \in Nat
    BY <1>5, <1>6
  <2>3. p \div BlockM \in Nat /\ p % BlockM \in 0 .. BlockM - 1
        /\ p = (p \div BlockM) * BlockM + (p % BlockM)
    BY <1>2, <2>2, Division
  <2>4. (p \div BlockM) * BlockM + (p % BlockM) = d * BlockM + g
    BY <2>1, <2>3
  <2>5. PICK q \in Nat, x \in 0 .. BlockM - 1 : q = p \div BlockM /\ x = p % BlockM
    BY <2>3
  <2>6. q * BlockM + x = d * BlockM + g
    BY <2>4, <2>5
  <2>7. q = d
    BY <1>2, <2>6, Digits
  <2> QED
    BY <1>8, <2>1, <2>5, <2>7
<1> QED
  BY <1>8, <1>10, <1>11 DEF e

\* A block that a loader has read holds, for as long as the launch is under way,
\* rows of its own expert and of this launch, each in one place only: whatever
\* positions the dispatch warps of all CTAs compute, and in whatever order the
\* rows, the counts and the clean-up of earlier launches come.
THEOREM BlocksRight == Spec => []BlocksHold
<1>1. ASSUME IInv PROVE BlocksHold
  <2> SUFFICES ASSUME NEW r \in Ranks, loaded[r] # {}, NEW sm \in SMs, math[r][sm] # "done"
               PROVE  LET counts == TrueCounts(r)
                          places == { p \in 0 .. PoolRows - 1 :
                                        \E b \in loaded[r] :
                                          p \in b * BlockM .. b * BlockM + ValidM(counts, b) - 1 }
                      IN  /\ \A p \in places :
                               pool[r][p] \in Routed(r, ExpertOf(counts, p \div BlockM))
                          /\ \A p, o \in places : pool[r][p] = pool[r][o] => p = o
    BY DEF BlocksHold
  <2> DEFINE counts == TrueCounts(r)
             places == { p \in 0 .. PoolRows - 1 :
                           \E b \in loaded[r] :
                             p \in b * BlockM .. b * BlockM + ValidM(counts, b) - 1 }
  <2>1. TypeInv /\ ControlInv /\ LoadInv(r)
    BY <1>1 DEF IInv
  <2>2. Running(r)
    <3>1. ~Ended(r, sm)
      BY <2>1 DEF ControlInv, StageInv, Leaving, Ended
    <3>2. Busy(r)
      BY <2>1, <3>1, BusyCta
    <3> QED
      BY <2>1, <3>2 DEF LoadInv, Running
  <2>3. ASSUME NEW p \in places
        PROVE  \E t \in 0 .. Total(r) - 1 :
                 /\ PlaceAt(counts, t) = p /\ pool[r][p] = Content(r, t)
                 /\ ExpertOf(counts, p \div BlockM) = ExpertAt(counts, t)
    BY <1>1, <2>2, PlaceRow
  <2> HIDE DEF places
  <2>4. ASSUME NEW p \in places
        PROVE  pool[r][p] \in Routed(r, ExpertOf(counts, p \div BlockM))
    BY <1>1, <2>2, <2>3, ContentRight
  <2>5. ASSUME NEW p \in places, NEW o \in places, pool[r][p] = pool[r][o] PROVE p = o
    <3>1. PICK t \in 0 .. Total(r) - 1 : PlaceAt(counts, t) = p /\ pool[r][p] = Content(r, t)
      BY <2>3
    <3>2. PICK u \in 0 .. Total(r) - 1 : PlaceAt(counts, u) = o /\ pool[r][o] = Content(r, u)
      BY <2>3
    <3>3. Content(r, t) = Content(r, u)
      BY <2>5, <3>1, <3>2
    <3>4. t = u
      BY <1>1, <2>2, <3>3, ContentInjective
    <3> QED
      BY <3>1, <3>2, <3>4
  <2> QED
    BY <2>4, <2>5 DEF places
<1> QED
  BY <1>1, PullInvariant, PTL

\* By the time the math warps of a rank are through, every block of the launch
\* has been read.
THEOREM AllBlocksLoaded == Spec => []AllLoaded
<1>1. ASSUME IInv PROVE AllLoaded
  <2> SUFFICES ASSUME NEW r \in Ranks, launch[r] > 0,
                      \A sm \in SMs : math[r][sm] \in {"done", "barrier2"},
                      nvSignals[r] < Barrier(r, BarriersPerLaunch)
               PROVE  loaded[r] = 0 .. FirstBlock(TrueCounts(r), NumExperts) - 1
    BY DEF AllLoaded
  <2>1. TypeInv /\ LearnInv(r) /\ LoadInv(r)
    BY <1>1 DEF IInv
  <2>2. 0 \in SMs
    BY <2>1, SetupFacts DEF SMs, TypeInv
  <2>3. Running(r)
    BY <2>1, <2>2 DEF LearnInv, Running, Busy
  <2>4. \A b \in 0 .. TotalBlocks(r) - 1 : b \in loaded[r]
    BY <2>1, <2>2, <2>3 DEF LoadInv, Taken
  <2>5. TotalBlocks(r) \in Nat
    BY <2>1, <2>3, TrueCountsType, CountSums DEF Running, TotalBlocks
  <2>6. \A b \in loaded[r] : b \in Nat /\ b < TotalBlocks(r)
    BY <2>1, <2>3 DEF LoadInv, TypeInv
  <2>7. loaded[r] = 0 .. TotalBlocks(r) - 1
    <3>1. PICK n \in Nat : n = TotalBlocks(r)
      BY <2>5
    <3>2. \A b : b \in loaded[r] => b \in 0 .. n - 1
      BY <2>6, <3>1
    <3>3. \A b : b \in 0 .. n - 1 => b \in loaded[r]
      BY <2>4, <3>1
    <3> QED
      BY <3>1, <3>2, <3>3
  <2> QED
    BY <2>7 DEF TotalBlocks
<1> QED
  BY <1>1, PullInvariant, PTL
=============================================================================
