---------------------------- MODULE LimitProofs ----------------------------
(***************************************************************************)
(* ORDER BY ... LIMIT n, which the models write as: the elements with      *)
(* fewer than n before them.  A strict total order R is a set of pairs.    *)
(***************************************************************************)
EXTENDS Naturals, FiniteSetTheorems, TLAPS

StrictTotal(S, R) ==
  /\ \A m \in S : <<m, m>> \notin R
  /\ \A k, m \in S : k # m => <<k, m>> \in R \/ <<m, k>> \in R
  /\ \A j, k, m \in S : <<j, k>> \in R /\ <<k, m>> \in R => <<j, m>> \in R

Below(S, R, m) == {k \in S : <<k, m>> \in R}
FirstN(S, R, n) == {m \in S : Cardinality(Below(S, R, m)) < n}

-----------------------------------------------------------------------------
LEMMA CardMono ==
  ASSUME NEW S, IsFiniteSet(S), NEW T \in SUBSET S
  PROVE  /\ IsFiniteSet(T)
         /\ Cardinality(T) \in Nat /\ Cardinality(S) \in Nat
         /\ Cardinality(T) <= Cardinality(S)
         /\ T # S => Cardinality(T) < Cardinality(S)
BY FS_Subset, FS_CardinalityType

(* A finite set has an element with the greatest f, and one with the least. *)
LEMMA Greatest ==
  ASSUME NEW S, IsFiniteSet(S), S # {}, NEW f, \A x \in S : f[x] \in Nat
  PROVE  \E m \in S : \A k \in S : ~(f[k] > f[m])
<1> DEFINE above(m) == {k \in S : f[k] > f[m]}
           T == {above(m) : m \in S}
<1>1. T \subseteq FiniteSubsetsOf(S) /\ T # {}
  <2>1. \A m \in S : above(m) \in SUBSET S /\ IsFiniteSet(above(m))
    BY FS_Subset
  <2> QED
    BY <2>1 DEF FiniteSubsetsOf
<1>2. PICK A \in T : \A B \in T : <<B, A>> \notin StrictSubsetOrdering(S)
  <2> HIDE DEF T
  <2> QED
    BY <1>1, FS_StrictSubsetOrderingWellFounded, WFMin
<1>3. PICK m \in S : A = above(m)
  OBVIOUS
<1>4. ASSUME NEW k \in S, f[k] > f[m] PROVE FALSE
  <2>1. above(k) \subseteq above(m)
    BY <1>4
  <2>2. k \in above(m) /\ k \notin above(k)
    BY <1>4
  <2>3. above(k) \in T /\ above(k) \in SUBSET S /\ above(m) \in SUBSET S
    OBVIOUS
  <2> HIDE DEF above
  <2>4. <<above(k), above(m)>> \in StrictSubsetOrdering(S)
    BY <2>1, <2>2, <2>3 DEF StrictSubsetOrdering
  <2> QED
    BY <1>2, <1>3, <2>3, <2>4
<1> QED
  BY <1>4

LEMMA Least ==
  ASSUME NEW S, IsFiniteSet(S), S # {}, NEW f, NEW n \in Nat,
         \A x \in S : f[x] \in Nat /\ f[x] <= n
  PROVE  \E m \in S : \A k \in S : ~(f[k] < f[m])
<1> DEFINE g == [x \in S |-> n - f[x]]
<1>1. \A x \in S : g[x] \in Nat
  OBVIOUS
<1>2. PICK m \in S : \A k \in S : ~(g[k] > g[m])
  <2> HIDE DEF g
  <2> QED
    BY <1>1, Greatest
<1> QED
  BY <1>2

LEMMA BelowGrows ==
  ASSUME NEW S, IsFiniteSet(S), NEW R, StrictTotal(S, R), NEW k \in S, NEW m \in S, <<k, m>> \in R
  PROVE  Cardinality(Below(S, R, k)) < Cardinality(Below(S, R, m))
<1>1. Below(S, R, k) \in SUBSET Below(S, R, m)
  BY DEF StrictTotal, Below
<1>2. k \in Below(S, R, m) /\ k \notin Below(S, R, k)
  BY DEF StrictTotal, Below
<1>3. IsFiniteSet(Below(S, R, m))
  BY FS_Subset DEF Below
<1> QED
  BY <1>1, <1>2, <1>3, CardMono

LEMMA BelowType ==
  ASSUME NEW S, IsFiniteSet(S), NEW R, NEW m
  PROVE  /\ Below(S, R, m) \in SUBSET S /\ IsFiniteSet(Below(S, R, m))
         /\ Cardinality(Below(S, R, m)) \in Nat
         /\ Cardinality(Below(S, R, m)) <= Cardinality(S)
<1>1. Below(S, R, m) \in SUBSET S
  BY DEF Below
<1> QED
  BY <1>1, CardMono

LEMMA FirstNBound ==
  ASSUME NEW S, IsFiniteSet(S), NEW R, StrictTotal(S, R), NEW n \in Nat
  PROVE  Cardinality(FirstN(S, R, n)) <= n
<1> DEFINE F == FirstN(S, R, n)
           f == [m \in S |-> Cardinality(Below(S, R, m))]
<1>1. F \in SUBSET S /\ \A m \in F : Cardinality(Below(S, R, m)) < n
  BY DEF FirstN
<1>2. IsFiniteSet(F) /\ Cardinality(F) \in Nat
  BY <1>1, CardMono
<1> HIDE DEF F
<1>3. CASE F = {}
  <2>1. Cardinality(F) = 0
    BY <1>2, <1>3, FS_EmptySet
  <2> QED
    BY <2>1 DEF F
<1>4. CASE F # {}
  <2>1. \A m \in F : f[m] \in Nat
    BY <1>1, BelowType
  <2>2. PICK m \in F : \A k \in F : ~(f[k] > f[m])
    <3> HIDE DEF f
    <3> QED
      BY <1>2, <1>4, <2>1, Greatest
  <2>3. ASSUME NEW k \in F, k # m
        PROVE  <<k, m>> \in R
    <3>1. SUFFICES ASSUME <<m, k>> \in R PROVE FALSE
      BY <1>1, <2>3 DEF StrictTotal
    <3>2. f[m] < f[k]
      BY <1>1, <3>1, BelowGrows
    <3> QED
      BY <2>1, <2>2, <3>2
  <2>4. F \ {m} \in SUBSET Below(S, R, m)
    BY <1>1, <2>3 DEF Below
  <2>5. /\ Cardinality(F \ {m}) <= Cardinality(Below(S, R, m))
        /\ Cardinality(F \ {m}) \in Nat /\ Cardinality(Below(S, R, m)) \in Nat
    BY <2>4, BelowType, CardMono
  <2>6. Cardinality(F \ {m}) = Cardinality(F) - 1
    BY <1>2, FS_RemoveElement
  <2>7. Cardinality(F) <= n
    BY <1>1, <1>2, <2>5, <2>6
  <2> QED
    BY <2>7 DEF F
<1> QED
  BY <1>3, <1>4

(* The first n of a finite set are n, or all when there are fewer, and     *)
(* with each all that come before it.                                      *)
LEMMA LimitCorrect ==
  ASSUME NEW S, IsFiniteSet(S), NEW R, StrictTotal(S, R), NEW n \in Nat
  PROVE  /\ FirstN(S, R, n) \in SUBSET S
         /\ Cardinality(FirstN(S, R, n)) = IF n < Cardinality(S) THEN n ELSE Cardinality(S)
         /\ \A m \in FirstN(S, R, n), k \in S : <<k, m>> \in R => k \in FirstN(S, R, n)
<1> DEFINE F == FirstN(S, R, n)
           f == [m \in S |-> Cardinality(Below(S, R, m))]
<1>1. F \in SUBSET S /\ \A m \in S : m \in F <=> f[m] < n
  BY DEF FirstN
<1>2. IsFiniteSet(F) /\ Cardinality(F) \in Nat /\ Cardinality(S) \in Nat
      /\ Cardinality(F) <= n /\ (F # S => Cardinality(F) < Cardinality(S))
  BY <1>1, CardMono, FirstNBound
<1>3. \A m \in S : f[m] \in Nat /\ f[m] <= Cardinality(S)
  BY BelowType
<1>4. \A k, m \in S : <<k, m>> \in R => f[k] < f[m]
  BY BelowGrows
<1> HIDE DEF F
<1>5. ASSUME F # S
      PROVE  Cardinality(F) >= n
  <2>1. S \ F # {} /\ IsFiniteSet(S \ F)
    BY <1>1, <1>5, FS_Subset
  <2>2. PICK m \in S \ F : \A k \in S \ F : ~(f[k] < f[m])
    <3> HIDE DEF f
    <3> QED
      BY <1>2, <1>3, <2>1, Least
  <2>3. Below(S, R, m) \in SUBSET F
    BY <1>4, <2>2 DEF Below
  <2>4. f[m] <= Cardinality(F)
    BY <1>2, <2>3, CardMono
  <2> QED
    BY <1>1, <1>2, <1>3, <2>2, <2>4
<1>6. Cardinality(F) = IF n < Cardinality(S) THEN n ELSE Cardinality(S)
  BY <1>2, <1>5
<1>7. \A m \in F, k \in S : <<k, m>> \in R => k \in F
  BY <1>1, <1>3, <1>4
<1> QED
  BY <1>1, <1>6, <1>7 DEF F
=============================================================================
