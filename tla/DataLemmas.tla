----------------------------- MODULE DataLemmas -----------------------------
(***************************************************************************)
(* Facts about numbers and finite sets that the proofs share.  Induction   *)
(* is by least counterexample: the library states its induction theorems   *)
(* for an operator, but the existence of minimal elements for a set.       *)
(***************************************************************************)
EXTENDS Integers, FiniteSetTheorems, TLAPS

\* A set of naturals that is not empty has a least element.
LEMMA LeastNatural ==
  ASSUME NEW T, T \subseteq Nat, T # {}
  PROVE  \E x \in T : \A y \in T : x <= y
<1> DEFINE R == {ss \in Nat \X Nat : ss[1] < ss[2]}
<1>1. R = OpToRel(<, Nat)
  BY Zenon DEF OpToRel
<1>2. IsWellFoundedOn(R, Nat)
  BY <1>1, NatLessThanWellFounded, Zenon
<1> HIDE DEF R
<1>3. PICK x \in T : \A y \in T : <<y, x>> \notin R
  BY <1>2, WFMin
<1>4. \A y \in Nat : y < x => <<y, x>> \in R
  BY DEF R
<1>5. x \in Nat /\ \A y \in T : y \in Nat
  OBVIOUS
<1>6. ASSUME NEW y \in T PROVE x <= y
  <2>1. ~(y < x)
    BY <1>3, <1>4, <1>5
  <2> QED
    BY <1>5, <2>1
<1> QED
  BY <1>6

\* The smallest natural outside a set that has 0, and what follows an element
\* of it, is none.
LEMMA SetInduction ==
  ASSUME NEW S, NEW n \in Nat, 0 \in S, \A m \in 0..(n - 1) : m \in S => m + 1 \in S
  PROVE  \A m \in 0..n : m \in S
<1> DEFINE T == {m \in 0..n : m \notin S}
<1>1. SUFFICES ASSUME T # {} PROVE FALSE
  OBVIOUS
<1>2. PICK m \in T : \A y \in T : m <= y
  <2>1. T \subseteq Nat
    OBVIOUS
  <2> QED
    BY <1>1, <2>1, LeastNatural
<1>3. m # 0 /\ m - 1 \in 0..(n - 1) /\ m - 1 \notin T
  BY <1>2
<1>4. m - 1 \in S
  BY <1>3
<1>5. (m - 1) + 1 = m
  OBVIOUS
<1> QED
  BY <1>3, <1>4, <1>5

\* A set of numbers up to n that is not empty has a greatest element.
LEMMA GreatestNatural ==
  ASSUME NEW n \in Nat, NEW T, T \subseteq 0..n, T # {}
  PROVE  \E x \in T : \A y \in T : y <= x
<1> DEFINE R == {n - y : y \in T}
<1>1. R \subseteq Nat /\ R # {}
  <2>1. \A y \in T : y \in 0..n
    OBVIOUS
  <2>2. \A y \in T : n - y \in Nat
    BY <2>1
  <2> QED
    BY <2>2
<1>2. PICK d \in R : \A y \in R : d <= y
  BY <1>1, LeastNatural
<1>3. PICK x \in T : d = n - x
  OBVIOUS
<1>4. \A y \in T : n - x <= n - y
  BY <1>2, <1>3
<1> QED
  BY <1>4

\* A finite set of integers that is not empty has a least and a greatest element:
\* without any of its elements it is smaller, or has that one only.
LEMMA FiniteExtremes ==
  ASSUME NEW F, F \subseteq Int, IsFiniteSet(F), F # {}
  PROVE  (\E x \in F : \A y \in F : x <= y) /\ (\E x \in F : \A y \in F : y <= x)
<1> DEFINE n == Cardinality(F)
           Bounded(U) == /\ \E x \in U : \A y \in U : x <= y
                         /\ \E x \in U : \A y \in U : y <= x
           S == {m \in 0..n : \A U \in SUBSET F : Cardinality(U) = m /\ U # {} => Bounded(U)}
<1>1. n \in Nat /\ \A U \in SUBSET F : IsFiniteSet(U) /\ Cardinality(U) \in 0..n
  <2>1. n \in Nat
    BY FS_CardinalityType
  <2>2. \A U \in SUBSET F : IsFiniteSet(U) /\ Cardinality(U) <= n
    BY FS_Subset
  <2>3. \A U \in SUBSET F : Cardinality(U) \in Nat
    BY <2>2, FS_CardinalityType
  <2> QED
    BY <2>1, <2>2, <2>3
<1>2. 0 \in S
  BY <1>1, FS_EmptySet
<1>3. ASSUME NEW m \in 0..(n - 1), m \in S
      PROVE  m + 1 \in S
  <2>1. ASSUME NEW U \in SUBSET F, Cardinality(U) = m + 1, U # {} PROVE Bounded(U)
    <3>1. PICK z \in U : TRUE
      BY <2>1
    <3>2. U \ {z} \in SUBSET F /\ Cardinality(U \ {z}) = m
      BY <1>1, <2>1, <3>1, FS_RemoveElement
    <3>3. U \ {z} = {} \/ Bounded(U \ {z})
      BY <1>3, <3>2
    <3>4. z \in Int /\ U \subseteq Int /\ U = (U \ {z}) \cup {z}
      BY <3>1
    <3> QED
      BY <3>3, <3>4
  <2> HIDE DEF Bounded
  <2> QED
    BY <1>1, <2>1
<1>4. \A m \in 0..n : m \in S
  <2>1. \A m \in 0..(n - 1) : m \in S => m + 1 \in S
    BY <1>3
  <2> HIDE DEF S, n
  <2> QED
    BY <1>1, <1>2, <2>1, SetInduction, Zenon
<1>5. n \in S
  <2> HIDE DEF S, n
  <2> QED
    BY <1>1, <1>4
<1> QED
  BY <1>5

\* The values of a function with a finite domain are finitely many, and as many
\* as its arguments when no two have the same.
LEMMA FiniteImage ==
  ASSUME NEW f, IsFiniteSet(DOMAIN f)
  PROVE  /\ IsFiniteSet({f[x] : x \in DOMAIN f})
         /\ (\A x, y \in DOMAIN f : f[x] = f[y] => x = y) =>
              Cardinality({f[x] : x \in DOMAIN f}) = Cardinality(DOMAIN f)
<1> DEFINE D == DOMAIN f  T == {f[x] : x \in D}  g == [x \in D |-> f[x]]
<1>1. g \in Surjection(D, T)
  BY DEF Surjection
<1>2. (\A x, y \in D : f[x] = f[y] => x = y) => g \in Injection(D, T)
  BY DEF Injection, IsInjective
<1> HIDE DEF g, T
<1>3. /\ IsFiniteSet(T)
      /\ g \in Injection(D, T) => Cardinality(T) = Cardinality(D)
  BY <1>1, FS_Surjection
<1> QED
  BY <1>2, <1>3 DEF T
=============================================================================
