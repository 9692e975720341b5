-------------------------- MODULE ReleaseCheckProofs --------------------------
(***************************************************************************)
(* What is proved of the release check, for any suites, levels and         *)
(* repositories: when it has nothing to report, what is published agrees   *)
(* with the disk, and what --write wrote agrees with it too.               *)
(***************************************************************************)
EXTENDS ReleaseCheck, DataLemmas

-----------------------------------------------------------------------------
(* Sums *)

Some(t) == CHOOSE x \in t : TRUE
SumOver(f, sum, t) == IF t = {} THEN 0 ELSE f[Some(t)] + sum[t \ {Some(t)}]
Sums(f) == LET sum[t \in SUBSET DOMAIN f] == SumOver(f, sum, t) IN sum

\* A sum is taken over ever smaller sets.
LEMMA SumIsLast ==
  ASSUME NEW f
  PROVE  Sum(f) = Sums(f)[DOMAIN f]
BY DEF Sum, Sums, SumOver, Some, MapThenSumSet, MapThenFoldSet

\* The recursion ends, since each set is smaller than the one before it.
LEMMA SumsAreDefined ==
  ASSUME NEW f, IsFiniteSet(DOMAIN f)
  PROVE  Sums(f) = [t \in SUBSET DOMAIN f |-> SumOver(f, Sums(f), t)]
<1> DEFINE D == DOMAIN f
           n == Cardinality(D)
           Small(m) == {t \in SUBSET D : Cardinality(t) <= m}
           Solves(g, m) == g = [t \in Small(m) |-> SumOver(f, g, t)]
           S == {m \in 0..n : \E g : Solves(g, m)}
<1>1. n \in Nat /\ \A t \in SUBSET D : IsFiniteSet(t) /\ Cardinality(t) \in 0..n
  BY FS_CardinalityType, FS_Subset
<1>2. \A t \in SUBSET D : t # {} => /\ t \ {Some(t)} \in SUBSET D
                                    /\ Cardinality(t \ {Some(t)}) = Cardinality(t) - 1
  BY <1>1, FS_RemoveElement DEF Some
<1> HIDE DEF D
<1>3. 0 \in S
  <2> DEFINE g == [t \in Small(0) |-> 0]
  <2>1. \A t \in Small(0) : t = {}
    BY <1>1, FS_EmptySet
  <2>2. g = [t \in Small(0) |-> SumOver(f, g, t)]
    BY <2>1 DEF SumOver
  <2>3. \E h : Solves(h, 0)
    <3> WITNESS g
    <3> QED
      BY <2>2
  <2> HIDE DEF Solves
  <2> QED
    BY <1>1, <2>3
<1>4. ASSUME NEW m \in 0..(n - 1), m \in S
      PROVE  m + 1 \in S
  <2>1. PICK g : Solves(g, m)
    BY <1>4
  <2> DEFINE h == [t \in Small(m + 1) |-> IF t \in Small(m) THEN g[t] ELSE SumOver(f, g, t)]
  <2>2. ASSUME NEW t \in Small(m + 1) PROVE h[t] = SumOver(f, h, t)
    <3>1. t # {} => t \ {Some(t)} \in Small(m) /\ t \ {Some(t)} \in Small(m + 1)
      BY <1>1, <1>2
    <3>2. SumOver(f, g, t) = SumOver(f, h, t)
      BY <3>1 DEF SumOver
    <3>3. t \in Small(m) => g[t] = SumOver(f, g, t)
      BY <2>1
    <3> QED
      BY <3>2, <3>3
  <2>3. Solves(h, m + 1)
    BY <2>2
  <2>4. \E k : Solves(k, m + 1)
    <3> HIDE DEF Solves
    <3> QED
      BY <2>3
  <2> HIDE DEF Solves
  <2> QED
    BY <1>1, <2>4
<1>5. \A m \in 0..n : m \in S
  <2>1. \A m \in 0..(n - 1) : m \in S => m + 1 \in S
    BY <1>4
  <2> HIDE DEF S, n
  <2> QED
    BY <1>1, <1>3, <2>1, SetInduction, Zenon
<1>6. Small(n) = SUBSET D
  BY <1>1
<1>7. \E g : g = [t \in SUBSET D |-> SumOver(f, g, t)]
  <2>1. n \in S
    <3> HIDE DEF S, n
    <3> QED
      BY <1>1, <1>5
  <2>2. PICK g : Solves(g, n)
    BY <2>1
  <2>3. g = [t \in SUBSET D |-> SumOver(f, g, t)]
    BY <1>6, <2>2
  <2> QED
    BY <2>3
<1>8. Sums(f) = CHOOSE g : g = [t \in SUBSET D |-> SumOver(f, g, t)]
  BY DEF Sums, D
<1> QED
  BY <1>7, <1>8 DEF D

\* The elements of the sets of g, each with its place.
Marked(g, t) == UNION {{x} \X g[x] : x \in t}

\* A sum of sizes is the size of the disjoint union.
LEMMA SumOfSizes ==
  ASSUME NEW f, IsFiniteSet(DOMAIN f), NEW g,
         \A x \in DOMAIN f : IsFiniteSet(g[x]) /\ f[x] = Cardinality(g[x])
  PROVE  /\ IsFiniteSet(Marked(g, DOMAIN f)) /\ Sum(f) = Cardinality(Marked(g, DOMAIN f))
         /\ Sum(f) \in Nat
<1> DEFINE D == DOMAIN f
           n == Cardinality(D)
           Right(t) == IsFiniteSet(Marked(g, t)) /\ Sums(f)[t] = Cardinality(Marked(g, t))
           S == {m \in 0..n : \A t \in SUBSET D : Cardinality(t) = m => Right(t)}
<1>1. n \in Nat /\ \A t \in SUBSET D : IsFiniteSet(t) /\ Cardinality(t) \in 0..n
  BY FS_CardinalityType, FS_Subset
<1>2. \A t \in SUBSET D : t # {} => /\ Some(t) \in t
                                    /\ t \ {Some(t)} \in SUBSET D
                                    /\ Cardinality(t \ {Some(t)}) = Cardinality(t) - 1
  BY <1>1, FS_RemoveElement DEF Some
<1>3. \A t \in SUBSET D : Sums(f)[t] = SumOver(f, Sums(f), t)
  <2> DEFINE s == Sums(f)
  <2> HIDE DEF s
  <2>1. s = [t \in SUBSET D |-> SumOver(f, s, t)]
    BY SumsAreDefined DEF s
  <2>2. \A t \in SUBSET D : s[t] = SumOver(f, s, t)
    BY <2>1
  <2> QED
    BY <2>2 DEF s
<1>4. 0 \in S
  <2>1. ASSUME NEW t \in SUBSET D, Cardinality(t) = 0 PROVE Right(t)
    <3>1. t = {}
      BY <1>1, <2>1, FS_EmptySet
    <3>2. Marked(g, t) = {}
      BY <3>1 DEF Marked
    <3> QED
      BY <1>3, <3>1, <3>2, FS_EmptySet DEF SumOver
  <2> HIDE DEF Right
  <2> QED
    BY <1>1, <2>1
<1>5. ASSUME NEW m \in 0..(n - 1), m \in S
      PROVE  m + 1 \in S
  <2>1. ASSUME NEW t \in SUBSET D, Cardinality(t) = m + 1 PROVE Right(t)
    <3> DEFINE x == Some(t)
               u == t \ {x}
               A == {x} \X g[x]
    <3>1. t # {}
      BY <1>1, <2>1, FS_EmptySet
    <3>2. x \in t /\ u \in SUBSET D /\ Cardinality(u) = m
      BY <1>2, <2>1, <3>1
    <3>3. Right(u)
      BY <1>5, <3>2
    <3>4. Sums(f)[t] = f[x] + Sums(f)[u]
      BY <1>3, <3>1 DEF SumOver
    <3>5. IsFiniteSet(A) /\ Cardinality(A) = f[x] /\ f[x] \in Nat
      <4>1. IsFiniteSet(g[x]) /\ f[x] = Cardinality(g[x]) /\ Cardinality(g[x]) \in Nat
        BY <3>2, FS_CardinalityType
      <4>2. IsFiniteSet({x}) /\ Cardinality({x}) = 1
        BY FS_Singleton
      <4>3. IsFiniteSet({x} \X g[x]) /\ Cardinality({x} \X g[x]) = Cardinality({x}) * Cardinality(g[x])
        BY <4>1, <4>2, FS_Product
      <4> QED
        BY <4>1, <4>2, <4>3
    <3>6. Marked(g, t) = A \cup Marked(g, u) /\ A \cap Marked(g, u) = {}
      BY <3>2 DEF Marked
    <3>7. Cardinality(Marked(g, u)) \in Nat
      BY <3>3, FS_CardinalityType
    <3> HIDE DEF A, u, x
    <3>8. /\ IsFiniteSet(A \cup Marked(g, u))
          /\ Cardinality(A \cup Marked(g, u))
               = Cardinality(A) + Cardinality(Marked(g, u)) - Cardinality(A \cap Marked(g, u))
      BY <3>3, <3>5, FS_Union
    <3>9. Cardinality(A \cap Marked(g, u)) = 0
      BY <3>6, FS_EmptySet
    <3> QED
      BY <3>3, <3>4, <3>5, <3>6, <3>7, <3>8, <3>9
  <2> HIDE DEF Right
  <2> QED
    BY <1>1, <2>1
<1>6. \A m \in 0..n : m \in S
  <2>1. \A m \in 0..(n - 1) : m \in S => m + 1 \in S
    BY <1>5
  <2> HIDE DEF S, n
  <2> QED
    BY <1>1, <1>4, <2>1, SetInduction, Zenon
<1>7. Right(D)
  BY <1>1, <1>6
<1> QED
  BY <1>7, SumIsLast, FS_CardinalityType

-----------------------------------------------------------------------------
(* Counts *)

\* The counts of a suite are those of its levels on disk.
LEMMA CountsOfSuite ==
  ASSUME NEW s \in Suite, NEW l \in Level, \A k \in Level : IsFiniteSet(disk[s][k])
  PROVE  /\ l \in DOMAIN CountSuite(s) <=> disk[s][l] # {}
         /\ l \in DOMAIN CountSuite(s) => CountSuite(s)[l] = disk[s][l]
         /\ CountOf(CountSuite(s), l) = Cardinality(disk[s][l])
<1>1. /\ l \in DOMAIN CountSuite(s) <=> disk[s][l] # {}
      /\ l \in DOMAIN CountSuite(s) => CountSuite(s)[l] = disk[s][l]
  BY DEF CountSuite
<1>2. disk[s][l] = {} => Cardinality(disk[s][l]) = 0
  BY FS_EmptySet
<1> QED
  BY <1>1, <1>2 DEF CountOf

\* There are finitely many levels.
LEMMA LevelsAreFinite == IsFiniteSet(Level) /\ IsFiniteSet(DOMAIN Levels) /\ DOMAIN Levels = 1..Len(Levels)
<1>1. Len(Levels) \in Nat /\ DOMAIN Levels = 1..Len(Levels)
  BY ReleaseAssumption
<1>2. IsFiniteSet(DOMAIN Levels)
  BY <1>1, FS_Interval
<1>3. Levels \in Surjection(DOMAIN Levels, Level)
  <2>1. Levels \in [DOMAIN Levels -> Level]
    BY ReleaseAssumption
  <2> QED
    BY <2>1 DEF Surjection, Level, ToSet
<1> QED
  BY <1>1, <1>2, <1>3, FS_Surjection

\* A sum of the counts of levels, of which no level with vectors is left out, is
\* the number of vectors.
LEMMA SumOfLevels ==
  ASSUME NEW s \in Suite, \A k \in Level : IsFiniteSet(disk[s][k]),
         NEW f, DOMAIN f \subseteq Level,
         \A l \in DOMAIN f : f[l] = Cardinality(disk[s][l]),
         \A l \in Level \ DOMAIN f : disk[s][l] = {}
  PROVE  /\ Sum(f) = Cardinality(UNION {{l} \X disk[s][l] : l \in Level})
         /\ Sum(f) \in Nat
<1>1. IsFiniteSet(DOMAIN f)
  BY LevelsAreFinite, FS_Subset
<1>2. Sum(f) = Cardinality(Marked(disk[s], DOMAIN f)) /\ Sum(f) \in Nat
  BY <1>1, SumOfSizes
<1>3. Marked(disk[s], DOMAIN f) = UNION {{l} \X disk[s][l] : l \in Level}
  BY DEF Marked
<1> QED
  BY <1>2, <1>3

\* The total of a suite is the number of its vectors.
LEMMA TotalOfSuite ==
  ASSUME NEW s \in Suite, \A k \in Level : IsFiniteSet(disk[s][k])
  PROVE  Total(CountSuite(s)) = Cardinality(UNION {{l} \X disk[s][l] : l \in Level})
<1> DEFINE b == CountSuite(s)
           f == [l \in DOMAIN b |-> Cardinality(b[l])]
<1>1. DOMAIN b \subseteq Level
  BY DEF CountSuite
<1>2. /\ \A l \in DOMAIN b : b[l] = disk[s][l]
      /\ \A l \in Level \ DOMAIN b : disk[s][l] = {}
  BY <1>1, CountsOfSuite
<1> HIDE DEF b
<1>3. /\ DOMAIN f \subseteq Level
      /\ \A l \in DOMAIN f : f[l] = Cardinality(disk[s][l])
      /\ \A l \in Level \ DOMAIN f : disk[s][l] = {}
  BY <1>1, <1>2
<1> HIDE DEF f
<1>4. Sum(f) = Cardinality(UNION {{l} \X disk[s][l] : l \in Level})
  BY <1>3, SumOfLevels
<1> QED
  BY <1>4 DEF Total, f, b

\* The cells of a row that has one for each level add up to the number of vectors.
LEMMA SumOfCells ==
  ASSUME NEW s \in Suite, \A k \in Level : IsFiniteSet(disk[s][k]),
         NEW cells, DOMAIN cells = DOMAIN Levels,
         \A j \in DOMAIN Levels : cells[j] = Cardinality(disk[s][Levels[j]])
  PROVE  Sum(cells) = Cardinality(UNION {{l} \X disk[s][l] : l \in Level})
<1> DEFINE g == [j \in DOMAIN Levels |-> disk[s][Levels[j]]]
           A == Marked(g, DOMAIN cells)
           B == UNION {{l} \X disk[s][l] : l \in Level}
           m == [a \in A |-> <<Levels[a[1]], a[2]>>]
<1>1. /\ \A j \in DOMAIN Levels : Levels[j] \in Level
      /\ \A l \in Level : \E j \in DOMAIN Levels : Levels[j] = l
      /\ \A j, k \in DOMAIN Levels : Levels[j] = Levels[k] => j = k
  BY ReleaseAssumption DEF IsInjective, Level, ToSet
<1>2. IsFiniteSet(A) /\ Sum(cells) = Cardinality(A)
  <2>1. \A j \in DOMAIN cells : IsFiniteSet(g[j]) /\ cells[j] = Cardinality(g[j])
    BY <1>1
  <2>2. IsFiniteSet(DOMAIN cells)
    BY LevelsAreFinite
  <2> HIDE DEF g
  <2> QED
    BY <2>1, <2>2, SumOfSizes
<1>3. \A a : a \in A <=> \E j \in DOMAIN Levels : \E v \in disk[s][Levels[j]] : a = <<j, v>>
  BY DEF Marked
<1>4. \A b : b \in B <=> \E l \in Level : \E v \in disk[s][l] : b = <<l, v>>
  OBVIOUS
<1> HIDE DEF A, B
<1>5. m \in [A -> B]
  BY <1>1, <1>3, <1>4
<1>6. \A b \in B : \E a \in A : m[a] = b
  <2> SUFFICES ASSUME NEW b \in B PROVE \E a \in A : m[a] = b
    OBVIOUS
  <2>1. PICK l \in Level : \E v \in disk[s][l] : b = <<l, v>>
    BY <1>4
  <2>2. PICK v \in disk[s][l] : b = <<l, v>>
    BY <2>1
  <2>3. PICK j \in DOMAIN Levels : Levels[j] = l
    BY <1>1
  <2>4. <<j, v>> \in A
    BY <1>3, <2>2, <2>3
  <2>5. m[<<j, v>>] = b
    BY <2>2, <2>3, <2>4
  <2> QED
    BY <2>4, <2>5
<1>7. \A a, c \in A : m[a] = m[c] => a = c
  BY <1>1, <1>3
<1> HIDE DEF m
<1>8. m \in Bijection(A, B)
  BY <1>5, <1>6, <1>7 DEF Bijection, Injection, Surjection, IsInjective
<1>9. ExistsBijection(A, B)
  BY <1>8 DEF ExistsBijection
<1>10. Cardinality(B) = Cardinality(A)
  BY <1>2, <1>9, FS_Bijection
<1> QED
  BY <1>2, <1>10 DEF B

-----------------------------------------------------------------------------
(* Repairs *)

\* What was repaired needs no repair.
LEMMA RepairsAreFinal ==
  ASSUME NEW m, NEW b
  PROVE  /\ RepairedManifest(RepairedManifest(m, b), b) = RepairedManifest(m, b)
         /\ RepairedRelease(RepairedRelease(m, b), b) = RepairedRelease(m, b)
         /\ DOMAIN RepairedManifest(m, b).levels = DOMAIN m.levels
         /\ DOMAIN RepairedRelease(m, b).levels = DOMAIN m.levels \cup DOMAIN b
<1>1. DOMAIN RepairedManifest(m, b).levels = DOMAIN m.levels
  BY DEF RepairedManifest
<1>2. DOMAIN RepairedRelease(m, b).levels = DOMAIN m.levels \cup DOMAIN b
  BY DEF RepairedRelease
<1> DEFINE New(p) == [l \in DOMAIN m.levels |->
     IF l \in DOMAIN b THEN [vectors |-> b[l], coverage |-> Cardinality(b[l])]
     ELSE IF p[l].vectors # {} THEN [vectors |-> {}, coverage |-> 0] ELSE p[l]]
<1>3. RepairedManifest(m, b).levels = New(m.levels)
  BY DEF RepairedManifest
<1>4. New(New(m.levels)) = New(m.levels)
  <2>1. \A l \in DOMAIN m.levels : New(New(m.levels))[l] = New(m.levels)[l]
    OBVIOUS
  <2> QED
    BY <2>1
<1>5. RepairedManifest(RepairedManifest(m, b), b) = [levels |-> New(New(m.levels)), total |-> Total(b)]
  BY <1>1, <1>3 DEF RepairedManifest
<1>6. RepairedManifest(m, b) = [levels |-> New(m.levels), total |-> Total(b)]
  BY DEF RepairedManifest
<1>7. RepairedRelease(RepairedRelease(m, b), b) = RepairedRelease(m, b)
  <2>1. (DOMAIN m.levels \cup DOMAIN b) \cup DOMAIN b = DOMAIN m.levels \cup DOMAIN b
    OBVIOUS
  <2> QED
    BY <1>2, <2>1 DEF RepairedRelease
<1> QED
  BY <1>1, <1>2, <1>4, <1>5, <1>6, <1>7

\* A repair keeps to the levels.
LEMMA RepairsAreOfLevels ==
  ASSUME NEW m, OfLevels(m), NEW s \in Suite
  PROVE  OfLevels(RepairedManifest(m, CountSuite(s))) /\ OfLevels(RepairedRelease(m, CountSuite(s)))
<1> DEFINE b == CountSuite(s)
           p == RepairedManifest(m, b)
           r == RepairedRelease(m, b)
<1>1. DOMAIN b \subseteq Level /\ DOMAIN m.levels \subseteq Level
  BY DEF CountSuite, OfLevels
<1> HIDE DEF b
<1>2. DOMAIN p.levels = DOMAIN m.levels /\ DOMAIN r.levels = DOMAIN m.levels \cup DOMAIN b
  BY RepairsAreFinal
<1>3. p = [levels |-> p.levels, total |-> p.total]
  BY DEF RepairedManifest
<1>4. r = [levels |-> r.levels, total |-> r.total]
  BY DEF RepairedRelease
<1> HIDE DEF p, r
<1>5. OfLevels(p) /\ OfLevels(r)
  BY <1>1, <1>2, <1>3, <1>4 DEF OfLevels
<1> QED
  BY <1>5 DEF p, r, b

\* A manifest that needs no repair speaks of the vectors there are.
LEMMA RepairedMeans ==
  ASSUME NEW s \in Suite, \A k \in Level : IsFiniteSet(disk[s][k]),
         NEW m, OfLevels(m), RepairedManifest(m, CountSuite(s)) = m,
         DOMAIN CountSuite(s) \subseteq DOMAIN m.levels
  PROVE  /\ \A l \in DOMAIN m.levels :
              /\ m.levels[l].vectors = disk[s][l]
              /\ disk[s][l] # {} => m.levels[l].coverage = Cardinality(disk[s][l])
         /\ \A l \in Level \ DOMAIN m.levels : disk[s][l] = {}
         /\ m.total = Cardinality(UNION {{l} \X disk[s][l] : l \in Level})
<1> DEFINE b == CountSuite(s)
<1>1. \A l \in Level : /\ l \in DOMAIN b <=> disk[s][l] # {}
                       /\ l \in DOMAIN b => b[l] = disk[s][l]
  BY CountsOfSuite
<1>2. m.total = Total(b)
  BY DEF RepairedManifest
<1>3. \A l \in DOMAIN m.levels : m.levels[l] =
        IF l \in DOMAIN b THEN [vectors |-> b[l], coverage |-> Cardinality(b[l])]
        ELSE IF m.levels[l].vectors # {} THEN [vectors |-> {}, coverage |-> 0] ELSE m.levels[l]
  BY DEF RepairedManifest
<1>4. DOMAIN b \subseteq DOMAIN m.levels
  OBVIOUS
<1> HIDE DEF b
<1>5. ASSUME NEW l \in DOMAIN m.levels
      PROVE  /\ m.levels[l].vectors = disk[s][l]
             /\ disk[s][l] # {} => m.levels[l].coverage = Cardinality(disk[s][l])
  <2>1. l \in Level
    BY DEF OfLevels
  <2>2. CASE l \in DOMAIN b
    <3>1. m.levels[l] = [vectors |-> b[l], coverage |-> Cardinality(b[l])]
      BY <1>3, <2>2
    <3> QED
      BY <1>1, <2>1, <2>2, <3>1
  <2>3. CASE l \notin DOMAIN b
    <3>1. m.levels[l].vectors # {} => m.levels[l] = [vectors |-> {}, coverage |-> 0]
      BY <1>3, <2>3
    <3>2. ASSUME m.levels[l].vectors # {} PROVE FALSE
      <4>1. m.levels[l] = [vectors |-> {}, coverage |-> 0]
        BY <3>1, <3>2
      <4>2. m.levels[l].vectors = {}
        BY <4>1
      <4> QED
        BY <3>2, <4>2
    <3>3. m.levels[l].vectors = {} /\ disk[s][l] = {}
      BY <1>1, <2>1, <2>3, <3>2
    <3> QED
      BY <3>3
  <2> QED
    BY <2>2, <2>3
<1>6. \A l \in Level \ DOMAIN m.levels : disk[s][l] = {}
  BY <1>1, <1>4
<1> QED
  BY <1>2, <1>5, <1>6, TotalOfSuite DEF b

\* An entry of RELEASES.json that needs no repair has the counts there are.
LEMMA ReleasedMeans ==
  ASSUME NEW s \in Suite, \A k \in Level : IsFiniteSet(disk[s][k]),
         NEW r, OfLevels(r), RepairedRelease(r, CountSuite(s)) = r
  PROVE  /\ r.total = Sum(r.levels)
         /\ r.total = Cardinality(UNION {{l} \X disk[s][l] : l \in Level})
         /\ \A l \in DOMAIN r.levels : r.levels[l] = Cardinality(disk[s][l])
         /\ \A l \in Level \ DOMAIN r.levels : disk[s][l] = {}
         /\ DOMAIN CountSuite(s) \subseteq DOMAIN r.levels
<1> DEFINE b == CountSuite(s)
<1>1. \A l \in Level : /\ l \in DOMAIN b <=> disk[s][l] # {}
                       /\ CountOf(b, l) = Cardinality(disk[s][l])
  BY CountsOfSuite
<1>2. r.total = Total(b)
  BY DEF RepairedRelease
<1>3. r.levels = [l \in DOMAIN r.levels \cup DOMAIN b |-> CountOf(b, l)]
  BY DEF RepairedRelease
<1> HIDE DEF b
<1>4. DOMAIN b \subseteq DOMAIN r.levels /\ \A l \in DOMAIN r.levels : r.levels[l] = CountOf(b, l)
  <2> DEFINE L == r.levels
  <2> HIDE DEF L
  <2>1. L = [l \in DOMAIN L \cup DOMAIN b |-> CountOf(b, l)]
    BY <1>3 DEF L
  <2>2. DOMAIN b \subseteq DOMAIN L /\ \A l \in DOMAIN L : L[l] = CountOf(b, l)
    BY <2>1
  <2> QED
    BY <2>2 DEF L
<1>5. \A l \in DOMAIN r.levels : r.levels[l] = Cardinality(disk[s][l])
  BY <1>1, <1>4 DEF OfLevels
<1>6. \A l \in Level \ DOMAIN r.levels : disk[s][l] = {}
  BY <1>1, <1>4
<1>7. Sum(r.levels) = Cardinality(UNION {{l} \X disk[s][l] : l \in Level})
  <2> DEFINE f == r.levels
  <2>1. /\ DOMAIN f \subseteq Level /\ \A l \in DOMAIN f : f[l] = Cardinality(disk[s][l])
        /\ \A l \in Level \ DOMAIN f : disk[s][l] = {}
    BY <1>5, <1>6 DEF OfLevels
  <2> HIDE DEF f
  <2>2. Sum(f) = Cardinality(UNION {{l} \X disk[s][l] : l \in Level})
    BY <2>1, SumOfLevels
  <2> QED
    BY <2>2 DEF f
<1>8. Total(b) = Cardinality(UNION {{l} \X disk[s][l] : l \in Level})
  BY TotalOfSuite DEF b
<1> QED
  BY <1>2, <1>4, <1>5, <1>6, <1>7, <1>8 DEF b

-----------------------------------------------------------------------------
(* The script *)

\* What a script that runs is.
Shaped ==
  /\ run = [mode |-> run.mode, todo |-> run.todo, counts |-> run.counts,
            releases |-> run.releases, readme |-> run.readme, drift |-> run.drift,
            manifest |-> run.manifest]
  /\ run.mode \in {"check", "write"} /\ run.todo \in Seq(Suite) /\ Listed(run.releases)
  /\ run.drift \in BOOLEAN /\ verdict = "none"
  /\ run.manifest = <<>> \/ (run.manifest[1] \in Suite /\ OfLevels(run.manifest[2]))

\* What the files, and a script that runs, are.
Shape ==
  /\ DOMAIN disk = Suite /\ \A s \in Suite, l \in Level : IsFiniteSet(disk[s][l])
  /\ DOMAIN manifests = Suite
  /\ \A s \in Suite : manifests[s] = Torn \/ OfLevels(manifests[s])
  /\ releases = Torn \/ Listed(releases)
  /\ \E b \in Start : prose = b.prose
  /\ run # Idle => Shaped

\* s was found to be as it should be, everywhere.
InOrderEverywhere(s) ==
  /\ ~ManifestDrifts(manifests[s], CountSuite(s)) /\ ~ReleaseDrifts(releases[s], CountSuite(s))
  /\ ~RowDrifts(prose.rows[s], manifests[s], CountSuite(s))

\* The manifest of s as --write leaves it, and s repaired, or about to be.
Mended(s) == RepairedManifest(manifests[s], CountSuite(s))
Repaired(s) ==
  /\ Mended(s) = manifests[s] \/ run.manifest = <<s, Mended(s)>>
  /\ run.releases[s] = None \/ RepairedRelease(run.releases[s], CountSuite(s)) = run.releases[s]

\* What a run that no author disturbed has established: the suites that are not
\* in todo any more are counted, and in order when nothing has drifted, and
\* repaired when it writes.
ScriptInv == run # Idle /\ untouched =>
  /\ run.readme = prose /\ DOMAIN run.counts \cup ToSet(run.todo) = Suite
  /\ \A s \in DOMAIN run.counts : run.counts[s] = CountSuite(s) /\ OfLevels(manifests[s])
  /\ ~run.drift => /\ run.releases = releases /\ run.manifest = <<>>
                   /\ \A s \in DOMAIN run.counts : InOrderEverywhere(s)
  /\ run.mode = "write" => \A s \in DOMAIN run.counts : Repaired(s)
  /\ run.manifest # <<>> => \E s \in DOMAIN run.counts : run.manifest = <<s, Mended(s)>>

\* The release that a suite is left with in memory.
Kept(s) ==
  IF run.releases[s] = None \/ run.mode = "check" THEN run.releases[s]
  ELSE RepairedRelease(run.releases[s], CountSuite(s))

\* What a run that did not throw is after it compared a suite.
LEMMA ComparedSuite ==
  ASSUME Shape, CompareSuite, ~Ends("threw"), NEW s, s = Head(run.todo)
  PROVE  /\ s \in Suite /\ Tail(run.todo) \in Seq(Suite)
         /\ ToSet(run.todo) = {s} \cup ToSet(Tail(run.todo))
         /\ OfLevels(manifests[s]) /\ run.manifest = <<>> /\ run # Idle
         /\ run' = [mode |-> run.mode, todo |-> Tail(run.todo),
                    counts |-> [t \in DOMAIN run.counts \cup {s} |->
                                  IF t = s THEN CountSuite(s) ELSE run.counts[t]],
                    releases |-> [t \in Suite |-> IF t = s THEN Kept(s) ELSE run.releases[t]],
                    readme |-> run.readme,
                    drift |-> run.drift \/ ManifestDrifts(manifests[s], CountSuite(s))
                                \/ ReleaseDrifts(run.releases[s], CountSuite(s))
                                \/ RowDrifts(run.readme.rows[s], manifests[s], CountSuite(s)),
                    manifest |-> IF run.mode = "write" /\ Mended(s) # manifests[s]
                                 THEN <<s, Mended(s)>> ELSE <<>>]
<1>1. /\ run # Idle /\ run.todo # <<>> /\ run.manifest = <<>>
      /\ manifests[s] # Torn
  BY DEF CompareSuite
<1>2. Shaped
  BY <1>1 DEF Shape, Shaped
<1>3. s \in Suite /\ Tail(run.todo) \in Seq(Suite)
  BY <1>1, <1>2 DEF Shaped
<1>4. ToSet(run.todo) = {s} \cup ToSet(Tail(run.todo))
  <2> DEFINE q == run.todo
  <2>1. q \in Seq(Suite) /\ q # <<>> /\ s = Head(q)
    BY <1>1, <1>2 DEF Shaped
  <2> HIDE DEF q
  <2>2. Len(q) \in Nat \ {0} /\ Len(Tail(q)) = Len(q) - 1 /\ s = q[1]
    BY <2>1
  <2>3. \A j \in 1..Len(Tail(q)) : Tail(q)[j] = q[j + 1]
    BY <2>1
  <2>4. \A j \in 1..Len(q) : j = 1 \/ (j - 1 \in 1..Len(Tail(q)) /\ q[j] = Tail(q)[j - 1])
    BY <2>2, <2>3
  <2>5. \A j \in 1..Len(Tail(q)) : j + 1 \in 1..Len(q)
    BY <2>2
  <2>6. DOMAIN q = 1..Len(q) /\ DOMAIN Tail(q) = 1..Len(Tail(q))
    BY <2>1
  <2>7. {q[j] : j \in 1..Len(q)} = {s} \cup {Tail(q)[j] : j \in 1..Len(Tail(q))}
    <3>1. \A j \in 1..Len(q) : q[j] \in {s} \cup {Tail(q)[i] : i \in 1..Len(Tail(q))}
      BY <2>2, <2>4
    <3>2. s \in {q[j] : j \in 1..Len(q)}
      BY <2>2
    <3>3. \A j \in 1..Len(Tail(q)) : Tail(q)[j] \in {q[i] : i \in 1..Len(q)}
      BY <2>3, <2>5
    <3> QED
      BY <3>1, <3>2, <3>3
  <2> QED
    BY <2>6, <2>7 DEF q, ToSet
<1>5. run' = [run EXCEPT
                  !.todo = Tail(@),
                  !.counts = [t \in DOMAIN @ \cup {s} |-> IF t = s THEN CountSuite(s) ELSE @[t]],
                  !.drift = @ \/ ManifestDrifts(manifests[s], CountSuite(s))
                              \/ ReleaseDrifts(run.releases[s], CountSuite(s))
                              \/ RowDrifts(run.readme.rows[s], manifests[s], CountSuite(s)),
                  !.releases[s] = Kept(s),
                  !.manifest = IF run.mode = "write" /\ Mended(s) # manifests[s]
                               THEN <<s, Mended(s)>> ELSE <<>>]
  BY <1>1 DEF CompareSuite, Kept, Mended
<1>6. [run.releases EXCEPT ![s] = Kept(s)]
        = [t \in Suite |-> IF t = s THEN Kept(s) ELSE run.releases[t]]
  <2> DEFINE r == run.releases
             k == Kept(s)
  <2>1. r = [t \in Suite |-> r[t]]
    BY <1>2 DEF Shaped, Listed
  <2> HIDE DEF r, k
  <2>2. [r EXCEPT ![s] = k] = [t \in Suite |-> IF t = s THEN k ELSE r[t]]
    BY <2>1
  <2> QED
    BY <2>2 DEF r, k
<1>7. run' = [mode |-> run.mode, todo |-> Tail(run.todo),
              counts |-> [t \in DOMAIN run.counts \cup {s} |->
                            IF t = s THEN CountSuite(s) ELSE run.counts[t]],
              releases |-> [run.releases EXCEPT ![s] = Kept(s)],
              readme |-> run.readme,
              drift |-> run.drift \/ ManifestDrifts(manifests[s], CountSuite(s))
                          \/ ReleaseDrifts(run.releases[s], CountSuite(s))
                          \/ RowDrifts(run.readme.rows[s], manifests[s], CountSuite(s)),
              manifest |-> IF run.mode = "write" /\ Mended(s) # manifests[s]
                           THEN <<s, Mended(s)>> ELSE <<>>]
  BY <1>2, <1>5 DEF Shaped
<1>8. OfLevels(manifests[s])
  BY <1>1, <1>3 DEF Shape
<1> QED
  BY <1>1, <1>3, <1>4, <1>6, <1>7, <1>8

\* The files keep their shape whoever writes them.
LEMMA ShapeStep == Shape /\ [Next]_vars => Shape'
<1> SUFFICES ASSUME Shape, [Next]_vars PROVE Shape'
  OBVIOUS
<1> USE DEF Shape
<1>1. CASE Begin
  <2>1. CASE releases = Torn
    BY <1>1, <2>1 DEF Begin, Ends, published
  <2>2. CASE releases # Torn
    <3>1. PICK mode \in {"check", "write"} :
            run' = [mode |-> mode, todo |-> Suites, counts |-> <<>>, releases |-> releases,
                    readme |-> prose, drift |-> FALSE, manifest |-> <<>>]
      BY <1>1, <2>2 DEF Begin
    <3>2. verdict' = "none" /\ UNCHANGED <<disk, manifests, releases, prose>>
      BY <1>1, <2>2 DEF Begin, published
    <3>3. Listed(releases) /\ Suites \in Seq(Suite)
      BY <2>2, ReleaseAssumption
    <3>4. Shaped'
      BY <3>1, <3>2, <3>3 DEF Shaped
    <3> QED
      BY <3>2, <3>4
  <2> QED
    BY <2>1, <2>2
<1>2. CASE CompareSuite
  <2>1. CASE Ends("threw")
    BY <1>2, <2>1 DEF CompareSuite, Ends, published
  <2>2. CASE ~Ends("threw")
    <3> DEFINE s == Head(run.todo)
    <3>1. UNCHANGED <<disk, manifests, releases, prose>> /\ verdict' = "none"
      <4>1. Shaped
        BY <1>2 DEF CompareSuite
      <4> QED
        BY <1>2, <2>2, <4>1 DEF CompareSuite, published, Shaped
    <3>2. /\ s \in Suite /\ Tail(run.todo) \in Seq(Suite) /\ OfLevels(manifests[s]) /\ Shaped
          /\ run'.mode = run.mode /\ run'.todo = Tail(run.todo)
          /\ run'.releases = [t \in Suite |-> IF t = s THEN Kept(s) ELSE run.releases[t]]
          /\ run'.drift \in BOOLEAN
          /\ run'.manifest = <<>> \/ run'.manifest = <<s, Mended(s)>>
          /\ run' = [mode |-> run'.mode, todo |-> run'.todo, counts |-> run'.counts,
                     releases |-> run'.releases, readme |-> run'.readme, drift |-> run'.drift,
                     manifest |-> run'.manifest]
      <4> HIDE DEF Shape
      <4>1. Shaped
        BY <1>2 DEF CompareSuite, Shape
      <4>2. /\ s \in Suite /\ Tail(run.todo) \in Seq(Suite) /\ OfLevels(manifests[s])
            /\ run' = [mode |-> run.mode, todo |-> Tail(run.todo),
                       counts |-> [t \in DOMAIN run.counts \cup {s} |->
                                     IF t = s THEN CountSuite(s) ELSE run.counts[t]],
                       releases |-> [t \in Suite |-> IF t = s THEN Kept(s) ELSE run.releases[t]],
                       readme |-> run.readme,
                       drift |-> run.drift \/ ManifestDrifts(manifests[s], CountSuite(s))
                                   \/ ReleaseDrifts(run.releases[s], CountSuite(s))
                                   \/ RowDrifts(run.readme.rows[s], manifests[s], CountSuite(s)),
                       manifest |-> IF run.mode = "write" /\ Mended(s) # manifests[s]
                                    THEN <<s, Mended(s)>> ELSE <<>>]
        BY <1>2, <2>2, ComparedSuite
      <4> HIDE DEF s
      <4>3. run'.drift \in BOOLEAN
        BY <4>2
      <4>4. run'.manifest = <<>> \/ run'.manifest = <<s, Mended(s)>>
        BY <4>2
      <4> QED
        BY <4>1, <4>2, <4>3, <4>4
    <3> HIDE DEF s
    <3>3. OfLevels(Mended(s))
      BY <3>2, RepairsAreOfLevels DEF Mended
    <3>4. Kept(s) = None \/ OfLevels(Kept(s))
      <4>1. run.releases[s] = None \/ OfLevels(run.releases[s])
        BY <3>2 DEF Shaped, Listed
      <4> QED
        BY <3>2, <4>1, RepairsAreOfLevels DEF Kept
    <3>5. Listed(run'.releases)
      <4> DEFINE r == run'.releases
      <4>1. r = [t \in Suite |-> IF t = s THEN Kept(s) ELSE run.releases[t]]
        BY <3>2
      <4>2. \A t \in Suite : run.releases[t] = None \/ OfLevels(run.releases[t])
        BY <3>2 DEF Shaped, Listed
      <4> HIDE DEF r
      <4>3. r = [t \in Suite |-> r[t]] /\ \A t \in Suite : r[t] = None \/ OfLevels(r[t])
        BY <3>4, <4>1, <4>2
      <4> QED
        BY <4>3 DEF Listed, r
    <3>6. run'.manifest = <<>> \/ (run'.manifest[1] \in Suite /\ OfLevels(run'.manifest[2]))
      BY <3>2, <3>3
    <3>7. Shaped'
      BY <3>1, <3>2, <3>5, <3>6 DEF Shaped
    <3> QED
      BY <3>1, <3>7
  <2> QED
    BY <2>1, <2>2
<1>3. CASE WriteManifest
  <2>1. Shaped /\ run' = [run EXCEPT !.manifest = <<>>] /\ verdict' = verdict
    BY <1>3 DEF WriteManifest
  <2>2. Shaped'
    BY <2>1 DEF Shaped
  <2>3. \A s \in Suite : manifests'[s] = Torn \/ OfLevels(manifests'[s])
    BY <1>3, <2>1 DEF WriteManifest, Shaped
  <2> QED
    BY <1>3, <2>2, <2>3 DEF WriteManifest
<1>4. CASE Finish
  BY <1>4 DEF Finish, Ends, Shaped
<1>5. CASE Crash
  BY <1>5 DEF Crash, Ends, published
<1>6. ASSUME NEW s \in Suite, NEW l \in Level, NEW f \in Files, EditVectors(s, l, f)
      PROVE  Shape'
  <2>1. \A k \in Level : IsFiniteSet(disk[s][k] \cup {f}) /\ IsFiniteSet(disk[s][k] \ {f})
    BY FS_AddElement, FS_RemoveElement
  <2>2. \A q \in Suite, k \in Level : IsFiniteSet(disk'[q][k])
    BY <1>6, <2>1 DEF EditVectors
  <2>3. UNCHANGED <<manifests, releases, prose, run, verdict>>
    BY <1>6 DEF EditVectors, Edits, published
  <2>4. DOMAIN disk' = Suite
    BY <1>6 DEF EditVectors
  <2> QED
    BY <2>2, <2>3, <2>4 DEF Shaped
<1>7. ASSUME NEW s \in Suite, EditManifest(s)
      PROVE  Shape'
  <2>1. UNCHANGED <<disk, releases, prose, run, verdict>>
    BY <1>7 DEF EditManifest, Edits
  <2>2. DOMAIN manifests' = Suite /\ \A q \in Suite : manifests'[q] = Torn \/ OfLevels(manifests'[q])
    <3>1. CASE \E b \in Start : manifests[s] = Torn /\ manifests' = [manifests EXCEPT ![s] = b.manifests[s]]
      BY <3>1, StartAssumption
    <3>2. CASE \E l \in Level :
                 /\ manifests[s] # Torn /\ l \notin DOMAIN manifests[s].levels
                 /\ manifests' = [manifests EXCEPT ![s].levels =
                      [k \in DOMAIN @ \cup {l} |-> IF k = l THEN [vectors |-> {}, coverage |-> 0] ELSE @[k]]]
      <4>1. PICK l \in Level :
              manifests' = [manifests EXCEPT ![s].levels =
                [k \in DOMAIN @ \cup {l} |-> IF k = l THEN [vectors |-> {}, coverage |-> 0] ELSE @[k]]]
        BY <3>2
      <4>2. OfLevels(manifests[s])
        BY <3>2
      <4> DEFINE L == manifests[s].levels
                 M == [k \in DOMAIN L \cup {l} |-> IF k = l THEN [vectors |-> {}, coverage |-> 0] ELSE L[k]]
      <4>3. manifests' = [manifests EXCEPT ![s] = [manifests[s] EXCEPT !.levels = M]]
        BY <4>1
      <4>4. DOMAIN M \subseteq Level
        BY <4>2 DEF OfLevels
      <4> HIDE DEF M
      <4>5. [manifests[s] EXCEPT !.levels = M] = [levels |-> M, total |-> manifests[s].total]
        BY <4>2 DEF OfLevels
      <4>6. OfLevels([levels |-> M, total |-> manifests[s].total])
        BY <4>4 DEF OfLevels
      <4> QED
        BY <4>3, <4>5, <4>6
    <3> QED
      BY <1>7, <3>1, <3>2 DEF EditManifest
  <2> QED
    BY <2>1, <2>2 DEF Shaped
<1>8. CASE EditReleases
  BY <1>8, StartAssumption DEF EditReleases, Edits, Shaped
<1>9. CASE EditProse
  BY <1>9 DEF EditProse, Edits, Shaped
<1>10. CASE UNCHANGED vars
  BY <1>10 DEF vars, published, Shaped
<1> QED
  BY <1>1, <1>2, <1>3, <1>4, <1>5, <1>6, <1>7, <1>8, <1>9, <1>10 DEF Next

\* The repositories to start from have it.
LEMMA ShapeBegins == Init => Shape
BY StartAssumption DEF Init, Shape

\* A step of the script, or of an author, keeps what an undisturbed run established.
LEMMA ScriptStep == Shape /\ ScriptInv /\ [Next]_vars => ScriptInv'
<1> SUFFICES ASSUME Shape, ScriptInv, [Next]_vars, run' # Idle, untouched'
             PROVE  ScriptInv'
  BY DEF ScriptInv, Idle
<1>1. CASE Begin
  <2>1. releases # Torn
    BY <1>1 DEF Begin, Ends
  <2>2. PICK mode \in {"check", "write"} :
          run' = [mode |-> mode, todo |-> Suites, counts |-> <<>>, releases |-> releases,
                  readme |-> prose, drift |-> FALSE, manifest |-> <<>>]
    BY <1>1, <2>1 DEF Begin
  <2>3. UNCHANGED <<disk, manifests, releases, prose>>
    BY <1>1 DEF Begin, published
  <2>4. DOMAIN run'.counts = {} /\ ToSet(run'.todo) = Suite
    BY <2>2 DEF Suite
  <2> QED
    BY <2>2, <2>3, <2>4 DEF ScriptInv
<1>2. CASE CompareSuite
  <2> DEFINE s == Head(run.todo)
             C == DOMAIN run.counts
  <2>1. ~Ends("threw") /\ run # Idle /\ untouched /\ run.manifest = <<>>
    BY <1>2 DEF CompareSuite, Ends
  <2>2. UNCHANGED <<disk, manifests, releases, prose>>
    BY <1>2 DEF CompareSuite, published
  <2>3. \A t \in Suite : /\ CountSuite(t)' = CountSuite(t) /\ Mended(t)' = Mended(t)
                         /\ InOrderEverywhere(t)' <=> InOrderEverywhere(t)
    BY <2>2 DEF CountSuite, Mended, InOrderEverywhere
  <2>4. /\ run.readme = prose /\ C \cup ToSet(run.todo) = Suite
        /\ \A t \in C : run.counts[t] = CountSuite(t) /\ OfLevels(manifests[t])
        /\ ~run.drift => run.releases = releases /\ \A t \in C : InOrderEverywhere(t)
        /\ run.mode = "write" => \A t \in C : Repaired(t)
    BY <2>1 DEF ScriptInv
  <2>5. /\ s \in Suite /\ ToSet(run.todo) = {s} \cup ToSet(Tail(run.todo)) /\ OfLevels(manifests[s])
        /\ run' = [mode |-> run.mode, todo |-> Tail(run.todo),
                   counts |-> [t \in C \cup {s} |-> IF t = s THEN CountSuite(s) ELSE run.counts[t]],
                   releases |-> [t \in Suite |-> IF t = s THEN Kept(s) ELSE run.releases[t]],
                   readme |-> run.readme,
                   drift |-> run.drift \/ ManifestDrifts(manifests[s], CountSuite(s))
                               \/ ReleaseDrifts(run.releases[s], CountSuite(s))
                               \/ RowDrifts(run.readme.rows[s], manifests[s], CountSuite(s)),
                   manifest |-> IF run.mode = "write" /\ Mended(s) # manifests[s]
                                THEN <<s, Mended(s)>> ELSE <<>>]
    BY <1>2, <2>1, ComparedSuite
  <2>6. Listed(run.releases) /\ run.drift \in BOOLEAN
    BY <2>1 DEF Shape, Shaped
  <2> HIDE DEF s, C
  <2>7. /\ run'.mode = run.mode /\ run'.todo = Tail(run.todo) /\ run'.readme = prose
        /\ DOMAIN run'.counts = C \cup {s}
        /\ \A t \in C \cup {s} : run'.counts[t] = CountSuite(t)
        /\ \A t \in Suite : run'.releases[t] = IF t = s THEN Kept(s) ELSE run.releases[t]
        /\ run'.manifest = IF run.mode = "write" /\ Mended(s) # manifests[s]
                           THEN <<s, Mended(s)>> ELSE <<>>
    <3>1. run'.counts = [t \in C \cup {s} |-> IF t = s THEN CountSuite(s) ELSE run.counts[t]]
      BY <2>5
    <3>2. run'.releases = [t \in Suite |-> IF t = s THEN Kept(s) ELSE run.releases[t]]
      BY <2>5
    <3> QED
      BY <2>4, <2>5, <3>1, <3>2
  <2>8. ~run'.drift => /\ ~run.drift /\ ~ManifestDrifts(manifests[s], CountSuite(s))
                       /\ ~ReleaseDrifts(run.releases[s], CountSuite(s))
                       /\ ~RowDrifts(run.readme.rows[s], manifests[s], CountSuite(s))
    BY <2>5
  <2>9. C \cup {s} \subseteq Suite
    BY <2>4, <2>5
  <2>10. ASSUME ~run'.drift
         PROVE  /\ run'.releases = releases /\ run'.manifest = <<>>
                /\ \A t \in C \cup {s} : InOrderEverywhere(t)
    <3>1. /\ run.releases = releases /\ InOrderEverywhere(s)
          /\ \A t \in C : InOrderEverywhere(t)
      BY <2>4, <2>8, <2>10 DEF InOrderEverywhere
    <3>2. Mended(s) = manifests[s] /\ Kept(s) = releases[s]
      BY <3>1 DEF InOrderEverywhere, ManifestDrifts, ReleaseDrifts, Mended, Kept
    <3>3. run'.releases = releases
      <4>1. run'.releases = [t \in Suite |-> IF t = s THEN Kept(s) ELSE run.releases[t]]
        BY <2>5
      <4>2. releases = [t \in Suite |-> releases[t]]
        BY <2>6, <3>1 DEF Listed
      <4>3. \A t \in Suite : (IF t = s THEN Kept(s) ELSE run.releases[t]) = releases[t]
        BY <3>1, <3>2
      <4> QED
        BY <4>1, <4>2, <4>3
    <3> QED
      BY <2>7, <3>1, <3>2, <3>3
  <2>11. ASSUME run.mode = "write", NEW t \in C \cup {s}
         PROVE  Repaired(t)'
    <3>1. CASE t = s
      <4>1. Mended(s) = manifests[s] \/ run'.manifest = <<s, Mended(s)>>
        BY <2>7, <2>11
      <4>2. Kept(s) = None \/ RepairedRelease(Kept(s), CountSuite(s)) = Kept(s)
        BY <2>11, RepairsAreFinal DEF Kept
      <4>3. run'.releases[s] = Kept(s)
        BY <2>5, <2>7
      <4> QED
        BY <2>2, <2>3, <2>5, <3>1, <4>1, <4>2, <4>3 DEF Repaired
    <3>2. CASE t # s
      <4>1. Repaired(t) /\ t \in Suite
        BY <2>4, <2>9, <2>11, <3>2
      <4>2. Mended(t) = manifests[t]
        BY <2>1, <4>1 DEF Repaired
      <4>3. run'.releases[t] = run.releases[t]
        BY <2>7, <3>2, <4>1
      <4> QED
        BY <2>2, <2>3, <4>1, <4>2, <4>3 DEF Repaired
    <3> QED
      BY <3>1, <3>2
  <2>12. run'.manifest # <<>> => \E t \in C \cup {s} : run'.manifest = <<t, Mended(t)>>
    BY <2>7
  <2>13. \A t \in C \cup {s} : OfLevels(manifests'[t])
    BY <2>2, <2>4, <2>5
  <2>14. DOMAIN run'.counts \cup ToSet(run'.todo) = Suite
    BY <2>4, <2>5, <2>7
  <2> QED
    BY <2>2, <2>3, <2>7, <2>9, <2>10, <2>11, <2>12, <2>13, <2>14 DEF ScriptInv
<1>3. CASE WriteManifest
  <2>1. /\ run # Idle /\ untouched /\ run.manifest # <<>>
        /\ UNCHANGED <<disk, releases, prose>> /\ run' = [run EXCEPT !.manifest = <<>>]
        /\ manifests' = [manifests EXCEPT ![run.manifest[1]] = run.manifest[2]]
    BY <1>3 DEF WriteManifest
  <2>2. PICK s \in DOMAIN run.counts : run.manifest = <<s, Mended(s)>>
    BY <2>1 DEF ScriptInv
  <2>3. /\ run.readme = prose /\ DOMAIN run.counts \cup ToSet(run.todo) = Suite
        /\ \A t \in DOMAIN run.counts : run.counts[t] = CountSuite(t) /\ OfLevels(manifests[t])
        /\ run.drift
        /\ run.mode = "write" => \A t \in DOMAIN run.counts : Repaired(t)
    <3>1. run.drift \in BOOLEAN
      BY <2>1 DEF Shape, Shaped
    <3> QED
      BY <2>1, <3>1 DEF ScriptInv
  <2>4. /\ run'.mode = run.mode /\ run'.todo = run.todo /\ run'.counts = run.counts
        /\ run'.releases = run.releases /\ run'.readme = run.readme /\ run'.drift = run.drift
        /\ run'.manifest = <<>>
    BY <2>1 DEF Shape, Shaped
  <2>5. \A t \in Suite : CountSuite(t)' = CountSuite(t)
    BY <2>1 DEF CountSuite
  <2>6. \A t \in Suite : manifests'[t] = IF t = s THEN Mended(s) ELSE manifests[t]
    <3>1. manifests' = [manifests EXCEPT ![s] = Mended(s)] /\ DOMAIN manifests = Suite
      BY <2>1, <2>2 DEF Shape
    <3> QED
      BY <3>1
  <2>7. s \in Suite /\ OfLevels(Mended(s))
    BY <2>3, RepairsAreOfLevels DEF Mended
  <2>8. \A t \in Suite : Mended(t)' = IF t = s THEN Mended(s) ELSE Mended(t)
    <3>1. \A t \in Suite : Mended(t)' = RepairedManifest(manifests'[t], CountSuite(t))
      BY <2>5 DEF Mended
    <3>2. RepairedManifest(Mended(s), CountSuite(s)) = Mended(s)
      BY RepairsAreFinal DEF Mended
    <3> QED
      BY <2>6, <3>1, <3>2 DEF Mended
  <2>9. ASSUME run.mode = "write", NEW t \in DOMAIN run.counts
        PROVE  Repaired(t)'
    <3>1. Repaired(t) /\ t \in Suite
      BY <2>3, <2>9
    <3>2. t = s \/ Mended(t) = manifests[t]
      BY <2>2, <3>1 DEF Repaired
    <3>3. Mended(t)' = manifests'[t]
      BY <2>6, <2>7, <2>8, <3>1, <3>2
    <3> QED
      BY <2>4, <2>5, <3>1, <3>3 DEF Repaired
  <2>10. \A t \in DOMAIN run.counts : OfLevels(manifests'[t])
    BY <2>3, <2>6, <2>7
  <2> QED
    BY <2>1, <2>3, <2>4, <2>5, <2>9, <2>10 DEF ScriptInv
<1>4. CASE Finish \/ Crash
  BY <1>4 DEF Finish, Crash, Ends
<1>5. CASE Edits
  BY <1>5 DEF Edits
<1>6. CASE UNCHANGED vars
  <2>1. UNCHANGED <<disk, manifests, releases, prose, run, untouched>>
    BY <1>6 DEF vars, published
  <2>2. \A t : CountSuite(t)' = CountSuite(t)
    BY <2>1 DEF CountSuite
  <2>3. \A t : Mended(t)' = Mended(t)
    BY <2>1, <2>2 DEF Mended
  <2>4. \A t : /\ Repaired(t)' <=> Repaired(t)
               /\ InOrderEverywhere(t)' <=> InOrderEverywhere(t)
    BY <2>1, <2>2, <2>3 DEF Repaired, InOrderEverywhere
  <2> QED
    BY <2>1, <2>2, <2>3, <2>4 DEF ScriptInv
<1> QED
  BY <1>1, <1>2, <1>3, <1>4, <1>5, <1>6
  DEF Next, EditVectors, EditManifest, EditReleases, EditProse

-----------------------------------------------------------------------------
(* What a run that ends says *)

\* Manifests and releases that need no repair agree with the disk.
LEMMA FilesAgree ==
  ASSUME Shape, NEW r,
         \A s \in Suite :
           /\ OfLevels(manifests[s]) /\ Mended(s) = manifests[s]
           /\ DOMAIN CountSuite(s) \subseteq DOMAIN manifests[s].levels
           /\ r[s] # None /\ OfLevels(r[s]) /\ RepairedRelease(r[s], CountSuite(s)) = r[s]
  PROVE  /\ ManifestsAgree
         /\ \A s \in Suite :
              /\ r[s] # None /\ r[s].total = Sum(r[s].levels)
              /\ r[s].total = manifests[s].total /\ r[s].total = Total(CountSuite(s))
              /\ \A l \in DOMAIN r[s].levels : r[s].levels[l] = Cardinality(disk[s][l])
              /\ \A l : CountOf(CountSuite(s), l) = IF l \in DOMAIN r[s].levels THEN r[s].levels[l] ELSE 0
<1>1. \A s \in Suite, k \in Level : IsFiniteSet(disk[s][k])
  BY DEF Shape
<1>2. ASSUME NEW s \in Suite
      PROVE  /\ \A l \in DOMAIN manifests[s].levels :
                  /\ manifests[s].levels[l].vectors = disk[s][l]
                  /\ disk[s][l] # {} => manifests[s].levels[l].coverage = Cardinality(disk[s][l])
             /\ \A l \in Level \ DOMAIN manifests[s].levels : disk[s][l] = {}
             /\ manifests[s].total = Cardinality(UNION {{l} \X disk[s][l] : l \in Level})
  <2> DEFINE m == manifests[s]
  <2>1. OfLevels(m) /\ RepairedManifest(m, CountSuite(s)) = m
    BY DEF Mended
  <2>2. DOMAIN CountSuite(s) \subseteq DOMAIN m.levels
    OBVIOUS
  <2> HIDE DEF m
  <2>3. /\ \A l \in DOMAIN m.levels :
             /\ m.levels[l].vectors = disk[s][l]
             /\ disk[s][l] # {} => m.levels[l].coverage = Cardinality(disk[s][l])
        /\ \A l \in Level \ DOMAIN m.levels : disk[s][l] = {}
        /\ m.total = Cardinality(UNION {{l} \X disk[s][l] : l \in Level})
    BY <1>1, <2>1, <2>2, RepairedMeans
  <2> QED
    BY <2>3 DEF m
<1>3. ASSUME NEW s \in Suite
      PROVE  /\ r[s].total = Sum(r[s].levels)
             /\ r[s].total = Cardinality(UNION {{l} \X disk[s][l] : l \in Level})
             /\ \A l \in DOMAIN r[s].levels : l \in Level /\ r[s].levels[l] = Cardinality(disk[s][l])
             /\ DOMAIN CountSuite(s) \subseteq DOMAIN r[s].levels
  <2> DEFINE p == r[s]
  <2>1. OfLevels(p) /\ RepairedRelease(p, CountSuite(s)) = p
    OBVIOUS
  <2> HIDE DEF p
  <2>2. /\ p.total = Sum(p.levels)
        /\ p.total = Cardinality(UNION {{l} \X disk[s][l] : l \in Level})
        /\ \A l \in DOMAIN p.levels : p.levels[l] = Cardinality(disk[s][l])
        /\ DOMAIN CountSuite(s) \subseteq DOMAIN p.levels
    BY <1>1, <2>1, ReleasedMeans
  <2>3. DOMAIN p.levels \subseteq Level
    BY <2>1 DEF OfLevels
  <2> QED
    BY <2>2, <2>3 DEF p
<1>4. ASSUME NEW s \in Suite, NEW l
      PROVE  CountOf(CountSuite(s), l) = IF l \in DOMAIN r[s].levels THEN r[s].levels[l] ELSE 0
  <2>1. CASE l \in DOMAIN r[s].levels
    <3>1. l \in Level
      BY <1>3, <2>1
    <3>2. CountOf(CountSuite(s), l) = Cardinality(disk[s][l])
      BY <1>1, <3>1, CountsOfSuite
    <3> QED
      BY <1>3, <2>1, <3>2
  <2>2. CASE l \notin DOMAIN r[s].levels
    <3>1. l \notin DOMAIN CountSuite(s)
      BY <1>3, <2>2
    <3> QED
      BY <2>2, <3>1 DEF CountOf
  <2> QED
    BY <2>1, <2>2
<1>5. \A s \in Suite : Total(CountSuite(s)) = Cardinality(UNION {{l} \X disk[s][l] : l \in Level})
  BY <1>1, TotalOfSuite
<1>6. ManifestsAgree
  BY <1>2 DEF ManifestsAgree
<1>7. ASSUME NEW s \in Suite
      PROVE  /\ r[s] # None /\ r[s].total = Sum(r[s].levels)
             /\ r[s].total = manifests[s].total /\ r[s].total = Total(CountSuite(s))
  BY <1>2, <1>3, <1>5
<1>8. \A s \in Suite : \A l \in DOMAIN r[s].levels : r[s].levels[l] = Cardinality(disk[s][l])
  BY <1>3
<1> QED
  BY <1>4, <1>6, <1>7, <1>8

\* A row of the README in which nothing drifts, with a cell for each level, has
\* the count of each in it.
LEMMA RowMeans ==
  ASSUME Shape, NEW s \in Suite, NEW row, Row(row), NEW m, Level = DOMAIN m.levels,
         ~RowDrifts(row, m, CountSuite(s)), Dash \notin ToSet(row.cells)
  PROVE  Sum(row.cells) = row.total
<1>1. \A k \in Level : IsFiniteSet(disk[s][k])
  BY DEF Shape
<1>2. row # None /\ row.total = Total(CountSuite(s)) /\ DOMAIN row.cells = DOMAIN Levels
  BY DEF RowDrifts, Row
<1>3. ASSUME NEW j \in DOMAIN Levels
      PROVE  row.cells[j] = Cardinality(disk[s][Levels[j]])
  <2>1. \A k \in 1..j : Levels[k] \in DOMAIN m.levels
    BY LevelsAreFinite, ReleaseAssumption
  <2>2. {k \in 1..j : Levels[k] \in DOMAIN m.levels} = 1..j
    BY <2>1
  <2>3. j \in Nat /\ Cardinality(1..j) = j
    <3>1. Len(Levels) \in Nat /\ j \in 1..Len(Levels)
      BY LevelsAreFinite, ReleaseAssumption
    <3> QED
      BY <3>1, FS_Interval
  <2>4. row.cells[j] # Dash
    BY <1>2 DEF ToSet
  <2>5. row.cells[j] = CountOf(CountSuite(s), Levels[j])
    <3> DEFINE J == Cardinality({k \in 1..j : Levels[k] \in DOMAIN m.levels})
    <3>1. Levels[j] \in DOMAIN m.levels
      BY ReleaseAssumption
    <3>2. row.cells[J] = Dash \/ row.cells[J] = CountOf(CountSuite(s), Levels[j])
      BY <3>1, Zenon DEF RowDrifts
    <3>3. J = j
      BY <2>2, <2>3
    <3> HIDE DEF J
    <3> QED
      BY <2>4, <3>2, <3>3
  <2>6. Levels[j] \in Level
    BY ReleaseAssumption
  <2> QED
    BY <1>1, <2>5, <2>6, CountsOfSuite
<1>4. Sum(row.cells) = Cardinality(UNION {{l} \X disk[s][l] : l \in Level})
  <2> DEFINE c == row.cells
  <2>1. DOMAIN c = DOMAIN Levels /\ \A j \in DOMAIN Levels : c[j] = Cardinality(disk[s][Levels[j]])
    BY <1>2, <1>3
  <2> HIDE DEF c
  <2>2. Sum(c) = Cardinality(UNION {{l} \X disk[s][l] : l \in Level})
    BY <1>1, <2>1, SumOfCells
  <2> QED
    BY <2>2 DEF c
<1> QED
  BY <1>1, <1>2, <1>4, TotalOfSuite

\* What is written by hand agrees when nothing in it drifts.
LEMMA HandAgrees ==
  ASSUME Shape, NEW counts, counts = [s \in Suite |-> CountSuite(s)], ~ProseDrifts(prose, counts),
         \A s \in Suite :
           /\ ~RowDrifts(prose.rows[s], manifests[s], CountSuite(s))
           /\ releases[s].total = Total(CountSuite(s))
           /\ \A l : CountOf(CountSuite(s), l)
                       = IF l \in DOMAIN releases[s].levels THEN releases[s].levels[l] ELSE 0
  PROVE  ProseAgrees
<1>1. PICK b \in Start : prose = b.prose
  BY DEF Shape
<1>2. (\A s \in Suite : Row(prose.rows[s])) /\ \A t \in prose.tokens : t.suite \in Suite
  BY <1>1, StartAssumption
<1>3. ASSUME NEW s \in Suite
      PROVE  /\ prose.rows[s] # None /\ prose.rows[s].total = releases[s].total
             /\ prose.rows[s].total = Total(CountSuite(s))
  BY DEF RowDrifts
<1>4. ASSUME NEW s \in Suite, Level = DOMAIN manifests[s].levels, Dash \notin ToSet(prose.rows[s].cells)
      PROVE  Sum(prose.rows[s].cells) = prose.rows[s].total
  BY <1>2, <1>4, RowMeans
<1>5. DOMAIN counts = Suite /\ \A s \in Suite : counts[s] = CountSuite(s)
  OBVIOUS
<1>6. /\ Grand(counts) = Sum([s \in Suite |-> prose.rows[s].total])
      /\ Grand(counts) = Sum([s \in Suite |-> releases[s].total])
  <2>1. \A s \in Suite : Total(counts[s]) = prose.rows[s].total /\ Total(counts[s]) = releases[s].total
    BY <1>3, <1>5
  <2>2. /\ [s \in Suite |-> Total(counts[s])] = [s \in Suite |-> prose.rows[s].total]
        /\ [s \in Suite |-> Total(counts[s])] = [s \in Suite |-> releases[s].total]
    BY <2>1
  <2>3. Grand(counts) = Sum([s \in Suite |-> Total(counts[s])])
    BY <1>5 DEF Grand
  <2> QED
    BY <2>2, <2>3
<1>7. ASSUME NEW t \in prose.tokens
      PROVE  t.n = IF t.level \in DOMAIN releases[t.suite].levels THEN releases[t.suite].levels[t.level] ELSE 0
  <2>1. t.n = CountOf(counts[t.suite], t.level)
    BY DEF ProseDrifts
  <2> QED
    BY <1>2, <1>5, <2>1
<1>8. /\ prose.grand # None => prose.grand = Grand(counts)
      /\ prose.metric # None => prose.metric = <<Grand(counts), Grand(counts)>>
  BY DEF ProseDrifts
<1>9. prose.metric # None => \A j \in 1..2 : prose.metric[j] = Grand(counts)
  BY <1>8
<1> QED
  BY <1>3, <1>4, <1>6, <1>7, <1>8, <1>9 DEF ProseAgrees

\* What has to be in place when a run ends undisturbed: every suite was counted,
\* and is in order, or repaired.
LEMMA FinishMeans ==
  ASSUME Shape, ScriptInv, Finish, untouched
  PROVE  CleanMeansTrue' /\ WriteRepairs'
<1>1. /\ run # Idle /\ run.todo = <<>> /\ run.manifest = <<>>
      /\ UNCHANGED <<disk, manifests, prose>>
      /\ releases' = IF run.mode = "write" THEN run.releases ELSE releases
      /\ verdict' = IF ~(run.drift \/ ProseDrifts(run.readme, run.counts)) THEN "consistent"
                    ELSE IF run.mode = "write" THEN "rewritten" ELSE "drift"
  BY DEF Finish, Ends
<1>2. ToSet(run.todo) = {}
  BY <1>1 DEF ToSet
<1>3. /\ run.readme = prose /\ DOMAIN run.counts = Suite
      /\ \A s \in Suite : run.counts[s] = CountSuite(s) /\ OfLevels(manifests[s])
      /\ ~run.drift => /\ run.releases = releases
                       /\ \A s \in Suite : InOrderEverywhere(s)
      /\ run.mode = "write" => \A s \in Suite : Repaired(s)
      /\ Listed(run.releases)
  <2>1. Listed(run.releases)
    BY <1>1 DEF Shape, Shaped
  <2> QED
    BY <1>1, <1>2, <2>1 DEF ScriptInv
<1>4. \A s : CountSuite(s)' = CountSuite(s)
  BY <1>1 DEF CountSuite
<1>5. ASSUME verdict' = "consistent"
      PROVE  (ManifestsAgree /\ ReleasesAgree /\ ProseAgrees)'
  <2>1. ~run.drift /\ ~ProseDrifts(prose, run.counts)
    BY <1>1, <1>3, <1>5
  <2>2. releases' = releases /\ run.releases = releases
    BY <1>1, <1>3, <2>1
  <2>3. ASSUME NEW s \in Suite
        PROVE  /\ OfLevels(manifests[s]) /\ Mended(s) = manifests[s]
               /\ DOMAIN CountSuite(s) \subseteq DOMAIN manifests[s].levels
               /\ releases[s] # None /\ OfLevels(releases[s])
               /\ RepairedRelease(releases[s], CountSuite(s)) = releases[s]
               /\ ~RowDrifts(prose.rows[s], manifests[s], CountSuite(s))
    BY <1>3, <2>1, <2>2 DEF InOrderEverywhere, ManifestDrifts, ReleaseDrifts, Mended, Listed
  <2>4. /\ ManifestsAgree
        /\ \A s \in Suite :
             /\ releases[s] # None /\ releases[s].total = Sum(releases[s].levels)
             /\ releases[s].total = manifests[s].total /\ releases[s].total = Total(CountSuite(s))
             /\ \A l \in DOMAIN releases[s].levels : releases[s].levels[l] = Cardinality(disk[s][l])
             /\ \A l : CountOf(CountSuite(s), l)
                         = IF l \in DOMAIN releases[s].levels THEN releases[s].levels[l] ELSE 0
    BY <2>3, FilesAgree
  <2>5. ReleasesAgree
    BY <2>4 DEF ReleasesAgree
  <2>6. ProseAgrees
    <3> DEFINE c == [s \in Suite |-> CountSuite(s)]
    <3>1. ~ProseDrifts(prose, c)
      <4>1. DOMAIN c = DOMAIN run.counts /\ \A s \in DOMAIN c : c[s] = run.counts[s]
        BY <1>3
      <4>2. \A t \in prose.tokens : t.suite \in Suite
        BY StartAssumption DEF Shape
      <4>3. \A t \in prose.tokens : CountOf(c[t.suite], t.level) = CountOf(run.counts[t.suite], t.level)
        BY <4>1, <4>2
      <4>4. Grand(c) = Grand(run.counts)
        <5>1. [s \in DOMAIN c |-> Total(c[s])] = [s \in DOMAIN run.counts |-> Total(run.counts[s])]
          BY <4>1
        <5> QED
          BY <5>1 DEF Grand
      <4> HIDE DEF c
      <4> QED
        BY <2>1, <4>3, <4>4 DEF ProseDrifts
    <3> QED
      BY <2>3, <2>4, <3>1, HandAgrees
  <2>7. (ManifestsAgree' <=> ManifestsAgree) /\ (ReleasesAgree' <=> ReleasesAgree)
        /\ (ProseAgrees' <=> ProseAgrees)
    BY <1>1, <2>2 DEF ManifestsAgree, ReleasesAgree, ProseAgrees
  <2> QED
    BY <2>4, <2>5, <2>6, <2>7
<1>6. ASSUME verdict' = "rewritten",
             \A s \in Suite : /\ releases'[s] # None
                              /\ DOMAIN CountSuite(s) \subseteq DOMAIN manifests'[s].levels
      PROVE  (ManifestsAgree /\ ReleasesAgree)'
  <2>1. run.mode = "write" /\ releases' = run.releases
    BY <1>1, <1>6
  <2> DEFINE r == run.releases
  <2>2. ASSUME NEW s \in Suite
        PROVE  /\ OfLevels(manifests[s]) /\ Mended(s) = manifests[s]
               /\ DOMAIN CountSuite(s) \subseteq DOMAIN manifests[s].levels
               /\ r[s] # None /\ OfLevels(r[s]) /\ RepairedRelease(r[s], CountSuite(s)) = r[s]
    BY <1>1, <1>3, <1>6, <2>1 DEF Repaired, Listed
  <2> HIDE DEF r
  <2>3. /\ ManifestsAgree
        /\ \A s \in Suite :
             /\ r[s] # None /\ r[s].total = Sum(r[s].levels)
             /\ r[s].total = manifests[s].total
             /\ \A l \in DOMAIN r[s].levels : r[s].levels[l] = Cardinality(disk[s][l])
    BY <2>2, FilesAgree
  <2>4. ManifestsAgree'
    BY <1>1, <2>3 DEF ManifestsAgree
  <2>5. releases' = r
    BY <2>1 DEF r
  <2>6. ReleasesAgree'
    BY <1>1, <2>3, <2>5 DEF ReleasesAgree
  <2> QED
    BY <2>4, <2>6
<1> QED
  BY <1>4, <1>5, <1>6 DEF CleanMeansTrue, WriteRepairs

-----------------------------------------------------------------------------
(* The theorems *)

ReleaseInv == Shape /\ ScriptInv /\ CleanMeansTrue /\ WriteRepairs

\* The invariant of the release check holds at first.
LEMMA ReleaseInvBegins == Init => ReleaseInv
BY ShapeBegins DEF Init, ReleaseInv, ScriptInv, CleanMeansTrue, WriteRepairs

\* Every step keeps the invariant of the release check.
LEMMA ReleaseInvStep == ReleaseInv /\ [Next]_vars => ReleaseInv'
<1> SUFFICES ASSUME ReleaseInv, [Next]_vars PROVE ReleaseInv'
  OBVIOUS
<1>1. Shape /\ ScriptInv /\ CleanMeansTrue /\ WriteRepairs
  BY DEF ReleaseInv
<1>2. Shape' /\ ScriptInv'
  BY <1>1, ShapeStep, ScriptStep
<1>3. CleanMeansTrue' /\ WriteRepairs'
  <2>1. CASE Begin
    BY <2>1 DEF Begin, Ends, CleanMeansTrue, WriteRepairs
  <2>2. CASE CompareSuite \/ WriteManifest
    <3>1. Shaped
      BY <1>1, <2>2 DEF CompareSuite, WriteManifest, Shape
    <3>2. verdict' \in {"none", "threw"}
      BY <2>2, <3>1 DEF CompareSuite, WriteManifest, Ends, Shaped
    <3> QED
      BY <3>2 DEF CleanMeansTrue, WriteRepairs
  <2>3. CASE Finish
    <3>1. CASE untouched
      BY <1>1, <2>3, <3>1, FinishMeans
    <3>2. CASE ~untouched
      BY <2>3, <3>2 DEF Finish, CleanMeansTrue, WriteRepairs
    <3> QED
      BY <3>1, <3>2
  <2>4. CASE Crash
    BY <2>4 DEF Crash, Ends, CleanMeansTrue, WriteRepairs
  <2>5. CASE Edits
    BY <2>5 DEF Edits, CleanMeansTrue, WriteRepairs
  <2>6. CASE UNCHANGED vars
    <3>1. UNCHANGED <<disk, manifests, releases, prose, verdict, untouched>>
      BY <2>6 DEF vars, published
    <3>2. /\ ManifestsAgree' <=> ManifestsAgree
          /\ ReleasesAgree' <=> ReleasesAgree
          /\ ProseAgrees' <=> ProseAgrees
      BY <3>1 DEF ManifestsAgree, ReleasesAgree, ProseAgrees
    <3>3. \A s : CountSuite(s)' = CountSuite(s)
      BY <3>1 DEF CountSuite
    <3> QED
      BY <1>1, <3>1, <3>2, <3>3 DEF CleanMeansTrue, WriteRepairs
  <2> QED
    BY <2>1, <2>2, <2>3, <2>4, <2>5, <2>6
    DEF Next, EditVectors, EditManifest, EditReleases, EditProse
<1> QED
  BY <1>1, <1>2, <1>3 DEF ReleaseInv

\* When a run has nothing to report, and no author came in between, manifests,
\* RELEASES.json and all that is written by hand agree with the disk
\* (release-check.ts:6).
THEOREM CleanIsTrue == Spec => []CleanMeansTrue
<1>1. ReleaseInv => CleanMeansTrue
  BY DEF ReleaseInv
<1> QED
  BY <1>1, ReleaseInvBegins, ReleaseInvStep, PTL DEF Spec

\* What --write leaves agrees with the disk, whatever an earlier one that died
\* had left (release-check.ts:16).
THEOREM WritesRepair == Spec => []WriteRepairs
<1>1. ReleaseInv => WriteRepairs
  BY DEF ReleaseInv
<1> QED
  BY <1>1, ReleaseInvBegins, ReleaseInvStep, PTL DEF Spec
=============================================================================
