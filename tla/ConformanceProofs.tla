-------------------------- MODULE ConformanceProofs --------------------------
(***************************************************************************)
(* What is proved of the executed vectors, of any size: that one that      *)
(* passes means what it says.                                              *)
(***************************************************************************)
EXTENDS ConformanceMeaning, DataLemmas

-----------------------------------------------------------------------------
(* Numbers *)

\* The greatest of a set of numbers.
LEMMA MaxIs ==
  ASSUME NEW F, Numbers(F), F # {}
  PROVE  Max(F) \in F /\ \A y \in F : y <= Max(F)
<1>1. \E x \in F : \A y \in F : x >= y
  <2>1. F \subseteq Int /\ IsFiniteSet(F)
    BY DEF Numbers
  <2>2. PICK x \in F : \A y \in F : y <= x
    BY <2>1, FiniteExtremes
  <2> QED
    BY <2>1, <2>2
<1>2. Max(F) \in F /\ \A y \in F : Max(F) >= y
  BY <1>1, Zenon DEF Max
<1> QED
  BY <1>2 DEF Numbers

\* The least of a set of numbers.
LEMMA MinIs ==
  ASSUME NEW F, Numbers(F), F # {}
  PROVE  Min(F) \in F /\ \A y \in F : Min(F) <= y
<1>1. F \subseteq Int /\ IsFiniteSet(F)
  BY DEF Numbers
<1>2. \E x \in F : \A y \in F : x <= y
  BY <1>1, FiniteExtremes
<1> QED
  BY <1>2, Zenon DEF Min

\* With some numbers more, it is still a finite set of numbers.
LEMMA MoreNumbers ==
  ASSUME NEW F, Numbers(F), NEW G, Numbers(G)
  PROVE  Numbers(F \cup G)
BY FS_Union DEF Numbers

\* One integer is a finite set of numbers.
LEMMA OneNumber == \A x \in Int : Numbers({x})
BY FS_Singleton DEF Numbers

-----------------------------------------------------------------------------
(* Folds *)

NodesUp(base, seq) == FoldLeft(MerkleNode, base, seq)
NodesDown(base, seq) == FoldLeft(Below, base, seq)
Cascade(base, seq) == FoldLeft(CascadeStep, base, seq)

\* The operators the algorithms fold with, as one: that an operator is folded over
\* a sequence cannot be proved of all operators at once.
FoldOp(kind, a, b) ==
  CASE kind = "node"  -> MerkleNode(a, b)
    [] kind = "level" -> NextLevel(a)
    [] kind = "below" -> Below(a, b)
    [] kind = "cascade" -> CascadeStep(a, b)
FoldStep(kind, base, seq, g, s) ==
  IF s = {} THEN base ELSE FoldOp(kind, g[s \ {Max(s)}], seq[Max(s)])
Folds(kind, base, seq, n, g) ==
  g = [s \in SUBSET (1..n) |-> FoldStep(kind, base, seq, g, s)]

\* The greatest of a set of positions, and what is before it.
LEMMA LastPosition ==
  ASSUME NEW m \in Nat, NEW s, s \subseteq 1..m, s # {}
  PROVE  Max(s) \in s /\ Max(s) \in 1..m /\ (m \in s => Max(s) = m)
<1>1. IsFiniteSet(1..m)
  BY FS_Interval
<1>2. IsFiniteSet(s)
  BY <1>1, FS_Subset
<1>3. s \subseteq Int
  OBVIOUS
<1>4. Max(s) \in s /\ \A y \in s : y <= Max(s)
  BY <1>2, <1>3, MaxIs DEF Numbers
<1> DEFINE x == Max(s)
<1>5. x \in s /\ \A y \in s : y <= x
  BY <1>4
<1> HIDE DEF x
<1>6. x \in s /\ x \in 1..m /\ (m \in s => x = m)
  BY <1>5
<1> QED
  BY <1>6 DEF x

\* A fold is over ever shorter sets of positions, so that it ends.
LEMMA FoldEnds ==
  ASSUME NEW kind, NEW base, NEW seq, NEW n \in Nat
  PROVE  \E g : Folds(kind, base, seq, n, g)
<1> DEFINE Step(g, s) == FoldStep(kind, base, seq, g, s)
           Solves(g, m) == g = [s \in SUBSET (1..m) |-> Step(g, s)]
           S == {m \in 0..n : \E g : Solves(g, m)}
<1>1. 0 \in S
  <2> DEFINE g == [s \in SUBSET (1..0) |-> base]
  <2>1. \A s \in SUBSET (1..0) : s = {}
    OBVIOUS
  <2>2. \A h : \A s \in SUBSET (1..0) : Step(h, s) = base
    BY <2>1 DEF FoldStep
  <2> HIDE DEF Step
  <2>3. Solves(g, 0)
    BY <2>2
  <2>4. \E h : Solves(h, 0)
    <3> HIDE DEF Solves, g
    <3> QED
      BY <2>3
  <2> HIDE DEF Solves
  <2> QED
    BY <2>4
<1>2. ASSUME NEW m \in 0..(n - 1), m \in S
      PROVE  m + 1 \in S
  <2>1. PICK g : Solves(g, m)
    BY <1>2
  <2> DEFINE h == [s \in SUBSET (1..(m + 1)) |-> IF s \in SUBSET (1..m) THEN g[s] ELSE Step(g, s)]
  <2>2. ASSUME NEW s \in SUBSET (1..(m + 1)) PROVE h[s] = Step(h, s)
    <3>1. s # {} => s \ {Max(s)} \in SUBSET (1..m)
      <4>1. m + 1 \in Nat /\ s \subseteq 1..(m + 1)
        OBVIOUS
      <4>2. ASSUME s # {} PROVE Max(s) \in s /\ (m + 1 \in s => Max(s) = m + 1)
        BY <4>1, <4>2, LastPosition
      <4>3. ASSUME s # {} PROVE \A y \in s \ {Max(s)} : y \in 1..(m + 1) /\ y # m + 1
        BY <4>2, <4>3
      <4>4. \A y \in 1..(m + 1) : y # m + 1 => y \in 1..m
        OBVIOUS
      <4>5. ASSUME s # {} PROVE s \ {Max(s)} \subseteq 1..m
        BY <4>3, <4>4, <4>5, Zenon
      <4> QED
        BY <4>5, Zenon
    <3>2. \A t \in SUBSET (1..m) : h[t] = g[t]
      OBVIOUS
    <3> HIDE DEF h
    <3>3. Step(g, s) = Step(h, s)
      BY <3>1, <3>2 DEF FoldStep
    <3> HIDE DEF Step
    <3>4. s \in SUBSET (1..m) => g[s] = Step(g, s)
      BY <2>1
    <3> QED
      BY <3>3, <3>4 DEF h
  <2>3. Solves(h, m + 1)
    BY <2>2
  <2>4. \E k : Solves(k, m + 1)
    <3> HIDE DEF Solves, h
    <3> QED
      BY <2>3
  <2> HIDE DEF Solves
  <2> QED
    BY <2>4
<1>3. \A m \in 0..n : m \in S
  <2>1. \A m \in 0..(n - 1) : m \in S => m + 1 \in S
    BY <1>2
  <2> HIDE DEF S
  <2> QED
    BY <1>1, <2>1, SetInduction, Zenon
<1>4. n \in S
  <2> HIDE DEF S
  <2> QED
    BY <1>3
<1>5. PICK g : Solves(g, n)
  <2> HIDE DEF Solves
  <2> QED
    BY <1>4
<1>6. Folds(kind, base, seq, n, g)
  BY <1>5 DEF Folds
<1> QED
  BY <1>6

\* The values of a fold after 0, 1, ... n elements.
Runs(kind, base, seq, n, u) ==
  /\ u = [k \in 0..n |-> u[k]]
  /\ u[0] = base
  /\ \A k \in 1..n : u[k] = FoldOp(kind, u[k - 1], seq[k])

\* A fold takes the elements one after the other.
LEMMA FoldRuns ==
  ASSUME NEW kind, NEW base, NEW seq, NEW n \in Nat,
         NEW g, Folds(kind, base, seq, n, g)
  PROVE  Runs(kind, base, seq, n, [k \in 0..n |-> g[1..k]])
<1>1. \A s \in SUBSET (1..n) : g[s] = FoldStep(kind, base, seq, g, s)
  <2> DEFINE Step(h, s) == FoldStep(kind, base, seq, h, s)
  <2>1. g = [s \in SUBSET (1..n) |-> Step(g, s)]
    BY DEF Folds
  <2> HIDE DEF Step
  <2>2. \A s \in SUBSET (1..n) : g[s] = Step(g, s)
    BY <2>1
  <2> QED
    BY <2>2 DEF Step
<1>2. g[1..0] = base
  <2>1. 1..0 = {} /\ {} \in SUBSET (1..n)
    OBVIOUS
  <2>2. FoldStep(kind, base, seq, g, {}) = base
    BY DEF FoldStep
  <2> QED
    BY <1>1, <2>1, <2>2
<1>3. ASSUME NEW k \in 1..n PROVE g[1..k] = FoldOp(kind, g[1..(k - 1)], seq[k])
  <2>1. Max(1..k) = k
    <3>1. k \in Nat /\ 1..k # {} /\ 1..k \subseteq 1..k /\ k \in 1..k
      OBVIOUS
    <3> QED
      BY <3>1, LastPosition, Zenon
  <2>2. 1..k \in SUBSET (1..n) /\ 1..k # {} /\ (1..k) \ {k} = 1..(k - 1)
    OBVIOUS
  <2>3. g[1..k] = FoldStep(kind, base, seq, g, 1..k)
    BY <1>1, <2>2
  <2> QED
    BY <2>1, <2>2, <2>3 DEF FoldStep
<1>4. \A k \in 1..n : k - 1 \in 0..n /\ k \in 0..n
  OBVIOUS
<1> DEFINE u == [k \in 0..n |-> g[1..k]]
<1>5. \A k \in 0..n : u[k] = g[1..k]
  OBVIOUS
<1>6. u = [k \in 0..n |-> u[k]]
  BY <1>5
<1> HIDE DEF u
<1>7. 0 \in 0..n
  OBVIOUS
<1>8. u[0] = base
  BY <1>2, <1>5, <1>7, Zenon
<1>9. \A k \in 1..n : u[k] = FoldOp(kind, u[k - 1], seq[k])
  <2> TAKE k \in 1..n
  <2>1. u[k] = g[1..k] /\ u[k - 1] = g[1..(k - 1)]
    BY <1>4, <1>5, Zenon
  <2> QED
    BY <1>3, <2>1, Zenon
<1>10. Runs(kind, base, seq, n, u)
  BY <1>6, <1>8, <1>9, Zenon DEF Runs
<1> QED
  BY <1>10 DEF u

\* What was said of a fold, for each operator that is folded with.
LEMMA NodeFold ==
  ASSUME NEW base, NEW seq, NEW n \in Nat, DOMAIN seq = 1..n
  PROVE  \E u : /\ u[0] = base /\ NodesUp(base, seq) = u[n]
                /\ \A k \in 1..n : u[k] = MerkleNode(u[k - 1], seq[k])
<1> DEFINE Step(g, s) == FoldStep("node", base, seq, g, s)
           iter == CHOOSE g : g = [s \in SUBSET DOMAIN seq |->
                     IF s = {} THEN base ELSE MerkleNode(g[s \ {Max(s)}], seq[Max(s)])]
           u == [k \in 0..n |-> iter[1..k]]
<1>1. NodesUp(base, seq) = iter[1..n]
  BY DEF NodesUp, FoldLeft, MapThenFoldSet
<1>2. \E g : g = [s \in SUBSET DOMAIN seq |->
                     IF s = {} THEN base ELSE MerkleNode(g[s \ {Max(s)}], seq[Max(s)])]
  <2>1. PICK g : Folds("node", base, seq, n, g)
    BY FoldEnds
  <2>2. \A s : FoldStep("node", base, seq, g, s)
                 = IF s = {} THEN base ELSE MerkleNode(g[s \ {Max(s)}], seq[Max(s)])
    BY DEF FoldStep, FoldOp
  <2>3. g = [s \in SUBSET DOMAIN seq |->
               IF s = {} THEN base ELSE MerkleNode(g[s \ {Max(s)}], seq[Max(s)])]
    BY <2>1, <2>2 DEF Folds
  <2> QED
    BY <2>3
<1>3. iter = [s \in SUBSET DOMAIN seq |->
                     IF s = {} THEN base ELSE MerkleNode(iter[s \ {Max(s)}], seq[Max(s)])]
  BY <1>2
<1> HIDE DEF iter
<1>4. Folds("node", base, seq, n, iter)
  BY <1>3 DEF Folds, FoldStep, FoldOp
<1>5. Runs("node", base, seq, n, u)
  <2>1. Runs("node", base, seq, n, [k \in 0..n |-> iter[1..k]])
    BY <1>4, FoldRuns
  <2> QED
    BY <2>1
<1>6. u[n] = iter[1..n]
  OBVIOUS
<1> HIDE DEF u
<1>7. u[0] = base /\ \A k \in 1..n : u[k] = MerkleNode(u[k - 1], seq[k])
  BY <1>5 DEF Runs, FoldOp
<1> QED
  BY <1>1, <1>6, <1>7

\* The way down a proof takes the siblings one after the other.
LEMMA BelowFold ==
  ASSUME NEW base, NEW seq, NEW n \in Nat, DOMAIN seq = 1..n
  PROVE  \E u : /\ u[0] = base /\ NodesDown(base, seq) = u[n]
                /\ \A k \in 1..n : u[k] = Below(u[k - 1], seq[k])
<1> DEFINE Step(g, s) == FoldStep("below", base, seq, g, s)
           iter == CHOOSE g : g = [s \in SUBSET DOMAIN seq |->
                     IF s = {} THEN base ELSE Below(g[s \ {Max(s)}], seq[Max(s)])]
           u == [k \in 0..n |-> iter[1..k]]
<1>1. NodesDown(base, seq) = iter[1..n]
  BY DEF NodesDown, FoldLeft, MapThenFoldSet
<1>2. \E g : g = [s \in SUBSET DOMAIN seq |->
                     IF s = {} THEN base ELSE Below(g[s \ {Max(s)}], seq[Max(s)])]
  <2>1. PICK g : Folds("below", base, seq, n, g)
    BY FoldEnds
  <2>2. \A s : FoldStep("below", base, seq, g, s)
                 = IF s = {} THEN base ELSE Below(g[s \ {Max(s)}], seq[Max(s)])
    BY DEF FoldStep, FoldOp
  <2>3. g = [s \in SUBSET DOMAIN seq |->
               IF s = {} THEN base ELSE Below(g[s \ {Max(s)}], seq[Max(s)])]
    BY <2>1, <2>2 DEF Folds
  <2> QED
    BY <2>3
<1>3. iter = [s \in SUBSET DOMAIN seq |->
                     IF s = {} THEN base ELSE Below(iter[s \ {Max(s)}], seq[Max(s)])]
  BY <1>2
<1> HIDE DEF iter
<1>4. Folds("below", base, seq, n, iter)
  BY <1>3 DEF Folds, FoldStep, FoldOp
<1>5. Runs("below", base, seq, n, u)
  <2>1. Runs("below", base, seq, n, [k \in 0..n |-> iter[1..k]])
    BY <1>4, FoldRuns
  <2> QED
    BY <2>1
<1>6. u[n] = iter[1..n]
  OBVIOUS
<1> HIDE DEF u
<1>7. u[0] = base /\ \A k \in 1..n : u[k] = Below(u[k - 1], seq[k])
  BY <1>5 DEF Runs, FoldOp
<1> QED
  BY <1>1, <1>6, <1>7

\* The cascade takes the outcomes one after the other.
LEMMA CascadeFold ==
  ASSUME NEW base, NEW seq, NEW n \in Nat, DOMAIN seq = 1..n
  PROVE  \E u : /\ u[0] = base /\ Cascade(base, seq) = u[n]
                /\ \A k \in 1..n : u[k] = CascadeStep(u[k - 1], seq[k])
<1> DEFINE Step(g, s) == FoldStep("cascade", base, seq, g, s)
           iter == CHOOSE g : g = [s \in SUBSET DOMAIN seq |->
                     IF s = {} THEN base ELSE CascadeStep(g[s \ {Max(s)}], seq[Max(s)])]
           u == [k \in 0..n |-> iter[1..k]]
<1>1. Cascade(base, seq) = iter[1..n]
  BY DEF Cascade, FoldLeft, MapThenFoldSet
<1>2. \E g : g = [s \in SUBSET DOMAIN seq |->
                     IF s = {} THEN base ELSE CascadeStep(g[s \ {Max(s)}], seq[Max(s)])]
  <2>1. PICK g : Folds("cascade", base, seq, n, g)
    BY FoldEnds
  <2>2. \A s : FoldStep("cascade", base, seq, g, s)
                 = IF s = {} THEN base ELSE CascadeStep(g[s \ {Max(s)}], seq[Max(s)])
    BY DEF FoldStep, FoldOp
  <2>3. g = [s \in SUBSET DOMAIN seq |->
               IF s = {} THEN base ELSE CascadeStep(g[s \ {Max(s)}], seq[Max(s)])]
    BY <2>1, <2>2 DEF Folds
  <2> QED
    BY <2>3
<1>3. iter = [s \in SUBSET DOMAIN seq |->
                     IF s = {} THEN base ELSE CascadeStep(iter[s \ {Max(s)}], seq[Max(s)])]
  BY <1>2
<1> HIDE DEF iter
<1>4. Folds("cascade", base, seq, n, iter)
  BY <1>3 DEF Folds, FoldStep, FoldOp
<1>5. Runs("cascade", base, seq, n, u)
  <2>1. Runs("cascade", base, seq, n, [k \in 0..n |-> iter[1..k]])
    BY <1>4, FoldRuns
  <2> QED
    BY <2>1
<1>6. u[n] = iter[1..n]
  OBVIOUS
<1> HIDE DEF u
<1>7. u[0] = base /\ \A k \in 1..n : u[k] = CascadeStep(u[k - 1], seq[k])
  BY <1>5 DEF Runs, FoldOp
<1> QED
  BY <1>1, <1>6, <1>7

-----------------------------------------------------------------------------
(* Sorting *)

Leaves == [leaf : Nat]
Smaller(c, x) == {j \in DOMAIN c : Before(c[j], x)}
NotGreater(c, x) == {j \in DOMAIN c : ~Before(x, c[j])}
HasPlace(c, x, r) ==
  Cardinality(Smaller(c, x)) < r /\ r <= Cardinality(NotGreater(c, x))

\* Cids are in order of their leaves.
LEMMA LeafOrder ==
  /\ \A x \in Leaves : x.leaf \in Nat
  /\ \A x, y \in Leaves : /\ Before(x, y) <=> x.leaf < y.leaf
                          /\ x.leaf = y.leaf => x = y
BY DEF Leaves, Before

\* The positions and the elements of a list of cids.
LEMMA CidsParts ==
  ASSUME NEW c, Cids(c)
  PROVE  /\ c \in Seq(Leaves) /\ Len(c) \in Nat \ {0} /\ DOMAIN c = 1..Len(c)
         /\ \A j \in DOMAIN c : c[j] \in Leaves
         /\ ToSet(c) \subseteq Leaves /\ ToSet(c) # {}
         /\ IsFiniteSet(DOMAIN c) /\ Cardinality(DOMAIN c) = Len(c)
<1>1. c \in Seq(Leaves) /\ c # <<>>
  BY DEF Cids, Leaves
<1>2. Len(c) \in Nat \ {0} /\ DOMAIN c = 1..Len(c) /\ \A j \in DOMAIN c : c[j] \in Leaves
  BY <1>1
<1>3. ToSet(c) \subseteq Leaves /\ ToSet(c) # {}
  BY <1>2 DEF ToSet
<1>4. IsFiniteSet(1..Len(c)) /\ Cardinality(1..Len(c)) = Len(c)
  BY <1>2, FS_Interval
<1> QED
  BY <1>1, <1>2, <1>3, <1>4

\* Sets of positions are no larger than the sets they are in.
LEMMA Positions ==
  ASSUME NEW c, Cids(c), NEW s, s \subseteq DOMAIN c
  PROVE  /\ IsFiniteSet(s) /\ Cardinality(s) \in 0..Len(c)
         /\ Cardinality(s) = Len(c) => s = DOMAIN c
         /\ \A t : t \subseteq s => /\ Cardinality(t) <= Cardinality(s)
                                    /\ t # s => Cardinality(t) < Cardinality(s)
<1>1. IsFiniteSet(DOMAIN c) /\ Cardinality(DOMAIN c) = Len(c) /\ Len(c) \in Nat
  BY CidsParts
<1>2. /\ IsFiniteSet(s) /\ Cardinality(s) <= Len(c)
      /\ Cardinality(s) = Len(c) => s = DOMAIN c
  BY <1>1, FS_Subset
<1>3. Cardinality(s) \in Nat
  BY <1>2, FS_CardinalityType
<1>4. ASSUME NEW t, t \subseteq s
      PROVE  Cardinality(t) <= Cardinality(s) /\ (t # s => Cardinality(t) < Cardinality(s))
  <2>1. /\ IsFiniteSet(t) /\ Cardinality(t) <= Cardinality(s)
        /\ Cardinality(s) = Cardinality(t) => s = t
    BY <1>2, <1>4, FS_Subset
  <2>2. Cardinality(t) \in Nat
    BY <2>1, FS_CardinalityType
  <2> QED
    BY <1>3, <2>1, <2>2
<1> QED
  BY <1>1, <1>2, <1>3, <1>4

\* What is smaller than a cid, what is not greater, and a greater cid.
LEMMA PlacesApart ==
  ASSUME NEW c, Cids(c), NEW x \in ToSet(c)
  PROVE  /\ Cardinality(Smaller(c, x)) \in 0..Len(c)
         /\ Cardinality(NotGreater(c, x)) \in 0..Len(c)
         /\ Cardinality(Smaller(c, x)) < Cardinality(NotGreater(c, x))
         /\ \A y \in ToSet(c) : x.leaf < y.leaf =>
              Cardinality(NotGreater(c, x)) <= Cardinality(Smaller(c, y))
<1>1. /\ \A j \in DOMAIN c : c[j] \in Leaves
      /\ ToSet(c) \subseteq Leaves
  BY CidsParts
<1>2. \A y : Smaller(c, y) \subseteq DOMAIN c /\ NotGreater(c, y) \subseteq DOMAIN c
  BY DEF Smaller, NotGreater
<1>3. PICK k \in DOMAIN c : c[k] = x
  BY DEF ToSet
<1>4. k \in NotGreater(c, x) /\ k \notin Smaller(c, x)
  BY <1>1, <1>3, LeafOrder DEF Smaller, NotGreater
<1>5. Smaller(c, x) \subseteq NotGreater(c, x)
  BY <1>1, LeafOrder DEF Smaller, NotGreater
<1>6. ASSUME NEW y \in ToSet(c), x.leaf < y.leaf
      PROVE  NotGreater(c, x) \subseteq Smaller(c, y)
  <2> SUFFICES ASSUME NEW j \in DOMAIN c, ~Before(x, c[j]) PROVE Before(c[j], y)
    BY DEF Smaller, NotGreater
  <2>1. x \in Leaves /\ y \in Leaves /\ c[j] \in Leaves
    BY <1>1
  <2>2. x.leaf \in Nat /\ y.leaf \in Nat /\ c[j].leaf \in Nat
    BY <2>1, LeafOrder
  <2>3. ~(x.leaf < c[j].leaf)
    BY <2>1, LeafOrder
  <2>4. c[j].leaf < y.leaf
    BY <1>6, <2>2, <2>3
  <2> QED
    BY <2>1, <2>4, LeafOrder
<1>7. Smaller(c, x) # NotGreater(c, x)
  BY <1>4
<1>8. /\ Cardinality(Smaller(c, x)) \in 0..Len(c)
      /\ Cardinality(NotGreater(c, x)) \in 0..Len(c)
      /\ Cardinality(Smaller(c, x)) < Cardinality(NotGreater(c, x))
  BY <1>2, <1>5, <1>7, Positions
<1>9. ASSUME NEW y \in ToSet(c), x.leaf < y.leaf
      PROVE  Cardinality(NotGreater(c, x)) <= Cardinality(Smaller(c, y))
  BY <1>2, <1>6, <1>9, Positions
<1> QED
  BY <1>8, <1>9

\* Each place is that of one cid.
LEMMA PlaceOfOne ==
  ASSUME NEW c, Cids(c), NEW r \in Nat, NEW x \in ToSet(c), NEW y \in ToSet(c),
         HasPlace(c, x, r), HasPlace(c, y, r)
  PROVE  x = y
<1>1. x \in Leaves /\ y \in Leaves
  BY CidsParts
<1> DEFINE lx == Cardinality(Smaller(c, x))     ly == Cardinality(Smaller(c, y))
           gx == Cardinality(NotGreater(c, x))  gy == Cardinality(NotGreater(c, y))
<1>2. lx < r /\ r <= gx /\ ly < r /\ r <= gy
  BY DEF HasPlace
<1>3. /\ lx \in 0..Len(c) /\ gx \in 0..Len(c) /\ ly \in 0..Len(c) /\ gy \in 0..Len(c)
      /\ x.leaf < y.leaf => gx <= ly
      /\ y.leaf < x.leaf => gy <= lx
  BY PlacesApart
<1> HIDE DEF lx, ly, gx, gy
<1>4. ~(x.leaf < y.leaf) /\ ~(y.leaf < x.leaf)
  BY <1>2, <1>3
<1> QED
  BY <1>1, <1>4, LeafOrder

\* Each place is that of some cid: the greatest of those with fewer before them.
LEMMA PlaceOfSome ==
  ASSUME NEW c, Cids(c), NEW r \in 1..Len(c)
  PROVE  \E x \in ToSet(c) : HasPlace(c, x, r)
<1>1. /\ Len(c) \in Nat \ {0} /\ DOMAIN c = 1..Len(c) /\ ToSet(c) \subseteq Leaves /\ ToSet(c) # {}
      /\ \A j \in DOMAIN c : c[j] \in Leaves /\ c[j] \in ToSet(c)
  BY CidsParts DEF ToSet
<1>2. \A x \in ToSet(c) : x \in Leaves /\ x.leaf \in Nat
  BY <1>1, LeafOrder
<1> DEFINE L(x) == Cardinality(Smaller(c, x))
           T == {L(x) : x \in {z \in ToSet(c) : L(z) < r}}
<1>3. \A x \in ToSet(c) : L(x) \in 0..Len(c)
  BY PlacesApart
<1>4. T # {}
  <2> DEFINE U == {x.leaf : x \in ToSet(c)}
  <2>1. U \subseteq Nat /\ U # {}
    BY <1>1, <1>2
  <2>2. PICK m \in U : \A y \in U : m <= y
    BY <2>1, LeastNatural
  <2>3. PICK x \in ToSet(c) : x.leaf = m
    BY <2>2
  <2>4. Smaller(c, x) = {}
    <3>1. \A j \in DOMAIN c : x.leaf <= c[j].leaf
      BY <1>1, <2>2, <2>3
    <3>2. \A j \in DOMAIN c : ~(c[j].leaf < x.leaf)
      BY <1>1, <1>2, <2>3, <3>1
    <3> QED
      BY <1>1, <1>2, <2>3, <3>2, LeafOrder DEF Smaller
  <2>5. L(x) = 0
    BY <2>4, FS_EmptySet
  <2> QED
    BY <2>3, <2>5
<1>5. T \subseteq 0..Len(c)
  BY <1>3
<1>6. PICK l \in T : \A y \in T : y <= l
  BY <1>1, <1>4, <1>5, GreatestNatural
<1>7. PICK x \in ToSet(c) : L(x) = l /\ L(x) < r
  BY <1>6
<1> DEFINE G == Cardinality(NotGreater(c, x))
<1>8. ASSUME G < r PROVE FALSE
  <2>1. NotGreater(c, x) \subseteq DOMAIN c
    BY DEF NotGreater
  <2>2. G # Len(c)
    BY <1>1, <1>8, PlacesApart, <1>7
  <2>3. NotGreater(c, x) # DOMAIN c
    BY <2>2, CidsParts
  <2>4. PICK i \in DOMAIN c : Before(x, c[i])
    BY <2>1, <2>3 DEF NotGreater
  <2> DEFINE U == {y.leaf : y \in {z \in ToSet(c) : x.leaf < z.leaf}}
  <2>5. U \subseteq Nat /\ U # {}
    <3>1. x.leaf < c[i].leaf /\ c[i] \in ToSet(c)
      BY <1>1, <1>7, <2>4, LeafOrder
    <3> QED
      BY <1>2, <3>1
  <2>6. PICK m \in U : \A y \in U : m <= y
    BY <2>5, LeastNatural
  <2>7. PICK y \in ToSet(c) : y.leaf = m /\ x.leaf < y.leaf
    BY <2>6
  <2>8. Smaller(c, y) \subseteq NotGreater(c, x)
    <3> SUFFICES ASSUME NEW j \in DOMAIN c, Before(c[j], y), Before(x, c[j]) PROVE FALSE
      BY DEF Smaller, NotGreater
    <3>1. /\ c[j] \in ToSet(c) /\ c[j].leaf \in Nat /\ y.leaf \in Nat
          /\ c[j].leaf < y.leaf /\ x.leaf < c[j].leaf
      BY <1>1, <1>2, <1>7, <2>7, LeafOrder
    <3>2. y.leaf <= c[j].leaf
      BY <2>6, <2>7, <3>1
    <3> QED
      BY <3>1, <3>2
  <2>9. L(y) <= G
    BY <2>1, <2>8, Positions
  <2>10. L(x) < G /\ G <= L(y) /\ G \in 0..Len(c) /\ L(x) \in 0..Len(c) /\ L(y) \in 0..Len(c)
    BY <1>7, <2>7, PlacesApart
  <2>11. L(y) \in T
    BY <1>8, <2>7, <2>9, <2>10
  <2>12. L(y) <= l
    BY <1>6, <2>11
  <2> HIDE DEF L, G, T
  <2> QED
    BY <1>7, <2>9, <2>10, <2>12
<1>9. G \in 0..Len(c)
  BY <1>7, PlacesApart
<1>10. r <= G
  <2> HIDE DEF G
  <2> QED
    BY <1>8, <1>9
<1> QED
  BY <1>7, <1>10 DEF HasPlace

\* What is sorted has the same cids, and as many.
LEMMA SortKeeps ==
  ASSUME NEW c, Cids(c)
  PROVE  /\ SortCids(c) \in Seq(Leaves) /\ Len(SortCids(c)) = Len(c)
         /\ ToSet(SortCids(c)) = ToSet(c)
<1> DEFINE s == SortCids(c)  n == Len(c)
<1>1. n \in Nat /\ DOMAIN c = 1..n /\ ToSet(c) \subseteq Leaves
  BY CidsParts
<1>2. s = [r \in 1..n |-> CHOOSE x \in ToSet(c) : HasPlace(c, x, r)]
  BY <1>1 DEF SortCids, HasPlace, Smaller, NotGreater
<1> HIDE DEF s
<1>3. ASSUME NEW r \in 1..n PROVE s[r] \in ToSet(c) /\ HasPlace(c, s[r], r)
  <2>1. \E x \in ToSet(c) : HasPlace(c, x, r)
    BY PlaceOfSome
  <2>2. s[r] = CHOOSE x \in ToSet(c) : HasPlace(c, x, r)
    BY <1>2
  <2> QED
    BY <2>1, <2>2, Zenon
<1>4. DOMAIN s = 1..n
  BY <1>2
<1>5. s \in Seq(Leaves) /\ Len(s) = n
  <2>1. s \in [1..n -> Leaves]
    BY <1>1, <1>2, <1>3
  <2> QED
    BY <1>1, <2>1
<1>6. ASSUME NEW x \in ToSet(c) PROVE x \in ToSet(s)
  <2> DEFINE r == Cardinality(Smaller(c, x)) + 1
  <2>1. HasPlace(c, x, r) /\ r \in 1..n
    BY <1>1, PlacesApart DEF HasPlace
  <2>2. r \in Nat
    BY <2>1
  <2> HIDE DEF r
  <2>3. s[r] = x
    BY <1>3, <2>1, <2>2, PlaceOfOne
  <2> QED
    BY <1>4, <2>1, <2>3 DEF ToSet
<1>7. \A x \in ToSet(s) : x \in ToSet(c)
  BY <1>3, <1>4 DEF ToSet
<1> QED
  BY <1>5, <1>6, <1>7 DEF s

\* Without duplicates, positions are as many as what is at them.
LEMMA CountDistinct ==
  ASSUME NEW c, Cids(c), NoDuplicates(c), NEW s, s \subseteq DOMAIN c
  PROVE  Cardinality(s) = Cardinality({c[j] : j \in s})
<1> DEFINE f == [j \in s |-> c[j]]
<1>1. IsFiniteSet(s)
  BY Positions
<1>2. DOMAIN f = s /\ {c[j] : j \in s} = {f[j] : j \in DOMAIN f}
  OBVIOUS
<1>3. \A j, k \in DOMAIN f : f[j] = f[k] => j = k
  BY DEF NoDuplicates
<1> HIDE DEF f
<1> QED
  BY <1>1, <1>2, <1>3, FiniteImage

\* Without duplicates, only the set of the cids counts.
LEMMA SortOfSet ==
  ASSUME NEW c, Cids(c), NoDuplicates(c), NEW d, Cids(d), NoDuplicates(d), ToSet(c) = ToSet(d)
  PROVE  Len(c) = Len(d) /\ SortCids(c) = SortCids(d)
<1>1. ASSUME NEW e, Cids(e), NoDuplicates(e)
      PROVE  /\ Len(e) = Cardinality(ToSet(e))
             /\ \A x : /\ Cardinality(Smaller(e, x)) = Cardinality({y \in ToSet(e) : Before(y, x)})
                       /\ Cardinality(NotGreater(e, x))
                            = Cardinality({y \in ToSet(e) : ~Before(x, y)})
  <2>1. ToSet(e) = {e[j] : j \in DOMAIN e}
    BY DEF ToSet
  <2>2. Len(e) = Cardinality(DOMAIN e)
    BY <1>1, CidsParts
  <2>3. Len(e) = Cardinality(ToSet(e))
    BY <1>1, <2>1, <2>2, CountDistinct
  <2>4. ASSUME NEW x
        PROVE  /\ Cardinality(Smaller(e, x)) = Cardinality({y \in ToSet(e) : Before(y, x)})
               /\ Cardinality(NotGreater(e, x)) = Cardinality({y \in ToSet(e) : ~Before(x, y)})
    <3>1. Smaller(e, x) \subseteq DOMAIN e /\ NotGreater(e, x) \subseteq DOMAIN e
      BY DEF Smaller, NotGreater
    <3>2. {e[j] : j \in Smaller(e, x)} = {y \in ToSet(e) : Before(y, x)}
      BY <2>1 DEF Smaller
    <3>3. {e[j] : j \in NotGreater(e, x)} = {y \in ToSet(e) : ~Before(x, y)}
      BY <2>1 DEF NotGreater
    <3>4. Cardinality(Smaller(e, x)) = Cardinality({e[j] : j \in Smaller(e, x)})
      BY <1>1, <3>1, CountDistinct
    <3>5. Cardinality(NotGreater(e, x)) = Cardinality({e[j] : j \in NotGreater(e, x)})
      BY <1>1, <3>1, CountDistinct
    <3> QED
      BY <3>2, <3>3, <3>4, <3>5
  <2> QED
    BY <2>3, <2>4
<1>2. Len(c) = Len(d) /\ DOMAIN c = 1..Len(c) /\ DOMAIN d = 1..Len(d)
  BY <1>1, CidsParts
<1>3. ASSUME NEW x, NEW r PROVE HasPlace(c, x, r) <=> HasPlace(d, x, r)
  <2> DEFINE Down(e) == {y \in ToSet(e) : Before(y, x)}
             Up(e) == {y \in ToSet(e) : ~Before(x, y)}
  <2>1. Down(c) = Down(d) /\ Up(c) = Up(d)
    OBVIOUS
  <2>2. \A e \in {c, d} : /\ Cardinality(Smaller(e, x)) = Cardinality(Down(e))
                          /\ Cardinality(NotGreater(e, x)) = Cardinality(Up(e))
    <3>1. ASSUME NEW e \in {c, d}
          PROVE  /\ Cardinality(Smaller(e, x)) = Cardinality(Down(e))
                 /\ Cardinality(NotGreater(e, x)) = Cardinality(Up(e))
      BY <1>1, ZenonT(30)
    <3> HIDE DEF Down, Up
    <3> QED
      BY <3>1
  <2> HIDE DEF Down, Up
  <2>3. /\ Cardinality(Smaller(c, x)) = Cardinality(Smaller(d, x))
        /\ Cardinality(NotGreater(c, x)) = Cardinality(NotGreater(d, x))
    BY <2>1, <2>2
  <2> QED
    BY <2>3 DEF HasPlace
<1>4. \A e : SortCids(e) = [r \in DOMAIN e |-> CHOOSE x \in ToSet(e) : HasPlace(e, x, r)]
  BY DEF SortCids, HasPlace, Smaller, NotGreater
<1>5. \A r : (CHOOSE x \in ToSet(c) : HasPlace(c, x, r))
               = (CHOOSE x \in ToSet(d) : HasPlace(d, x, r))
  BY <1>3
<1>6. DOMAIN c = DOMAIN d
  BY <1>2
<1>7. SortCids(c) = SortCids(d)
  <2> DEFINE At(e, r) == CHOOSE x \in ToSet(e) : HasPlace(e, x, r)
  <2>1. \A e : SortCids(e) = [r \in DOMAIN e |-> At(e, r)]
    BY <1>4
  <2>2. \A r : At(c, r) = At(d, r)
    BY <1>5
  <2> HIDE DEF At
  <2> QED
    BY <1>6, <2>1, <2>2
<1> QED
  BY <1>2, <1>7

-----------------------------------------------------------------------------
(* Trees *)

\* A node is known by its kids, and is no leaf.
LEMMA NodeParts ==
  /\ \A a, b : MerkleNode(a, b) \notin Leaves
  /\ \A a, b, x, y : MerkleNode(a, b) = MerkleNode(x, y) => {a, b} = {x, y}
<1>1. \A a, b : DOMAIN MerkleNode(a, b) = {"kids"} /\ MerkleNode(a, b).kids = {a, b}
  BY DEF MerkleNode
<1>2. \A x \in Leaves : DOMAIN x = {"leaf"}
  BY DEF Leaves
<1>3. \A a, b : MerkleNode(a, b) \notin Leaves
  BY <1>1, <1>2
<1>4. ASSUME NEW a, NEW b, NEW x, NEW y, MerkleNode(a, b) = MerkleNode(x, y)
      PROVE  {a, b} = {x, y}
  <2>1. MerkleNode(a, b).kids = MerkleNode(x, y).kids
    BY <1>4
  <2> QED
    BY <1>1, <2>1
<1> QED
  BY <1>3, <1>4

\* The levels of a tree, from the sorted cids up.
Levels(c, u) ==
  /\ u[0] = SortCids(c)
  /\ \A h \in 1..Len(c) : u[h] = NextLevel(u[h - 1])

RootFrom(sorted, n) ==
  LET level[h \in 0..n] == IF h = 0 THEN sorted ELSE NextLevel(level[h - 1])
  IN EncodeRoot(level[n][1])

\* The root depends on the cids in order, and on how many they are, only.
LEMMA RootOfSorted == \A c : MerkleRoot(c) = RootFrom(SortCids(c), Len(c))
BY DEF MerkleRoot, RootFrom

\* The root is what the last level begins with.
LEMMA LevelsThere ==
  ASSUME NEW c, Cids(c)
  PROVE  \E u : Levels(c, u) /\ MerkleRoot(c) = EncodeRoot(u[Len(c)][1])
<1> DEFINE n == Len(c)  sorted == SortCids(c)
           Grown(w) == w = [h \in 0..n |-> IF h = 0 THEN sorted ELSE NextLevel(w[h - 1])]
           u == CHOOSE w : w = [h \in 0..n |-> IF h = 0 THEN sorted ELSE NextLevel(w[h - 1])]
<1>1. n \in Nat
  BY CidsParts
<1>2. MerkleRoot(c) = EncodeRoot(u[n][1])
  BY DEF MerkleRoot
<1> HIDE DEF n, sorted
<1>3. \E w : Grown(w)
  <2>1. PICK g : Folds("level", sorted, c, n, g)
    BY <1>1, FoldEnds
  <2> DEFINE w == [k \in 0..n |-> g[1..k]]
  <2>2. Runs("level", sorted, c, n, w)
    BY <1>1, <2>1, FoldRuns
  <2> HIDE DEF w
  <2>3. /\ w = [h \in 0..n |-> w[h]] /\ w[0] = sorted
        /\ \A h \in 1..n : w[h] = NextLevel(w[h - 1])
    BY <2>2 DEF Runs, FoldOp
  <2>4. ASSUME NEW h \in 0..n PROVE w[h] = IF h = 0 THEN sorted ELSE NextLevel(w[h - 1])
    <3>1. h = 0 \/ h \in 1..n
      OBVIOUS
    <3> QED
      BY <2>3, <3>1
  <2>5. Grown(w)
    BY <2>3, <2>4
  <2> HIDE DEF Grown
  <2> QED
    BY <2>5
<1>4. u = [h \in 0..n |-> IF h = 0 THEN sorted ELSE NextLevel(u[h - 1])]
  BY <1>3
<1> HIDE DEF u
<1>5. u[0] = sorted /\ \A h \in 1..n : u[h] = NextLevel(u[h - 1])
  BY <1>1, <1>4
<1>6. Levels(c, u)
  BY <1>5 DEF Levels, n, sorted
<1> QED
  BY <1>2, <1>6 DEF n

\* A level is a list with at least one node, and shorter than the one below it.
IsLevel(s) == s \in Seq(ToSet(s)) /\ Len(s) \in Nat \ {0} /\ DOMAIN s = 1..Len(s)

\* The next level pairs the nodes of a level, of which an odd one pairs with itself:
\* it is about half as long, and the same when one node is left.
LEMMA NextIsShorter ==
  ASSUME NEW s, IsLevel(s)
  PROVE  /\ IsLevel(NextLevel(s))
         /\ Len(s) = 1 => NextLevel(s) = s
         /\ Len(s) # 1 => /\ Len(NextLevel(s)) = (Len(s) + 1) \div 2
                          /\ Len(NextLevel(s)) < Len(s)
                          /\ \A j \in 1..((Len(s) + 1) \div 2) :
                               NextLevel(s)[j] =
                                 MerkleNode(s[2*j - 1], s[IF 2*j > Len(s) THEN 2*j - 1 ELSE 2*j])
<1>1. CASE Len(s) = 1
  BY <1>1 DEF NextLevel
<1>2. CASE Len(s) # 1
  <2> DEFINE L == Len(s)  m == (L + 1) \div 2
             At(j) == MerkleNode(s[2*j - 1], s[IF 2*j > L THEN 2*j - 1 ELSE 2*j])
             f == [j \in 1..m |-> At(j)]
  <2>1. L \in Nat /\ L > 1
    BY <1>2 DEF IsLevel
  <2>2. NextLevel(s) = f
    BY <1>2 DEF NextLevel
  <2> HIDE DEF L
  <2>3. m \in Nat \ {0} /\ m < L
    BY <2>1
  <2> HIDE DEF m, At
  <2>4. DOMAIN f = 1..m /\ \A j \in 1..m : f[j] = At(j)
    OBVIOUS
  <2>5. f \in Seq(ToSet(f)) /\ Len(f) = m
    <3>1. f \in [1..m -> ToSet(f)]
      BY DEF ToSet
    <3> HIDE DEF f
    <3> QED
      BY <2>3, <3>1
  <2> HIDE DEF f
  <2>6. IsLevel(f)
    BY <2>3, <2>4, <2>5 DEF IsLevel
  <2> QED
    BY <1>2, <2>2, <2>3, <2>4, <2>5, <2>6 DEF m, L, At
<1> QED
  BY <1>1, <1>2

\* There are as many levels as it takes for one node to be left.
LEMMA LevelsShrink ==
  ASSUME NEW c, Cids(c), NEW u, Levels(c, u)
  PROVE  (\A h \in 0..Len(c) : IsLevel(u[h])) /\ Len(u[Len(c)]) = 1
<1> DEFINE n == Len(c)
           S == {h \in 0..n : IsLevel(u[h]) /\ (Len(u[h]) = 1 \/ Len(u[h]) + h <= n)}
<1>1. n \in Nat \ {0}
  BY CidsParts
<1>2. u[0] = SortCids(c) /\ \A h \in 1..n : u[h] = NextLevel(u[h - 1])
  BY DEF Levels
<1>3. 0 \in S
  <2>1. u[0] \in Seq(Leaves) /\ Len(u[0]) = n
    BY <1>2, SortKeeps
  <2>2. DOMAIN u[0] = 1..n
    BY <2>1
  <2>3. u[0] \in Seq(ToSet(u[0]))
    <3>1. u[0] \in [1..n -> ToSet(u[0])]
      BY <2>1, <2>2 DEF ToSet
    <3> QED
      BY <1>1, <3>1
  <2> QED
    BY <1>1, <2>1, <2>2, <2>3 DEF IsLevel
<1>4. ASSUME NEW h \in 0..(n - 1), h \in S PROVE h + 1 \in S
  <2>1. h + 1 \in 1..n /\ h + 1 \in 0..n /\ (h + 1) - 1 = h
    BY <1>1
  <2>2. u[h + 1] = NextLevel(u[h])
    BY <1>2, <2>1
  <2>3. IsLevel(u[h]) /\ (Len(u[h]) = 1 \/ Len(u[h]) + h <= n)
    BY <1>4
  <2>4. IsLevel(u[h + 1]) /\ (Len(u[h]) = 1 => u[h + 1] = u[h])
        /\ (Len(u[h]) # 1 => Len(u[h + 1]) < Len(u[h]))
    BY <2>2, <2>3, NextIsShorter
  <2>5. Len(u[h]) \in Nat /\ Len(u[h + 1]) \in Nat
    BY <2>3, <2>4 DEF IsLevel
  <2>6. Len(u[h + 1]) = 1 \/ Len(u[h + 1]) + (h + 1) <= n
    <3> DEFINE a == Len(u[h])  b == Len(u[h + 1])
    <3>1. /\ a = 1 \/ a + h <= n
          /\ a = 1 => b = 1
          /\ a # 1 => b < a
          /\ a \in Nat /\ b \in Nat
      BY <2>3, <2>4, <2>5
    <3> HIDE DEF a, b, n
    <3>2. b = 1 \/ b + (h + 1) <= n
      BY <1>1, <2>1, <3>1
    <3> QED
      BY <3>2 DEF a, b
  <2> QED
    BY <2>1, <2>4, <2>6
<1>5. \A h \in 0..n : h \in S
  <2>1. \A h \in 0..(n - 1) : h \in S => h + 1 \in S
    BY <1>4
  <2> HIDE DEF S, n
  <2> QED
    BY <1>1, <1>3, <2>1, SetInduction
<1>6. n \in S
  <2> HIDE DEF S, n
  <2> QED
    BY <1>1, <1>5
<1>7. Len(u[n]) = 1
  <2>1. Len(u[n]) \in Nat \ {0}
    BY <1>6 DEF IsLevel
  <2> QED
    BY <1>1, <1>6, <2>1
<1> QED
  BY <1>5, <1>7

\* All that is in a tree: the cids, and nodes of two that are in it.
Tree(c, u) == UNION {ToSet(u[h]) : h \in 0..Len(c)}

\* The root and the cids are in the tree, and what is in it is a cid or made of two
\* that are in it.
LEMMA TreeNodes ==
  ASSUME NEW c, Cids(c), NEW u, Levels(c, u)
  PROVE  /\ u[Len(c)][1] \in Tree(c, u) /\ ToSet(c) \subseteq Tree(c, u)
         /\ \A x \in Tree(c, u) : \/ x \in ToSet(c)
                                  \/ \E a, b \in Tree(c, u) : x = MerkleNode(a, b)
<1> DEFINE n == Len(c)
           All == Tree(c, u)
           Made(x) == x \in ToSet(c) \/ \E a, b \in All : x = MerkleNode(a, b)
           S == {h \in 0..n : \A x \in ToSet(u[h]) : Made(x)}
<1>1. n \in Nat \ {0}
  BY CidsParts
<1>2. u[0] = SortCids(c) /\ \A h \in 1..n : u[h] = NextLevel(u[h - 1])
  BY DEF Levels
<1>3. (\A h \in 0..n : IsLevel(u[h])) /\ Len(u[n]) = 1
  BY LevelsShrink
<1>4. \A h \in 0..n : ToSet(u[h]) \subseteq All
  BY DEF Tree
<1>5. ToSet(u[0]) = ToSet(c)
  BY <1>2, SortKeeps
<1> HIDE DEF All
<1>6. 0 \in S
  BY <1>1, <1>5
<1>7. ASSUME NEW h \in 0..(n - 1), h \in S PROVE h + 1 \in S
  <2>1. h + 1 \in 1..n /\ h + 1 \in 0..n /\ (h + 1) - 1 = h /\ h \in 0..n
    BY <1>1
  <2> DEFINE s == u[h]  L == Len(s)  m == (L + 1) \div 2
  <2>2. u[h + 1] = NextLevel(s) /\ IsLevel(s)
    BY <1>2, <1>3, <2>1
  <2>3. CASE L = 1
    <3>1. u[h + 1] = s
      BY <2>2, <2>3, NextIsShorter
    <3> QED
      BY <1>7, <2>1, <3>1
  <2>4. CASE L # 1
    <3>1. L \in Nat /\ L > 1 /\ DOMAIN s = 1..L
      <4> HIDE DEF s
      <4>1. L \in Nat \ {0} /\ DOMAIN s = 1..L
        BY <2>2 DEF IsLevel
      <4> HIDE DEF L
      <4> QED
        BY <2>4, <4>1
    <3>2. IsLevel(u[h + 1]) /\ Len(u[h + 1]) = m
          /\ \A j \in 1..m : u[h + 1][j] =
                               MerkleNode(s[2*j - 1], s[IF 2*j > L THEN 2*j - 1 ELSE 2*j])
      BY <2>2, <2>4, NextIsShorter
    <3>3. \A j \in 1..L : s[j] \in All
      BY <1>4, <2>1, <3>1 DEF ToSet
    <3>4. ASSUME NEW j \in 1..m PROVE Made(u[h + 1][j])
      <4> DEFINE a == 2*j - 1  b == IF 2*j > L THEN 2*j - 1 ELSE 2*j
      <4> HIDE DEF s, L
      <4>1. a \in 1..L /\ b \in 1..L
        BY <3>1
      <4>2. s[a] \in All /\ s[b] \in All /\ u[h + 1][j] = MerkleNode(s[a], s[b])
        BY <3>2, <3>3, <4>1
      <4> HIDE DEF a, b
      <4> QED
        BY <4>2
    <3>5. \A x \in ToSet(u[h + 1]) : \E j \in 1..m : x = u[h + 1][j]
      BY <3>2 DEF IsLevel, ToSet
    <3> HIDE DEF Made
    <3>6. \A x \in ToSet(u[h + 1]) : Made(x)
      BY <3>4, <3>5
    <3> QED
      BY <2>1, <3>6
  <2> QED
    BY <2>3, <2>4
<1>8. \A h \in 0..n : h \in S
  <2>1. \A h \in 0..(n - 1) : h \in S => h + 1 \in S
    BY <1>7
  <2> HIDE DEF S, n
  <2> QED
    BY <1>1, <1>6, <2>1, SetInduction
<1>9. \A x \in All : Made(x)
  <2>1. \A x \in All : \E h \in 0..n : x \in ToSet(u[h])
    BY DEF All, Tree
  <2> HIDE DEF Made
  <2> QED
    BY <1>8, <2>1
<1>10. u[n][1] \in All
  <2>1. 1 \in DOMAIN u[n] /\ n \in 0..n
    BY <1>1, <1>3 DEF IsLevel
  <2> QED
    BY <1>4, <2>1 DEF ToSet
<1>11. ToSet(c) \subseteq All
  <2>1. 0 \in 0..n
    BY <1>1
  <2> QED
    BY <1>4, <1>5, <2>1
<1> QED
  BY <1>9, <1>10, <1>11 DEF All

\* What holds the root and the kids of what it holds has all cids.
LEMMA RootReaches ==
  ASSUME NEW c, Cids(c), NEW u, Levels(c, u),
         NEW T, u[Len(c)][1] \in T,
         \A a, b : MerkleNode(a, b) \in T => a \in T /\ b \in T
  PROVE  ToSet(c) \subseteq T
<1> DEFINE n == Len(c)
           S == {k \in 0..n : ToSet(u[n - k]) \subseteq T}
<1>1. n \in Nat \ {0}
  BY CidsParts
<1>2. u[0] = SortCids(c) /\ \A h \in 1..n : u[h] = NextLevel(u[h - 1])
  BY DEF Levels
<1>3. (\A h \in 0..n : IsLevel(u[h])) /\ Len(u[n]) = 1
  BY LevelsShrink
<1>4. 0 \in S
  <2>1. IsLevel(u[n])
    BY <1>1, <1>3
  <2>2. DOMAIN u[n] = {1}
    BY <1>3, <2>1 DEF IsLevel
  <2>3. ToSet(u[n]) \subseteq T
    BY <2>2 DEF ToSet
  <2>4. n - 0 = n /\ 0 \in 0..n
    BY <1>1
  <2> QED
    BY <2>3, <2>4
<1>5. ASSUME NEW k \in 0..(n - 1), k \in S PROVE k + 1 \in S
  <2> DEFINE h == n - (k + 1)  s == u[h]  L == Len(s)  m == (L + 1) \div 2
  <2>1. h \in 0..n /\ h + 1 \in 1..n /\ (h + 1) - 1 = h /\ h + 1 = n - k /\ k + 1 \in 0..n
    BY <1>1
  <2> HIDE DEF h, n
  <2>2. u[h + 1] = NextLevel(s) /\ IsLevel(s)
    BY <1>2, <1>3, <2>1
  <2>3. ToSet(u[h + 1]) \subseteq T
    BY <1>5, <2>1
  <2>4. CASE L = 1
    <3>1. u[h + 1] = s
      BY <2>2, <2>4, NextIsShorter
    <3> QED
      BY <2>1, <2>3, <3>1 DEF h
  <2>5. CASE L # 1
    <3>1. L \in Nat /\ L > 1 /\ DOMAIN s = 1..L
      <4> HIDE DEF s
      <4>1. L \in Nat \ {0} /\ DOMAIN s = 1..L
        BY <2>2 DEF IsLevel
      <4> HIDE DEF L
      <4> QED
        BY <2>5, <4>1
    <3>2. IsLevel(u[h + 1]) /\ Len(u[h + 1]) = m
          /\ \A j \in 1..m : u[h + 1][j] =
                               MerkleNode(s[2*j - 1], s[IF 2*j > L THEN 2*j - 1 ELSE 2*j])
      BY <2>2, <2>5, NextIsShorter
    <3>3. \A j \in 1..m : u[h + 1][j] \in T
      BY <2>3, <3>2 DEF IsLevel, ToSet
    <3> HIDE DEF s, L
    <3>4. ASSUME NEW i \in 1..L PROVE s[i] \in T
      <4> DEFINE j == (i + 1) \div 2
                 b == IF 2*j > L THEN 2*j - 1 ELSE 2*j
      <4>1. j \in 1..m /\ (i = 2*j - 1 \/ (i = 2*j /\ b = 2*j))
        BY <3>1
      <4> HIDE DEF j, m
      <4>2. MerkleNode(s[2*j - 1], s[b]) \in T
        BY <3>2, <3>3, <4>1
      <4> HIDE DEF b
      <4> QED
        BY <4>1, <4>2
    <3>5. ToSet(s) \subseteq T
      BY <3>1, <3>4 DEF ToSet
    <3> QED
      BY <2>1, <3>5 DEF s, h
  <2> QED
    BY <2>4, <2>5
<1>6. n \in S
  <2>1. \A k \in 0..(n - 1) : k \in S => k + 1 \in S
    BY <1>5
  <2> HIDE DEF S, n
  <2>2. \A k \in 0..n : k \in S
    BY <1>1, <1>4, <2>1, SetInduction
  <2> QED
    BY <1>1, <2>2
<1>7. n - n = 0
  BY <1>1
<1>8. ToSet(u[0]) = ToSet(c)
  BY <1>2, SortKeeps
<1> QED
  BY <1>6, <1>7, <1>8

-----------------------------------------------------------------------------
(* Merkle roots and proofs *)

\* What a tree holds, it holds the kids of.
LEMMA TreeHoldsKids ==
  ASSUME NEW c, Cids(c), NEW u, Levels(c, u), NEW a, NEW b, MerkleNode(a, b) \in Tree(c, u)
  PROVE  a \in Tree(c, u) /\ b \in Tree(c, u)
<1>1. MerkleNode(a, b) \notin ToSet(c)
  BY CidsParts, NodeParts
<1>2. PICK x \in Tree(c, u), y \in Tree(c, u) : MerkleNode(a, b) = MerkleNode(x, y)
  BY <1>1, TreeNodes
<1>3. {a, b} = {x, y}
  BY <1>2, NodeParts
<1> QED
  BY <1>3

\* The leaves of a tree are its cids.
LEMMA TreeLeaves ==
  ASSUME NEW c, Cids(c), NEW u, Levels(c, u), NEW x \in Leaves, x \in Tree(c, u)
  PROVE  x \in ToSet(c)
BY TreeNodes, NodeParts

\* Two lists with one root have the same cids.
LEMMA OneRootOneSet ==
  ASSUME NEW c, Cids(c), NEW d, Cids(d), MerkleRoot(c) = MerkleRoot(d)
  PROVE  ToSet(c) \subseteq ToSet(d)
<1>1. PICK u : Levels(c, u) /\ MerkleRoot(c) = EncodeRoot(u[Len(c)][1])
  BY LevelsThere
<1>2. PICK w : Levels(d, w) /\ MerkleRoot(d) = EncodeRoot(w[Len(d)][1])
  BY LevelsThere
<1>3. u[Len(c)][1] = w[Len(d)][1]
  <2>1. \A x : EncodeRoot(x).mh = x
    BY DEF EncodeRoot
  <2>2. EncodeRoot(u[Len(c)][1]) = EncodeRoot(w[Len(d)][1])
    BY <1>1, <1>2
  <2>3. EncodeRoot(u[Len(c)][1]).mh = EncodeRoot(w[Len(d)][1]).mh
    BY <2>2
  <2> QED
    BY <2>1, <2>3
<1>4. u[Len(c)][1] \in Tree(d, w)
  BY <1>2, <1>3, TreeNodes
<1>5. \A a, b : MerkleNode(a, b) \in Tree(d, w) => a \in Tree(d, w) /\ b \in Tree(d, w)
  BY <1>2, TreeHoldsKids
<1>6. ToSet(c) \subseteq Tree(d, w)
  BY <1>1, <1>4, <1>5, RootReaches
<1>7. \A x \in ToSet(c) : x \in Leaves
  BY CidsParts
<1> QED
  BY <1>2, <1>6, <1>7, TreeLeaves

\* A root that passes is that of the cids, and that of the cids passes.
LEMMA RootMeans ==
  ASSUME NEW v, VectorMade(v)
  PROVE  RootMeaning(v)
<1> DEFINE c == v.inputs  d == v.from
<1> SUFFICES ASSUME v.check = "merkle_root"
             PROVE  /\ AlgorithmPasses(v) => ToSet(c) = ToSet(d)
                    /\ NoDuplicates(c) /\ NoDuplicates(d) /\ ToSet(c) = ToSet(d)
                         => AlgorithmPasses(v)
  BY DEF RootMeaning
<1>1. /\ Cids(c) /\ Cids(d) /\ v.expect.merkle_root = MerkleRoot(d)
      /\ v.expect.sorted_order \subseteq {SortCids(d)}
  BY DEF VectorMade
<1>2. AlgorithmPasses(v) <=> /\ MerkleRoot(c) = v.expect.merkle_root
                             /\ \A order \in v.expect.sorted_order : SortCids(c) = order
  BY DEF AlgorithmPasses, RootRight
<1> HIDE DEF c, d
<1>3. ASSUME AlgorithmPasses(v) PROVE ToSet(c) = ToSet(d)
  <2>1. MerkleRoot(c) = MerkleRoot(d)
    BY <1>1, <1>2, <1>3
  <2>2. ToSet(c) \subseteq ToSet(d) /\ ToSet(d) \subseteq ToSet(c)
    BY <1>1, <2>1, OneRootOneSet
  <2> QED
    BY <2>2
<1>4. ASSUME NoDuplicates(c), NoDuplicates(d), ToSet(c) = ToSet(d)
      PROVE  AlgorithmPasses(v)
  <2>1. Len(c) = Len(d) /\ SortCids(c) = SortCids(d)
    BY <1>1, <1>4, SortOfSet
  <2>2. MerkleRoot(c) = MerkleRoot(d)
    BY <2>1, RootOfSorted
  <2> QED
    BY <1>1, <1>2, <2>1, <2>2
<1> QED
  BY <1>3, <1>4

\* One step down a proof undoes one step up.
LEMMA DownUndoesUp ==
  ASSUME NEW c, Cids(c), NEW u, Levels(c, u),
         NEW nodes, nodes \subseteq Tree(c, u), NEW sibling
  PROVE  /\ Below(nodes, sibling) \subseteq Tree(c, u)
         /\ \A x : x \in Below(nodes, sibling) <=> MerkleNode(x, sibling) \in nodes
<1> DEFINE Kids(m) == IF m.kids = {sibling} THEN m.kids ELSE m.kids \ {sibling}
           Parents == {m \in nodes : "kids" \in DOMAIN m /\ sibling \in m.kids}
<1>1. Below(nodes, sibling) = UNION {Kids(m) : m \in Parents}
  BY DEF Below
<1>2. \A a, b : DOMAIN MerkleNode(a, b) = {"kids"} /\ MerkleNode(a, b).kids = {a, b}
  BY DEF MerkleNode
<1>3. ASSUME NEW x, x \in Below(nodes, sibling)
      PROVE  MerkleNode(x, sibling) \in nodes
  <2>1. PICK m \in Parents : x \in Kids(m)
    BY <1>1, <1>3
  <2>2. m \notin ToSet(c)
    <3>1. \A y \in Leaves : DOMAIN y = {"leaf"}
      BY DEF Leaves
    <3> QED
      BY <3>1, CidsParts
  <2>3. PICK a \in Tree(c, u), b \in Tree(c, u) : m = MerkleNode(a, b)
    BY <2>2, TreeNodes
  <2>4. m.kids = {a, b} /\ sibling \in m.kids /\ x \in m.kids
        /\ (x = sibling => m.kids = {sibling})
    BY <1>2, <2>1, <2>3
  <2>5. {a, b} = {x, sibling}
    BY <2>4
  <2>6. m = MerkleNode(x, sibling)
    BY <2>3, <2>5 DEF MerkleNode
  <2> QED
    BY <2>6
<1>4. ASSUME NEW x, MerkleNode(x, sibling) \in nodes
      PROVE  x \in Below(nodes, sibling)
  <2> DEFINE m == MerkleNode(x, sibling)
  <2>1. m \in Parents /\ x \in Kids(m)
    BY <1>2, <1>4
  <2> HIDE DEF Parents, Kids, m
  <2> QED
    BY <1>1, <2>1
<1>5. \A x \in Below(nodes, sibling) : x \in Tree(c, u)
  BY <1>3, TreeHoldsKids
<1> QED
  BY <1>3, <1>4, <1>5

\* Read from the root, a proof leads to what it proves.
LEMMA ProofReads ==
  ASSUME NEW c, Cids(c), NEW u, Levels(c, u), NEW root \in Tree(c, u),
         NEW leaf, NEW path, path \in Seq(ToSet(path))
  PROVE  /\ NodesUp(leaf, path) = root <=> leaf \in Reached(root, path)
         /\ Reached(root, path) \subseteq Tree(c, u)
<1> DEFINE n == Len(path)  back == Reverse(path)
<1>1. n \in Nat /\ DOMAIN path = 1..n
  OBVIOUS
<1>2. DOMAIN back = 1..n /\ \A k \in 1..n : back[k] = path[(n - k) + 1]
  BY <1>1 DEF Reverse
<1> HIDE DEF n, back
<1>3. PICK up : /\ up[0] = leaf /\ NodesUp(leaf, path) = up[n]
                /\ \A k \in 1..n : up[k] = MerkleNode(up[k - 1], path[k])
  BY <1>1, NodeFold
<1>4. PICK down : /\ down[0] = {root} /\ NodesDown({root}, back) = down[n]
                  /\ \A k \in 1..n : down[k] = Below(down[k - 1], back[k])
  <2> DEFINE base == {root}
  <2> HIDE DEF base
  <2>1. \E down : /\ down[0] = base /\ NodesDown(base, back) = down[n]
                  /\ \A k \in 1..n : down[k] = Below(down[k - 1], back[k])
    <3>1. n \in Nat /\ DOMAIN back = 1..n
      BY <1>1, <1>2
    <3> QED
      BY <3>1, BelowFold
  <2> QED
    BY <2>1 DEF base
<1>5. Reached(root, path) = down[n]
  BY <1>4 DEF Reached, NodesDown, back
<1> DEFINE S == {k \in 0..n : /\ down[k] \subseteq Tree(c, u)
                              /\ up[n] = root <=> up[n - k] \in down[k]}
<1>6. 0 \in S
  <2>1. n - 0 = n /\ 0 \in 0..n
    BY <1>1
  <2> QED
    BY <1>4, <2>1
<1>7. ASSUME NEW k \in 0..(n - 1), k \in S PROVE k + 1 \in S
  <2> DEFINE j == n - k
  <2>1. /\ k + 1 \in 1..n /\ k + 1 \in 0..n /\ (k + 1) - 1 = k /\ j \in 1..n
        /\ (n - (k + 1)) + 1 = j /\ n - (k + 1) = j - 1
    BY <1>1
  <2>2. down[k + 1] = Below(down[k], path[j])
    BY <1>2, <1>4, <2>1
  <2>3. up[j] = MerkleNode(up[j - 1], path[j])
    BY <1>3, <2>1
  <2>4. down[k] \subseteq Tree(c, u) /\ (up[n] = root <=> up[j] \in down[k])
    BY <1>7
  <2> HIDE DEF j
  <2>5. /\ down[k + 1] \subseteq Tree(c, u)
        /\ up[j - 1] \in down[k + 1] <=> up[j] \in down[k]
    BY <2>2, <2>3, <2>4, DownUndoesUp
  <2> QED
    BY <2>1, <2>4, <2>5
<1>8. n \in S
  <2>1. \A k \in 0..(n - 1) : k \in S => k + 1 \in S
    BY <1>7
  <2> HIDE DEF S
  <2>2. \A k \in 0..n : k \in S
    BY <1>1, <1>6, <2>1, SetInduction
  <2> QED
    BY <1>1, <2>2
<1>9. n - n = 0
  BY <1>1
<1> QED
  BY <1>3, <1>5, <1>8, <1>9

\* A proof holds for a cid of the batch, on its way from the root.
LEMMA InclusionMeans ==
  ASSUME NEW v, VectorMade(v)
  PROVE  InclusionMeaning(v)
<1> DEFINE leaf == v.inputs.leaf  path == v.inputs.path  c == v.from
           holds == AlgorithmPasses(v) = v.expect
<1> SUFFICES ASSUME v.check = "inclusion_valid"
             PROVE  /\ holds <=> leaf \in Reached(v.inputs.root.mh, path)
                    /\ holds => leaf \in ToSet(c)
  BY DEF InclusionMeaning
<1>1. /\ leaf \in Leaves /\ path \in Seq(ToSet(path)) /\ Cids(c)
      /\ v.inputs.root = MerkleRoot(c) /\ v.expect \in BOOLEAN
  BY DEF VectorMade, Leaves
<1>2. AlgorithmPasses(v) = (VerifyInclusion(leaf, path, v.inputs.root) = v.expect)
  BY DEF AlgorithmPasses
<1>3. VerifyInclusion(leaf, path, v.inputs.root) \in BOOLEAN
      /\ (VerifyInclusion(leaf, path, v.inputs.root)
            <=> EncodeRoot(NodesUp(leaf, path)) = v.inputs.root)
  BY DEF VerifyInclusion, NodesUp
<1>4. holds <=> EncodeRoot(NodesUp(leaf, path)) = v.inputs.root
  <2> DEFINE verified == VerifyInclusion(leaf, path, v.inputs.root)
  <2> HIDE DEF verified
  <2> QED
    BY <1>1, <1>2, <1>3 DEF verified
<1>5. PICK u : Levels(c, u) /\ MerkleRoot(c) = EncodeRoot(u[Len(c)][1])
  BY <1>1, LevelsThere
<1> DEFINE root == u[Len(c)][1]
<1>6. \A x : EncodeRoot(x).mh = x
  BY DEF EncodeRoot
<1>7. v.inputs.root.mh = root /\ (holds <=> NodesUp(leaf, path) = root)
  BY <1>1, <1>4, <1>5, <1>6
<1>8. root \in Tree(c, u)
  BY <1>1, <1>5, TreeNodes
<1> HIDE DEF root, holds, leaf, path, c
<1>9. /\ NodesUp(leaf, path) = root <=> leaf \in Reached(root, path)
      /\ Reached(root, path) \subseteq Tree(c, u)
  BY <1>1, <1>5, <1>8, ProofReads
<1>10. leaf \in Tree(c, u) => leaf \in ToSet(c)
  BY <1>1, <1>5, TreeLeaves
<1> QED
  BY <1>7, <1>9, <1>10

-----------------------------------------------------------------------------
(* The Settler *)

\* What is hashed has all that is in a request, and a hash is that of one text.
LEMMA KeyMeans ==
  ASSUME NEW v, VectorMade(v)
  PROVE  KeyMeaning(v)
<1> SUFFICES ASSUME v.check = "idempotency_key"
             PROVE  AlgorithmPasses(v) <=> v.inputs = v.from
  BY DEF KeyMeaning
<1> DEFINE r == v.inputs  s == v.from
<1>1. AlgorithmPasses(v) <=>
        /\ DeriveIdempotencyKey(r) = v.expect.idempotency_key
        /\ \A hash \in v.expect.args_hash : Multihash(r.args) = hash
  BY DEF AlgorithmPasses, KeyRight
<1>2. /\ ARequest(r) /\ ARequest(s)
      /\ v.expect.idempotency_key = DeriveIdempotencyKey(s)
      /\ v.expect.args_hash \subseteq {Multihash(s.args)}
  BY DEF VectorMade
<1> HIDE DEF r, s
<1>3. ASSUME DeriveIdempotencyKey(r) = DeriveIdempotencyKey(s) PROVE r = s
  <2> DEFINE components(q) ==
               [args_hash |-> Multihash(q.args), commitment_cid |-> q.commitment_cid,
                rail |-> q.rail, verb |-> q.verb, verb_index |-> q.verb_index]
  <2>1. [mh |-> components(r)] = [mh |-> components(s)]
    BY <1>3 DEF DeriveIdempotencyKey, Multihash
  <2> HIDE DEF components
  <2>2. [mh |-> components(r)].mh = [mh |-> components(s)].mh
    BY <2>1
  <2>3. components(r) = components(s)
    BY <2>2
  <2>4. /\ Multihash(r.args) = Multihash(s.args) /\ r.commitment_cid = s.commitment_cid
        /\ r.rail = s.rail /\ r.verb = s.verb /\ r.verb_index = s.verb_index
    <3>1. \A q : /\ components(q).args_hash = Multihash(q.args)
                 /\ components(q).commitment_cid = q.commitment_cid
                 /\ components(q).rail = q.rail /\ components(q).verb = q.verb
                 /\ components(q).verb_index = q.verb_index
      BY DEF components
    <3> QED
      BY <2>3, <3>1
  <2>5. r.args = s.args
    <3>1. \A x : Multihash(x).mh = x
      BY DEF Multihash
    <3> QED
      BY <2>4, <3>1
  <2> QED
    BY <1>2, <2>4, <2>5 DEF ARequest
<1> QED
  BY <1>1, <1>2, <1>3 DEF r, s

\* Where o has come out after a failure, if there was one.
CameOut(o, j) == IF \E k \in 1..(j - 1) : o[k] = "failed" THEN "skipped" ELSE o[j]
\* What is known after k outcomes.
Cascaded(o, k, s) ==
  /\ s.out \in Seq(ToSet(o) \cup {"skipped"}) /\ Len(s.out) = k
  /\ s.stopped \in BOOLEAN /\ (s.stopped <=> \E j \in 1..k : o[j] = "failed")
  /\ \A j \in 1..k : s.out[j] = CameOut(o, j)

\* One status more.
LEMMA CascadeGrows ==
  ASSUME NEW o, o \in Seq(ToSet(o)), NEW k \in Nat, k + 1 \in 1..Len(o),
         NEW s, Cascaded(o, k, s)
  PROVE  Cascaded(o, k + 1, CascadeStep(s, o[k + 1]))
<1> DEFINE x == IF s.stopped THEN "skipped" ELSE o[k + 1]
           t == CascadeStep(s, o[k + 1])
           X == ToSet(o) \cup {"skipped"}
<1>0. /\ s.out \in Seq(X) /\ Len(s.out) = k /\ s.stopped \in BOOLEAN
      /\ s.stopped <=> \E j \in 1..k : o[j] = "failed"
      /\ \A j \in 1..k : s.out[j] = CameOut(o, j)
  BY DEF Cascaded
<1>1. /\ t.out = Append(s.out, x) /\ t.stopped \in BOOLEAN
      /\ t.stopped <=> s.stopped \/ o[k + 1] = "failed"
  BY <1>0 DEF CascadeStep
<1>2. x \in X
  <2>1. o[k + 1] \in ToSet(o)
    OBVIOUS
  <2> QED
    BY <2>1
<1>3. x = CameOut(o, k + 1)
  <2>1. (k + 1) - 1 = k
    OBVIOUS
  <2> QED
    BY <1>0, <2>1 DEF CameOut
<1> HIDE DEF t, X
<1> HIDE DEF x
<1>4. /\ Append(s.out, x) \in Seq(X) /\ Len(Append(s.out, x)) = k + 1
      /\ Append(s.out, x)[k + 1] = x
      /\ \A j \in 1..k : Append(s.out, x)[j] = s.out[j]
  BY <1>0, <1>2
<1>5. \A j \in 1..(k + 1) : j \in 1..k \/ j = k + 1
  OBVIOUS
<1>6. k + 1 \in 1..(k + 1) /\ \A j \in 1..k : j \in 1..(k + 1)
  OBVIOUS
<1>7. t.stopped <=> \E j \in 1..(k + 1) : o[j] = "failed"
  BY <1>0, <1>1, <1>5, <1>6
<1>8. \A j \in 1..(k + 1) : t.out[j] = CameOut(o, j)
  BY <1>0, <1>1, <1>3, <1>4, <1>5
<1> QED
  BY <1>1, <1>4, <1>7, <1>8 DEF Cascaded, t, X

\* What comes out is known from the first failure on.
LEMMA CascadeMeans ==
  ASSUME NEW v, VectorMade(v)
  PROVE  CascadeMeaning(v)
<1> SUFFICES ASSUME v.check = "xr_statuses"
             PROVE  AlgorithmPasses(v) <=>
                      /\ Len(v.expect) = Len(v.inputs)
                      /\ \A j \in DOMAIN v.inputs :
                           v.expect[j] = IF \E k \in 1..(j - 1) : v.inputs[k] = "failed"
                                         THEN "skipped" ELSE v.inputs[j]
  BY DEF CascadeMeaning
<1> DEFINE o == v.inputs  e == v.expect  n == Len(o)
           base == [out |-> <<>>, stopped |-> FALSE]
<1>1. o \in Seq(ToSet(o)) /\ e \in Seq(ToSet(e))
  BY DEF VectorMade
<1>2. n \in Nat /\ DOMAIN o = 1..n
  BY <1>1
<1>3. AlgorithmPasses(v) <=> FailureCascade(o) = e
  BY DEF AlgorithmPasses
<1> HIDE DEF o, e, n
<1>4. PICK u : /\ u[0] = base /\ Cascade(base, o) = u[n]
               /\ \A k \in 1..n : u[k] = CascadeStep(u[k - 1], o[k])
  <2> HIDE DEF base
  <2>1. \E u : /\ u[0] = base /\ Cascade(base, o) = u[n]
               /\ \A k \in 1..n : u[k] = CascadeStep(u[k - 1], o[k])
    BY <1>2, CascadeFold
  <2> QED
    BY <2>1
<1> DEFINE S == {k \in 0..n : Cascaded(o, k, u[k])}
<1>5. 0 \in S
  <2>1. Cascaded(o, 0, base)
    BY DEF Cascaded
  <2> QED
    BY <1>2, <1>4, <2>1
<1>6. ASSUME NEW k \in 0..(n - 1), k \in S PROVE k + 1 \in S
  <2>1. k \in Nat /\ k + 1 \in 1..n /\ (k + 1) - 1 = k /\ n = Len(o)
    BY <1>2 DEF n
  <2>2. u[k + 1] = CascadeStep(u[k], o[k + 1])
    BY <1>4, <2>1
  <2>3. Cascaded(o, k, u[k])
    BY <1>6
  <2>4. Cascaded(o, k + 1, u[k + 1])
    BY <1>1, <2>1, <2>2, <2>3, CascadeGrows
  <2> QED
    BY <2>1, <2>4
<1>7. Cascaded(o, n, u[n])
  <2>1. \A k \in 0..(n - 1) : k \in S => k + 1 \in S
    BY <1>6
  <2>2. \A k \in 0..n : k \in S
    <3> HIDE DEF S
    <3> QED
      BY <1>2, <1>5, <2>1, SetInduction, Zenon
  <2> QED
    BY <1>2, <2>2
<1>8. FailureCascade(o) = u[n].out
  BY <1>4 DEF FailureCascade, Cascade
<1> DEFINE w == u[n].out
<1>9. w \in Seq(ToSet(o) \cup {"skipped"}) /\ Len(w) = n /\ \A j \in 1..n : w[j] = CameOut(o, j)
  BY <1>7 DEF Cascaded
<1> HIDE DEF w
<1>10. w = e <=> Len(e) = n /\ \A j \in 1..n : e[j] = CameOut(o, j)
  <2>1. ASSUME Len(e) = n, \A j \in 1..n : e[j] = CameOut(o, j) PROVE w = e
    BY <1>1, <1>2, <1>9, <2>1
  <2> QED
    BY <1>9, <2>1
<1> QED
  BY <1>2, <1>3, <1>8, <1>10 DEF w, o, e, n, CameOut

\* Each transition that is allowed advances.
LEMMA TransitionMeans ==
  ASSUME NEW v, VectorMade(v)
  PROVE  TransitionMeaning(v)
<1> SUFFICES ASSUME v.check = "all_transitions_correct", AlgorithmPasses(v), v.expect,
                    NEW t \in v.inputs, t.expect_allowed
             PROVE  LET rank == [pending |-> 0, success |-> 1, failed |-> 1,
                                 rolled_back |-> 2, skipped |-> 2]
                    IN rank[t.from] < rank[t.to] /\ t.to # "skipped"
  BY DEF TransitionMeaning
<1>1. TransitionRight(t)
  BY DEF AlgorithmPasses
<1>2. CanTransition(t.from, t.to, t.withinWindow, t.railSupports)
  BY <1>1 DEF TransitionRight
<1> QED
  BY <1>2 DEF CanTransition

-----------------------------------------------------------------------------
(* Finality *)

\* Nobody is asked for less than anyone, nor for more than someone asked for.
LEMMA DepthMeans ==
  ASSUME NEW v, VectorMade(v)
  PROVE  DepthMeaning(v)
<1> SUFFICES ASSUME v.check = "all_depths_correct", AlgorithmPasses(v), v.expect,
                    NEW c \in v.inputs
             PROVE  LET asked == {c.registry_default} \cup c.policy_pack_minimum
                                   \cup c.request_override
                    IN /\ c.expect_depth \in asked
                       /\ \A d \in asked : d <= c.expect_depth
                       /\ \A o \in c.request_override : \A p \in c.policy_pack_minimum : p <= o
  BY DEF DepthMeaning
<1> DEFINE floor == OrZero(c.policy_pack_minimum)
           all == {c.registry_default} \cup floor \cup OrZero(c.request_override)
<1>1. DepthRight(c)
  BY DEF AlgorithmPasses
<1>2. Max(all) = c.expect_depth /\ \A o \in c.request_override : ~(o < Max(floor))
  BY <1>1 DEF DepthRight, FinalityDepth
<1>3. /\ c.registry_default \in Nat
      /\ Numbers(c.policy_pack_minimum) /\ Numbers(c.request_override)
  BY DEF VectorMade
<1>4. Numbers({0}) /\ Numbers({c.registry_default})
  BY <1>3, OneNumber
<1>5. Numbers(floor) /\ Numbers(all)
  <2>1. Numbers(floor) /\ Numbers(OrZero(c.request_override))
    BY <1>3, <1>4 DEF OrZero
  <2> HIDE DEF floor
  <2> QED
    BY <1>4, <2>1, MoreNumbers
<1>6. floor # {} /\ all # {}
  BY DEF OrZero
<1>7. /\ Max(all) \in all /\ \A d \in all : d <= Max(all)
      /\ \A p \in floor : p <= Max(floor)
      /\ Max(floor) \in floor
  <2> HIDE DEF floor, all
  <2> QED
    BY <1>5, <1>6, MaxIs
<1>8. c.expect_depth \in all /\ \A d \in all : d <= c.expect_depth
  BY <1>2, <1>7
<1>9. /\ c.policy_pack_minimum \subseteq floor /\ c.request_override \subseteq OrZero(c.request_override)
      /\ all \subseteq {0, c.registry_default} \cup c.policy_pack_minimum \cup c.request_override
  BY DEF OrZero
<1>10. \A o \in c.request_override : \A p \in c.policy_pack_minimum : p <= o
  BY <1>9, <1>2, <1>3, <1>5, <1>7 DEF Numbers
<1>11. c.expect_depth = 0 => c.registry_default = 0
  BY <1>3, <1>8
<1> HIDE DEF floor
<1>12. {c.registry_default} \cup c.policy_pack_minimum \cup c.request_override \subseteq all
  BY <1>9
<1> HIDE DEF all
<1> QED
  BY <1>9, <1>8, <1>10, <1>11, <1>12

\* There is an alert or a new anchor, and an alert from the depth on.
LEMMA ReorgMeans ==
  ASSUME NEW v, VectorMade(v)
  PROVE  ReorgMeaning(v)
<1> SUFFICES ASSUME v.check = "all_reorg_outcomes_correct", AlgorithmPasses(v), v.expect,
                    NEW c \in v.inputs
             PROVE  /\ c.expect_outcome.reanchor # c.expect_outcome.alert
                    /\ c.expect_outcome.alert <=> c.finality_depth <= c.reorg_depth
  BY DEF ReorgMeaning
<1>1. ReorgOutcome(c.reorg_depth, c.finality_depth) = c.expect_outcome
  BY DEF AlgorithmPasses, ReorgRight
<1>2. c.reorg_depth \in Int /\ c.finality_depth \in Int
  BY DEF VectorMade
<1> QED
  BY <1>1, <1>2 DEF ReorgOutcome

-----------------------------------------------------------------------------
(* Policy *)

\* A level above zero is met by the entry with the highest level.
LEMMA CompatMeans ==
  ASSUME NEW v, VectorMade(v)
  PROVE  CompatMeaning(v)
<1> SUFFICES ASSUME v.check = "spec_compat", VectorPasses(v)
             PROVE  v.expect.valid <=>
                      \A r \in v.inputs.required :
                        /\ r.level \in Int
                        /\ \/ r.level <= 0
                           \/ \E e \in v.inputs.advertised :
                                e.spec = r.spec /\ e.level \in Int /\ e.level >= r.level
  BY DEF CompatMeaning
<1> DEFINE in == v.inputs
           ok == \A r \in in.required :
                   r.level \in Int /\ Advertised(in.advertised, r.spec) >= r.level
<1>1. v.expect = [valid |-> v.expect.valid] /\ IsFiniteSet(in.advertised)
  BY DEF VectorMade
<1>2. ExpectMatch(v.expect, Outcome(ok, "discovery.unsupported_level"))
  BY DEF VectorPasses, Algorithms, Got, SpecCompat
<1> HIDE DEF ok
<1>3. v.expect.valid = ok
  <2> DEFINE got == Outcome(ok, "discovery.unsupported_level")
  <2>1. got.valid = ok /\ "valid" \in DOMAIN got
    BY DEF Outcome
  <2>2. "valid" \in DOMAIN v.expect
    BY <1>1
  <2> HIDE DEF got
  <2>3. v.expect["valid"] = got["valid"]
    BY <1>2, <2>1, <2>2 DEF ExpectMatch, got
  <2> QED
    BY <2>1, <2>3
<1>4. ASSUME NEW spec, NEW level \in Int
      PROVE  Advertised(in.advertised, spec) >= level <=>
               \/ level <= 0
               \/ \E e \in in.advertised : e.spec = spec /\ e.level \in Int /\ e.level >= level
  <2> DEFINE entries == {e \in in.advertised : e.spec = spec /\ e.level \in Int}
             levels == {e.level : e \in entries}
             all == {0} \cup levels
  <2>1. IsFiniteSet(entries)
    BY <1>1, FS_Subset
  <2>2. IsFiniteSet(levels) /\ levels \subseteq Int
    <3>1. IsFiniteSet(levels)
      <4> DEFINE f == [e \in entries |-> e.level]
      <4> HIDE DEF entries
      <4>1. DOMAIN f = entries /\ levels = {f[e] : e \in DOMAIN f}
        OBVIOUS
      <4> HIDE DEF f, levels
      <4> QED
        BY <2>1, <4>1, FiniteImage
    <3> QED
      BY <3>1
  <2>3. Numbers(all) /\ all # {}
    <3>1. Numbers(levels) /\ Numbers({0})
      BY <2>2, OneNumber DEF Numbers
    <3> HIDE DEF levels
    <3> QED
      BY <3>1, MoreNumbers
  <2>4. Max(all) \in all /\ \A y \in all : y <= Max(all)
    BY <2>3, MaxIs
  <2>5. Advertised(in.advertised, spec) = Max(all)
    BY DEF Advertised
  <2>6. Max(all) \in Int
    BY <2>3, <2>4 DEF Numbers
  <2> QED
    BY <2>2, <2>4, <2>5, <2>6
<1> QED
  BY <1>3, <1>4 DEF ok

\* What is merged is at least as strict as each of the packs.
LEMMA MergeMeans ==
  ASSUME NEW v, VectorMade(v)
  PROVE  MergeMeaning(v)
<1> SUFFICES ASSUME v.check = "pack_merge", VectorPasses(v),
                    NEW p \in PackSet(v.inputs)
             PROVE  LET merged == v.expect.effective IN
                    /\ \A w \in p.min_witnesses : \E m \in merged.min_witnesses : m >= w
                    /\ \A d \in p.finality : \E m \in merged.finality : m >= d
                    /\ \A r \in p.retention_days : \E m \in merged.retention_days : m <= r
                    /\ \A c \in p.amount_cap : \E m \in merged.amount_cap : m <= c
  BY DEF MergeMeaning
<1> DEFINE in == v.inputs
           packs == PackSet(in)
           Said(member) == UNION {q[member] : q \in packs}
           merged == v.expect.effective
<1>1. merged = MergePacks(in)
  <2> DEFINE got == PackMerge(in)
  <2>1. ExpectMatch(v.expect, got)
    BY DEF VectorPasses, Algorithms, Got
  <2>2. "effective" \in DOMAIN got /\ got["effective"] = MergePacks(in)
    BY DEF PackMerge
  <2>3. "effective" \in DOMAIN v.expect
    BY DEF VectorMade
  <2> HIDE DEF got
  <2> QED
    BY <2>1, <2>2, <2>3 DEF ExpectMatch
<1>2. IsFiniteSet(packs)
  <2>1. IsFiniteSet(DOMAIN Packs(in))
    <3>1. Packs(in) \in Seq(PackSet(in))
      BY DEF VectorMade
    <3>2. Len(Packs(in)) \in Nat /\ DOMAIN Packs(in) = 1..Len(Packs(in))
      BY <3>1
    <3> QED
      BY <3>2, FS_Interval
  <2>2. packs = {Packs(in)[j] : j \in DOMAIN Packs(in)}
    BY DEF PackSet
  <2> QED
    BY <2>1, <2>2, FiniteImage
<1>3. \A q \in packs : /\ Numbers(q["min_witnesses"]) /\ Numbers(q["finality"])
                       /\ Numbers(q["retention_days"]) /\ Numbers(q["amount_cap"])
  BY DEF VectorMade
<1> HIDE DEF packs
<1>4. ASSUME NEW member, \A q \in packs : Numbers(q[member])
      PROVE  Numbers(Said(member)) /\ p[member] \subseteq Said(member)
  <2>1. IsFiniteSet({q[member] : q \in packs})
    <3> DEFINE f == [q \in packs |-> q[member]]
    <3>1. DOMAIN f = packs /\ {q[member] : q \in packs} = {f[q] : q \in DOMAIN f}
      OBVIOUS
    <3> HIDE DEF f
    <3> QED
      BY <1>2, <3>1, FiniteImage
  <2>2. \A S \in {q[member] : q \in packs} : IsFiniteSet(S)
    BY <1>4 DEF Numbers
  <2>3. IsFiniteSet(Said(member))
    BY <2>1, <2>2, FS_UNION
  <2> QED
    BY <1>4, <2>3 DEF Numbers, packs
<1> DEFINE Wit == Said("min_witnesses")
           Fin == Said("finality")
           Ret == Said("retention_days")
           Cap == Said("amount_cap")
<1>5. /\ Numbers(Wit) /\ p["min_witnesses"] \subseteq Wit
      /\ Numbers(Fin) /\ p["finality"] \subseteq Fin
      /\ Numbers(Ret) /\ p["retention_days"] \subseteq Ret
      /\ Numbers(Cap) /\ p["amount_cap"] \subseteq Cap
  BY <1>3, <1>4
<1>6. /\ Wit # {} => merged.min_witnesses = {Max(Wit)}
      /\ Fin # {} => merged.finality = {Max(Fin \cup {0})}
      /\ Ret # {} => merged.retention_days = {Min(Ret)}
      /\ Cap # {} => merged.amount_cap = {Min(Cap)}
  BY <1>1 DEF MergePacks, packs
<1> HIDE DEF Wit, Fin, Ret, Cap, merged
<1>7. \A w \in p["min_witnesses"] : \E m \in merged.min_witnesses : m >= w
  <2>1. Wit # {} => \A y \in Wit : y <= Max(Wit) /\ y \in Int /\ Max(Wit) \in Int
    BY <1>5, MaxIs DEF Numbers
  <2> QED
    BY <1>5, <1>6, <2>1
<1>8. \A d \in p["finality"] : \E m \in merged.finality : m >= d
  <2>1. Numbers(Fin \cup {0})
    <3>1. Numbers({0})
      BY OneNumber
    <3> QED
      BY <1>5, <3>1, MoreNumbers
  <2>2. \A y \in Fin \cup {0} : y <= Max(Fin \cup {0}) /\ y \in Int /\ Max(Fin \cup {0}) \in Int
    BY <2>1, MaxIs DEF Numbers
  <2> QED
    BY <1>5, <1>6, <2>2
<1>9. \A r \in p["retention_days"] : \E m \in merged.retention_days : m <= r
  <2>1. Ret # {} => \A y \in Ret : Min(Ret) <= y
    BY <1>5, MinIs
  <2> QED
    BY <1>5, <1>6, <2>1
<1>10. \A c \in p["amount_cap"] : \E m \in merged.amount_cap : m <= c
  <2>1. Cap # {} => \A y \in Cap : Min(Cap) <= y
    BY <1>5, MinIs
  <2> QED
    BY <1>5, <1>6, <2>1
<1> QED
  BY <1>7, <1>8, <1>9, <1>10 DEF merged
=============================================================================
