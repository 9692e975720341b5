---------------------------- MODULE KernelProofs ----------------------------
(***************************************************************************)
(* What is proved of the Kernel, for any commitments, evidence and times:  *)
(* its loop over the measures decides what the commitment means, nothing   *)
(* is approved that is not earned, and the order the receipts are given in *)
(* decides nothing.  What is cited is enough to replay the decision.       *)
(***************************************************************************)
EXTENDS KernelMeaning, DataLemmas

-----------------------------------------------------------------------------
(* Evidence *)

\* A receipt that is selected is one of those given, and meets the requirements.
LEMMA SelectedIsCandidate ==
  ASSUME NEW spec, NEW ts, NEW now, SelectLatest(spec, ts, now) # 0
  PROVE  /\ SelectLatest(spec, ts, now) \in DOMAIN ts
         /\ Candidate(spec, ts[SelectLatest(spec, ts, now)], now)
BY DEF SelectLatest, Latest, Candidates

\* On times that can be read, the window of the code is the half-open interval.
LEMMA WindowIsInterval ==
  ASSUME NEW w \in Windows, NEW ts \in Instants, NEW now \in Instants,
         WithinWindow(ts, w, now), Readable(w, ts, now)
  PROVE  InWindow(w, ts, now)
<1>1. ts.ms \in Int /\ ts.ms # NaN
  BY KernelAssumption DEF Readable, Instants, Millis
<1>2. w.start = None \/ w.start.ms <= ts.ms
  BY <1>1, KernelAssumption DEF Readable, WithinWindow, Less, Windows, Instants, Millis
<1>3. w.end = None \/ ts.ms < w.end.ms
  BY <1>1, KernelAssumption DEF Readable, WithinWindow, Less, Windows, Instants, Millis
<1>4. w.maxAge = None \/ now.ms - ts.ms <= w.maxAge
  <2> SUFFICES ASSUME w.maxAge # None PROVE now.ms - ts.ms <= w.maxAge
    OBVIOUS
  <2>1. w.maxAge \in Int /\ now.ms \in Int
    BY KernelAssumption DEF Readable, Windows, Instants, Millis
  <2>2. ~Less(w.maxAge, Minus(now.ms, ts.ms))
    BY DEF WithinWindow
  <2> QED
    BY <1>1, <2>1, <2>2, KernelAssumption DEF Less, Minus
<1> QED
  BY <1>2, <1>3, <1>4 DEF InWindow

-----------------------------------------------------------------------------
(* The scope of an assertion *)

\* Before the first measure nothing is bound.
LEMMA ScopeBegins ==
  ASSUME NEW k, NEW ts, NEW now
  PROVE  Scope(k, ts, now, 0) = [n \in Names |-> Unbound]
BY DEF Scope, Binders

\* A measure without a receipt leaves the scope as it was.
LEMMA ScopeStays ==
  ASSUME NEW k, NEW ts, NEW now, NEW j \in Nat \ {0}, Answer(k, ts, now, j) = 0
  PROVE  Scope(k, ts, now, j) = Scope(k, ts, now, j - 1)
<1>1. \A n : Binders(k, ts, now, j, n) = Binders(k, ts, now, j - 1, n)
  BY DEF Binders
<1> QED
  BY <1>1 DEF Scope

\* A measure with a receipt binds its own symbol, and no other.
LEMMA ScopeGrows ==
  ASSUME NEW k, NEW ts, NEW now, NEW j \in Nat \ {0}, Answer(k, ts, now, j) # 0,
         k.measure[j].name \in Names
  PROVE  Scope(k, ts, now, j) =
           [Scope(k, ts, now, j - 1) EXCEPT
              ![k.measure[j].name] = ts[Answer(k, ts, now, j)].value]
<1> DEFINE B(m, n) == Binders(k, ts, now, m, n)
           Value(m, n) == IF B(m, n) = {} THEN Unbound
                          ELSE ts[Answer(k, ts, now, LastOf(B(m, n)))].value
<1>1. \A n \in Names : n # k.measure[j].name => B(j, n) = B(j - 1, n)
  BY DEF Binders
<1>2. \A n \in Names : n # k.measure[j].name => Value(j, n) = Value(j - 1, n)
  BY <1>1
<1>3. j \in B(j, k.measure[j].name) /\ \A q \in B(j, k.measure[j].name) : q \in 1..j
  BY DEF Binders
<1>4. LastOf(B(j, k.measure[j].name)) = j
  <2>1. \A o \in B(j, k.measure[j].name) :
          (\A q \in B(j, k.measure[j].name) : q <= o) <=> o = j
    BY <1>3
  <2> QED
    BY <1>3, <2>1 DEF LastOf
<1>5. Value(j, k.measure[j].name) = ts[Answer(k, ts, now, j)].value
  BY <1>3, <1>4
<1>6. \A m : Scope(k, ts, now, m) = [n \in Names |-> Value(m, n)]
  BY DEF Scope
<1> HIDE DEF Value
<1> QED
  BY <1>2, <1>5, <1>6

\* The findings on one more measure.
LEMMA FindingsGrow ==
  ASSUME NEW k, NEW ts, NEW now, NEW j \in Nat \ {0}
  PROVE  [m \in 1..j |-> Finding(k, ts, now, m)] =
           Append([m \in 1..(j - 1) |-> Finding(k, ts, now, m)],
                  Finding(k, ts, now, j))
OBVIOUS

-----------------------------------------------------------------------------
(* The loop *)

\* What holds at every turn of the loop: the symbols and the results are those
\* of the measures before i, and a decision is a decision on them all.
LoopInv ==
  /\ commitment \in Commitments /\ tims \in Evidence /\ evalTime \in Times
  /\ pc \in {"validate", "bind", "done", "thrown"}
  /\ i \in Nat \ {0} /\ i <= Len(commitment.measure) + 1
  /\ symbols = Scope(commitment, tims, evalTime, i - 1)
  /\ assertions = [j \in 1..(i - 1) |-> Finding(commitment, tims, evalTime, j)]
  /\ pc = "bind" => Accepted(commitment)
  /\ pc # "done" => decision = NoDecision
  /\ pc = "done" => \/ ~Accepted(commitment) /\ decision.status = "REJECTED"
                    \/ /\ Accepted(commitment)
                       /\ i = Len(commitment.measure) + 1
                       /\ decision = Decide(commitment, Aggregate(assertions))

\* The loop begins with nothing bound and nothing found.
LEMMA LoopBegins == Init => LoopInv
<1> SUFFICES ASSUME NEW k \in Commitments, NEW ts \in Evidence, NEW now \in Times,
                    Begin(k, ts, now)
             PROVE  LoopInv
  BY DEF Init
<1>1. symbols = Scope(commitment, tims, evalTime, i - 1)
  BY ScopeBegins DEF Begin
<1>2. assertions = [j \in 1..(i - 1) |-> Finding(commitment, tims, evalTime, j)]
  BY DEF Begin
<1>3. Len(commitment.measure) \in Nat
  BY CommitmentsAssumption DEF Begin
<1> QED
  BY <1>1, <1>2, <1>3 DEF LoopInv, Begin

\* Every step of the Kernel keeps what the loop has established.
LEMMA LoopStep == LoopInv /\ [KernelNext]_kernelVars => LoopInv'
<1> SUFFICES ASSUME LoopInv, [KernelNext]_kernelVars PROVE LoopInv'
  OBVIOUS
<1> USE DEF LoopInv
<1>0. Len(commitment.measure) \in Nat
  BY CommitmentsAssumption
<1>1. CASE Validate
  <2>1. CASE ~commitment.arrays
    BY <1>1, <2>1 DEF Validate, Return, Rejected, Accepted
  <2>2. CASE commitment.arrays /\ Flaws(commitment) = {}
    BY <1>1, <2>2 DEF Validate, Accepted
  <2>3. CASE commitment.arrays /\ Flaws(commitment) # {}
    BY <1>1, <2>3 DEF Validate, Return, Rejected, Accepted
  <2> QED
    BY <2>1, <2>2, <2>3
<1>2. CASE Skip
  <2>1. Answer(commitment, tims, evalTime, i) = 0
    BY <1>2 DEF Skip, Answer
  <2>2. symbols' = Scope(commitment, tims, evalTime, i)
    BY <1>2, <2>1, ScopeStays DEF Skip
  <2>3. assertions' = [j \in 1..i |-> Finding(commitment, tims, evalTime, j)]
    BY <1>2, <2>1, FindingsGrow DEF Skip, Finding
  <2> QED
    BY <1>0, <1>2, <2>2, <2>3 DEF Skip
<1>3. CASE Bind
  <2>1. /\ Answer(commitment, tims, evalTime, i) # 0
        /\ SelectLatest(commitment.measure[i], tims, evalTime)
             = Answer(commitment, tims, evalTime, i)
    BY <1>3 DEF Bind, Answer
  <2>2. commitment.measure[i].name \in Names
    <3>1. i \in 1..Len(commitment.measure)
      BY <1>0, <1>3 DEF Bind
    <3> QED
      BY <3>1, CommitmentsAssumption
  <2>3. symbols' = Scope(commitment, tims, evalTime, i)
    BY <1>3, <2>1, <2>2, ScopeGrows DEF Bind
  <2>4. assertions' = Append(assertions, Finding(commitment, tims, evalTime, i))
    <3>1. assertions' = Append(assertions,
            [result |-> EvaluateAssertion(commitment.measure[i].assert, symbols'),
             input  |-> Answer(commitment, tims, evalTime, i)])
      BY <1>3, <2>1 DEF Bind
    <3> QED
      BY <2>1, <2>3, <3>1 DEF Finding
  <2>5. assertions' = [j \in 1..i |-> Finding(commitment, tims, evalTime, j)]
    BY <2>4, FindingsGrow
  <2> QED
    BY <1>0, <1>3, <2>3, <2>5 DEF Bind
<1>4. CASE Resolve
  BY <1>0, <1>4 DEF Resolve, Return
<1>5. CASE UNCHANGED kernelVars
  BY <1>5 DEF kernelVars
<1> QED
  BY <1>1, <1>2, <1>3, <1>4, <1>5 DEF KernelNext

\* The loop of evaluateKernel keeps its invariant for ever.
LEMMA LoopHolds == KernelSpec => []LoopInv
  BY LoopBegins, LoopStep, PTL DEF KernelSpec

\* When the loop is over it has decided what the commitment means.
LEMMA LoopDecides ==
  ASSUME LoopInv, pc = "done", Accepted(commitment)
  PROVE  /\ assertions = Findings(commitment, tims, evalTime)
         /\ decision = Verdict(commitment, tims, evalTime)
<1>1. i - 1 = Len(commitment.measure)
  BY CommitmentsAssumption DEF LoopInv
<1> QED
  BY <1>1 DEF LoopInv, Findings, Verdict

\* The loop decides what the commitment means on the evidence, whatever the
\* commitment, the receipts and the time (kernel.ts:176-219).
THEOREM DecidesMeaning == KernelSpec => []DecidesItsMeaning
<1>1. LoopInv => DecidesItsMeaning
  BY LoopDecides DEF DecidesItsMeaning
<1> QED
  BY <1>1, LoopHolds, PTL

\* Nothing is approved but on a receipt for each measure that passed its
\* assertion, with the witnesses and in the window required, and no commitment
\* with an unregistered verb is approved at all (kernel.ts:156-219).
THEOREM EarnsApproval == KernelSpec => []ApprovedIsEarned
<1>1. LoopInv => ApprovedIsEarned
  <2> SUFFICES ASSUME LoopInv, decision.status = "APPROVED"
               PROVE  ApprovedIsEarned
    BY DEF ApprovedIsEarned
  <2>1. pc = "done" /\ Accepted(commitment)
    BY DEF LoopInv, NoDecision
  <2>2. Aggregate(assertions) = "PASS"
    BY <2>1 DEF LoopInv, Decide, Rejected
  <2>3. assertions # <<>> /\ \A j \in DOMAIN assertions : assertions[j].result = "PASS"
    BY <2>2 DEF Aggregate
  <2>4. ASSUME NEW j \in DOMAIN assertions
        PROVE  LET spec == commitment.measure[j]
                   t    == tims[assertions[j].input]
               IN /\ assertions[j].input # 0 /\ assertions[j].result = "PASS"
                  /\ t.witnesses >= spec.minWitnesses
                  /\ Readable(spec.window, t.ts, evalTime)
                       => InWindow(spec.window, t.ts, evalTime)
    <3>1. j \in 1..Len(commitment.measure)
      BY <2>4, CommitmentsAssumption DEF LoopInv
    <3>2. assertions[j] = Finding(commitment, tims, evalTime, j)
      BY <2>4 DEF LoopInv
    <3>3. assertions[j].input = SelectLatest(commitment.measure[j], tims, evalTime)
      BY <3>2 DEF Finding, Answer
    <3>4. assertions[j].input # 0
      BY <2>3, <2>4, <3>2 DEF Finding
    <3>5. /\ assertions[j].input \in DOMAIN tims
          /\ Candidate(commitment.measure[j], tims[assertions[j].input], evalTime)
      BY <3>3, <3>4, SelectedIsCandidate
    <3>6. commitment.measure[j].window \in Windows
      BY <3>1, CommitmentsAssumption DEF LoopInv
    <3>7. tims[assertions[j].input].ts \in Instants /\ evalTime \in Instants
      BY <3>5, EvidenceAssumption, KernelAssumption DEF LoopInv
    <3> QED
      BY <2>3, <3>4, <3>5, <3>6, <3>7, WindowIsInterval DEF Candidate
  <2>5. \A c \in DOMAIN commitment.consequence :
          ToSet(commitment.consequence[c].then) \subseteq Registered
    BY <2>1 DEF Accepted, Flaws, Flawed, ToSet
  <2> QED
    BY <2>3, <2>4, <2>5 DEF ApprovedIsEarned
<1> QED
  BY <1>1, LoopHolds, PTL

-----------------------------------------------------------------------------
(* Assertions *)

\* Kleene's connectives, and the tests of a symbol, have one of three results.
LEMMA NodeHasResult ==
  ASSUME NEW ast, NEW known, NEW eval, NEW n \in DOMAIN ast, Expression(ast)
  PROVE  EvalNode(ast, known, eval, n) \in TriState
<1>1. \A a, b : And3(a, b) \in TriState /\ Or3(a, b) \in TriState /\ Not3(a) \in TriState
  BY DEF And3, Or3, Not3, TriState
<1>2. \A b : Bool(b) \in TriState
  BY DEF Bool, TriState
<1>3. \A node, val : /\ EvalCmp(node, val) \in TriState
                     /\ EvalIn(node, val) \in TriState /\ EvalSymRef(val) \in TriState
  BY <1>2 DEF EvalCmp, EvalIn, EvalSymRef, TriState
<1>4. ast[n].k \in {"cmp", "in", "symref", "and", "or", "not"}
  BY DEF Expression
<1> QED
  BY <1>1, <1>3, <1>4 DEF EvalNode

\* The value of a node depends on no node but its operands.
LEMMA NodeIsLocal ==
  ASSUME NEW ast, NEW known, NEW f, NEW g, NEW n \in DOMAIN ast, Expression(ast),
         \A m \in 1..(n - 1) : f[m] = g[m]
  PROVE  EvalNode(ast, known, f, n) = EvalNode(ast, known, g, n)
<1>1. CASE ast[n].k \in {"cmp", "in", "symref"}
  BY <1>1 DEF EvalNode
<1>2. CASE /\ ast[n].k \in {"and", "or"} /\ ast[n].l \in 1..(n - 1) /\ ast[n].r \in 1..(n - 1)
  <2>1. f[ast[n].l] = g[ast[n].l] /\ f[ast[n].r] = g[ast[n].r]
    BY <1>2
  <2> QED
    BY <1>2, <2>1 DEF EvalNode
<1>3. CASE ast[n].k = "not" /\ ast[n].e \in 1..(n - 1)
  <2>1. f[ast[n].e] = g[ast[n].e]
    BY <1>3
  <2> QED
    BY <1>3, <2>1 DEF EvalNode
<1> QED
  BY <1>1, <1>2, <1>3 DEF Expression

\* The nodes of an expression have values that agree with the definition: the
\* recursion is well founded, since operands come first.
LEMMA NodesAreEvaluated ==
  ASSUME NEW ast, NEW known, Expression(ast)
  PROVE  EvalNodes(ast, known)
           = [n \in DOMAIN ast |-> EvalNode(ast, known, EvalNodes(ast, known), n)]
<1> DEFINE Solves(g, m) == g = [n \in 1..m |-> EvalNode(ast, known, g, n)]
           S == {m \in 0..Len(ast) : \E g : Solves(g, m)}
<1>1. 0 \in S
  <2>1. \E g : Solves(g, 0)
    <3> WITNESS [n \in 1..0 |-> 0]
    <3> QED
      OBVIOUS
  <2> HIDE DEF Solves
  <2> QED
    BY <2>1 DEF Expression
<1>2. ASSUME NEW m \in 0..(Len(ast) - 1), m \in S
      PROVE  m + 1 \in S
  <2>1. PICK g : Solves(g, m)
    BY <1>2
  <2> DEFINE h == [n \in 1..(m + 1) |-> IF n <= m THEN g[n] ELSE EvalNode(ast, known, g, n)]
  <2>2. Len(ast) \in Nat /\ DOMAIN ast = 1..Len(ast) /\ m \in Nat
    BY DEF Expression
  <2>3. ASSUME NEW n \in 1..(m + 1) PROVE h[n] = EvalNode(ast, known, h, n)
    <3>1. n \in DOMAIN ast /\ \A o \in 1..(n - 1) : g[o] = h[o]
      <4>1. n \in DOMAIN ast /\ \A o \in 1..(n - 1) : o \in 1..(m + 1) /\ o <= m
        BY <2>2
      <4>2. \A o \in 1..(m + 1) : o <= m => h[o] = g[o]
        OBVIOUS
      <4> HIDE DEF h
      <4> QED
        BY <4>1, <4>2
    <3>2. EvalNode(ast, known, g, n) = EvalNode(ast, known, h, n)
      <4> HIDE DEF h
      <4> QED
        BY <3>1, NodeIsLocal
    <3>3. CASE n <= m
      <4>1. n \in 1..m
        BY <2>2, <3>3
      <4>2. g[n] = EvalNode(ast, known, g, n)
        BY <2>1, <4>1
      <4> QED
        BY <3>2, <3>3, <4>2
    <3>4. CASE ~(n <= m)
      BY <3>2, <3>4
    <3> QED
      BY <3>3, <3>4
  <2>4. Solves(h, m + 1)
    BY <2>3
  <2>5. \E f : Solves(f, m + 1)
    <3> HIDE DEF Solves
    <3> QED
      BY <2>4
  <2> QED
    BY <2>2, <2>5
<1>3. Len(ast) \in S
  <2>1. Len(ast) \in Nat
    BY DEF Expression
  <2> HIDE DEF S
  <2>2. \A m \in 0..(Len(ast) - 1) : m \in S => m + 1 \in S
    BY <1>2
  <2>3. \A m \in 0..Len(ast) : m \in S
    BY <1>1, <2>1, <2>2, SetInduction, Zenon
  <2> QED
    BY <2>1, <2>3
<1>4. \E g : g = [n \in DOMAIN ast |-> EvalNode(ast, known, g, n)]
  BY <1>3 DEF Expression
<1>5. EvalNodes(ast, known) = CHOOSE g : g = [n \in DOMAIN ast |-> EvalNode(ast, known, g, n)]
  BY DEF EvalNodes
<1> QED
  BY <1>4, <1>5

\* Every node has one of three results.
LEMMA NodesHaveResults ==
  ASSUME NEW ast, NEW known, Expression(ast), NEW n \in DOMAIN ast
  PROVE  /\ EvalNodes(ast, known)[n] = EvalNode(ast, known, EvalNodes(ast, known), n)
         /\ EvalNodes(ast, known)[n] \in TriState
<1> DEFINE e == EvalNodes(ast, known)
<1> HIDE DEF e
<1>1. e = [m \in DOMAIN ast |-> EvalNode(ast, known, e, m)]
  BY NodesAreEvaluated DEF e
<1>2. e[n] = EvalNode(ast, known, e, n)
  BY <1>1
<1> QED
  BY <1>2, NodeHasResult DEF e

\* An expression with no nodes is empty.
LEMMA EmptyOrLast ==
  ASSUME NEW ast, Expression(ast)
  PROVE  ast = <<>> \/ Len(ast) \in DOMAIN ast
<1>1. CASE Len(ast) = 0
  <2>1. DOMAIN ast = {}
    BY <1>1 DEF Expression
  <2> QED
    BY <2>1
<1> QED
  BY <1>1 DEF Expression

\* An assertion passes, fails or is indeterminate, whatever its symbols are.
LEMMA AssertionHasResult ==
  ASSUME NEW ast, NEW known, Expression(ast)
  PROVE  EvaluateAssertion(ast, known) \in TriState
<1>1. CASE ast = <<>>
  BY <1>1 DEF EvaluateAssertion, TriState
<1>2. CASE Len(ast) \in DOMAIN ast
  BY <1>2, NodesHaveResults DEF EvaluateAssertion, EvalAst, TriState
<1>3. ast = <<>> \/ Len(ast) \in DOMAIN ast
  BY EmptyOrLast
<1> QED
  BY <1>1, <1>2, <1>3

\* The connectives keep what is decided.
LEMMA ConnectivesKeep ==
  ASSUME NEW a \in TriState, NEW b \in TriState, NEW c \in TriState, NEW d \in TriState,
         a # "INDETERMINATE" => c = a, b # "INDETERMINATE" => d = b
  PROVE  /\ And3(a, b) # "INDETERMINATE" => And3(c, d) = And3(a, b)
         /\ Or3(a, b) # "INDETERMINATE" => Or3(c, d) = Or3(a, b)
         /\ Not3(a) # "INDETERMINATE" => Not3(c) = Not3(a)
BY DEF And3, Or3, Not3, TriState

\* What a node says of fewer symbols it says of more.
LEMMA NodeKeeps ==
  ASSUME NEW ast, Expression(ast), NEW s, NEW t, NEW n \in DOMAIN ast, NEW f, NEW g,
         \A m \in 1..(n - 1) : /\ f[m] \in TriState /\ g[m] \in TriState
                               /\ f[m] # "INDETERMINATE" => g[m] = f[m],
         \A x \in Mentions(ast) : x \notin Inherited /\ (s[x] = Unbound \/ t[x] = s[x])
  PROVE  EvalNode(ast, s, f, n) # "INDETERMINATE" => EvalNode(ast, t, g, n) = EvalNode(ast, s, f, n)
<1>1. CASE ast[n].k \in {"cmp", "in", "symref"}
  <2>1. ast[n].sym \in Mentions(ast)
    BY <1>1 DEF Mentions
  <2>2. /\ Lookup(s, ast[n].sym) = s[ast[n].sym] /\ Lookup(t, ast[n].sym) = t[ast[n].sym]
        /\ s[ast[n].sym] = Unbound \/ t[ast[n].sym] = s[ast[n].sym]
    BY <2>1 DEF Lookup
  <2>3. CASE t[ast[n].sym] = s[ast[n].sym]
    BY <1>1, <2>2, <2>3 DEF EvalNode
  <2>4. CASE s[ast[n].sym] = Unbound
    <3>1. /\ EvalCmp(ast[n], Unbound) = "INDETERMINATE" /\ EvalIn(ast[n], Unbound) = "INDETERMINATE"
          /\ EvalSymRef(Unbound) = "INDETERMINATE"
      BY DEF EvalCmp, EvalIn, EvalSymRef, Unbound
    <3> QED
      BY <1>1, <2>2, <2>4, <3>1 DEF EvalNode
  <2> QED
    BY <2>2, <2>3, <2>4
<1>2. CASE ast[n].k \in {"and", "or"} /\ ast[n].l \in 1..(n - 1) /\ ast[n].r \in 1..(n - 1)
  BY <1>2, ConnectivesKeep DEF EvalNode
<1>3. CASE ast[n].k = "not" /\ ast[n].e \in 1..(n - 1)
  BY <1>3, ConnectivesKeep DEF EvalNode
<1> QED
  BY <1>1, <1>2, <1>3 DEF Expression

\* An assertion that was decided on some of the symbols is decided for good.
LEMMA AssertionKeeps ==
  ASSUME NEW ast, Expression(ast), NEW s, NEW t,
         \A x \in Mentions(ast) : x \notin Inherited /\ (s[x] = Unbound \/ t[x] = s[x]),
         EvaluateAssertion(ast, s) # "INDETERMINATE"
  PROVE  EvaluateAssertion(ast, t) = EvaluateAssertion(ast, s)
<1> DEFINE f == EvalNodes(ast, s)
           g == EvalNodes(ast, t)
           Kept(n) == f[n] # "INDETERMINATE" => g[n] = f[n]
           S == {m \in 0..Len(ast) : \A n \in 1..m : Kept(n)}
<1>1. Len(ast) \in Nat /\ DOMAIN ast = 1..Len(ast)
  BY DEF Expression
<1>2. ASSUME NEW n \in DOMAIN ast
      PROVE  /\ f[n] \in TriState /\ g[n] \in TriState
             /\ f[n] = EvalNode(ast, s, f, n) /\ g[n] = EvalNode(ast, t, g, n)
  BY NodesHaveResults
<1> HIDE DEF f, g
<1>3. ASSUME NEW m \in 0..(Len(ast) - 1), m \in S
      PROVE  m + 1 \in S
  <2>1. m + 1 \in DOMAIN ast /\ \A o \in 1..m : o \in DOMAIN ast
    BY <1>1
  <2>2. \A o \in 1..((m + 1) - 1) : /\ f[o] \in TriState /\ g[o] \in TriState
                                    /\ f[o] # "INDETERMINATE" => g[o] = f[o]
    BY <1>2, <1>3, <2>1
  <2>3. Kept(m + 1)
    <3>1. EvalNode(ast, s, f, m + 1) # "INDETERMINATE"
            => EvalNode(ast, t, g, m + 1) = EvalNode(ast, s, f, m + 1)
      BY <2>1, <2>2, NodeKeeps
    <3> QED
      BY <1>2, <2>1, <3>1
  <2>4. \A n \in 1..(m + 1) : n = m + 1 \/ n \in 1..m
    OBVIOUS
  <2> HIDE DEF Kept
  <2> QED
    BY <1>1, <1>3, <2>3, <2>4
<1>4. \A m \in 0..Len(ast) : m \in S
  <2>1. 0 \in S
    BY <1>1
  <2>2. \A m \in 0..(Len(ast) - 1) : m \in S => m + 1 \in S
    BY <1>3
  <2> HIDE DEF S
  <2> QED
    BY <1>1, <2>1, <2>2, SetInduction, Zenon
<1>5. Len(ast) \in DOMAIN ast
  BY EmptyOrLast DEF EvaluateAssertion
<1>6. Kept(Len(ast))
  BY <1>1, <1>4, <1>5
<1> QED
  BY <1>5, <1>6 DEF EvaluateAssertion, EvalAst, f, g

-----------------------------------------------------------------------------
(* Types, and decisions that last *)

\* A finding is a result and the place of its receipt, 0 when it has none.
LEMMA FindingHasType ==
  ASSUME NEW k \in Commitments, NEW ts \in Evidence, NEW now, NEW j \in 1..Len(k.measure)
  PROVE  Finding(k, ts, now, j) \in [result : TriState, input : 0..Len(ts)]
<1>1. Expression(k.measure[j].assert)
  BY CommitmentsAssumption
<1>2. Finding(k, ts, now, j).result \in TriState
  BY <1>1, AssertionHasResult DEF Finding, TriState
<1>3. Answer(k, ts, now, j) = 0 \/ Answer(k, ts, now, j) \in DOMAIN ts
  BY SelectedIsCandidate DEF Answer
<1>4. Len(ts) \in Nat /\ DOMAIN ts = 1..Len(ts)
  BY EvidenceAssumption
<1>5. Finding(k, ts, now, j).input \in 0..Len(ts)
  BY <1>3, <1>4 DEF Finding
<1> QED
  BY <1>2, <1>5 DEF Finding

\* What is bound are the values of receipts, and what is returned is a decision.
StateInv ==
  /\ symbols \in [Names -> Values \cup {Unbound}]
  /\ decision.status \in {"none", "APPROVED", "REJECTED", "INDETERMINATE"}
  /\ decision.error \in {"none", "kernel.invalid_commitment", "kernel.unknown_verb"}

\* A step binds the value of a receipt, or decides.
LEMMA StateStep == LoopInv /\ StateInv /\ [KernelNext]_kernelVars => StateInv'
<1> SUFFICES ASSUME LoopInv, StateInv, [KernelNext]_kernelVars PROVE StateInv'
  OBVIOUS
<1> USE DEF StateInv
<1>1. CASE Validate
  BY <1>1 DEF Validate, Return, Rejected
<1>2. CASE Skip
  BY <1>2 DEF Skip
<1>3. CASE Bind
  <2>1. /\ SelectLatest(commitment.measure[i], tims, evalTime) # 0
        /\ symbols' = [symbols EXCEPT ![commitment.measure[i].name] =
             tims[SelectLatest(commitment.measure[i], tims, evalTime)].value]
        /\ decision' = decision
    BY <1>3 DEF Bind
  <2>2. tims[SelectLatest(commitment.measure[i], tims, evalTime)].value \in Values
    BY <2>1, SelectedIsCandidate, EvidenceAssumption DEF LoopInv
  <2> QED
    BY <2>1, <2>2
<1>4. CASE Resolve
  BY <1>4 DEF Resolve, Return, Decide, Rejected
<1>5. CASE UNCHANGED kernelVars
  BY <1>5 DEF kernelVars
<1> QED
  BY <1>1, <1>2, <1>3, <1>4, <1>5 DEF KernelNext

\* Every variable of evaluateKernel has its type, for all commitments, receipts and
\* times (kernel.ts:146-219).
THEOREM KernelTypeCorrect == KernelSpec => []KernelTypeOK
<1>1. Init => StateInv
  BY DEF Init, Begin, StateInv, NoDecision
<1>2. LoopInv /\ StateInv => KernelTypeOK
  <2> SUFFICES ASSUME LoopInv, StateInv PROVE KernelTypeOK
    OBVIOUS
  <2>1. Len(commitment.measure) \in Nat /\ i \in 1..(Len(commitment.measure) + 1)
    BY CommitmentsAssumption DEF LoopInv
  <2> DEFINE T == [result : TriState, input : 0..Len(tims)]
  <2>2. \A j \in 1..(i - 1) : Finding(commitment, tims, evalTime, j) \in T
    BY <2>1, FindingHasType DEF LoopInv
  <2> HIDE DEF T
  <2>3. assertions \in Seq(T) /\ Len(assertions) = i - 1
    BY <2>1, <2>2 DEF LoopInv
  <2> QED
    BY <2>1, <2>3 DEF KernelTypeOK, LoopInv, StateInv, T
<1>3. KernelSpec => []StateInv
  BY <1>1, StateStep, LoopHolds, PTL DEF KernelSpec
<1> QED
  BY <1>2, <1>3, LoopHolds, PTL

\* A symbol that was not bound again since is in scope with the value it had.
LEMMA ScopeKeeps ==
  ASSUME NEW k, NEW ts, NEW now, NEW n \in Names, NEW j \in Nat, NEW m \in Nat, j <= m,
         \/ \A o \in 1..j : ~(k.measure[o].name = n /\ Answer(k, ts, now, o) # 0)
         \/ \A o \in (j + 1)..m : ~(k.measure[o].name = n /\ Answer(k, ts, now, o) # 0)
  PROVE  \/ Scope(k, ts, now, j)[n] = Unbound
         \/ Scope(k, ts, now, m)[n] = Scope(k, ts, now, j)[n]
<1>1. CASE Binders(k, ts, now, j, n) = {}
  BY <1>1 DEF Scope
<1>2. CASE Binders(k, ts, now, j, n) # {}
  <2>1. \A o \in (j + 1)..m : ~(k.measure[o].name = n /\ Answer(k, ts, now, o) # 0)
    BY <1>2 DEF Binders
  <2>2. \A o \in 1..m : o \in 1..j \/ o \in (j + 1)..m
    OBVIOUS
  <2>3. Binders(k, ts, now, m, n) = Binders(k, ts, now, j, n)
    BY <2>1, <2>2 DEF Binders
  <2> QED
    BY <2>3 DEF Scope
<1> QED
  BY <1>1, <1>2

\* A result that was decided before all the symbols were bound is never taken
\* back: evaluated on the symbols as they are now it is the same
\* (assert.ts:252-267).
THEOREM DecisionsLast == KernelSpec => []DecidedForGood
<1>1. LoopInv => DecidedForGood
  <2> SUFFICES ASSUME LoopInv, NEW j \in DOMAIN assertions,
                      assertions[j].result # "INDETERMINATE",
                      \A n \in Mentions(commitment.measure[j].assert) :
                        n \notin Inherited /\ ~Rebound(j, n)
               PROVE  EvaluateAssertion(commitment.measure[j].assert, symbols)
                        = assertions[j].result
    BY DEF DecidedForGood
  <2> DEFINE ast == commitment.measure[j].assert
             before == Scope(commitment, tims, evalTime, j)
             A(o) == Answer(commitment, tims, evalTime, o)
  <2>1. /\ i - 1 \in Nat /\ j \in 1..(i - 1) /\ j \in 1..Len(commitment.measure)
        /\ assertions[j] = Finding(commitment, tims, evalTime, j)
        /\ \A m \in 1..(i - 1) : assertions[m].input = A(m)
    BY CommitmentsAssumption DEF LoopInv, Finding
  <2>2. Expression(ast)
    BY <2>1, CommitmentsAssumption DEF LoopInv
  <2>3. assertions[j].result = EvaluateAssertion(ast, before)
    BY <2>1 DEF Finding
  <2>4. ASSUME NEW n \in Mentions(ast)
        PROVE  n \notin Inherited /\ (before[n] = Unbound \/ symbols[n] = before[n])
    <3>1. n \in Names
      BY <2>2 DEF Mentions, Expression
    <3>2. \/ \A o \in 1..j : ~(commitment.measure[o].name = n /\ A(o) # 0)
          \/ \A o \in (j + 1)..(i - 1) : ~(commitment.measure[o].name = n /\ A(o) # 0)
      BY <2>1 DEF Rebound, Binds
    <3>3. symbols = Scope(commitment, tims, evalTime, i - 1)
      BY DEF LoopInv
    <3>4. j \in Nat /\ i - 1 \in Nat /\ j <= i - 1
      BY <2>1
    <3>5. \/ Scope(commitment, tims, evalTime, j)[n] = Unbound
          \/ Scope(commitment, tims, evalTime, i - 1)[n] = Scope(commitment, tims, evalTime, j)[n]
      BY <3>1, <3>2, <3>4, ScopeKeeps
    <3> QED
      BY <3>3, <3>5
  <2> HIDE DEF ast, before
  <2>5. EvaluateAssertion(ast, symbols) = EvaluateAssertion(ast, before)
    BY <2>2, <2>3, <2>4, AssertionKeeps
  <2> QED
    BY <2>3, <2>5 DEF ast
<1> QED
  BY <1>1, LoopHolds, PTL

-----------------------------------------------------------------------------
(* The order the receipts are given in *)

\* What may be evaluated: receipts with their keys.
Keyed(ts) == /\ Len(ts) \in Nat /\ DOMAIN ts = 1..Len(ts)
             /\ \A p \in DOMAIN ts :
                  {ts[p].ts.text, ts[p].lamport, ts[p].id, ts[p].cid} \subseteq Int

\* No two of the receipts have one key.
Ranked(ts) == Keyed(ts) /\ Distinct(ts)

\* The Notary order is total on receipts that differ, and no two come before each
\* other.
LEMMA OrderIsTotal ==
  ASSUME NEW ts, Ranked(ts), NEW a \in DOMAIN ts, NEW b \in DOMAIN ts
  PROVE  /\ a # b => Precedes(ts[a], ts[b]) \/ Precedes(ts[b], ts[a])
         /\ ~(Precedes(ts[a], ts[b]) /\ Precedes(ts[b], ts[a]))
<1>1. /\ ts[a].ts.text \in Int /\ ts[a].lamport \in Int /\ ts[a].id \in Int /\ ts[a].cid \in Int
      /\ ts[b].ts.text \in Int /\ ts[b].lamport \in Int /\ ts[b].id \in Int /\ ts[b].cid \in Int
  BY DEF Ranked, Keyed
<1>2. a # b => \/ ts[a].ts.text # ts[b].ts.text \/ ts[a].lamport # ts[b].lamport
               \/ ts[a].id # ts[b].id \/ ts[a].cid # ts[b].cid
  BY DEF Ranked, Keyed, Distinct, Key
<1> QED
  BY <1>1, <1>2 DEF Precedes

\* The latest candidate is the one that all others precede: where it was given
\* decides nothing.
LEMMA LatestByKey ==
  ASSUME NEW ts, Ranked(ts), NEW spec, NEW now, NEW j
  PROVE  j \in Latest(spec, ts, now) <=>
           /\ j \in DOMAIN ts /\ Candidate(spec, ts[j], now)
           /\ \A o \in DOMAIN ts : (Candidate(spec, ts[o], now) /\ o # j) => Precedes(ts[o], ts[j])
<1>1. \A o \in DOMAIN ts : o \in Nat
  BY DEF Ranked, Keyed
<1>2. ASSUME j \in DOMAIN ts, NEW o \in DOMAIN ts
      PROVE  (Precedes(ts[o], ts[j]) \/ (~Precedes(ts[j], ts[o]) /\ o <= j))
               <=> (o = j \/ Precedes(ts[o], ts[j]))
  BY <1>1, <1>2, OrderIsTotal
<1> QED
  BY <1>2 DEF Latest, Candidates

\* There is one latest candidate at most.
LEMMA LatestIsOne ==
  ASSUME NEW ts, Ranked(ts), NEW spec, NEW now,
         NEW a \in Latest(spec, ts, now), NEW b \in Latest(spec, ts, now)
  PROVE  a = b
BY LatestByKey, OrderIsTotal

\* A shuffle takes each receipt to one place.
Shuffled(ts, us, p) == /\ p \in Bijection(DOMAIN ts, DOMAIN ts)
                       /\ us = [j \in DOMAIN ts |-> ts[p[j]]]

\* What a shuffle keeps: the places, what is at them, and that receipts differ.
LEMMA ShuffleKeeps ==
  ASSUME NEW ts, Ranked(ts), NEW us, NEW p, Shuffled(ts, us, p)
  PROVE  /\ DOMAIN us = DOMAIN ts /\ Ranked(us)
         /\ \A j \in DOMAIN ts : p[j] \in DOMAIN ts /\ us[j] = ts[p[j]]
         /\ \A o \in DOMAIN ts : \E j \in DOMAIN ts : p[j] = o
         /\ \A a, b \in DOMAIN ts : p[a] = p[b] => a = b
<1>1. /\ p \in [DOMAIN ts -> DOMAIN ts]
      /\ \A o \in DOMAIN ts : \E j \in DOMAIN ts : p[j] = o
      /\ \A a, b \in DOMAIN ts : p[a] = p[b] => a = b
  BY DEF Shuffled, Bijection, Injection, Surjection, IsInjective
<1>2. DOMAIN us = DOMAIN ts /\ \A j \in DOMAIN ts : us[j] = ts[p[j]]
  BY DEF Shuffled
<1>3. Len(us) = Len(ts)
  <2> DEFINE n == Len(ts)
             T == {ts[j] : j \in DOMAIN ts}
  <2>1. n \in Nat /\ DOMAIN ts = 1..n
    BY DEF Ranked, Keyed
  <2>2. us \in [1..n -> T]
    BY <1>1, <2>1 DEF Shuffled
  <2> HIDE DEF n, T
  <2>3. us \in Seq(T)
    BY <2>1, <2>2
  <2>4. Len(us) = n
    BY <2>1, <2>2, <2>3
  <2> QED
    BY <2>4 DEF n
<1>4. \A a, b \in DOMAIN us : a # b => Key(us[a]) # Key(us[b])
  BY <1>1, <1>2 DEF Ranked, Keyed, Distinct
<1>5. \A j \in DOMAIN us :
        {us[j].ts.text, us[j].lamport, us[j].id, us[j].cid} \subseteq Int
  <2>1. \A o \in DOMAIN ts :
          {ts[o].ts.text, ts[o].lamport, ts[o].id, ts[o].cid} \subseteq Int
    BY DEF Ranked, Keyed
  <2> QED
    BY <1>1, <1>2, <2>1
<1>6. Len(us) \in Nat /\ DOMAIN us = 1..Len(us)
  BY <1>2, <1>3 DEF Ranked, Keyed
<1> QED
  BY <1>1, <1>2, <1>4, <1>5, <1>6 DEF Ranked, Keyed, Distinct

\* The same receipt is selected, wherever it was given.
LEMMA SelectionFollows ==
  ASSUME NEW ts, Ranked(ts), NEW us, NEW p, Shuffled(ts, us, p), NEW spec, NEW now
  PROVE  LET at == SelectLatest(spec, ts, now)
             to == SelectLatest(spec, us, now)
         IN (to = 0 <=> at = 0) /\ (to # 0 => us[to] = ts[at])
<1>0. /\ DOMAIN us = DOMAIN ts /\ Ranked(us)
      /\ \A j \in DOMAIN ts : p[j] \in DOMAIN ts /\ us[j] = ts[p[j]]
      /\ \A o \in DOMAIN ts : \E j \in DOMAIN ts : p[j] = o
      /\ \A a, b \in DOMAIN ts : p[a] = p[b] => a = b
  BY ShuffleKeeps
<1>1. \A j \in DOMAIN ts : j \in Latest(spec, us, now) <=> p[j] \in Latest(spec, ts, now)
  <2> SUFFICES ASSUME NEW j \in DOMAIN ts
               PROVE  j \in Latest(spec, us, now) <=> p[j] \in Latest(spec, ts, now)
    OBVIOUS
  <2>1. j \in Latest(spec, us, now) <=>
          /\ Candidate(spec, ts[p[j]], now)
          /\ \A o \in DOMAIN ts : (Candidate(spec, ts[p[o]], now) /\ o # j) => Precedes(ts[p[o]], ts[p[j]])
    <3>1. j \in Latest(spec, us, now) <=>
            /\ j \in DOMAIN us /\ Candidate(spec, us[j], now)
            /\ \A o \in DOMAIN us : (Candidate(spec, us[o], now) /\ o # j) => Precedes(us[o], us[j])
      BY <1>0, LatestByKey
    <3> QED
      BY <1>0, <3>1
  <2>2. p[j] \in Latest(spec, ts, now) <=>
          /\ Candidate(spec, ts[p[j]], now)
          /\ \A o \in DOMAIN ts : (Candidate(spec, ts[o], now) /\ o # p[j]) => Precedes(ts[o], ts[p[j]])
    BY <1>0, LatestByKey
  <2>3. (\A o \in DOMAIN ts : (Candidate(spec, ts[p[o]], now) /\ o # j) => Precedes(ts[p[o]], ts[p[j]]))
        <=> (\A o \in DOMAIN ts : (Candidate(spec, ts[o], now) /\ o # p[j]) => Precedes(ts[o], ts[p[j]]))
    <3>1. \A o \in DOMAIN ts : o # j <=> p[o] # p[j]
      BY <1>0
    <3>2. \A o \in DOMAIN ts : \E q \in DOMAIN ts : p[q] = o
      BY <1>0
    <3>3. \A o \in DOMAIN ts : p[o] \in DOMAIN ts
      BY <1>0
    <3> DEFINE Met(o) == Candidate(spec, ts[o], now)
               Before(o) == Precedes(ts[o], ts[p[j]])
    <3> HIDE DEF Met, Before
    <3>4. (\A o \in DOMAIN ts : (Met(p[o]) /\ o # j) => Before(p[o]))
          <=> (\A o \in DOMAIN ts : (Met(o) /\ o # p[j]) => Before(o))
      BY <3>1, <3>2, <3>3
    <3> QED
      BY <3>4 DEF Met, Before
  <2> QED
    BY <2>1, <2>2, <2>3
<1>2. /\ Latest(spec, us, now) \subseteq DOMAIN ts /\ Latest(spec, ts, now) \subseteq DOMAIN ts
      /\ 0 \notin DOMAIN ts
  <2>1. DOMAIN us = DOMAIN ts
    BY <1>0
  <2>2. 0 \notin DOMAIN ts
    BY DEF Ranked, Keyed
  <2> QED
    BY <2>1, <2>2 DEF Latest, Candidates
<1>3. Latest(spec, us, now) = {} <=> Latest(spec, ts, now) = {}
  <2> DEFINE D == DOMAIN ts  L == Latest(spec, ts, now)  M == Latest(spec, us, now)
  <2>1. /\ M \subseteq D /\ L \subseteq D
        /\ \A j \in D : j \in M <=> p[j] \in L
        /\ \A j \in D : \E q \in D : p[q] = j
    BY <1>0, <1>1, <1>2
  <2> HIDE DEF D, L, M
  <2>2. M = {} <=> L = {}
    BY <2>1
  <2> QED
    BY <2>2 DEF L, M
<1>4. CASE Latest(spec, ts, now) = {}
  BY <1>3, <1>4 DEF SelectLatest
<1>5. CASE Latest(spec, ts, now) # {}
  <2>1. PICK at \in Latest(spec, ts, now) : at = SelectLatest(spec, ts, now)
    BY <1>5 DEF SelectLatest
  <2>2. PICK to \in Latest(spec, us, now) : to = SelectLatest(spec, us, now)
    BY <1>3, <1>5 DEF SelectLatest
  <2>3. p[to] \in Latest(spec, ts, now) /\ us[to] = ts[p[to]]
    BY <1>0, <1>1, <1>2
  <2>4. p[to] = at
    BY <2>3, LatestIsOne
  <2> QED
    BY <1>2, <2>1, <2>2, <2>3, <2>4
<1> QED
  BY <1>4, <1>5

\* Results that agree have one outcome.
LEMMA OutcomeOfResults ==
  ASSUME NEW n \in Nat, NEW f, NEW g, f = [j \in 1..n |-> f[j]], g = [j \in 1..n |-> g[j]],
         \A j \in 1..n : f[j].result = g[j].result
  PROVE  Aggregate(f) = Aggregate(g)
<1>1. DOMAIN f = 1..n /\ DOMAIN g = 1..n
  OBVIOUS
<1>2. f = <<>> <=> g = <<>>
  <2>1. CASE n = 0
    <3>1. f = <<>> /\ g = <<>>
      BY <2>1
    <3> QED
      BY <3>1
  <2>2. CASE n # 0
    <3>1. 1 \in DOMAIN f /\ 1 \in DOMAIN g
      BY <1>1, <2>2
    <3> QED
      BY <3>1
  <2> QED
    BY <2>1, <2>2
<1> HIDE DEF Aggregate
<1> QED
  BY <1>1, <1>2 DEF Aggregate

-----------------------------------------------------------------------------
(* Receipts that are left out *)

\* A finite set of places is listed in order, each place once.
LEMMA PlacesInOrder ==
  ASSUME NEW S, S \subseteq Nat, IsFiniteSet(S)
  PROVE  /\ Cardinality(S) \in Nat /\ InOrder(S) \in [1..Cardinality(S) -> S]
         /\ \A p \in S : \E r \in 1..Cardinality(S) : InOrder(S)[r] = p
         /\ \A a, b \in 1..Cardinality(S) : a < b => InOrder(S)[a] < InOrder(S)[b]
<1> DEFINE n == Cardinality(S)
           Below(p) == {q \in S : q <= p}
           rank == [p \in S |-> Cardinality(Below(p))]
<1>1. n \in Nat
  BY FS_CardinalityType
<1>2. ASSUME NEW p \in S
      PROVE  /\ IsFiniteSet(Below(p)) /\ Cardinality(Below(p)) \in 1..n
  <2>1. IsFiniteSet(Below(p)) /\ Cardinality(Below(p)) <= n
    <3>1. Below(p) \in SUBSET S
      OBVIOUS
    <3> QED
      BY <3>1, FS_Subset
  <2>2. Cardinality(Below(p)) \in Nat
    BY <2>1, FS_CardinalityType
  <2>3. Cardinality(Below(p)) # 0
    <3>1. p \in Below(p)
      OBVIOUS
    <3> QED
      BY <2>1, <3>1, FS_EmptySet
  <2> QED
    BY <1>1, <2>1, <2>2, <2>3
<1>3. ASSUME NEW p \in S, NEW q \in S, p < q
      PROVE  rank[p] < rank[q]
  <2>0. q \in Nat /\ \A o \in S : o \in Nat
    OBVIOUS
  <2>1. Below(p) \in SUBSET Below(q)
    <3>1. \A o \in S : o <= p => o <= q
      BY <1>3, <2>0
    <3> QED
      BY <3>1
  <2>2. q \in Below(q) /\ q \notin Below(p)
    BY <1>3, <2>0
  <2>3. Cardinality(Below(p)) <= Cardinality(Below(q)) /\ Cardinality(Below(p)) # Cardinality(Below(q))
    BY <1>2, <2>1, <2>2, FS_Subset
  <2>4. Cardinality(Below(p)) \in Nat /\ Cardinality(Below(q)) \in Nat
    BY <1>1, <1>2
  <2> HIDE DEF Below
  <2> QED
    BY <2>3, <2>4
<1>4. rank \in [S -> 1..n]
  BY <1>2
<1> HIDE DEF rank
<1>5. \A p, q \in S : p # q => rank[p] # rank[q]
  <2>1. \A p \in S : rank[p] \in Nat /\ p \in Nat
    BY <1>1, <1>4
  <2> QED
    BY <1>3, <2>1
<1>6. \A r \in 1..n : \E p \in S : rank[p] = r
  <2>1. rank \in Injection(S, 1..n)
    BY <1>4, <1>5 DEF Injection, IsInjective
  <2>2. IsFiniteSet(1..n) /\ Cardinality(1..n) = n
    BY <1>1, FS_Interval
  <2>3. rank \in Surjection(S, 1..n)
    BY <2>1, <2>2, FS_Injection
  <2> QED
    BY <2>3 DEF Surjection
<1>7. \A p \in S : rank[p] = Cardinality({q \in S : q <= p})
  BY DEF rank
<1>8. \A r \in 1..n : InOrder(S)[r] \in S /\ rank[InOrder(S)[r]] = r
  <2> SUFFICES ASSUME NEW r \in 1..n PROVE InOrder(S)[r] \in S /\ rank[InOrder(S)[r]] = r
    OBVIOUS
  <2>1. \E p \in S : Cardinality({q \in S : q <= p}) = r
    BY <1>6, <1>7
  <2>2. InOrder(S)[r] = CHOOSE p \in S : Cardinality({q \in S : q <= p}) = r
    BY DEF InOrder
  <2> QED
    BY <1>7, <2>1, <2>2
<1>9. InOrder(S) \in [1..n -> S]
  BY <1>8 DEF InOrder
<1>10. ASSUME NEW p \in S PROVE \E r \in 1..n : InOrder(S)[r] = p
  <2>1. rank[p] \in 1..n
    BY <1>4
  <2>2. InOrder(S)[rank[p]] = p
    BY <1>5, <1>8, <2>1
  <2> QED
    BY <2>1, <2>2
<1>11. ASSUME NEW a \in 1..n, NEW b \in 1..n, a < b
       PROVE  InOrder(S)[a] < InOrder(S)[b]
  <2> DEFINE p == InOrder(S)[a]
             q == InOrder(S)[b]
  <2>1. p \in S /\ q \in S /\ rank[p] = a /\ rank[q] = b
    BY <1>8
  <2> HIDE DEF p, q
  <2>2. p \in Nat /\ q \in Nat
    BY <2>1
  <2>3. ~(q < p) /\ q # p
    BY <1>1, <1>3, <1>11, <2>1
  <2>4. p < q
    BY <2>2, <2>3
  <2> QED
    BY <2>4 DEF p, q
<1> QED
  BY <1>1, <1>9, <1>10, <1>11

-----------------------------------------------------------------------------
(* The latest candidate *)

\* Does place o come before place j, or is it j?
UpTo(ts, o, j) == Precedes(ts[o], ts[j]) \/ (~Precedes(ts[j], ts[o]) /\ o <= j)

\* Of two places one comes before the other, and not the other way round.
LEMMA PlacesAreOrdered ==
  ASSUME NEW ts, Keyed(ts), NEW a \in DOMAIN ts, NEW b \in DOMAIN ts, NEW c \in DOMAIN ts
  PROVE  /\ UpTo(ts, a, b) \/ UpTo(ts, b, a)
         /\ UpTo(ts, a, b) /\ UpTo(ts, b, a) => a = b
         /\ UpTo(ts, a, b) /\ UpTo(ts, b, c) => UpTo(ts, a, c)
<1>1. a \in Int /\ b \in Int /\ c \in Int
  BY DEF Keyed
<1>2. /\ ts[a].ts.text \in Int /\ ts[a].lamport \in Int /\ ts[a].id \in Int /\ ts[a].cid \in Int
      /\ ts[b].ts.text \in Int /\ ts[b].lamport \in Int /\ ts[b].id \in Int /\ ts[b].cid \in Int
      /\ ts[c].ts.text \in Int /\ ts[c].lamport \in Int /\ ts[c].id \in Int /\ ts[c].cid \in Int
  BY DEF Keyed
<1> QED
  BY <1>1, <1>2 DEF UpTo, Precedes

\* Where there is a candidate, one of them is the latest.
LEMMA LatestExists ==
  ASSUME NEW ts, Keyed(ts), NEW spec, NEW now, Candidates(spec, ts, now) # {}
  PROVE  Latest(spec, ts, now) # {}
<1> DEFINE C == Candidates(spec, ts, now)
           LatestTo(m, j) == j \in C /\ j <= m /\ \A o \in C : o <= m => UpTo(ts, o, j)
           S == {m \in 0..Len(ts) : (\A o \in C : ~(o <= m)) \/ (\E j \in C : LatestTo(m, j))}
<1>1. Len(ts) \in Nat /\ DOMAIN ts = 1..Len(ts) /\ C \subseteq DOMAIN ts
  BY DEF Keyed, Candidates
<1>2. 0 \in S
  BY <1>1
<1> HIDE DEF C
<1>3. ASSUME NEW m \in 0..(Len(ts) - 1), m \in S
      PROVE  m + 1 \in S
  <2>1. \A o \in C : o \in Nat /\ (o <= m + 1 <=> (o <= m \/ o = m + 1))
    BY <1>1
  <2>2. CASE m + 1 \notin C
    <3>1. \A o \in C : o <= m + 1 <=> o <= m
      BY <2>1, <2>2
    <3> QED
      BY <1>1, <1>3, <3>1
  <2>3. CASE m + 1 \in C
    <3>1. CASE \A o \in C : ~(o <= m)
      <4>1. UpTo(ts, m + 1, m + 1)
        BY <1>1, <2>3, PlacesAreOrdered
      <4>2. LatestTo(m + 1, m + 1)
        BY <2>1, <2>3, <3>1, <4>1
      <4> HIDE DEF LatestTo
      <4> QED
        BY <1>1, <2>3, <4>2
    <3>2. ASSUME NEW j \in C, LatestTo(m, j) PROVE m + 1 \in S
      <4>1. CASE UpTo(ts, j, m + 1)
        <5>1. \A o \in C : o <= m => UpTo(ts, o, m + 1)
          BY <1>1, <2>3, <3>2, <4>1, PlacesAreOrdered
        <5>2. UpTo(ts, m + 1, m + 1)
          BY <1>1, <2>3, PlacesAreOrdered
        <5>3. LatestTo(m + 1, m + 1)
          BY <2>1, <2>3, <5>1, <5>2
        <5> HIDE DEF LatestTo
        <5> QED
          BY <1>1, <2>3, <5>3
      <4>2. CASE UpTo(ts, m + 1, j)
        <5>1. LatestTo(m + 1, j)
          BY <2>1, <3>2, <4>2
        <5> HIDE DEF LatestTo
        <5> QED
          BY <1>1, <3>2, <5>1
      <4> QED
        BY <1>1, <2>3, <4>1, <4>2, PlacesAreOrdered
    <3> QED
      BY <1>3, <3>1, <3>2
  <2> QED
    BY <2>2, <2>3
<1>4. \A m \in 0..Len(ts) : m \in S
  <2>1. \A m \in 0..(Len(ts) - 1) : m \in S => m + 1 \in S
    BY <1>3
  <2> HIDE DEF S
  <2> QED
    BY <1>1, <1>2, <2>1, SetInduction, Zenon
<1>5. PICK j \in C : LatestTo(Len(ts), j)
  <2>1. Len(ts) \in S
    <3> HIDE DEF S
    <3> QED
      BY <1>1, <1>4
  <2>2. \A o \in C : o <= Len(ts)
    BY <1>1
  <2> QED
    BY <2>1, <2>2 DEF C
<1>6. j \in Latest(spec, ts, now)
  <2>1. \A o \in C : UpTo(ts, o, j)
    BY <1>1, <1>5
  <2> QED
    BY <2>1 DEF Latest, UpTo, C
<1> QED
  BY <1>6

\* There is one latest candidate at most, also among receipts that are alike.
LEMMA LatestIsUnique ==
  ASSUME NEW ts, Keyed(ts), NEW spec, NEW now,
         NEW a \in Latest(spec, ts, now), NEW b \in Latest(spec, ts, now)
  PROVE  a = b
<1>1. a \in DOMAIN ts /\ b \in DOMAIN ts /\ UpTo(ts, a, b) /\ UpTo(ts, b, a)
  BY DEF Latest, Candidates, UpTo
<1> QED
  BY <1>1, PlacesAreOrdered

\* us has some of the receipts of ts, in the order they have there.
Excerpt(us, ts, e) == /\ DOMAIN us = 1..Len(us) /\ Len(us) \in Nat
                      /\ \A r \in DOMAIN us : e[r] \in DOMAIN ts /\ us[r] = ts[e[r]]
                      /\ \A a, b \in DOMAIN us : a < b => e[a] < e[b]

\* Leaving out receipts that were not selected leaves what was.
LEMMA SelectionSurvives ==
  ASSUME NEW ts, Keyed(ts), NEW us, NEW e, Excerpt(us, ts, e), NEW spec, NEW now,
         SelectLatest(spec, ts, now) = 0
           \/ \E r \in DOMAIN us : e[r] = SelectLatest(spec, ts, now)
  PROVE  LET at == SelectLatest(spec, ts, now)
             to == SelectLatest(spec, us, now)
         IN (to = 0 <=> at = 0) /\ (to # 0 => us[to] = ts[at])
<1>1. Keyed(us)
  BY DEF Keyed, Excerpt
<1>2. 0 \notin DOMAIN ts /\ 0 \notin DOMAIN us
  BY <1>1 DEF Keyed
<1>3. \A r \in DOMAIN us : r \in Candidates(spec, us, now) => e[r] \in Candidates(spec, ts, now)
  BY DEF Excerpt, Candidates
<1>4. CASE Latest(spec, ts, now) = {}
  <2>1. Candidates(spec, ts, now) = {}
    BY <1>4, LatestExists
  <2>2. Latest(spec, us, now) = {}
    BY <1>3, <2>1 DEF Latest, Candidates
  <2> QED
    BY <1>4, <2>2 DEF SelectLatest
<1>5. CASE Latest(spec, ts, now) # {}
  <2>1. PICK at \in Latest(spec, ts, now) : at = SelectLatest(spec, ts, now)
    BY <1>5 DEF SelectLatest
  <2>2. at \in DOMAIN ts /\ \A o \in Candidates(spec, ts, now) : UpTo(ts, o, at)
    BY DEF Latest, Candidates, UpTo
  <2>3. PICK r \in DOMAIN us : e[r] = at
    BY <1>2, <2>1, <2>2
  <2>4. ASSUME NEW o \in Candidates(spec, us, now)
        PROVE  Precedes(us[o], us[r]) \/ (~Precedes(us[r], us[o]) /\ o <= r)
    <3>1. o \in DOMAIN us
      BY DEF Candidates
    <3>2. UpTo(ts, e[o], e[r])
      BY <1>3, <2>2, <2>3, <3>1
    <3>3. us[o] = ts[e[o]] /\ us[r] = ts[e[r]]
      BY <3>1 DEF Excerpt
    <3>4. e[o] <= e[r] => o <= r
      <4>1. o \in Int /\ r \in Int /\ e[o] \in Int /\ e[r] \in Int
        BY <3>1 DEF Excerpt, Keyed
      <4>2. r < o => e[r] < e[o]
        BY <3>1 DEF Excerpt
      <4> QED
        BY <4>1, <4>2
    <3> QED
      BY <3>2, <3>3, <3>4 DEF UpTo
  <2>5. r \in Latest(spec, us, now)
    <3>1. Candidate(spec, ts[at], now)
      BY DEF Latest, Candidates
    <3>2. r \in Candidates(spec, us, now)
      BY <2>3, <3>1 DEF Candidates, Excerpt
    <3> QED
      BY <2>4, <3>2 DEF Latest
  <2>6. SelectLatest(spec, us, now) = r
    BY <1>1, <2>5, LatestIsUnique DEF SelectLatest
  <2>7. us[r] = ts[at]
    BY <2>3 DEF Excerpt
  <2> QED
    BY <1>2, <2>1, <2>2, <2>6, <2>7
<1> QED
  BY <1>4, <1>5

-----------------------------------------------------------------------------
(* Two lists of receipts on which each measure has the same answer *)

Agree(k, ts, us, now, j) ==
  /\ Answer(k, us, now, j) = 0 <=> Answer(k, ts, now, j) = 0
  /\ Answer(k, us, now, j) # 0 => us[Answer(k, us, now, j)] = ts[Answer(k, ts, now, j)]

\* What is in scope at a measure is decided by the answers up to it.
LEMMA ScopesAgree ==
  ASSUME NEW k, NEW ts, NEW us, NEW now, NEW n \in Nat,
         \A j \in 1..n : k.measure[j].name \in Names /\ Agree(k, ts, us, now, j)
  PROVE  \A j \in 0..n : Scope(k, us, now, j) = Scope(k, ts, now, j)
<1> DEFINE S == {j \in 0..n : Scope(k, us, now, j) = Scope(k, ts, now, j)}
<1>1. 0 \in S
  BY ScopeBegins
<1>2. ASSUME NEW m \in 0..(n - 1), m \in S
      PROVE  m + 1 \in S
  <2>1. m + 1 \in Nat \ {0} /\ m + 1 \in 1..n /\ (m + 1) - 1 = m
    OBVIOUS
  <2>2. k.measure[m + 1].name \in Names /\ Agree(k, ts, us, now, m + 1)
    BY <2>1
  <2>3. CASE Answer(k, ts, now, m + 1) = 0
    <3>1. Answer(k, us, now, m + 1) = 0
      BY <2>2, <2>3 DEF Agree
    <3>2. Scope(k, us, now, m + 1) = Scope(k, us, now, m)
      BY <2>1, <3>1, ScopeStays
    <3>3. Scope(k, ts, now, m + 1) = Scope(k, ts, now, m)
      BY <2>1, <2>3, ScopeStays
    <3> QED
      BY <1>2, <2>1, <3>2, <3>3
  <2>4. CASE Answer(k, ts, now, m + 1) # 0
    <3>1. /\ Answer(k, us, now, m + 1) # 0
          /\ us[Answer(k, us, now, m + 1)] = ts[Answer(k, ts, now, m + 1)]
      BY <2>2, <2>4 DEF Agree
    <3>2. Scope(k, us, now, m + 1) = [Scope(k, us, now, m) EXCEPT
            ![k.measure[m + 1].name] = us[Answer(k, us, now, m + 1)].value]
      BY <2>1, <2>2, <3>1, ScopeGrows
    <3>3. Scope(k, ts, now, m + 1) = [Scope(k, ts, now, m) EXCEPT
            ![k.measure[m + 1].name] = ts[Answer(k, ts, now, m + 1)].value]
      BY <2>1, <2>2, <2>4, ScopeGrows
    <3> QED
      BY <1>2, <2>1, <3>1, <3>2, <3>3
  <2> QED
    BY <2>3, <2>4
<1>3. \A m \in 0..n : m \in S
  <2>1. \A m \in 0..(n - 1) : m \in S => m + 1 \in S
    BY <1>2
  <2> HIDE DEF S
  <2> QED
    BY <1>1, <2>1, SetInduction, Zenon
<1> QED
  BY <1>3

\* Lists of receipts that agree have the same results and the same verdict.
LEMMA VerdictsAgree ==
  ASSUME LoopInv, pc = "done", Accepted(commitment), NEW us,
         \A j \in 1..Len(commitment.measure) : Agree(commitment, tims, us, evalTime, j)
  PROVE  /\ Verdict(commitment, us, evalTime) = decision
         /\ \A j \in DOMAIN assertions :
              Findings(commitment, us, evalTime)[j].result = assertions[j].result
<1> DEFINE n == Len(commitment.measure)
           f == [j \in 1..n |-> Finding(commitment, us, evalTime, j)]
           g == [j \in 1..n |-> Finding(commitment, tims, evalTime, j)]
<1>1. i - 1 = n /\ n \in Nat /\ assertions = g
      /\ decision = Decide(commitment, Aggregate(assertions))
  BY CommitmentsAssumption DEF LoopInv
<1>2. \A j \in 1..n : commitment.measure[j].name \in Names
  BY CommitmentsAssumption DEF LoopInv
<1>3. \A j \in 0..n : Scope(commitment, us, evalTime, j) = Scope(commitment, tims, evalTime, j)
  <2> HIDE DEF n
  <2>1. \A j \in 1..n : commitment.measure[j].name \in Names
                         /\ Agree(commitment, tims, us, evalTime, j)
    BY <1>2 DEF n
  <2>2. n \in Nat
    BY <1>1
  <2> QED
    BY <2>1, <2>2, ScopesAgree
<1>4. ASSUME NEW j \in 1..n PROVE f[j].result = g[j].result
  <2>1. j \in 0..n
    BY <1>1
  <2>2. Scope(commitment, us, evalTime, j) = Scope(commitment, tims, evalTime, j)
    BY <1>3, <2>1
  <2>3. Answer(commitment, us, evalTime, j) = 0 <=> Answer(commitment, tims, evalTime, j) = 0
    BY DEF Agree
  <2> QED
    BY <2>2, <2>3 DEF Finding
<1> HIDE DEF n
<1>5. Aggregate(f) = Aggregate(g)
  BY <1>1, <1>4, OutcomeOfResults
<1>6. Findings(commitment, us, evalTime) = f
  BY DEF Findings, n
<1> QED
  BY <1>1, <1>4, <1>5, <1>6 DEF Verdict

\* The Decision does not depend on the order the receipts are given in, whatever
\* the commitment, the receipts and the time: only that no two receipts share
\* their time, lamport, identity and cid (kernel.ts:104-112).
THEOREM OrderDecidesNothing == KernelSpec => []OrderIndependent
<1>1. LoopInv => OrderIndependent
  <2> SUFFICES ASSUME LoopInv, pc = "done", Accepted(commitment), Distinct(tims),
                      NEW us \in Shuffles(tims)
               PROVE  Verdict(commitment, us, evalTime) = decision
    BY DEF OrderIndependent
  <2>1. Ranked(tims)
    <3>1. \A p \in DOMAIN tims : tims[p].ts.text \in Int
      BY EvidenceAssumption DEF LoopInv, Instants
    <3> QED
      BY <3>1, EvidenceAssumption DEF LoopInv, Ranked, Keyed
  <2>2. PICK p : Shuffled(tims, us, p)
    BY DEF Shuffles, Shuffled
  <2>3. \A j \in 1..Len(commitment.measure) : Agree(commitment, tims, us, evalTime, j)
    BY <2>1, <2>2, SelectionFollows DEF Agree, Answer
  <2> QED
    BY <2>3, VerdictsAgree
<1> QED
  BY <1>1, LoopHolds, PTL

\* A Decision can be replayed from the receipts its results cite, and from no
\* others, whatever the commitment, the receipts and the time (kernel.ts:192).
THEOREM CitationsSuffice == KernelSpec => []ReplaysFromInputs
<1>1. LoopInv => ReplaysFromInputs
  <2> SUFFICES ASSUME LoopInv, pc = "done", Accepted(commitment),
                      \A p \in Cited : tims[p].cid # 0
               PROVE  /\ \A j \in DOMAIN assertions :
                           Findings(commitment, CitedReceipts, evalTime)[j].result
                             = assertions[j].result
                      /\ Verdict(commitment, CitedReceipts, evalTime) = decision
    BY DEF ReplaysFromInputs
  <2> DEFINE us == CitedReceipts
             e == InOrder(Cited)
  <2>1. Keyed(tims)
    <3>1. \A p \in DOMAIN tims : tims[p].ts.text \in Int
      BY EvidenceAssumption DEF LoopInv, Instants
    <3> QED
      BY <3>1, EvidenceAssumption DEF LoopInv, Keyed
  <2>2. /\ i - 1 = Len(commitment.measure) /\ Len(commitment.measure) \in Nat
        /\ DOMAIN assertions = 1..Len(commitment.measure)
        /\ \A j \in 1..Len(commitment.measure) :
             assertions[j].input = Answer(commitment, tims, evalTime, j)
    BY CommitmentsAssumption DEF LoopInv, Finding
  <2>3. Cited \subseteq DOMAIN tims
    BY <2>2, SelectedIsCandidate DEF Cited, Answer
  <2>4. Cited \subseteq Nat /\ IsFiniteSet(Cited)
    <3>1. DOMAIN tims = 1..Len(tims) /\ Len(tims) \in Nat
      BY <2>1 DEF Keyed
    <3>2. IsFiniteSet(1..Len(tims))
      BY <3>1, FS_Interval
    <3>3. Cited \in SUBSET (1..Len(tims))
      BY <2>3, <3>1
    <3>4. IsFiniteSet(Cited)
      BY <3>2, <3>3, FS_Subset
    <3> QED
      BY <3>1, <3>3, <3>4
  <2>5. /\ Cardinality(Cited) \in Nat /\ e \in [1..Cardinality(Cited) -> Cited]
        /\ \A p \in Cited : \E r \in 1..Cardinality(Cited) : e[r] = p
        /\ \A a, b \in 1..Cardinality(Cited) : a < b => e[a] < e[b]
    BY <2>4, PlacesInOrder
  <2>6. us = [r \in DOMAIN e |-> tims[e[r]]]
    <3>1. {p \in Cited : tims[p].cid # 0} = Cited
      OBVIOUS
    <3> QED
      BY <3>1 DEF CitedReceipts
  <2> HIDE DEF us, e
  <2>7. Excerpt(us, tims, e) /\ DOMAIN us = 1..Cardinality(Cited)
    <3> DEFINE m == Cardinality(Cited)
               T == {tims[p] : p \in Cited}
    <3>1. us = [r \in 1..m |-> tims[e[r]]]
      BY <2>5, <2>6
    <3>2. \A r \in 1..m : us[r] \in T /\ e[r] \in Cited
      BY <2>5, <3>1
    <3> HIDE DEF m, T
    <3>3. us \in Seq(T) /\ Len(us) = m
      BY <2>5, <3>1, <3>2 DEF m
    <3> QED
      BY <2>3, <2>5, <3>1, <3>2, <3>3 DEF Excerpt, m
  <2>8. ASSUME NEW j \in 1..Len(commitment.measure)
        PROVE  Agree(commitment, tims, us, evalTime, j)
    <3>1. Answer(commitment, tims, evalTime, j) = 0
            \/ Answer(commitment, tims, evalTime, j) \in Cited
      BY <2>2 DEF Cited
    <3> DEFINE spec == commitment.measure[j]
               at == SelectLatest(spec, tims, evalTime)
               to == SelectLatest(spec, us, evalTime)
    <3>2. at = 0 \/ \E r \in DOMAIN us : e[r] = at
      BY <2>5, <2>7, <3>1 DEF Answer
    <3> HIDE DEF spec
    <3>3. Excerpt(us, tims, e)
      BY <2>7
    <3>4. (to = 0 <=> at = 0) /\ (to # 0 => us[to] = tims[at])
      BY <2>1, <3>2, <3>3, SelectionSurvives
    <3> QED
      BY <3>4 DEF Agree, Answer, spec
  <2> QED
    BY <2>8, VerdictsAgree DEF us
<1> QED
  BY <1>1, LoopHolds, PTL
=============================================================================
