---------------------------- MODULE ToolGateProofs ----------------------------
(***************************************************************************)
(* What is proved of the policy gate, for any policies and calls: a call   *)
(* is approved exactly when its rule permits it, one call after another.   *)
(***************************************************************************)
EXTENDS ToolGate, KernelProofs

-----------------------------------------------------------------------------
(* Sequences *)

\* A function on 1..n is a sequence of n.
LEMMA FunctionIsSequence ==
  ASSUME NEW n \in Nat, NEW s, s = [j \in 1..n |-> s[j]]
  PROVE  s \in Seq({s[j] : j \in 1..n}) /\ Len(s) = n
<1> DEFINE T == {s[j] : j \in 1..n}
<1>1. s \in [1..n -> T]
  OBVIOUS
<1> HIDE DEF T
<1> QED
  BY <1>1 DEF T

\* A first element, then those of a function on 1..n.
LEMMA FirstThenRest ==
  ASSUME NEW x, NEW n \in Nat, NEW s, s = [j \in 1..n |-> s[j]]
  PROVE  /\ Len(<<x>> \o s) = n + 1 /\ DOMAIN (<<x>> \o s) = 1..(n + 1)
         /\ (<<x>> \o s)[1] = x
         /\ \A j \in 1..n : (<<x>> \o s)[j + 1] = s[j]
<1> DEFINE T == {s[j] : j \in 1..n} \cup {x}
<1>1. s \in Seq(T) /\ Len(s) = n
  <2>1. s \in Seq({s[j] : j \in 1..n}) /\ Len(s) = n
    BY FunctionIsSequence
  <2> QED
    BY <2>1
<1>2. <<x>> \in Seq(T) /\ Len(<<x>>) = 1
  OBVIOUS
<1> HIDE DEF T
<1>3. <<x>> \o s \in Seq(T) /\ Len(<<x>> \o s) = n + 1
  BY <1>1, <1>2
<1> QED
  BY <1>1, <1>2, <1>3

-----------------------------------------------------------------------------
(* The commitment of a rule, and the evidence of a call *)

ToolTest(r) == IF r.tool = Star THEN <<Cmp("tool", "!=", String(Empty))>>
               ELSE <<Cmp("tool", "==", String(r.tool))>>

\* The measures of a rule: the tool, then the rule's keys.
LEMMA MeasuresOfRule ==
  ASSUME NEW r, Listed(r.where)
  PROVE  LET m == CompileRule(r).measure IN
         /\ Len(m) = Len(r.where) + 1 /\ m[1] = MeasureSpec("tool", ToolTest(r))
         /\ \A j \in 1..Len(r.where) :
              m[j + 1] = MeasureSpec(r.where[j].sym, r.where[j].assert)
<1> DEFINE n == Len(r.where)
           s == [j \in DOMAIN r.where |-> MeasureSpec(r.where[j].sym, r.where[j].assert)]
           x == MeasureSpec("tool", ToolTest(r))
<1>1. n \in Nat /\ s = [j \in 1..n |-> s[j]]
  BY DEF Listed
<1>2. \A j \in 1..n : s[j] = MeasureSpec(r.where[j].sym, r.where[j].assert)
  BY DEF Listed
<1>3. CompileRule(r).measure = <<x>> \o s
  BY DEF CompileRule, ToolTest
<1> HIDE DEF n, s, x
<1>4. /\ Len(<<x>> \o s) = n + 1 /\ (<<x>> \o s)[1] = x
      /\ \A j \in 1..n : (<<x>> \o s)[j + 1] = s[j]
  BY <1>1, FirstThenRest
<1> QED
  BY <1>2, <1>3, <1>4 DEF n, x

\* The arguments receipts are made of.
Told(c) == {a \in DOMAIN c.args : Tells(c.args, a)}

\* The evidence of a call: the tool's receipt, then one for each argument that
\* tells something.
LEMMA EvidenceOfCall ==
  ASSUME NEW c, Listed(c.args), NEW now
  PROVE  LET ts == BuildEvidence(c, now)
             at == InOrder(Told(c))
             n  == Cardinality(Told(c))
         IN /\ n \in Nat /\ DOMAIN ts = 1..(n + 1)
            /\ ts[1] = Receipt(now, 1, "tool", String(c.tool))
            /\ \A q \in 1..n :
                 /\ at[q] \in Told(c)
                 /\ ts[q + 1] = Receipt(now, at[q] + 1, c.args[at[q]].name.sym,
                                        c.args[at[q]].value)
            /\ \A a \in Told(c) : \E q \in 1..n : at[q] = a
            /\ \A q, o \in 1..n : at[q] = at[o] => q = o
<1> DEFINE at == InOrder(Told(c))
           n == Cardinality(Told(c))
           x == Receipt(now, 1, "tool", String(c.tool))
           s == [q \in DOMAIN at |-> Receipt(now, at[q] + 1, c.args[at[q]].name.sym,
                                             c.args[at[q]].value)]
<1>1. Told(c) \subseteq Nat /\ IsFiniteSet(Told(c))
  <2>1. IsFiniteSet(1..Len(c.args)) /\ Told(c) \in SUBSET (1..Len(c.args))
    BY FS_Interval DEF Listed, Told
  <2>2. IsFiniteSet(Told(c))
    BY <2>1, FS_Subset
  <2> QED
    BY <2>1, <2>2 DEF Listed
<1>2. /\ n \in Nat /\ at \in [1..n -> Told(c)]
      /\ \A a \in Told(c) : \E q \in 1..n : at[q] = a
      /\ \A q, o \in 1..n : q < o => at[q] < at[o]
  BY <1>1, PlacesInOrder
<1>3. BuildEvidence(c, now) = <<x>> \o s
  BY DEF BuildEvidence, Told
<1> HIDE DEF at, n, x
<1>4. /\ s = [q \in 1..n |-> s[q]]
      /\ \A q \in 1..n : s[q] = Receipt(now, at[q] + 1, c.args[at[q]].name.sym,
                                        c.args[at[q]].value)
  BY <1>2
<1>5. \A q, o \in 1..n : at[q] = at[o] => q = o
  <2>1. \A q \in 1..n : at[q] \in Nat /\ q \in Nat
    BY <1>1, <1>2
  <2>2. \A q, o \in 1..n : at[q] = at[o] => ~(q < o) /\ ~(o < q)
    BY <1>2, <2>1
  <2> QED
    BY <2>1, <2>2
<1> HIDE DEF s
<1>6. /\ DOMAIN (<<x>> \o s) = 1..(n + 1) /\ (<<x>> \o s)[1] = x
      /\ \A q \in 1..n : (<<x>> \o s)[q + 1] = s[q]
  BY <1>2, <1>4, FirstThenRest
<1>7. \A q \in 1..n : at[q] \in Told(c)
  BY <1>2
<1> QED
  BY <1>2, <1>3, <1>4, <1>5, <1>6, <1>7 DEF x, at, n

-----------------------------------------------------------------------------
(* The receipt that answers a measure of a rule *)

\* A measure of a rule is answered by the receipts with its symbol.
LEMMA CandidateBySymbol ==
  ASSUME NEW now, NEW cid, NEW code, NEW value, NEW sym, NEW ast
  PROVE  Candidate(MeasureSpec(sym, ast), Receipt(now, cid, code, value), now) <=> code = sym
<1>1. WithinWindow(now, [start |-> None, end |-> None, maxAge |-> None], now)
  BY DEF WithinWindow
<1> QED
  BY <1>1 DEF Candidate, MeasureSpec, Receipt

\* What is there to select, when there is one candidate or none.
LEMMA OneCandidate ==
  ASSUME NEW ts, Keyed(ts), NEW spec, NEW now
  PROVE  /\ Candidates(spec, ts, now) = {} => SelectLatest(spec, ts, now) = 0
         /\ \A q : Candidates(spec, ts, now) = {q} => SelectLatest(spec, ts, now) = q
<1>1. Latest(spec, ts, now) \subseteq Candidates(spec, ts, now)
  BY DEF Latest
<1>2. Candidates(spec, ts, now) # {} => Latest(spec, ts, now) # {}
  BY LatestExists
<1> QED
  BY <1>1, <1>2 DEF SelectLatest

\* The receipts of evidence have their keys.
LEMMA EvidenceIsKeyed ==
  ASSUME NEW ts \in Evidence
  PROVE  Keyed(ts)
<1>1. \A p \in DOMAIN ts : ts[p].ts.text \in Int
  BY EvidenceAssumption DEF Instants
<1> QED
  BY <1>1, EvidenceAssumption DEF Keyed

\* The tool's receipt answers the measure of the tool.
LEMMA ToolIsAnswered ==
  ASSUME NEW c \in Calls, NEW now \in Times, NEW ast
  PROVE  SelectLatest(MeasureSpec("tool", ast), BuildEvidence(c, now), now) = 1
<1> DEFINE ts == BuildEvidence(c, now)
           at == InOrder(Told(c))
           n == Cardinality(Told(c))
           C == Candidates(MeasureSpec("tool", ast), ts, now)
<1>1. /\ n \in Nat /\ DOMAIN ts = 1..(n + 1)
      /\ ts[1] = Receipt(now, 1, "tool", String(c.tool))
      /\ \A q \in 1..n :
           /\ at[q] \in Told(c)
           /\ ts[q + 1] = Receipt(now, at[q] + 1, c.args[at[q]].name.sym, c.args[at[q]].value)
  BY GateAssumption, EvidenceOfCall
<1>2. \A q \in 1..n : c.args[at[q]].name.sym # "tool"
  BY <1>1 DEF Told, Tells, Reserved
<1>3. Keyed(ts)
  BY GateAssumption, EvidenceIsKeyed
<1> HIDE DEF ts, at, n
<1>4. \A p \in DOMAIN ts : p = 1 \/ \E q \in 1..n : p = q + 1
  <2>1. \A p \in 1..(n + 1) : p = 1 \/ (p - 1 \in 1..n /\ p = (p - 1) + 1)
    BY <1>1
  <2> QED
    BY <1>1, <2>1
<1>5. \A p \in DOMAIN ts : Candidate(MeasureSpec("tool", ast), ts[p], now) <=> p = 1
  <2>1. Candidate(MeasureSpec("tool", ast), ts[1], now)
    BY <1>1, CandidateBySymbol
  <2>2. \A q \in 1..n : ~Candidate(MeasureSpec("tool", ast), ts[q + 1], now) /\ q + 1 # 1
    <3> SUFFICES ASSUME NEW q \in 1..n
                 PROVE  ~Candidate(MeasureSpec("tool", ast), ts[q + 1], now) /\ q + 1 # 1
      OBVIOUS
    <3>1. ts[q + 1] = Receipt(now, at[q] + 1, c.args[at[q]].name.sym, c.args[at[q]].value)
      BY <1>1
    <3>2. ~Candidate(MeasureSpec("tool", ast), ts[q + 1], now)
      BY <1>2, <3>1, CandidateBySymbol
    <3> QED
      BY <1>1, <3>2
  <2> QED
    BY <1>4, <2>1, <2>2
<1>6. C = {1}
  BY <1>1, <1>5 DEF Candidates
<1> QED
  BY <1>3, <1>6, OneCandidate DEF ts

\* A key of a rule is answered when it stands for an argument, and with the value
\* of that argument.
LEMMA KeyIsAnswered ==
  ASSUME NEW c \in Calls, NEW now \in Times, NEW sym, sym \notin Reserved, NEW ast
  PROVE  LET ts == BuildEvidence(c, now)
             to == SelectLatest(MeasureSpec(sym, ast), ts, now)
         IN /\ to = 0 <=> Stands(c.args, sym) = {}
            /\ to # 0 => ts[to].value = c.args[CHOOSE a \in Stands(c.args, sym) : TRUE].value
<1> DEFINE ts == BuildEvidence(c, now)
           at == InOrder(Told(c))
           n == Cardinality(Told(c))
           spec == MeasureSpec(sym, ast)
           A == Stands(c.args, sym)
<1>1. /\ n \in Nat /\ DOMAIN ts = 1..(n + 1)
      /\ ts[1] = Receipt(now, 1, "tool", String(c.tool))
      /\ \A q \in 1..n :
           /\ at[q] \in Told(c)
           /\ ts[q + 1] = Receipt(now, at[q] + 1, c.args[at[q]].name.sym, c.args[at[q]].value)
      /\ \A a \in Told(c) : \E q \in 1..n : at[q] = a
      /\ \A q, o \in 1..n : at[q] = at[o] => q = o
  BY GateAssumption, EvidenceOfCall
<1>2. \A a : a \in A <=> a \in Told(c) /\ c.args[a].name.sym = sym
  BY DEF Told, Tells, Stands
<1>3. \A a, b \in A : a = b
  BY DEF Stands
<1>4. Keyed(ts)
  BY GateAssumption, EvidenceIsKeyed
<1> HIDE DEF ts, at, n, A
<1>5. \A p \in DOMAIN ts : p = 1 \/ (p - 1 \in 1..n /\ p = (p - 1) + 1)
  BY <1>1
<1>6. ~Candidate(spec, ts[1], now)
  BY <1>1, CandidateBySymbol DEF Reserved
<1>7. \A q \in 1..n : Candidate(spec, ts[q + 1], now) <=> at[q] \in A
  BY <1>1, <1>2, CandidateBySymbol
<1> HIDE DEF spec
<1>8. CASE A = {}
  <2>1. Candidates(spec, ts, now) = {}
    BY <1>5, <1>6, <1>7, <1>8 DEF Candidates
  <2> QED
    BY <1>4, <1>8, <2>1, OneCandidate DEF ts, A, spec
<1>9. CASE A # {}
  <2>1. PICK a \in A : a = CHOOSE b \in A : TRUE
    BY <1>9
  <2>2. PICK q \in 1..n : at[q] = a
    BY <1>1, <1>2
  <2>3. Candidates(spec, ts, now) = {q + 1}
    <3>1. q + 1 \in DOMAIN ts /\ Candidate(spec, ts[q + 1], now)
      BY <1>1, <1>7, <2>2
    <3>2. ASSUME NEW p \in DOMAIN ts, Candidate(spec, ts[p], now) PROVE p = q + 1
      <4>1. p # 1 /\ p - 1 \in 1..n /\ p = (p - 1) + 1
        BY <1>5, <1>6, <3>2
      <4>2. at[p - 1] \in A
        BY <1>7, <3>2, <4>1
      <4>3. at[p - 1] = at[q]
        BY <1>3, <2>2, <4>2
      <4>4. p - 1 = q
        BY <1>1, <4>1, <4>3
      <4> QED
        BY <4>1, <4>4
    <3> QED
      BY <3>1, <3>2 DEF Candidates
  <2>4. SelectLatest(spec, ts, now) = q + 1
    BY <1>4, <2>3, OneCandidate
  <2>5. q + 1 # 0 /\ ts[q + 1].value = c.args[a].value
    <3>1. ts[q + 1] = Receipt(now, at[q] + 1, c.args[at[q]].name.sym, c.args[at[q]].value)
      BY <1>1
    <3>2. ts[q + 1].value = c.args[at[q]].value
      BY <3>1 DEF Receipt
    <3> QED
      BY <1>1, <2>2, <3>2
  <2> QED
    BY <1>9, <2>1, <2>4, <2>5 DEF ts, A, spec
<1> QED
  BY <1>8, <1>9

-----------------------------------------------------------------------------
(* The verdict on a rule *)

\* What the rules of a valid policy are.
Fits(r) ==
  /\ Listed(r.where) /\ CompileRule(r) \in Commitments
  /\ \A a, b \in DOMAIN r.where : /\ r.where[a].sym \in Names \ Reserved
                                  /\ r.where[a].sym = r.where[b].sym => a = b

\* The answers to the measures of a rule.
LEMMA RuleIsAnswered ==
  ASSUME NEW r, Fits(r), NEW c \in Calls, NEW now \in Times
  PROVE  LET k    == CompileRule(r)
             ts   == BuildEvidence(c, now)
             A(j) == Answer(k, ts, now, j + 1)
         IN /\ k.measure[1].name = "tool" /\ Answer(k, ts, now, 1) = 1
            /\ ts[1].value = String(c.tool)
            /\ \A j \in 1..Len(r.where) :
                 /\ k.measure[j + 1].name = r.where[j].sym
                 /\ A(j) = 0 <=> Stands(c.args, r.where[j].sym) = {}
                 /\ A(j) # 0 => ts[A(j)].value
                      = c.args[CHOOSE a \in Stands(c.args, r.where[j].sym) : TRUE].value
<1> DEFINE k == CompileRule(r)
           ts == BuildEvidence(c, now)
<1>1. /\ k.measure[1] = MeasureSpec("tool", ToolTest(r))
      /\ \A j \in 1..Len(r.where) :
           k.measure[j + 1] = MeasureSpec(r.where[j].sym, r.where[j].assert)
  BY MeasuresOfRule DEF Fits
<1>2. ts[1].value = String(c.tool)
  <2>1. ts[1] = Receipt(now, 1, "tool", String(c.tool))
    BY GateAssumption, EvidenceOfCall
  <2> QED
    BY <2>1 DEF Receipt
<1>3. SelectLatest(MeasureSpec("tool", ToolTest(r)), ts, now) = 1
  BY ToolIsAnswered
<1> HIDE DEF k
<1>4. k.measure[1].name = "tool" /\ Answer(k, ts, now, 1) = 1
  BY <1>1, <1>3 DEF MeasureSpec, Answer
<1>5. ASSUME NEW j \in 1..Len(r.where)
      PROVE  LET to == Answer(k, ts, now, j + 1)
             IN /\ k.measure[j + 1].name = r.where[j].sym
                /\ to = 0 <=> Stands(c.args, r.where[j].sym) = {}
                /\ to # 0 => ts[to].value
                     = c.args[CHOOSE a \in Stands(c.args, r.where[j].sym) : TRUE].value
  <2> DEFINE sym == r.where[j].sym
             ast == r.where[j].assert
             to == SelectLatest(MeasureSpec(sym, ast), ts, now)
  <2>1. sym \notin Reserved
    BY DEF Fits, Listed
  <2>2. /\ to = 0 <=> Stands(c.args, sym) = {}
        /\ to # 0 => ts[to].value = c.args[CHOOSE a \in Stands(c.args, sym) : TRUE].value
    BY <2>1, KeyIsAnswered, ZenonT(30)
  <2>3. k.measure[j + 1] = MeasureSpec(sym, ast)
    BY <1>1
  <2>4. k.measure[j + 1].name = sym /\ Answer(k, ts, now, j + 1) = to
    BY <2>3 DEF MeasureSpec, Answer
  <2> QED
    BY <2>2, <2>4
<1> QED
  BY <1>2, <1>4, <1>5 DEF k

\* What is in scope at a key of a rule is what the call has told up to it.
LEMMA ScopeIsKnown ==
  ASSUME NEW r, Fits(r), NEW c \in Calls, NEW now \in Times, NEW j \in 0..Len(r.where)
  PROVE  Scope(CompileRule(r), BuildEvidence(c, now), now, j + 1) = Known(r, c, j)
<1> DEFINE k == CompileRule(r)
           ts == BuildEvidence(c, now)
           B(n) == Binders(k, ts, now, j + 1, n)
           S(n) == IF B(n) = {} THEN Unbound ELSE ts[Answer(k, ts, now, LastOf(B(n)))].value
           Value(n) == c.args[CHOOSE a \in Stands(c.args, n) : TRUE].value
           K(n) == IF n = "tool" THEN String(c.tool)
                   ELSE IF \E m \in 1..j : r.where[m].sym = n /\ Stands(c.args, n) # {}
                   THEN Value(n) ELSE Unbound
<1>1. /\ k.measure[1].name = "tool" /\ Answer(k, ts, now, 1) = 1
      /\ ts[1].value = String(c.tool)
      /\ \A m \in 1..Len(r.where) :
           /\ k.measure[m + 1].name = r.where[m].sym
           /\ Answer(k, ts, now, m + 1) = 0 <=> Stands(c.args, r.where[m].sym) = {}
           /\ Answer(k, ts, now, m + 1) # 0
                => ts[Answer(k, ts, now, m + 1)].value = Value(r.where[m].sym)
  BY RuleIsAnswered, ZenonT(30)
<1>2. /\ Len(r.where) \in Nat
      /\ \A m \in 1..Len(r.where) : r.where[m].sym # "tool"
      /\ \A m, o \in 1..Len(r.where) : r.where[m].sym = r.where[o].sym => m = o
  BY DEF Fits, Listed, Reserved
<1>3. \A m \in 1..(j + 1) : m = 1 \/ (m - 1 \in 1..j /\ m - 1 \in 1..Len(r.where) /\ m = (m - 1) + 1)
  BY <1>2
<1>4. \A o : LastOf({o}) = o
  BY DEF LastOf
<1> HIDE DEF k, ts, Value
<1>5. S("tool") = K("tool")
  <2>1. B("tool") = {1}
    <3>1. \A m \in 1..(j + 1) : k.measure[m].name = "tool" <=> m = 1
      <4>1. \A m \in 1..Len(r.where) : k.measure[m + 1].name # "tool"
        BY <1>1, <1>2
      <4> QED
        BY <1>1, <1>3, <4>1
    <3> QED
      BY <1>1, <3>1 DEF Binders
  <2> QED
    BY <1>1, <1>4, <2>1
<1>6. ASSUME NEW n \in Names, n # "tool" PROVE S(n) = K(n)
  <2>1. CASE \E m \in 1..j : r.where[m].sym = n /\ Stands(c.args, n) # {}
    <3>1. PICK m \in 1..j : r.where[m].sym = n /\ Stands(c.args, n) # {}
      BY <2>1
    <3>2. m \in 1..Len(r.where) /\ m + 1 \in 1..(j + 1)
      BY <1>2
    <3>3. /\ k.measure[m + 1].name = n /\ Answer(k, ts, now, m + 1) # 0
          /\ ts[Answer(k, ts, now, m + 1)].value = Value(n)
      BY <1>1, <3>1, <3>2
    <3>4. \A o \in 1..(j + 1) : k.measure[o].name = n => o = m + 1
      <4> SUFFICES ASSUME NEW o \in 1..(j + 1), k.measure[o].name = n PROVE o = m + 1
        OBVIOUS
      <4>1. o - 1 \in 1..Len(r.where) /\ o = (o - 1) + 1
        BY <1>1, <1>3, <1>6
      <4>2. r.where[o - 1].sym = n
        BY <1>1, <4>1
      <4>3. o - 1 = m
        BY <1>2, <3>1, <3>2, <4>1, <4>2
      <4> QED
        BY <4>1, <4>3
    <3>5. B(n) = {m + 1}
      BY <3>2, <3>3, <3>4 DEF Binders
    <3> QED
      BY <1>4, <1>6, <2>1, <3>3, <3>5
  <2>2. CASE ~ \E m \in 1..j : r.where[m].sym = n /\ Stands(c.args, n) # {}
    <3>1. ASSUME NEW o \in 1..(j + 1), k.measure[o].name = n
          PROVE  Answer(k, ts, now, o) = 0
      <4>1. o - 1 \in 1..j /\ o - 1 \in 1..Len(r.where) /\ o = (o - 1) + 1
        BY <1>1, <1>3, <1>6, <3>1
      <4>2. r.where[o - 1].sym = n
        BY <1>1, <3>1, <4>1
      <4>3. Stands(c.args, n) = {}
        BY <2>2, <4>1, <4>2
      <4> QED
        BY <1>1, <4>1, <4>2, <4>3
    <3>2. B(n) = {}
      BY <3>1 DEF Binders
    <3> QED
      BY <1>6, <2>2, <3>2
  <2> QED
    BY <2>1, <2>2
<1>7. \A n \in Names : S(n) = K(n)
  BY <1>5, <1>6
<1>8. Scope(k, ts, now, j + 1) = [n \in Names |-> S(n)]
  BY DEF Scope
<1>9. Known(r, c, j) = [n \in Names |-> K(n)]
  BY DEF Known, Value
<1> HIDE DEF S, K
<1> QED
  BY <1>7, <1>8, <1>9 DEF k, ts

\* A rule's commitment is accepted, and approves on a pass and on nothing else.
LEMMA RuleApprovesOnPass ==
  ASSUME NEW r, NEW o
  PROVE  /\ Accepted(CompileRule(r))
         /\ Decide(CompileRule(r), o).status = "APPROVED" <=> o = "PASS"
<1> DEFINE k == CompileRule(r)
<1>1. k.arrays /\ k.consequence = <<[if |-> "PASS", hasThen |-> TRUE, then |-> <<Control>>]>>
  BY DEF CompileRule
<1> HIDE DEF k
<1>2. Flaws(k) = {}
  BY <1>1, GateAssumption DEF Flaws, Flawed
<1>3. Authorized(k, "PASS") = <<Control>>
  <2>1. DOMAIN k.consequence = {1}
    BY <1>1
  <2>2. {j \in DOMAIN k.consequence : k.consequence[j].if = "PASS"} = {1}
    BY <1>1, <2>1
  <2>3. \A j \in {1} : j <= j
    OBVIOUS
  <2>4. (CHOOSE j \in {1} : \A p \in {1} : j <= p) = 1
    BY <2>3
  <2> QED
    BY <1>1, <2>2, <2>4 DEF Authorized
<1>4. <<Control>> # <<>>
  OBVIOUS
<1>5. Decide(k, o).status = "APPROVED" <=> o = "PASS"
  BY <1>3, <1>4 DEF Decide, Rejected
<1> QED
  BY <1>1, <1>2, <1>5 DEF Accepted, k

\* The test of the tool passes when the rule is the tool's or any tool's.
LEMMA ToolPasses ==
  ASSUME NEW r, NEW c, r.tool \in {c.tool, Star}, c.tool # Empty, NEW s,
         s["tool"] = String(c.tool)
  PROVE  EvaluateAssertion(ToolTest(r), s) = "PASS"
<1> DEFINE ast == ToolTest(r)
           node == IF r.tool = Star THEN Cmp("tool", "!=", String(Empty))
                   ELSE Cmp("tool", "==", String(r.tool))
<1>1. ast = <<node>>
  BY DEF ToolTest
<1>2. /\ node.k = "cmp" /\ node.sym = "tool"
      /\ \/ node.op = "!=" /\ node.val = String(Empty)
         \/ node.op = "==" /\ node.val = String(c.tool)
  BY DEF Cmp
<1> HIDE DEF ast, node
<1>3. Len(ast) = 1 /\ DOMAIN ast = 1..1 /\ ast[1] = node
  BY <1>1
<1>4. Expression(ast)
  BY <1>2, <1>3, GateAssumption DEF Expression
<1>5. EvalAst(ast, s) = EvalNode(ast, s, EvalNodes(ast, s), 1)
  <2>1. 1 \in DOMAIN ast
    BY <1>3
  <2>2. EvalNodes(ast, s)[1] = EvalNode(ast, s, EvalNodes(ast, s), 1)
    BY <1>4, <2>1, NodesHaveResults
  <2> QED
    BY <1>3, <2>2 DEF EvalAst
<1>6. String(c.tool).type = "string" /\ String(c.tool) # Unbound
  BY DEF String, Unbound
<1>7. EvalNode(ast, s, EvalNodes(ast, s), 1) = EvalCmp(node, Lookup(s, "tool"))
  BY <1>2, <1>3 DEF EvalNode
<1>8. Lookup(s, "tool") = String(c.tool)
  BY <1>6 DEF Lookup
<1>9. EvalCmp(node, String(c.tool)) = Bool(Compare(String(c.tool), node.op, node.val))
  <2>1. ~Mismatch(String(c.tool), node.op, node.val)
    BY <1>2 DEF Mismatch, String
  <2> QED
    BY <1>6, <2>1 DEF EvalCmp
<1>10. Compare(String(c.tool), node.op, node.val)
  <2>1. String(c.tool) # String(Empty)
    BY DEF String
  <2> QED
    BY <1>2, <2>1 DEF Compare
<1>11. ast # <<>>
  BY <1>3
<1> QED
  BY <1>5, <1>7, <1>8, <1>9, <1>10, <1>11 DEF EvaluateAssertion, Bool, ast

\* All the findings on a rule are passes when the rule permits the call.
LEMMA PassIsPermission ==
  ASSUME NEW r, Fits(r), NEW c \in Calls, NEW now \in Times,
         r.tool \in {c.tool, Star}, c.tool # Empty
  PROVE  Aggregate(Findings(CompileRule(r), BuildEvidence(c, now), now)) = "PASS"
           <=> Permits(r, c)
<1> DEFINE k == CompileRule(r)
           ts == BuildEvidence(c, now)
           F(j) == Finding(k, ts, now, j)
           n == Len(r.where)
<1>1. /\ n \in Nat /\ DOMAIN r.where = 1..n /\ Len(k.measure) = n + 1
      /\ k.measure[1] = MeasureSpec("tool", ToolTest(r))
      /\ \A j \in 1..n : k.measure[j + 1] = MeasureSpec(r.where[j].sym, r.where[j].assert)
  BY MeasuresOfRule DEF Fits, Listed
<1>2. /\ Answer(k, ts, now, 1) = 1
      /\ \A j \in 1..n : Answer(k, ts, now, j + 1) = 0 <=> Stands(c.args, r.where[j].sym) = {}
  BY RuleIsAnswered
<1>3. \A j \in 0..n : Scope(k, ts, now, j + 1) = Known(r, c, j)
  BY ScopeIsKnown
<1> HIDE DEF k, ts, n
<1>4. F(1).result = "PASS"
  <2>1. Scope(k, ts, now, 1) = Known(r, c, 0)
    <3>1. 0 \in 0..n /\ 0 + 1 = 1
      BY <1>1
    <3> QED
      BY <1>3, <3>1
  <2>2. Known(r, c, 0)["tool"] = String(c.tool)
    BY GateAssumption DEF Known
  <2>3. EvaluateAssertion(ToolTest(r), Scope(k, ts, now, 1)) = "PASS"
    BY <2>1, <2>2, ToolPasses
  <2> QED
    BY <1>1, <1>2, <2>3 DEF Finding, MeasureSpec
<1>5. ASSUME NEW j \in 1..n
      PROVE  F(j + 1).result = "PASS" <=>
               /\ Stands(c.args, r.where[j].sym) # {}
               /\ EvaluateAssertion(r.where[j].assert, Known(r, c, j)) = "PASS"
  <2>1. Scope(k, ts, now, j + 1) = Known(r, c, j)
    BY <1>1, <1>3
  <2>2. k.measure[j + 1].assert = r.where[j].assert
    <3>1. k.measure[j + 1] = MeasureSpec(r.where[j].sym, r.where[j].assert)
      BY <1>1
    <3> QED
      BY <3>1 DEF MeasureSpec
  <2> QED
    BY <1>2, <2>1, <2>2 DEF Finding
<1> HIDE DEF F
<1>6. \A j \in 1..(n + 1) : j = 1 \/ (j - 1 \in 1..n /\ j = (j - 1) + 1)
  BY <1>1
<1>7. (\A j \in 1..(n + 1) : F(j).result = "PASS") <=> Permits(r, c)
  <2>1. (\A j \in 1..(n + 1) : F(j).result = "PASS") <=> \A j \in 1..n : F(j + 1).result = "PASS"
    <3>1. \A j \in 1..n : j + 1 \in 1..(n + 1)
      BY <1>1
    <3>2. ASSUME NEW j \in 1..(n + 1), \A m \in 1..n : F(m + 1).result = "PASS"
          PROVE  F(j).result = "PASS"
      <4>1. CASE j = 1
        BY <1>4, <4>1
      <4>2. CASE j - 1 \in 1..n /\ j = (j - 1) + 1
        <5>1. F((j - 1) + 1).result = "PASS"
          BY <3>2, <4>2
        <5> QED
          BY <4>2, <5>1
      <4> QED
        BY <1>6, <4>1, <4>2
    <3> QED
      BY <3>1, <3>2
  <2> QED
    BY <1>1, <1>5, <2>1 DEF Permits
<1>8. Findings(k, ts, now) = [j \in 1..(n + 1) |-> F(j)]
  BY <1>1 DEF Findings, F
<1>9. Aggregate(Findings(k, ts, now)) = "PASS" <=> \A j \in 1..(n + 1) : F(j).result = "PASS"
  <2> DEFINE f == [j \in 1..(n + 1) |-> F(j)]
  <2>1. DOMAIN f = 1..(n + 1) /\ \A j \in 1..(n + 1) : f[j] = F(j)
    OBVIOUS
  <2>2. f # <<>>
    <3>1. 1 \in DOMAIN f
      BY <1>1
    <3> QED
      BY <3>1
  <2> HIDE DEF f
  <2>3. Aggregate(f) = "PASS" <=> \A j \in DOMAIN f : f[j].result = "PASS"
    BY <2>2 DEF Aggregate
  <2> QED
    BY <1>8, <2>1, <2>3 DEF f
<1> QED
  BY <1>7, <1>9 DEF k, ts

-----------------------------------------------------------------------------
(* A session *)

\* What holds between two steps: there was no call yet, or the last one was
\* refused, or the Kernel is at the commitment of its rule and at its evidence.
GateInv ==
  /\ policy \in Policies /\ ValidPolicy(policy) /\ evalTime \in Times
  /\ \/ /\ pc = "idle" /\ call = NoCall
        /\ commitment = NoCommitment /\ i = 1 /\ assertions = <<>>
        /\ symbols = [n \in Names |-> Unbound] /\ decision = NoDecision
     \/ /\ pc = "done" /\ call \in Calls /\ ~Ruled(call)
        /\ tims = BuildEvidence(call, evalTime)
        /\ commitment = NoCommitment /\ i = 1 /\ assertions = <<>>
        /\ symbols = [n \in Names |-> Unbound]
        /\ decision = Rejected("policy.no_matching_rule")
     \/ /\ LoopInv /\ StateInv /\ pc # "thrown" /\ call \in Calls /\ Ruled(call)
        /\ tims = BuildEvidence(call, evalTime)
        /\ \E r \in MatchRule(policy, call.tool) : commitment = CompileRule(r)

\* The rules of a valid policy fit, and a rule that matches is one of them, for
\* the tool or for any tool.
LEMMA MatchFits ==
  ASSUME NEW p \in Policies, ValidPolicy(p), NEW tool, NEW r \in MatchRule(p, tool)
  PROVE  /\ r \in ToSet(p) /\ Fits(r) /\ r.tool \in {tool, Star}
         /\ r.tool = tool <=> \E q \in ToSet(p) : q.tool = tool
         /\ \A q \in MatchRule(p, tool) : q = r
<1>1. r \in ToSet(p) /\ r.tool \in {tool, Star}
  BY DEF MatchRule
<1>2. Fits(r)
  BY <1>1, GateAssumption DEF Fits, ValidPolicy
<1>3. r.tool = tool <=> \E q \in ToSet(p) : q.tool = tool
  BY DEF MatchRule
<1>4. \A q, o \in ToSet(p) : q.tool = o.tool => q = o
  BY DEF ValidPolicy, ToSet
<1>5. \A q \in MatchRule(p, tool) : q \in ToSet(p) /\ q.tool = r.tool
  BY DEF MatchRule
<1> QED
  BY <1>1, <1>2, <1>3, <1>4, <1>5

\* A session begins without a call.
LEMMA GateBegins == GateInit => GateInv
  BY DEF GateInit, GateInv

\* A step takes up a call or takes the Kernel further on the one at hand.
LEMMA GateStep == GateInv /\ [GateNext]_gateVars => GateInv'
<1> SUFFICES ASSUME GateInv, [GateNext]_gateVars PROVE GateInv'
  OBVIOUS
<1>0. policy \in Policies /\ ValidPolicy(policy) /\ evalTime \in Times
  BY DEF GateInv
<1>1. ASSUME NEW c \in Calls, RefuseCall(c) PROVE GateInv'
  BY <1>0, <1>1 DEF RefuseCall, TakeUp, Return, GateInv, Ruled
<1>2. ASSUME NEW c \in Calls, EvaluateCall(c) PROVE GateInv'
  <2>1. PICK r \in MatchRule(policy, c.tool) : TakeUp(c, CompileRule(r))
    BY <1>2 DEF EvaluateCall
  <2>2. /\ call' = c /\ commitment' = CompileRule(r) /\ tims' = BuildEvidence(c, evalTime)
        /\ i' = 1 /\ symbols' = [n \in Names |-> Unbound] /\ assertions' = <<>>
        /\ policy' = policy /\ evalTime' = evalTime
        /\ pc' = "validate" /\ decision' = NoDecision /\ Ruled(c)
    BY <1>2, <2>1 DEF EvaluateCall, TakeUp
  <2>3. commitment' \in Commitments /\ tims' \in Evidence
    BY <1>0, <2>1, <2>2, MatchFits, GateAssumption DEF Fits
  <2>4. LoopInv'
    <3>1. symbols' = Scope(commitment', tims', evalTime', i' - 1)
      BY <2>2, ScopeBegins
    <3>2. assertions' = [j \in 1..(i' - 1) |-> Finding(commitment', tims', evalTime', j)]
      BY <2>2
    <3>3. Len(commitment'.measure) \in Nat
      BY <2>3, CommitmentsAssumption
    <3> QED
      BY <1>0, <2>2, <2>3, <3>1, <3>2, <3>3 DEF LoopInv
  <2>5. StateInv'
    BY <2>2 DEF StateInv, NoDecision
  <2>6. Ruled(c)' /\ MatchRule(policy, c.tool)' = MatchRule(policy, c.tool)
    BY <2>2 DEF Ruled
  <2> QED
    BY <1>0, <2>1, <2>2, <2>4, <2>5, <2>6 DEF GateInv
<1>3. CASE KernelStep
  <2>1. LoopInv /\ StateInv /\ pc \notin {"idle", "done"}
    BY <1>3 DEF GateInv, KernelStep, KernelNext, Validate, Skip, Bind, Resolve
  <2>2. LoopInv' /\ StateInv'
    BY <1>3, <2>1, LoopStep, StateStep DEF KernelStep
  <2>3. /\ commitment' = commitment /\ tims' = tims /\ evalTime' = evalTime
        /\ policy' = policy /\ call' = call
    BY <1>3 DEF KernelStep, KernelNext, Validate, Skip, Bind, Resolve
  <2>4. Flaws(commitment) = {}
    BY <2>1, RuleApprovesOnPass DEF GateInv, Accepted
  <2>5. pc # "thrown"
    BY DEF GateInv
  <2>6. pc' # "thrown"
    BY <1>3, <2>4, <2>5 DEF KernelStep, KernelNext, Validate, Skip, Bind, Resolve, Return
  <2> QED
    BY <1>0, <2>1, <2>2, <2>3, <2>6 DEF GateInv, Ruled
<1>4. CASE UNCHANGED gateVars
  <2>1. UNCHANGED kernelVars
    BY <1>4 DEF gateVars, kernelVars
  <2>2. LoopInv => LoopInv'
    BY <2>1, LoopStep
  <2>3. LoopInv /\ StateInv => StateInv'
    BY <2>1, StateStep
  <2> QED
    BY <1>4, <2>2, <2>3 DEF GateInv, gateVars, Ruled
<1> QED
  BY <1>1, <1>2, <1>3, <1>4 DEF GateNext

\* The invariant of the session holds for ever.
LEMMA GateHolds == GateSpec => []GateInv
  BY GateBegins, GateStep, PTL DEF GateSpec

\* The state of a session has its types, whatever the policies and the calls, and
\* no call is decided by the leavings of the one before it (proxy.ts:83-131).
THEOREM GateTypeCorrect == GateSpec => []GateTypeOK
<1>1. GateInv => GateTypeOK
  <2> SUFFICES ASSUME GateInv PROVE GateTypeOK
    OBVIOUS
  <2>1. \A c \in Calls, now \in Times : BuildEvidence(c, now)[1].value = String(c.tool)
    <3> SUFFICES ASSUME NEW c \in Calls, NEW now \in Times
                 PROVE  BuildEvidence(c, now)[1].value = String(c.tool)
      OBVIOUS
    <3>1. BuildEvidence(c, now)[1] = Receipt(now, 1, "tool", String(c.tool))
      BY GateAssumption, EvidenceOfCall
    <3> QED
      BY <3>1 DEF Receipt
  <2>2. CASE LoopInv /\ StateInv
    <3>1. Len(commitment.measure) \in Nat
      BY <2>2, CommitmentsAssumption DEF LoopInv
    <3>2. i - 1 \in Nat /\ Len(assertions) = i - 1
      <4>1. i - 1 \in Nat
        BY <2>2 DEF LoopInv
      <4>2. assertions = [j \in 1..(i - 1) |-> assertions[j]]
        BY <2>2 DEF LoopInv
      <4> QED
        BY <4>1, <4>2, FunctionIsSequence
    <3>3. pc = "done" => decision.status # "none"
      BY <2>2 DEF LoopInv, Decide, Rejected
    <3>4. pc # "done" => decision.status = "none"
      BY <2>2 DEF LoopInv, NoDecision
    <3>5. i \in 1..(Len(commitment.measure) + 1)
      BY <2>2, <3>1 DEF LoopInv
    <3>6. pc \in {"validate", "bind", "done"} /\ call \in Calls
          /\ tims = BuildEvidence(call, evalTime)
      BY <2>2 DEF GateInv, LoopInv
    <3> QED
      BY <2>1, <2>2, <3>2, <3>3, <3>4, <3>5, <3>6 DEF GateInv, GateTypeOK, StateInv
  <2>3. CASE ~(LoopInv /\ StateInv)
    <3>1. Len(<<>>) = 0 /\ 1 \in 1..(Len(<<>>) + 1)
      OBVIOUS
    <3> QED
      BY <2>1, <2>3, <3>1 DEF GateInv, GateTypeOK, NoDecision, NoCommitment, Rejected
  <2> QED
    BY <2>2, <2>3
<1> QED
  BY <1>1, GateHolds, PTL

\* A call is approved exactly when the rule for its tool, or else the rule for
\* any tool, permits it, whatever the policy and the call (policy.ts:27-31).
THEOREM ApprovesWhatIsPermitted == GateSpec => []ApprovedIsPermitted
<1>1. GateInv => ApprovedIsPermitted
  <2> SUFFICES ASSUME GateInv, pc = "done"
               PROVE  decision.status = "APPROVED" <=>
                        /\ call.tool # Empty
                        /\ \/ \E r \in ToSet(policy) : r.tool = call.tool /\ Permits(r, call)
                           \/ /\ \A r \in ToSet(policy) : r.tool # call.tool
                              /\ \E r \in ToSet(policy) : r.tool = Star /\ Permits(r, call)
    BY DEF ApprovedIsPermitted
  <2>1. CASE ~Ruled(call)
    <3>1. decision.status # "APPROVED"
      BY <2>1 DEF GateInv, Rejected
    <3>2. call.tool = Empty \/ \A r \in ToSet(policy) : r.tool # call.tool /\ r.tool # Star
      BY <2>1 DEF Ruled, MatchRule
    <3> QED
      BY <3>1, <3>2
  <2>2. CASE Ruled(call)
    <3>1. /\ LoopInv /\ call \in Calls /\ evalTime \in Times /\ call.tool # Empty
          /\ policy \in Policies /\ ValidPolicy(policy)
          /\ tims = BuildEvidence(call, evalTime)
      BY <2>2 DEF GateInv, Ruled
    <3>2. PICK r \in MatchRule(policy, call.tool) : commitment = CompileRule(r)
      BY <2>2 DEF GateInv
    <3>3. /\ r \in ToSet(policy) /\ Fits(r) /\ r.tool \in {call.tool, Star}
          /\ r.tool = call.tool <=> \E q \in ToSet(policy) : q.tool = call.tool
          /\ \A q \in MatchRule(policy, call.tool) : q = r
      BY <3>1, MatchFits
    <3>4. decision = Verdict(commitment, tims, evalTime)
      <4>1. Accepted(commitment)
        BY <3>2, RuleApprovesOnPass
      <4> QED
        BY <3>1, <4>1, LoopDecides
    <3>5. decision.status = "APPROVED" <=> Permits(r, call)
      BY <3>1, <3>2, <3>3, <3>4, PassIsPermission, RuleApprovesOnPass DEF Verdict
    <3>6. CASE r.tool = call.tool
      <4>1. \A q \in ToSet(policy) : q.tool = call.tool => q = r
        BY <3>3 DEF MatchRule
      <4> QED
        BY <3>1, <3>3, <3>5, <3>6, <4>1
    <3>7. CASE r.tool # call.tool
      <4>1. \A q \in ToSet(policy) : q.tool = Star => q = r
        BY <3>3, <3>7 DEF MatchRule
      <4>2. r.tool = Star
        BY <3>3, <3>7
      <4> QED
        BY <3>1, <3>3, <3>5, <3>7, <4>1, <4>2
    <3> QED
      BY <3>6, <3>7
  <2> QED
    BY <2>1, <2>2
<1> QED
  BY <1>1, GateHolds, PTL
=============================================================================
