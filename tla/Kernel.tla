------------------------------- MODULE Kernel -------------------------------
(***************************************************************************)
(* The reference Kernel of packages/core (kernel.ts): from a commitment    *)
(* and a sequence of verified TIM receipts to a Decision.  The state is    *)
(* that of evaluateKernel as it runs through the measures: the symbols     *)
(* bound so far and the assertions evaluated so far.                       *)
(*                                                                         *)
(* A time is [text, ms]: its rank as a string, by which receipts are       *)
(* ordered, and the instant Date.parse reads in it (NaN when it reads      *)
(* none), by which windows are decided.  Identities and cids are their     *)
(* ranks as strings.  An absent lamport, witness list or cid is a 0.       *)
(***************************************************************************)
EXTENDS Assertions, FiniteSets

CONSTANTS
  NaN,         \* the number no comparison holds of
  None,        \* an absent bound of a window
  Verbs,       \* the verbs commitments name
  Registered,  \* REGISTERED_VERBS
  Commitments, \* what may be evaluated, with its evidence and its time
  Evidence,    \* the sequences of receipts it may be evaluated on
  Times        \* the evaluation times

Millis   == Int \cup {NaN}
Instants == [text : Int, ms : Millis]
Windows  == [start : Instants \cup {None}, end : Instants \cup {None},
             maxAge : Millis \cup {None}]

ASSUME KernelAssumption ==
  /\ Registered \subseteq Verbs /\ NaN \notin Int /\ None \notin Millis
  /\ Times \subseteq Instants

\* The parts of a commitment and of a receipt that the program relies on.
ASSUME CommitmentsAssumption == \A k \in Commitments :
  /\ Len(k.measure) \in Nat
  /\ \A j \in 1..Len(k.measure) :
       /\ k.measure[j].name \in Names /\ Expression(k.measure[j].assert)
       /\ k.measure[j].window \in Windows /\ k.measure[j].minWitnesses \in Int
ASSUME EvidenceAssumption == \A ts \in Evidence :
  /\ Len(ts) \in Nat /\ DOMAIN ts = 1..Len(ts)
  /\ \A p \in DOMAIN ts :
       /\ ts[p].ts \in Instants /\ ts[p].value \in Values
       /\ {ts[p].lamport, ts[p].id, ts[p].cid} \subseteq Int

VARIABLES
  pc,          \* where evaluateKernel stands
  commitment, tims, evalTime, \* its arguments
  i,           \* the measure in turn
  symbols,     \* the symbols bound so far
  assertions,  \* the results so far, one for each measure before i
  decision     \* the result

kernelVars == <<pc, commitment, tims, evalTime, i, symbols, assertions, decision>>

NoDecision == [status |-> "none", authorized |-> <<>>, error |-> "none"]
Rejected(error) == [status |-> "REJECTED", authorized |-> <<>>, error |-> error]

\* Places in a sequence, from the first to the last.
InOrder(places) ==
  [r \in 1..Cardinality(places) |->
     CHOOSE p \in places : Cardinality({q \in places : q <= p}) = r]

-----------------------------------------------------------------------------
(* Selecting the evidence for a measure *)

\* a < b on JavaScript numbers.
Less(a, b) == a # NaN /\ b # NaN /\ a < b
Minus(a, b) == IF a = NaN \/ b = NaN THEN NaN ELSE a - b

\* Mutant: the end of the window is in the window.
WithinWindowClosed(ts, w, now) ==
  /\ w.start # None => ~Less(ts.ms, w.start.ms)
  /\ w.end # None => ~Less(w.end.ms, ts.ms)
  /\ w.maxAge # None => ~Less(w.maxAge, Minus(now.ms, ts.ms))
\* A receipt is out of the window when a comparison says so: a bound or a time
\* that cannot be read excludes nothing.
WithinWindow(ts, w, now) ==
  /\ w.start # None => ~Less(ts.ms, w.start.ms)
  /\ w.end # None => (Less(ts.ms, w.end.ms) \/ NaN \in {ts.ms, w.end.ms})
  /\ w.maxAge # None => ~Less(w.maxAge, Minus(now.ms, ts.ms))

\* An empty list of devices or codes is no requirement.
Candidate(spec, t, now) ==
  /\ t.witnesses >= spec.minWitnesses
  /\ spec.devices # {} => t.device \in spec.devices
  /\ spec.codes # {} => t.code \in spec.codes
  /\ WithinWindow(t.ts, spec.window, now)

\* Mutant: the order ends with the identity.
PrecedesButCid(a, b) ==
  \/ a.ts.text < b.ts.text
  \/ a.ts.text = b.ts.text /\ a.lamport < b.lamport
  \/ a.ts.text = b.ts.text /\ a.lamport = b.lamport /\ a.id < b.id
\* The Notary order.
Precedes(a, b) ==
  \/ a.ts.text < b.ts.text
  \/ a.ts.text = b.ts.text /\ a.lamport < b.lamport
  \/ a.ts.text = b.ts.text /\ a.lamport = b.lamport /\ a.id < b.id
  \/ /\ a.ts.text = b.ts.text /\ a.lamport = b.lamport /\ a.id = b.id
     /\ a.cid < b.cid

Candidates(spec, ts, now) == {j \in DOMAIN ts : Candidate(spec, ts[j], now)}

\* The sort is stable: of equals the one given last is last.
Latest(spec, ts, now) ==
  LET C == Candidates(spec, ts, now) IN
  {j \in C : \A o \in C :
     Precedes(ts[o], ts[j]) \/ (~Precedes(ts[j], ts[o]) /\ o <= j)}

\* For a mutant: the candidate that was given first.
SelectFirst(spec, ts, now) ==
  LET C == Candidates(spec, ts, now) IN
  IF C = {} THEN 0 ELSE CHOOSE j \in C : \A o \in C : j <= o
\* The position of the last candidate in Notary order, 0 when there is none.
SelectLatest(spec, ts, now) ==
  IF Latest(spec, ts, now) = {} THEN 0
  ELSE CHOOSE j \in Latest(spec, ts, now) : TRUE

-----------------------------------------------------------------------------
(* evaluateKernel *)

Begin(k, ts, now) ==
  /\ commitment = k /\ tims = ts /\ evalTime = now
  /\ pc = "validate" /\ i = 1 /\ assertions = <<>> /\ decision = NoDecision
  /\ symbols = [n \in Names |-> Unbound]

Init == \E k \in Commitments, ts \in Evidence, now \in Times : Begin(k, ts, now)

Return(d) == pc' = "done" /\ decision' = d

\* A consequence without its list of verbs, or with a verb not registered.
Flawed(c) == ~c.hasThen \/ \E j \in DOMAIN c.then : c.then[j] \notin Registered

Flaws(k) == {j \in DOMAIN k.consequence : Flawed(k.consequence[j])}

\* The commitment's shape, then every verb of every consequence, in order.  A
\* consequence without "then" throws.
Validate ==
  /\ pc = "validate"
  /\ IF ~commitment.arrays THEN Return(Rejected("kernel.invalid_commitment"))
     ELSE IF Flaws(commitment) = {} THEN pc' = "bind" /\ UNCHANGED decision
     ELSE LET first == CHOOSE j \in Flaws(commitment) :
                         \A o \in Flaws(commitment) : j <= o
          IN IF commitment.consequence[first].hasThen
             THEN Return(Rejected("kernel.unknown_verb"))
             ELSE pc' = "thrown" /\ UNCHANGED decision
  /\ UNCHANGED <<commitment, tims, evalTime, i, symbols, assertions>>

\* Mutant: a measure without a receipt leaves no result.
SkipSilently ==
  /\ pc = "bind" /\ i <= Len(commitment.measure)
  /\ SelectLatest(commitment.measure[i], tims, evalTime) = 0
  /\ i' = i + 1
  /\ UNCHANGED <<pc, commitment, tims, evalTime, symbols, assertions, decision>>
\* No receipt: the measure is indeterminate and its symbol is left as it was.
Skip ==
  /\ pc = "bind" /\ i <= Len(commitment.measure)
  /\ SelectLatest(commitment.measure[i], tims, evalTime) = 0
  /\ assertions' = Append(assertions, [result |-> "INDETERMINATE", input |-> 0])
  /\ i' = i + 1
  /\ UNCHANGED <<pc, commitment, tims, evalTime, symbols, decision>>

\* Mutant: the assertion is evaluated before its symbol is bound.
BindLate ==
  /\ pc = "bind" /\ i <= Len(commitment.measure)
  /\ LET spec == commitment.measure[i]
         at   == SelectLatest(spec, tims, evalTime)
     IN /\ at # 0
        /\ symbols' = [symbols EXCEPT ![spec.name] = tims[at].value]
        /\ assertions' = Append(assertions,
             [result |-> EvaluateAssertion(spec.assert, symbols), input |-> at])
  /\ i' = i + 1
  /\ UNCHANGED <<pc, commitment, tims, evalTime, decision>>
\* Mutant: the result cites the first candidate, not the one it was found on.
BindCitesFirst ==
  /\ pc = "bind" /\ i <= Len(commitment.measure)
  /\ LET spec == commitment.measure[i]
         at   == SelectLatest(spec, tims, evalTime)
     IN /\ at # 0
        /\ symbols' = [symbols EXCEPT ![spec.name] = tims[at].value]
        /\ assertions' = Append(assertions,
             [result |-> EvaluateAssertion(spec.assert, symbols'),
              input |-> SelectFirst(spec, tims, evalTime)])
  /\ i' = i + 1
  /\ UNCHANGED <<pc, commitment, tims, evalTime, decision>>
\* The symbol is bound to the latest receipt, and the assertion evaluated over
\* the symbols bound so far.
Bind ==
  /\ pc = "bind" /\ i <= Len(commitment.measure)
  /\ LET spec == commitment.measure[i]
         at   == SelectLatest(spec, tims, evalTime)
     IN /\ at # 0
        /\ symbols' = [symbols EXCEPT ![spec.name] = tims[at].value]
        /\ assertions' = Append(assertions,
             [result |-> EvaluateAssertion(spec.assert, symbols'), input |-> at])
  /\ i' = i + 1
  /\ UNCHANGED <<pc, commitment, tims, evalTime, decision>>

\* All the results in one.  Nothing passes without a measure.
Aggregate(results) ==
  CASE \E j \in DOMAIN results : results[j].result = "INDETERMINATE"
         -> "INDETERMINATE"
    [] /\ results # <<>>
       /\ \A j \in DOMAIN results : results[j].result = "PASS" -> "PASS"
    [] OTHER -> "FAIL"

\* The verbs of the first consequence whose "if" is the outcome.  Each has a text
\* for "if", trimmed here, as ConsequenceSpec demands.
Authorized(k, overall) ==
  LET M == {j \in DOMAIN k.consequence : k.consequence[j].if = overall} IN
  IF M = {} THEN <<>>
  ELSE k.consequence[CHOOSE j \in M : \A o \in M : j <= o].then

\* Only a PASS that authorizes something is approved.
Decide(k, overall) ==
  IF overall = "INDETERMINATE"
  THEN [status |-> "INDETERMINATE", authorized |-> <<>>, error |-> "none"]
  ELSE IF overall = "PASS" /\ Authorized(k, overall) # <<>>
  THEN [status |-> "APPROVED", authorized |-> Authorized(k, overall),
        error |-> "none"]
  ELSE Rejected("none")

Resolve ==
  /\ pc = "bind" /\ i > Len(commitment.measure)
  /\ Return(Decide(commitment, Aggregate(assertions)))
  /\ UNCHANGED <<commitment, tims, evalTime, i, symbols, assertions>>

KernelNext == Validate \/ Skip \/ Bind \/ Resolve

KernelSpec == Init /\ [][KernelNext]_kernelVars
=============================================================================
