---------------------------- MODULE KernelMeaning ----------------------------
(***************************************************************************)
(* What a Decision means, without the loop that computes it: the receipt   *)
(* that answers each measure, the symbols in scope of each assertion, and  *)
(* the verdict on all of them.  The properties of the Kernel are stated    *)
(* with it.                                                                *)
(***************************************************************************)
EXTENDS Kernel, FiniteSetsExt, SequencesExt

\* The receipt that answers measure j, 0 when none does.
Answer(k, ts, now, j) == SelectLatest(k.measure[j], ts, now)

\* The measures up to j that bind n.
Binders(k, ts, now, j, n) ==
  {m \in 1..j : k.measure[m].name = n /\ Answer(k, ts, now, m) # 0}

LastOf(B) == CHOOSE m \in B : \A o \in B : o <= m

\* The symbols in scope of the assertion of measure j: each is bound by the
\* last measure of its name that has a receipt, up to j.
Scope(k, ts, now, j) ==
  [n \in Names |->
     LET B == Binders(k, ts, now, j, n) IN
     IF B = {} THEN Unbound
     ELSE ts[Answer(k, ts, now, LastOf(B))].value]

Finding(k, ts, now, j) ==
  [result |-> IF Answer(k, ts, now, j) = 0 THEN "INDETERMINATE"
              ELSE EvaluateAssertion(k.measure[j].assert, Scope(k, ts, now, j)),
   input  |-> Answer(k, ts, now, j)]

Findings(k, ts, now) == [j \in 1..Len(k.measure) |-> Finding(k, ts, now, j)]

Verdict(k, ts, now) == Decide(k, Aggregate(Findings(k, ts, now)))

Accepted(k) == k.arrays /\ Flaws(k) = {}

-----------------------------------------------------------------------------
(* Properties *)

\* Every variable of evaluateKernel has its type, and the results keep pace
\* with the loop over the measures.
KernelTypeOK ==
  /\ pc \in {"validate", "bind", "done", "thrown"}
  /\ commitment \in Commitments /\ tims \in Evidence /\ evalTime \in Times
  /\ i \in 1..(Len(commitment.measure) + 1)
  /\ symbols \in [Names -> Values \cup {Unbound}]
  /\ assertions \in Seq([result : TriState, input : 0..Len(tims)])
  /\ Len(assertions) = i - 1
  /\ decision.status \in {"none", "APPROVED", "REJECTED", "INDETERMINATE"}
  /\ decision.error \in {"none", "kernel.invalid_commitment", "kernel.unknown_verb"}

\* The loop of evaluateKernel, with its symbols rebound and left over from one
\* measure to the next (kernel.ts:176-219), decides what the commitment means
\* on the evidence: no result leaks out of the scope of its measure.
DecidesItsMeaning ==
  pc = "done" /\ Accepted(commitment) =>
    /\ assertions = Findings(commitment, tims, evalTime)
    /\ decision = Verdict(commitment, tims, evalTime)

Key(t) == <<t.ts.text, t.lamport, t.id, t.cid>>
Distinct(ts) == \A a, b \in DOMAIN ts : a # b => Key(ts[a]) # Key(ts[b])
Shuffles(ts) == {[j \in DOMAIN ts |-> ts[p[j]]] : p \in Bijection(DOMAIN ts, DOMAIN ts)}

\* The Decision does not depend on the order the receipts are given in: the
\* Notary order is total on receipts that differ (kernel.ts:104-112).
OrderIndependent ==
  pc = "done" /\ Accepted(commitment) /\ Distinct(tims) =>
    \A ts \in Shuffles(tims) : Verdict(commitment, ts, evalTime) = decision

\* The receipts that the results cite.  One without a cid cannot be cited.
Cited == {assertions[j].input : j \in DOMAIN assertions} \ {0}
CitedReceipts ==
  LET at == InOrder({p \in Cited : tims[p].cid # 0}) IN
  [r \in DOMAIN at |-> tims[at[r]]]

\* A Decision can be replayed from the receipts that its results cite, and from
\* no others: leaving out what was not cited changes neither a result nor the
\* verdict (kernel.ts:192).
ReplaysFromInputs ==
  LET again == Findings(commitment, CitedReceipts, evalTime) IN
  pc = "done" /\ Accepted(commitment) /\ (\A p \in Cited : tims[p].cid # 0) =>
       /\ \A j \in DOMAIN assertions : again[j].result = assertions[j].result
       /\ Verdict(commitment, CitedReceipts, evalTime) = decision

\* The symbols an expression names.
Mentions(ast) == {ast[n].sym : n \in {m \in DOMAIN ast : ast[m].k \in {"cmp", "in", "symref"}}}

\* n was bound when measure j was evaluated, and has been bound again since.
Binds(m, n) == commitment.measure[m].name = n /\ assertions[m].input # 0
Rebound(j, n) == /\ \E m \in 1..j : Binds(m, n)
                 /\ \E m \in (j + 1)..(i - 1) : Binds(m, n)

\* Kleene's promise: a result that was decided before all the symbols were
\* bound is the result on every later state of the symbols, so a measure never
\* decides on the strength of what is merely not known yet (assert.ts:252-267).
\* A symbol that an object inherits, or that a later measure binds again, is
\* beyond it.
DecidedForGood ==
  \A j \in DOMAIN assertions :
    LET ast == commitment.measure[j].assert IN
    /\ assertions[j].result # "INDETERMINATE"
    /\ \A n \in Mentions(ast) : n \notin Inherited /\ ~Rebound(j, n)
    => EvaluateAssertion(ast, symbols) = assertions[j].result

\* Is the receipt's time in the window, by the specification's half-open
\* interval?  Only when every time of it can be read.
Readable(w, ts, now) ==
  NaN \notin {ts.ms} \cup (IF w.start = None THEN {} ELSE {w.start.ms})
             \cup (IF w.end = None THEN {} ELSE {w.end.ms})
             \cup (IF w.maxAge = None THEN {} ELSE {w.maxAge, now.ms})
InWindow(w, ts, now) ==
  /\ w.start = None \/ w.start.ms <= ts.ms
  /\ w.end = None \/ ts.ms < w.end.ms
  /\ w.maxAge = None \/ now.ms - ts.ms <= w.maxAge

\* Nothing is approved that is not earned: each measure of an approved
\* commitment passed on a receipt of its own that met its requirements at the
\* evaluation time, and what it authorizes, and whatever it might have
\* authorized on another outcome, is registered (kernel.ts:156-231).
ApprovedIsEarned ==
  decision.status = "APPROVED" =>
    /\ assertions # <<>>
    /\ \A j \in DOMAIN assertions :
         LET spec == commitment.measure[j]
             t    == tims[assertions[j].input]
         IN /\ assertions[j].input # 0 /\ assertions[j].result = "PASS"
            /\ t.witnesses >= spec.minWitnesses
            /\ Readable(spec.window, t.ts, evalTime)
                 => InWindow(spec.window, t.ts, evalTime)
    /\ \A c \in DOMAIN commitment.consequence :
         ToSet(commitment.consequence[c].then) \subseteq Registered

\* An assertion over symbols of which none is bound is indeterminate: "absent
\* symbol => INDETERMINATE" (assert.ts:15).
AbsentIsIndeterminate ==
  \A j \in DOMAIN assertions :
    (\A n \in Mentions(commitment.measure[j].assert) : symbols[n] = Unbound)
      => assertions[j].result = "INDETERMINATE"
=============================================================================
