------------------------------ MODULE ToolGate ------------------------------
(***************************************************************************)
(* How the audit proxy decides one tools/call: the policy rule that        *)
(* matches the tool (policy.ts), the Commitment compiled from it, the      *)
(* evidence built from the arguments (audit.ts) and the Kernel run on the  *)
(* two (proxy.ts:83-131).  A session is a policy and one call after        *)
(* another.                                                                *)
(*                                                                         *)
(* An argument's name is [sym, spelling]: the symbol it is folded to, and  *)
(* which of the names folded to it.  The assertions are over Names.        *)
(***************************************************************************)
EXTENDS Kernel, SequencesExt

CONSTANTS
  Policies, \* policy files: sequences of rules [tool, where]
  Calls,    \* tools/call requests: [tool, args]
  Star,     \* the tool "*"
  Quoted,   \* tool names with a quote in them
  Control   \* arky:verb/control@v1

VARIABLES
  policy,   \* the policy of this session
  call      \* the call that is being decided

gateVars == <<policy, call, pc, commitment, tims, evalTime, i, symbols, assertions,
              decision>>

Empty    == 0 \* the rank of the empty string
Reserved == {"tool"}

-----------------------------------------------------------------------------
(* Policies *)

\* Each tool has one rule, and each of its keys is a symbol, once (JSON with a
\* repeated key is not read).
ValidPolicy(p) ==
  /\ p # <<>>
  /\ \A r \in ToSet(p) : r.tool # Empty /\ r.tool \notin Quoted
  /\ \A a, b \in DOMAIN p : p[a].tool = p[b].tool => a = b
  /\ \A r \in ToSet(p) : \A a, b \in DOMAIN r.where :
       /\ r.where[a].sym \in Names \ Reserved
       /\ r.where[a].sym = r.where[b].sym => a = b

\* The rule for the tool itself, else the rule for any tool.
MatchRule(p, tool) ==
  LET exact == {r \in ToSet(p) : r.tool = tool} IN
  IF exact # {} THEN exact ELSE {r \in ToSet(p) : r.tool = Star}

String(rank) == [type |-> "string", v |-> rank]

MeasureSpec(sym, ast) ==
  [name |-> sym, assert |-> ast, minWitnesses |-> 0, devices |-> {}, codes |-> {sym},
   window |-> [start |-> None, end |-> None, maxAge |-> None]]

\* The tool's name, then the rule's keys in their order.
CompileRule(r) ==
  [arrays  |-> TRUE,
   measure |->
     <<MeasureSpec("tool", IF r.tool = Star THEN <<Cmp("tool", "!=", String(Empty))>>
                           ELSE <<Cmp("tool", "==", String(r.tool))>>)>>
     \o [j \in DOMAIN r.where |-> MeasureSpec(r.where[j].sym, r.where[j].assert)],
   consequence |-> <<[if |-> "PASS", hasThen |-> TRUE, then |-> <<Control>>]>>]

-----------------------------------------------------------------------------
(* Evidence *)

\* A receipt of this call.  The cid is the place in the call: no two are equal,
\* and no two have one code, so their order decides nothing.
Receipt(now, cid, sym, value) ==
  [ts |-> now, lamport |-> 0, id |-> 1, cid |-> cid, witnesses |-> 0,
   device |-> None, code |-> sym, value |-> value]

Primitive(value) == value.type \in LitTypes

\* Mutant: the first of the arguments with one symbol is taken for it.
TellsFirst(args, a) ==
  /\ args[a].name.sym \notin Reserved
  /\ \A b \in DOMAIN args : args[b].name.sym = args[a].name.sym => a <= b
  /\ Primitive(args[a].value)
\* Is a receipt made of argument a?  Not when its symbol is reserved, or that
\* of another argument too, or its value has no measurement.
Tells(args, a) ==
  /\ args[a].name.sym \notin Reserved
  /\ \A b \in DOMAIN args : args[b].name.sym = args[a].name.sym => a = b
  /\ Primitive(args[a].value)

\* The tool's receipt, then those of the arguments.
BuildEvidence(c, now) ==
  LET at == InOrder({a \in DOMAIN c.args : Tells(c.args, a)}) IN
  <<Receipt(now, 1, "tool", String(c.tool))>>
  \o [n \in DOMAIN at |->
        Receipt(now, at[n] + 1, c.args[at[n]].name.sym, c.args[at[n]].value)]

\* The lists of a policy and of a call, and what the Kernel is run on: a rule's
\* commitment and a call's evidence are among those that may be evaluated.
Listed(s) == Len(s) \in Nat /\ DOMAIN s = 1..Len(s)

ASSUME GateAssumption ==
  /\ "tool" \in Names /\ Control \in Registered
  /\ \A c \in Calls : Listed(c.args) /\ \A now \in Times : BuildEvidence(c, now) \in Evidence
  /\ \A p \in {q \in Policies : ValidPolicy(q)} : \A r \in ToSet(p) :
       Listed(r.where) /\ CompileRule(r) \in Commitments

-----------------------------------------------------------------------------
(* A session *)

NoCall == [tool |-> Empty, args |-> <<>>]
NoCommitment == [arrays |-> FALSE, measure |-> <<>>, consequence |-> <<>>]

GateInit ==
  /\ policy \in {p \in Policies : ValidPolicy(p)}
  /\ call = NoCall
  /\ pc = "idle" /\ commitment = NoCommitment /\ tims = <<>> /\ evalTime \in Times
  /\ i = 1 /\ symbols = [n \in Names |-> Unbound] /\ assertions = <<>>
  /\ decision = NoDecision

\* Is there a rule to decide the call by?
Ruled(c) == c.tool # Empty /\ MatchRule(policy, c.tool) # {}

\* Mutant: the symbols and results of the last call are kept.
TakeUpKeeps(c, k) ==
  /\ pc \in {"idle", "done"}
  /\ call' = c /\ commitment' = k /\ tims' = BuildEvidence(c, evalTime)
  /\ i' = 1 /\ UNCHANGED <<policy, evalTime, symbols, assertions>>
\* A call comes in, and nothing is left of the one before it.
TakeUp(c, k) ==
  /\ pc \in {"idle", "done"}
  /\ call' = c /\ commitment' = k /\ tims' = BuildEvidence(c, evalTime)
  /\ i' = 1 /\ symbols' = [n \in Names |-> Unbound] /\ assertions' = <<>>
  /\ UNCHANGED <<policy, evalTime>>

\* A call with no name, or no rule, is rejected and not evaluated.
RefuseCall(c) ==
  ~Ruled(c) /\ TakeUp(c, NoCommitment) /\ Return(Rejected("policy.no_matching_rule"))

\* The call's rule and evidence are handed to the Kernel.
EvaluateCall(c) ==
  /\ Ruled(c)
  /\ \E r \in MatchRule(policy, c.tool) : TakeUp(c, CompileRule(r))
  /\ pc' = "validate" /\ decision' = NoDecision

KernelStep == KernelNext /\ UNCHANGED <<policy, call>>

GateNext ==
  \/ \E c \in Calls : RefuseCall(c) \/ EvaluateCall(c)
  \/ KernelStep

GateSpec == GateInit /\ [][GateNext]_gateVars

-----------------------------------------------------------------------------
(* Properties *)

\* The state of a session has its types, and a call is never decided by the
\* leavings of the one before it.
GateTypeOK ==
  /\ policy \in Policies /\ call \in Calls \cup {NoCall}
  /\ pc \in {"idle", "validate", "bind", "done"}
  /\ symbols \in [Names -> Values \cup {Unbound}]
  /\ Len(assertions) = i - 1 /\ i \in 1..(Len(commitment.measure) + 1)
  /\ pc # "idle" => tims[1].value = String(call.tool)
  /\ decision.status # "none" <=> pc = "done"

\* What a rule says of a call, read off its arguments: a key stands for the
\* one argument folded to it, if that is a primitive value.
Stands(args, sym) ==
  {a \in DOMAIN args :
     /\ args[a].name.sym = sym /\ Primitive(args[a].value)
     /\ \A b \in DOMAIN args : args[b].name.sym = sym => b = a}
Known(r, c, j) ==
  [n \in Names |->
     IF n = "tool" THEN String(c.tool)
     ELSE IF \E m \in 1..j : r.where[m].sym = n /\ Stands(c.args, n) # {}
     THEN c.args[CHOOSE a \in Stands(c.args, n) : TRUE].value
     ELSE Unbound]
Permits(r, c) ==
  /\ r.tool \in {c.tool, Star}
  /\ \A j \in DOMAIN r.where :
       /\ Stands(c.args, r.where[j].sym) # {}
       /\ EvaluateAssertion(r.where[j].assert, Known(r, c, j)) = "PASS"

\* A call is approved exactly when the rule for its tool, or else the rule for
\* any tool, permits it: every key of the rule stands for one argument and
\* passes on it and the keys before it.  What is missing, ambiguous or not
\* primitive denies (policy.ts:27-31).
ApprovedIsPermitted ==
  pc = "done" =>
    (decision.status = "APPROVED" <=>
       /\ call.tool # Empty
       /\ \/ \E r \in ToSet(policy) : r.tool = call.tool /\ Permits(r, call)
          \/ /\ \A r \in ToSet(policy) : r.tool # call.tool
             /\ \E r \in ToSet(policy) : r.tool = Star /\ Permits(r, call))
=============================================================================
