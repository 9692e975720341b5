---------------------------- MODULE Conformance ----------------------------
(***************************************************************************)
(* The vectors verify-artifacts.ts executes: it computes the result from   *)
(* the inputs and compares it with what the vector expects.                *)
(*                                                                         *)
(* A vector is [check, inputs, expect, from]: the check it names (or the   *)
(* algorithm its fields ask for), and from, which the code never sees: the *)
(* inputs its author took the expectation from.  An optional value is the  *)
(* set of it, or {}.  Of an object only the members a check reads are      *)
(* there.                                                                  *)
(***************************************************************************)
EXTENDS NotaryAlgorithms

-----------------------------------------------------------------------------
(* Algorithmic vectors *)

\* Mutant: what comes after a failure goes on.
CascadeOn(outcomes) == outcomes
CascadeStep(s, o) ==
  [out |-> Append(s.out, IF s.stopped THEN "skipped" ELSE o), stopped |-> s.stopped \/ o = "failed"]
FailureCascade(outcomes) ==
  FoldLeft(CascadeStep, [out |-> <<>>, stopped |-> FALSE], outcomes).out

CompensationMap ==
  [pay |-> "refund", slash |-> "pay", upgrade |-> "revoke", revoke |-> "upgrade",
   signal |-> "signal", control |-> "control"]

DepthRight(c) == ~FinalityDepth(c).violation /\ FinalityDepth(c).depth = c.expect_depth
ReorgRight(c) == ReorgOutcome(c.reorg_depth, c.finality_depth) = c.expect_outcome
TransitionRight(t) ==
  CanTransition(t.from, t.to, t.withinWindow, t.railSupports) = t.expect_allowed
CompensationRight(c) ==
  /\ c.verb \in DOMAIN CompensationMap
  /\ CompensationMap[c.verb] = c.expect_compensation

RootRight(cids, expect) ==
  /\ MerkleRoot(cids) = expect.merkle_root
  /\ \A order \in expect.sorted_order : SortCids(cids) = order
KeyRight(request, expect) ==
  /\ DeriveIdempotencyKey(request) = expect.idempotency_key
  /\ \A hash \in expect.args_hash : Multihash(request.args) = hash

\* A list of cases is right as a whole, or not, as the vector says.
AlgorithmPasses(v) ==
  CASE v.check = "merkle_root" -> RootRight(v.inputs, v.expect)
    [] v.check = "inclusion_valid" ->
         VerifyInclusion(v.inputs.leaf, v.inputs.path, v.inputs.root) = v.expect
    [] v.check = "idempotency_key" -> KeyRight(v.inputs, v.expect)
    [] v.check = "xr_statuses" -> FailureCascade(v.inputs) = v.expect
    [] v.check = "all_mappings_correct" -> (\A c \in v.inputs : CompensationRight(c)) = v.expect
    [] v.check = "all_depths_correct" -> (\A c \in v.inputs : DepthRight(c)) = v.expect
    [] v.check = "all_reorg_outcomes_correct" -> (\A c \in v.inputs : ReorgRight(c)) = v.expect
    [] v.check = "policy_violation" -> FinalityDepth(v.inputs).violation = v.expect
    [] v.check = "all_transitions_correct" -> (\A t \in v.inputs : TransitionRight(t)) = v.expect

-----------------------------------------------------------------------------
(* Checks by name *)

Errors(valid, code) == IF valid THEN {} ELSE {code}
Outcome(valid, code) == [valid |-> valid, errors |-> Errors(valid, code)]

\* The highest level advertised for a spec; an entry that is no number is passed over.
Advertised(entries, spec) == Max({0} \cup {e.level : e \in {x \in entries : x.spec = spec /\ x.level \in Int}})
SpecCompat(in) ==
  Outcome(\A r \in in.required : r.level \in Int /\ Advertised(in.advertised, r.spec) >= r.level,
          "discovery.unsupported_level")

AuthValues(auth) ==
  Outcome(auth # {} /\ auth \subseteq {"none", "mtls", "oauth2", "apikey"}, "common.invalid_argument")

\* The first that is there: the request's, the scope's, the provider's.
PolicyBinding(in) ==
  LET bound == IF in.explicit # {} THEN in.explicit
               ELSE IF in.scope_default # {} THEN in.scope_default ELSE in.provider_default
  IN Outcome(bound # {}, "policy.unresolvable_pack") @@
       (IF bound # {} THEN [bound |-> bound] ELSE <<>>)

CapabilityAccuracy(in) ==
  [valid |-> in.advertised = in.observed, errors |-> {},
   missing |-> in.advertised \ in.observed, undeclared |-> in.observed \ in.advertised]

HealthEndpoints(endpoints) ==
  LET missing == {n \in {"health", "ready"} : [name |-> n, method |-> "GET"] \notin endpoints}
  IN [valid |-> missing = {}, errors |-> missing]

\* Only of a type that is registered with its bounds.
Freshness(in) ==
  LET age == in.at - in.ts
  IN IF ~in.registered THEN Outcome(FALSE, "common.invalid_argument")
     ELSE Outcome(age >= 0 - in.accept_skew /\ age <= in.max_age + in.accept_skew,
                  "common.unauthorized")

AttestPolicy(in) ==
  LET violations == {k \in DOMAIN in.equals : in.claims[k] # in.equals[k]} \cup
                    {k \in DOMAIN in.one_of : in.claims[k] \cap in.one_of[k] = {}}
  IN [valid |-> violations = {}, errors |-> {}, violations |-> violations]

Packs(in) == <<in.root>> \o in.overlays
PackSet(in) == {Packs(in)[j] : j \in DOMAIN Packs(in)}
\* Mutant: the last pack that says so decides.
LastPack(in) ==
  LET last == Packs(in)[Len(Packs(in))]
  IN [min_witnesses |-> last.min_witnesses, retention_days |-> last.retention_days,
      finality |-> last.finality, amount_cap |-> last.amount_cap]
\* The most restrictive of what the packs say; of the chains and the currencies,
\* one each.
MergePacks(in) ==
  LET Said(member) == UNION {p[member] : p \in PackSet(in)}
      Most(set) == IF set = {} THEN {} ELSE {Max(set)}
      Least(set) == IF set = {} THEN {} ELSE {Min(set)}
  IN [min_witnesses  |-> Most(Said("min_witnesses")),
      retention_days |-> Least(Said("retention_days")),
      finality   |-> IF Said("finality") = {} THEN {} ELSE {Max(Said("finality") \cup {0})},
      amount_cap |-> Least(Said("amount_cap"))]
PackMerge(in) ==
  LET forbidden == \E j \in DOMAIN in.overlays : \E w \in in.overlays[j].min_witnesses :
                     \E r \in in.root.min_witnesses : w < r
  IN [valid |-> ~forbidden, errors |-> Errors(~forbidden, "policy.forbidden_override"),
      effective |-> MergePacks(in)]

ErrorEnvelope(e) ==
  LET errors ==
        (IF {"type", "code", "title", "severity", "ts"} \subseteq e.present THEN {} ELSE {"field.missing"})
          \cup (IF "severity" \in e.present /\ ~e.severityKnown THEN {"severity.invalid"} ELSE {})
          \cup (CASE "code" \notin e.present -> {}
                  [] e.namespace = "malformed" -> {"code.malformed"}
                  [] e.namespace = "unknown" -> {"code.unknown_namespace"}
                  [] OTHER -> {})
          \cup (CASE e.retry = {} -> {}
                  [] e.retry \cap {"never", "immediate", "after", "exponential"} = {} -> {"retry.policy_invalid"}
                  [] e.retry = {"after"} /\ ~e.afterMs -> {"retry.after_ms_missing"}
                  [] OTHER -> {})
  IN [valid |-> errors = {}, errors |-> errors,
      effective_retry |-> IF e.retry = {} THEN {"never"} ELSE e.retry]

\* What is computed from the inputs.
Got(v) ==
  CASE v.check = "spec_compat" -> SpecCompat(v.inputs)
    [] v.check = "auth_values" -> AuthValues(v.inputs)
    [] v.check = "policy_binding" -> PolicyBinding(v.inputs)
    [] v.check = "capability_accuracy" -> CapabilityAccuracy(v.inputs)
    [] v.check = "health_endpoints" -> HealthEndpoints(v.inputs)
    [] v.check = "freshness" -> Freshness(v.inputs)
    [] v.check = "attest_policy" -> AttestPolicy(v.inputs)
    [] v.check = "pack_merge" -> PackMerge(v.inputs)
    [] v.check = "error_envelope" -> ErrorEnvelope(v.inputs)

\* Only the fields the vector expects are compared.
ExpectMatch(expect, got) == \A k \in DOMAIN got \cap DOMAIN expect : expect[k] = got[k]

Algorithms ==
  {"merkle_root", "inclusion_valid", "idempotency_key", "xr_statuses", "all_mappings_correct",
   "all_depths_correct", "all_reorg_outcomes_correct", "policy_violation", "all_transitions_correct"}

VectorPasses(v) ==
  IF v.check \in Algorithms THEN AlgorithmPasses(v) ELSE ExpectMatch(v.expect, Got(v))
=============================================================================
