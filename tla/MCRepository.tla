---------------------------- MODULE MCRepository ----------------------------
(***************************************************************************)
(* Repositories of two files with an artifact each, of the reference path  *)
(* that is still to be generated, and of one executed vector.              *)
(***************************************************************************)
EXTENDS Repository

CONSTANTS k1, k2, k3, Web

MCKeys == {k1, k2, k3}
MCKids == [kid \in {TestKid, WitnessKid, NotaryKid} |->
             CASE kid = TestKid -> k1 [] kid = WitnessKid -> k2 [] OTHER -> k3]

W(text) == [text |-> text, cites |-> <<>>]
MCContents == {W("one"), W("two"), NonFinite}
MCIds == {k1, k3, Web}
MCExps == {1, 2}
MCTimes == {1, 2}
MCCoSigners == {<<k1, k1>>, <<k3, k3>>, <<k2, WitnessKid>>}
MCScenarios == {[measured |-> m, committed |-> c] : m \in {"hot", "cold"}, c \in {"pay"}}

-----------------------------------------------------------------------------
(* Artifacts *)

Made(kind, id, witnesses, cid, sig) ==
  [kind |-> kind, id |-> id, what |-> W("one"), exp |-> None,
   time |-> IF kind = "tim" \/ witnesses # None
            THEN [given |-> TRUE, ts |-> 1, witnesses |-> witnesses] ELSE NoTime,
   cid |-> cid, sig |-> sig]
Legacy == [SignDetached(W("one"), k1, TestKid) EXCEPT !.b64 = TRUE, !.between = TRUE]

In(place, artifact) ==
  [place |-> place, artifact |-> artifact, valid |-> None, crypto |-> TRUE, fresh |-> None]

FreshTim == Made("tim", k1, None, Placeholder, Placeholder)
First ==
  {In("file", FreshTim),
   In("core", Made("tim", Web, <<Placeholder, Placeholder>>, None, Legacy)),
   In("file", Made("registry", None, <<Placeholder>>, None, None)),
   [In("inputs.tim", FreshTim) EXCEPT !.fresh = [at |-> 1, expect |-> FALSE], !.artifact.exp = 1],
   [In("inputs.tim", FreshTim) EXCEPT !.valid = FALSE]}
Artifacts == {[n \in {"a", "b"} |-> IF n = "a" THEN f ELSE In("tim", FreshTim)] : f \in First}

MCOrder(names) ==
  SelectSeq(<<"a", "b", "tim", "anchor", "kernel", "decision", "xr", "chain", "v">>,
            LAMBDA n : n \in names)
PathAbsent == [n \in PathNames |-> Torn]

-----------------------------------------------------------------------------
(* Vectors *)

Vector(check, inputs, expect, from) ==
  [n \in {"v"} |->
    [place |-> "vector", valid |-> None,
     vector |-> [check |-> check, inputs |-> inputs, expect |-> expect, from |-> from]]]

Leaf(n) == [leaf |-> n]
SomeCids == UNION {[1..n -> {Leaf(j) : j \in 1..3}] : n \in 1..3}
              \cup {[j \in 1..n |-> Leaf(j)] : n \in 4..6}
              \cup {<<Leaf(5), Leaf(1), Leaf(2), Leaf(4)>>, <<Leaf(4), Leaf(3), Leaf(2), Leaf(1)>>}
RootOf(d) ==
  [merkle_root |-> MerkleRoot(d), sorted_order |-> IF Len(d) = 3 THEN {SortCids(d)} ELSE {}]
RootVectors == {Vector("merkle_root", c, RootOf(d), d) : c, d \in SomeCids}

RECURSIVE Nodes(_)
Nodes(n) == {n} \cup (IF "kids" \in DOMAIN n THEN UNION {Nodes(k) : k \in n.kids} ELSE {})
PathsUpTo(S, n) == UNION {[1..m -> S] : m \in 0..n}
Batches == {[j \in 1..n |-> Leaf(j)] : n \in 1..4}
InclusionVectors ==
  UNION {LET root == MerkleRoot(b)
             siblings == Nodes(root.mh) \cup {Leaf(6), root}
         IN {Vector("inclusion_valid", [leaf |-> l, path |-> p, root |-> root], e, b) :
               l \in {Leaf(1), Leaf(3), Leaf(6)}, e \in BOOLEAN, p \in PathsUpTo(siblings, 2)} :
           b \in Batches}

Request == [commitment_cid : {"c"}, verb : {"pay", "refund"}, rail : {"ach"}, args : {"x", "y"},
            verb_index : 0..1]
KeyOf(s) ==
  [idempotency_key |-> DeriveIdempotencyKey(s),
   args_hash |-> IF s.verb = "pay" THEN {Multihash(s.args)} ELSE {}]
KeyVectors == {Vector("idempotency_key", r, KeyOf(s), s) : r, s \in Request}

CascadeVectors ==
  {Vector("xr_statuses", o, e, o) :
     o \in PathsUpTo({"success", "failed"}, 3), e \in PathsUpTo({"success", "failed", "skipped"}, 3)}

Optional(S) == {{}} \cup {{x} : x \in S}
DepthVectors ==
  {Vector("all_depths_correct",
          {[registry_default |-> r, policy_pack_minimum |-> p, request_override |-> o,
            expect_depth |-> d]}, e, {}) :
     r \in 0..2, p \in Optional(0..3), o \in Optional(0..3), d \in 0..3, e \in BOOLEAN}
ReorgVectors ==
  {Vector("all_reorg_outcomes_correct",
          {[reorg_depth |-> r, finality_depth |-> f, expect_outcome |-> ReorgOutcome(q, g)]}, e, {}) :
     r, f \in 0..2, q, g \in 0..1, e \in BOOLEAN}
TransitionVectors ==
  {Vector("all_transitions_correct",
          {[from |-> x, to |-> y, withinWindow |-> w, railSupports |-> s, expect_allowed |-> a]}, e, {}) :
     x, y \in XrStatuses, w, s, a, e \in BOOLEAN}
MappingVectors ==
  {Vector("all_mappings_correct", {[verb |-> x, expect_compensation |-> y]}, TRUE, {}) :
     x, y \in {"pay", "refund", "slash"}}
OverrideVectors ==
  {Vector("policy_violation", [registry_default |-> 1, policy_pack_minimum |-> {2},
                               request_override |-> o], TRUE, {}) : o \in Optional(1..2)}

Levels(S) == [spec : {"s", "t"}, level : S]
CompatVectors ==
  {Vector("spec_compat", [advertised |-> a, required |-> r], [valid |-> e], {}) :
     a \in {S \in SUBSET Levels({None, 1, 2}) : Cardinality(S) <= 2},
     r \in {S \in SUBSET Levels({None, 0, 2}) : Cardinality(S) <= 1}, e \in BOOLEAN}
Pack == [min_witnesses : Optional(1..2), retention_days : Optional(1..2), finality : {{1}, {2}},
         amount_cap : Optional({5})]
MergeVectors ==
  {Vector("pack_merge", [root |-> r, overlays |-> <<o>>],
          [effective |-> MergePacks([root |-> r, overlays |-> <<o>>])], {}) : r, o \in Pack}
Claims == [equals : {[k |-> {"v"}]}, one_of : {[k |-> {"v", "w"}]}, claims : [{"k"} -> Optional({"v", "w"})]]
AuthVectors ==
  {Vector("auth_values", a, [valid |-> TRUE], {}) : a \in {{}, {"none"}, {"none", "basic"}}}
BindingVectors ==
  {Vector("policy_binding", [explicit |-> x, scope_default |-> y, provider_default |-> {}],
          [valid |-> TRUE, bound |-> {"p"}], {}) : x, y \in Optional({"p", "q"})}
CapabilityVectors ==
  {Vector("capability_accuracy", [advertised |-> x, observed |-> y], [valid |-> TRUE], {}) :
     x, y \in SUBSET {"a", "b"}}
HealthVectors ==
  {Vector("health_endpoints", x, [valid |-> TRUE], {}) :
     x \in SUBSET [name : {"health", "ready"}, method : {"GET", "POST"}]}
FreshnessVectors ==
  {Vector("freshness", [registered |-> r, at |-> a, ts |-> 2, max_age |-> 1, accept_skew |-> 1],
          [valid |-> TRUE], {}) : r \in BOOLEAN, a \in 0..5}
AttestVectors == {Vector("attest_policy", c, [valid |-> TRUE], {}) : c \in Claims}
EnvelopeVectors ==
  {Vector("error_envelope",
          [present |-> p, severityKnown |-> s, namespace |-> n, retry |-> r, afterMs |-> s],
          [valid |-> TRUE], {}) :
     p \in {{}, {"type", "code", "title", "severity", "ts"}}, s \in BOOLEAN,
     n \in {"known", "unknown", "malformed"}, r \in Optional({"after", "never", "later"})}

MCStart ==
  [artifacts |-> Artifacts, path |-> {PathAbsent}, root |-> RootVectors, inclusion |-> InclusionVectors,
   key |-> KeyVectors, cascade |-> CascadeVectors, depth |-> DepthVectors, reorg |-> ReorgVectors,
   transition |-> TransitionVectors, mapping |-> MappingVectors, override |-> OverrideVectors,
   compat |-> CompatVectors, merge |-> MergeVectors, auth |-> AuthVectors, binding |-> BindingVectors,
   capability |-> CapabilityVectors, health |-> HealthVectors, freshness |-> FreshnessVectors,
   attest |-> AttestVectors, envelope |-> EnvelopeVectors]
=============================================================================
