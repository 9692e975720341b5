------------------------- MODULE ConformanceMeaning -------------------------
(***************************************************************************)
(* What the executed vectors assert, said without the code that executes   *)
(* them.  v.from holds the inputs the expectation was taken from: other    *)
(* cids, another request.                                                  *)
(***************************************************************************)
EXTENDS Conformance

-----------------------------------------------------------------------------
(* What can be found in a vector *)

Cids(s) == s \in Seq([leaf : Nat]) /\ s # <<>>
Numbers(S) == S \subseteq Int /\ IsFiniteSet(S)
ARequest(r) == r = [commitment_cid |-> r.commitment_cid, verb |-> r.verb, rail |-> r.rail,
                    args |-> r.args, verb_index |-> r.verb_index]

\* The expectation was taken from v.from, or is the author's.
VectorMade(v) ==
  /\ v.check = "merkle_root" =>
       /\ Cids(v.inputs) /\ Cids(v.from) /\ v.expect.merkle_root = MerkleRoot(v.from)
       /\ v.expect.sorted_order \subseteq {SortCids(v.from)}
  /\ v.check = "inclusion_valid" =>
       /\ v.inputs.leaf \in [leaf : Nat] /\ v.inputs.path \in Seq(ToSet(v.inputs.path))
       /\ Cids(v.from) /\ v.inputs.root = MerkleRoot(v.from) /\ v.expect \in BOOLEAN
  /\ v.check = "idempotency_key" =>
       /\ ARequest(v.inputs) /\ ARequest(v.from)
       /\ v.expect.idempotency_key = DeriveIdempotencyKey(v.from)
       /\ v.expect.args_hash \subseteq {Multihash(v.from.args)}
  /\ v.check = "xr_statuses" =>
       v.inputs \in Seq(ToSet(v.inputs)) /\ v.expect \in Seq(ToSet(v.expect))
  /\ v.check = "all_depths_correct" => \A c \in v.inputs :
       c.registry_default \in Nat /\ Numbers(c.policy_pack_minimum) /\ Numbers(c.request_override)
  /\ v.check = "all_reorg_outcomes_correct" => \A c \in v.inputs :
       c.reorg_depth \in Int /\ c.finality_depth \in Int
  /\ v.check = "all_transitions_correct" => \A t \in v.inputs :
       {t.from, t.to} \subseteq XrStatuses /\ t.expect_allowed \in BOOLEAN
  /\ v.check = "spec_compat" =>
       IsFiniteSet(v.inputs.advertised) /\ v.expect = [valid |-> v.expect.valid]
  /\ v.check = "pack_merge" =>
       /\ v.expect = [effective |-> v.expect.effective]
       /\ Packs(v.inputs) \in Seq(PackSet(v.inputs))
       /\ \A p \in PackSet(v.inputs) :
            /\ Numbers(p.min_witnesses) /\ Numbers(p.finality)
            /\ Numbers(p.retention_days) /\ Numbers(p.amount_cap)

-----------------------------------------------------------------------------
(* What the vectors mean *)

NoDuplicates(s) == \A j, k \in DOMAIN s : s[j] = s[k] => j = k

\* A root is that of a set of cids.  A list that repeats its last cid has the
\* root of the list that does not.
RootMeaning(v) ==
  LET same == ToSet(v.inputs) = ToSet(v.from)
  IN v.check = "merkle_root" =>
       (/\ AlgorithmPasses(v) => same
        /\ (NoDuplicates(v.inputs) /\ NoDuplicates(v.from) /\ same) => AlgorithmPasses(v))

\* From the root down: the nodes a path, read backwards, may lead to.
Below(nodes, sibling) ==
  UNION {IF n.kids = {sibling} THEN n.kids ELSE n.kids \ {sibling} :
           n \in {m \in nodes : "kids" \in DOMAIN m /\ sibling \in m.kids}}
Reached(root, path) == FoldLeft(Below, {root}, Reverse(path))

\* A proof holds for the cids of the batch, on their way from the root, and for
\* no other.
InclusionMeaning(v) ==
  LET holds == AlgorithmPasses(v) = v.expect
  IN v.check = "inclusion_valid" =>
       (/\ holds <=> v.inputs.leaf \in Reached(v.inputs.root.mh, v.inputs.path)
        /\ holds => v.inputs.leaf \in ToSet(v.from))

\* A key is that of one request.
KeyMeaning(v) == v.check = "idempotency_key" =>
  (AlgorithmPasses(v) <=> v.inputs = v.from)

\* Up to the first failure all is as it came out, and nothing after it is done.
CascadeMeaning(v) == v.check = "xr_statuses" =>
  (AlgorithmPasses(v) <=>
      /\ Len(v.expect) = Len(v.inputs)
      /\ \A j \in DOMAIN v.inputs :
           v.expect[j] = IF \E k \in 1..(j - 1) : v.inputs[k] = "failed" THEN "skipped" ELSE v.inputs[j])

\* A depth is at least what every party asks for, and what one of them does; a
\* request may not ask for less than the policy pack.
DepthMeaning(v) == v.check = "all_depths_correct" =>
  (AlgorithmPasses(v) /\ v.expect =>
      \A c \in v.inputs :
        LET asked == {c.registry_default} \cup c.policy_pack_minimum \cup c.request_override
        IN /\ c.expect_depth \in asked /\ \A d \in asked : d <= c.expect_depth
           /\ \A o \in c.request_override : \A p \in c.policy_pack_minimum : p <= o)

\* What was final is never anchored again without anyone being told.
ReorgMeaning(v) == v.check = "all_reorg_outcomes_correct" =>
  (AlgorithmPasses(v) /\ v.expect =>
      \A c \in v.inputs :
        /\ c.expect_outcome.reanchor # c.expect_outcome.alert
        /\ c.expect_outcome.alert <=> c.finality_depth <= c.reorg_depth)

\* Statuses only advance, and two are for good.
TransitionMeaning(v) == v.check = "all_transitions_correct" =>
  (AlgorithmPasses(v) /\ v.expect =>
      \A t \in v.inputs : t.expect_allowed =>
        LET rank == [pending |-> 0, success |-> 1, failed |-> 1, rolled_back |-> 2, skipped |-> 2]
        IN rank[t.from] < rank[t.to] /\ t.to # "skipped")

\* Each requirement is met by an entry, if there is something to meet.
CompatMeaning(v) == v.check = "spec_compat" =>
  (VectorPasses(v) =>
      (v.expect.valid <=>
         \A r \in v.inputs.required :
           /\ r.level \in Int
           /\ \/ r.level <= 0
              \/ \E e \in v.inputs.advertised : e.spec = r.spec /\ e.level \in Int /\ e.level >= r.level))

\* No pack is relaxed by another: the merged pack asks for as much as each.
MergeMeaning(v) == v.check = "pack_merge" =>
  (VectorPasses(v) =>
      LET merged == v.expect.effective IN
      \A p \in PackSet(v.inputs) :
        /\ \A w \in p.min_witnesses : \E m \in merged.min_witnesses : m >= w
        /\ \A d \in p.finality : \E m \in merged.finality : m >= d
        /\ \A r \in p.retention_days : \E m \in merged.retention_days : m <= r
        /\ \A c \in p.amount_cap : \E m \in merged.amount_cap : m <= c)
=============================================================================
