--------------------------- MODULE ReferencePath ---------------------------
(***************************************************************************)
(* The reference path: five artifacts that cite one another by cid, as     *)
(* gen-reference-path.ts makes them and verify-artifacts.ts walks them.    *)
(*                                                                         *)
(* The content of an artifact here is [text, cites]; a scenario is the     *)
(* texts of the script, for the measurement and for the commitment.        *)
(***************************************************************************)
EXTENDS ArtifactVerifier, NotaryAlgorithms

CONSTANTS NotaryKey, NotaryKid

Roles == {"tim", "anchor", "kernel", "decision", "xr"}

Body(kind, id, time, text, cites) ==
  [kind |-> kind, id |-> id, what |-> [text |-> text, cites |-> cites], exp |-> None,
   time |-> time, cid |-> None, sig |-> None]

SignPath(body, key, kid) ==
  [body EXCEPT !.cid = Cid(Jcs(body)), !.sig = SignDetached(Jcs(body), key, kid)]

\* The notary witnesses what the issuer signed.
PathTim(scenario) ==
  LET body == Body("tim", DidKeyFromPublicKey(TestKey),
                   [given |-> TRUE, ts |-> 1, witnesses |-> None], scenario.measured, <<>>)
  IN [SignPath(body, TestKey, TestKid) EXCEPT
        !.time.witnesses = <<SignDetached(Jcs(body), NotaryKey, NotaryKid)>>]
PathAnchor(tim) ==
  SignPath(Body("anchor", None, NoTime, "anchor",
                [cid_root |-> MerkleRoot(<<tim.cid>>), witnessed_cid |-> tim.cid,
                 proof_leaf |-> tim.cid]), NotaryKey, NotaryKid)
PathKernel(scenario) ==
  SignPath(Body("kernel", None, NoTime, scenario.committed, <<>>), TestKey, TestKid)
PathDecision(tim, kernel) ==
  SignPath(Body("decision", None, NoTime, "APPROVED",
                [kernel_cid |-> kernel.cid, input |-> tim.cid]), TestKey, TestKid)
PathXr(kernel, decision) ==
  SignPath(Body("receipt", None, NoTime, "success",
                [commitment_cid |-> kernel.cid, decision_cid |-> decision.cid,
                 idempotency_key |-> DeriveIdempotencyKey(
                   [commitment_cid |-> kernel.cid, verb |-> "pay", rail |-> "ach",
                    args |-> kernel.what.text, verb_index |-> 0])]), NotaryKey, NotaryKid)

PathArtifacts(scenario) ==
  LET tim == PathTim(scenario)  kernel == PathKernel(scenario)
      decision == PathDecision(tim, kernel)
  IN [tim |-> tim, anchor |-> PathAnchor(tim), kernel |-> kernel, decision |-> decision,
      xr |-> PathXr(kernel, decision)]

Links == {<<"anchor", "witnessed_cid", "tim">>, <<"anchor", "proof_leaf", "tim">>,
          <<"decision", "input", "tim">>, <<"decision", "kernel_cid", "kernel">>,
          <<"xr", "commitment_cid", "kernel">>, <<"xr", "decision_cid", "decision">>}

Chained(artifact) ==
  [place |-> "chained", artifact |-> artifact, valid |-> None, crypto |-> TRUE, fresh |-> None]
Chain(artifacts) ==
  [place |-> "chain", valid |-> None, values |-> [l \in Links |-> artifacts[l[3]].cid]]

\* The files in the order they are written, the chain last.
PathWrites(scenario) ==
  LET artifacts == PathArtifacts(scenario)
      Of(role) == [name |-> role, file |-> Chained(artifacts[role])]
  IN <<Of("tim"), Of("anchor"), Of("kernel"), Of("decision"), Of("xr"),
       [name |-> "chain", file |-> Chain(artifacts)]>>

-----------------------------------------------------------------------------
(* Walking the chain *)

\* readPath(): undefined when it is not there.
Cite(a, name) ==
  IF a.what \in {NonFinite, WithNull} \/ name \notin DOMAIN a.what.cites THEN None
  ELSE a.what.cites[name]

\* Mutant: that the target still has the cid is not looked at.
LinkCited(files, l) == Cite(files[l[1]].artifact, l[2]) = files["chain"].values[l]
LinkHolds(files, l) ==
  /\ Cite(files[l[1]].artifact, l[2]) = files["chain"].values[l]
  /\ files[l[3]].artifact.cid = files["chain"].values[l]

\* A chain that cannot be read is taken for none, and nothing is reported.
PathPasses(files) ==
  files["chain"] = Torn \/
    /\ \A role \in Roles : files[role] # Torn /\ FilePasses(files[role])
    /\ \A l \in Links : LinkHolds(files, l)
=============================================================================
