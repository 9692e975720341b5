-------------------------- MODULE NotaryAlgorithms --------------------------
(***************************************************************************)
(* The reference algorithms of scripts/lib/merkle.ts: Merkle roots and     *)
(* inclusion proofs of the Notary, its finality, and the idempotency keys  *)
(* and transitions of the Settler.                                         *)
(*                                                                         *)
(* Bytes are what they are the encoding of: a cid is [leaf |-> n] with n   *)
(* its place in bytewise order, an inner node of a tree has two kids (one  *)
(* when they are equal), and a root in text is the multihash of a node,    *)
(* which are other bytes than the node's.  An optional number is the set   *)
(* of it, or {}.                                                           *)
(***************************************************************************)
EXTENDS Integers, Sequences, FiniteSets, SequencesExt, FiniteSetsExt

-----------------------------------------------------------------------------
(* Merkle trees *)

\* The two are put in bytewise order, so that a node does not tell them apart.
MerkleNode(left, right) == [kids |-> {left, right}]
EncodeRoot(bytes) == [mh |-> bytes]

\* Mutant: the last node of an odd level is forgotten.
NextLevelEven(level) ==
  IF Len(level) = 1 THEN level
  ELSE [j \in 1..(Len(level) \div 2) |-> MerkleNode(level[2*j - 1], level[2*j])]
\* The last node of an odd level is its own sibling.
NextLevel(level) ==
  IF Len(level) = 1 THEN level
  ELSE [j \in 1..((Len(level) + 1) \div 2) |->
          MerkleNode(level[2*j - 1], level[IF 2*j > Len(level) THEN 2*j - 1 ELSE 2*j])]

\* Bytewise.
Before(a, b) == a # b /\ a.leaf < b.leaf
\* The r-th cid has fewer than r cids before it, and at least r that are not after it.
SortCids(cids) ==
  [r \in DOMAIN cids |->
     CHOOSE c \in ToSet(cids) :
       /\ Cardinality({j \in DOMAIN cids : Before(cids[j], c)}) < r
       /\ r <= Cardinality({j \in DOMAIN cids : ~Before(c, cids[j])})]

\* cids is not empty: merkleRoot throws when it is.
MerkleRoot(cids) ==
  LET level[h \in 0..Len(cids)] ==
        IF h = 0 THEN SortCids(cids)
        ELSE NextLevel(level[h - 1])
  IN EncodeRoot(level[Len(cids)][1])

VerifyInclusion(leaf, path, root) == EncodeRoot(FoldLeft(MerkleNode, leaf, path)) = root

-----------------------------------------------------------------------------
(* Settler keys *)

Multihash(canonical) == [mh |-> canonical]

DeriveIdempotencyKey(r) ==
  Multihash([args_hash |-> Multihash(r.args), commitment_cid |-> r.commitment_cid,
             rail |-> r.rail, verb |-> r.verb, verb_index |-> r.verb_index])

-----------------------------------------------------------------------------
(* Finality and transitions *)

\* Mutant: what the request asks for replaces what the policy pack does.
DepthOverridden(c) ==
  [depth |-> Max({c.registry_default} \cup
                 (IF c.request_override = {} THEN c.policy_pack_minimum ELSE c.request_override)),
   violation |-> FALSE]
\* What is not given counts as 0.
OrZero(given) == IF given = {} THEN {0} ELSE given
FinalityDepth(c) ==
  [depth |-> Max({c.registry_default} \cup OrZero(c.policy_pack_minimum)
                 \cup OrZero(c.request_override)),
   violation |-> \E o \in c.request_override : o < Max(OrZero(c.policy_pack_minimum))]

ReorgOutcome(reorg, finality) ==
  IF reorg < finality
  THEN [status |-> "reorged", reanchor |-> TRUE, alert |-> FALSE]
  ELSE [status |-> "finality_violated", reanchor |-> FALSE, alert |-> TRUE]

XrStatuses == {"pending", "success", "failed", "rolled_back", "skipped"}

CanTransition(from, to, withinWindow, railSupports) ==
  \/ from = "pending" /\ to \in {"success", "failed", "rolled_back"}
  \/ from = "success" /\ withinWindow /\ to = "rolled_back"
  \/ from = "failed" /\ railSupports /\ to = "rolled_back"
=============================================================================
