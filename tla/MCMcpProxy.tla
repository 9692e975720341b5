----------------------------- MODULE MCMcpProxy -----------------------------
(* Small instances of the proxy for TLC. *)
EXTENDS McpAudit, TLC

CONSTANTS i1, i2, k1, k2, allowed, refused

\* String() keeps the two ids apart ...
MCDistinctKeys == (i1 :> k1) @@ (i2 :> k2)
\* ... or does not: the number 1 and the string "1".
MCClashingKeys == (i1 :> k1) @@ (i2 :> k1)
\* An approved load with two TIMs, a refused one with one.
MCVerdict == (allowed :> "APPROVED") @@ (refused :> "REJECTED")
MCTimCount == (allowed :> 2) @@ (refused :> 1)
\* Exchanging the two ids together with their keys changes nothing.
MCSymmetry ==
  {f \in Permutations(Ids \cup Keys) :
     \A i \in Ids : f[i] \in Ids /\ f[KeyOf[i]] = KeyOf[f[i]]}
=============================================================================
