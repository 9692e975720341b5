-------------------------- MODULE MCReleaseCheck --------------------------
(***************************************************************************)
(* Two suites of two levels, and what is published of them: as it should   *)
(* be, or with one number corrupted, as in the negative-test protocol of   *)
(* release-check.ts.                                                       *)
(***************************************************************************)
EXTENDS ReleaseCheck

MCSuites == <<"kernel", "registries">>
MCLevels == <<"L1", "L2">>
MCFiles == {"x", "y"}

Vectors(k1, k2, r1) ==
  [s \in {"kernel", "registries"} |->
     IF s = "kernel" THEN [l \in {"L1", "L2"} |-> IF l = "L1" THEN k1 ELSE k2]
     ELSE [l \in {"L1", "L2"} |-> IF l = "L1" THEN r1 ELSE {}]]
Declared == [kernel |-> {"L1", "L2"}, registries |-> {"L1"}]

N(d, s) == Cardinality(d[s]["L1"]) + Cardinality(d[s]["L2"])
Consistent(d) ==
  LET sum == N(d, "kernel") + N(d, "registries") IN
  [disk |-> d,
   manifests |-> [s \in DOMAIN Declared |->
     [levels |-> [l \in Declared[s] |-> [vectors |-> d[s][l], coverage |-> Cardinality(d[s][l])]],
      total |-> N(d, s)]],
   releases |-> [s \in DOMAIN Declared |->
     [levels |-> [l \in Declared[s] |-> Cardinality(d[s][l])], total |-> N(d, s)]],
   prose |->
     [rows |-> [s \in DOMAIN Declared |->
        [cells |-> IF s = "kernel" THEN <<Cardinality(d[s]["L1"]), Cardinality(d[s]["L2"])>>
                   ELSE <<Cardinality(d[s]["L1"]), Dash>>,
         total |-> N(d, s)]],
      grand |-> sum, metric |-> <<sum, sum>>, claim |-> 3, results |-> 3,
      tokens |-> {[suite |-> s, level |-> "L1", n |-> Cardinality(d[s]["L1"])] : s \in DOMAIN Declared}]]

Wrong == 9
Corrupted(b) ==
  {[b EXCEPT !.manifests.kernel.levels["L1"].coverage = Wrong],
   [b EXCEPT !.manifests.kernel.levels["L2"].coverage = Wrong],
   [b EXCEPT !.manifests.kernel.levels["L2"].vectors = @ \cup {"phantom"}],
   [b EXCEPT !.manifests.registries.total = Wrong],
   [b EXCEPT !.releases.kernel.levels["L2"] = Wrong],
   [b EXCEPT !.releases.kernel.total = Wrong],
   [b EXCEPT !.releases.registries = None],
   [b EXCEPT !.releases = Torn],
   [b EXCEPT !.prose.rows.kernel.cells[2] = Wrong],
   [b EXCEPT !.prose.rows.registries.total = Wrong],
   [b EXCEPT !.prose.rows.registries = None],
   [b EXCEPT !.prose.grand = Wrong],
   [b EXCEPT !.prose.tokens = {[suite |-> "kernel", level |-> "L2", n |-> Wrong]}],
   [b EXCEPT !.prose.metric = <<@[1], Wrong>>],
   [b EXCEPT !.prose.claim = Wrong],
   [b EXCEPT !.prose = [@ EXCEPT !.grand = None, !.metric = None, !.claim = None]]}

Bases == {Consistent(Vectors({"x"}, {}, {"x"})), Consistent(Vectors({"x"}, {"y"}, {"x"}))}
MCStart == Bases \cup UNION {Corrupted(b) : b \in Bases}
=============================================================================
