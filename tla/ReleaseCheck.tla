---------------------------- MODULE ReleaseCheck ----------------------------
(***************************************************************************)
(* scripts/release-check.ts: the vectors on disk are counted, suite after  *)
(* suite, and compared with every place their counts are published; with   *)
(* --write the manifests and RELEASES.json are written from the disk.      *)
(* Authors add and remove vectors and edit what is published, and a        *)
(* --write may die between two files or inside one.                        *)
(*                                                                         *)
(* A list of vectors is a set of names.  Keys that are not there are None, *)
(* a file that is not JSON is Torn, and a number that differs from every   *)
(* count stands for all that do.                                           *)
(***************************************************************************)
EXTENDS Integers, Sequences, FiniteSets, FiniteSetsExt, SequencesExt

CONSTANTS
  Suites,      \* SUITES, in its order
  Levels,      \* the levels a manifest may declare, in the order of the README's columns
  Files,       \* names of vectors
  Start,       \* the repositories to start from
  None, Torn,
  Dash,        \* the cell of a level that does not exist
  MaxEdits     \* bounds what the authors do

Suite == ToSet(Suites)
Level == ToSet(Levels)

ASSUME ReleaseAssumption ==
  /\ MaxEdits \in Nat /\ Len(Levels) <= 3
  /\ Suites \in Seq(Suite) /\ IsInjective(Suites)
  /\ Levels \in Seq(Level) /\ IsInjective(Levels)

\* A manifest declares levels, RELEASES.json lists levels of each suite it has,
\* and a row of the README has a cell for each level.
OfLevels(m) == m = [levels |-> m.levels, total |-> m.total] /\ DOMAIN m.levels \subseteq Level
Listed(r) == /\ r = [s \in Suite |-> r[s]]
             /\ \A s \in Suite : r[s] = None \/ OfLevels(r[s])
Row(row) == row = None \/ DOMAIN row.cells = DOMAIN Levels

ASSUME StartAssumption == \A b \in Start :
  /\ DOMAIN b.disk = Suite /\ \A s \in Suite, l \in Level : IsFiniteSet(b.disk[s][l])
  /\ DOMAIN b.manifests = Suite /\ \A s \in Suite : b.manifests[s] = Torn \/ OfLevels(b.manifests[s])
  /\ b.releases = Torn \/ Listed(b.releases)
  /\ \A s \in Suite : Row(b.prose.rows[s])
  /\ \A t \in b.prose.tokens : t.suite \in Suite

VARIABLES
  disk,       \* disk[suite][level]: the vectors of the level
  manifests,  \* manifests[suite]: [levels, total], levels to [vectors, coverage]
  releases,   \* RELEASES.json: suites to [levels, total]
  prose,      \* [rows, grand, tokens, metric, claim, results]
  run,        \* the script that is running
  verdict,    \* what the last run said: "consistent", "drift", "rewritten", "threw"
  untouched,  \* history: no author came between the start of that run and now
  edits

published == <<manifests, releases, prose>>
vars == <<disk, manifests, releases, prose, run, verdict, untouched, edits>>

Idle == [mode |-> "idle"]

Init ==
  /\ \E s \in Start :
       /\ disk = s.disk /\ manifests = s.manifests
       /\ releases = s.releases /\ prose = s.prose
  /\ run = Idle /\ verdict = "none" /\ untouched = FALSE /\ edits = 0

-----------------------------------------------------------------------------
(* Counting *)

\* A level without a file is no key of the map.
CountSuite(s) == [l \in {k \in Level : disk[s][k] # {}} |-> disk[s][l]]
CountOf(byLevel, l) == IF l \in DOMAIN byLevel THEN Cardinality(byLevel[l]) ELSE 0
Sum(f) == MapThenSumSet(LAMBDA x : f[x], DOMAIN f)
Total(byLevel) == Sum([l \in DOMAIN byLevel |-> Cardinality(byLevel[l])])
Grand(counts) == Sum([s \in DOMAIN counts |-> Total(counts[s])])

\* Mutant: the coverage is left as it was.
RepairedLists(m, byLevel) ==
  [levels |-> [l \in DOMAIN m.levels |->
     IF l \in DOMAIN byLevel THEN [m.levels[l] EXCEPT !.vectors = byLevel[l]] ELSE m.levels[l]],
   total |-> Total(byLevel)]
\* What --write makes of a manifest: a level that is not declared stays so, and a
\* level that lists nothing and has nothing is not looked at.
RepairedManifest(m, byLevel) ==
  [levels |-> [l \in DOMAIN m.levels |->
     IF l \in DOMAIN byLevel
     THEN [vectors |-> byLevel[l], coverage |-> Cardinality(byLevel[l])]
     ELSE IF m.levels[l].vectors # {} THEN [vectors |-> {}, coverage |-> 0] ELSE m.levels[l]],
   total |-> Total(byLevel)]
ManifestDrifts(m, byLevel) ==
  ~(DOMAIN byLevel \subseteq DOMAIN m.levels) \/ RepairedManifest(m, byLevel) # m

\* Levels that were released stay, with a count of zero.
RepairedRelease(r, byLevel) ==
  [levels |-> [l \in DOMAIN r.levels \cup DOMAIN byLevel |-> CountOf(byLevel, l)],
   total |-> Total(byLevel)]
ReleaseDrifts(r, byLevel) == r = None \/ RepairedRelease(r, byLevel) # r

-----------------------------------------------------------------------------
(* What is written by hand *)

\* The columns of a row are the declared levels, one after the other: Levels is
\* the order in which every manifest declares them.
RowDrifts(row, m, byLevel) ==
  LET Column(j) == Cardinality({k \in 1..j : Levels[k] \in DOMAIN m.levels})
  IN \/ row = None
     \/ \E j \in DOMAIN Levels :
          /\ Levels[j] \in DOMAIN m.levels
          /\ row.cells[Column(j)] # Dash /\ row.cells[Column(j)] # CountOf(byLevel, Levels[j])
     \/ row.total # Total(byLevel)

\* Mutant: a token of a level that is gone from the disk is not looked at.
ProseDriftsOnDisk(readme, counts) ==
  \/ readme.grand \notin {None, Grand(counts)}
  \/ \E t \in prose.tokens : t.level \in DOMAIN counts[t.suite] /\ t.n # CountOf(counts[t.suite], t.level)
  \/ prose.metric # None /\ prose.metric # <<Grand(counts), Grand(counts)>>
  \/ None \notin {prose.claim, prose.results} /\ prose.claim # prose.results
\* The README's grand total, the tokens LEVEL (n), the site's n/n, and what
\* CONFORMANCE.md says the last results were.
ProseDrifts(readme, counts) ==
  \/ readme.grand \notin {None, Grand(counts)}
  \/ \E t \in prose.tokens : t.n # CountOf(counts[t.suite], t.level)
  \/ prose.metric # None /\ prose.metric # <<Grand(counts), Grand(counts)>>
  \/ None \notin {prose.claim, prose.results} /\ prose.claim # prose.results

-----------------------------------------------------------------------------
(* The script *)

Ends(says) == run' = Idle /\ verdict' = says

\* RELEASES.json and the README are read first.
Begin ==
  /\ run = Idle /\ untouched' = TRUE
  /\ IF releases = Torn THEN Ends("threw")
     ELSE /\ \E mode \in {"check", "write"} :
               run' = [mode |-> mode, todo |-> Suites, counts |-> <<>>, releases |-> releases,
                       readme |-> prose, drift |-> FALSE, manifest |-> <<>>]
          /\ verdict' = "none"
  /\ UNCHANGED <<disk, published, edits>>

\* One suite: its files are counted, its manifest read and, when it is dirty,
\* kept to be written.
CompareSuite ==
  /\ run # Idle /\ run.todo # <<>> /\ run.manifest = <<>>
  /\ LET s == Head(run.todo)
         byLevel == CountSuite(s)
         m == manifests[s]
         r == run.releases[s]
     IN IF m = Torn THEN Ends("threw")
        ELSE /\ run' = [run EXCEPT
                  !.todo = Tail(@),
                  !.counts = [t \in DOMAIN @ \cup {s} |-> IF t = s THEN byLevel ELSE @[t]],
                  !.drift = @ \/ ManifestDrifts(m, byLevel) \/ ReleaseDrifts(r, byLevel)
                              \/ RowDrifts(run.readme.rows[s], m, byLevel),
                  !.releases[s] = IF r = None \/ run.mode = "check" THEN r
                                  ELSE RepairedRelease(r, byLevel),
                  !.manifest = IF run.mode = "write" /\ RepairedManifest(m, byLevel) # m
                               THEN <<s, RepairedManifest(m, byLevel)>> ELSE <<>>]
             /\ UNCHANGED verdict
  /\ UNCHANGED <<disk, published, untouched, edits>>

WriteManifest ==
  /\ run # Idle /\ run.manifest # <<>>
  /\ manifests' = [manifests EXCEPT ![run.manifest[1]] = run.manifest[2]]
  /\ run' = [run EXCEPT !.manifest = <<>>]
  /\ UNCHANGED <<disk, releases, prose, verdict, untouched, edits>>

\* After the last suite the documents are compared, and --write writes what it
\* read of RELEASES.json at the start, repaired.
Finish ==
  /\ run # Idle /\ run.todo = <<>> /\ run.manifest = <<>>
  /\ LET drift == run.drift \/ ProseDrifts(run.readme, run.counts)
     IN Ends(IF ~drift THEN "consistent" ELSE IF run.mode = "write" THEN "rewritten" ELSE "drift")
  /\ releases' = IF run.mode = "write" THEN run.releases ELSE releases
  /\ UNCHANGED <<disk, manifests, prose, untouched, edits>>

\* A --write that dies inside a write leaves the file torn.
Crash ==
  /\ run # Idle /\ Ends("none")
  /\ \/ UNCHANGED published
     \/ /\ run.manifest # <<>> /\ manifests' = [manifests EXCEPT ![run.manifest[1]] = Torn]
        /\ UNCHANGED <<releases, prose>>
     \/ /\ run.mode = "write" /\ run.todo = <<>> /\ run.manifest = <<>>
        /\ releases' = Torn /\ UNCHANGED <<manifests, prose>>
  /\ UNCHANGED <<disk, untouched, edits>>

-----------------------------------------------------------------------------
(* Authors *)

Edits == edits < MaxEdits /\ edits' = edits + 1 /\ untouched' = FALSE /\ UNCHANGED <<run, verdict>>

\* A vector is removed, or added, or gets another level.
EditVectors(s, l, f) ==
  /\ Edits
  /\ disk' = [disk EXCEPT ![s] =
       [k \in Level |-> IF k = l /\ f \notin @[k] THEN @[k] \cup {f} ELSE @[k] \ {f}]]
  /\ UNCHANGED published

\* A level is declared, or a torn file checked out again.
EditManifest(s) ==
  /\ Edits
  /\ \/ \E l \in Level : /\ manifests[s] # Torn /\ l \notin DOMAIN manifests[s].levels
                         /\ manifests' = [manifests EXCEPT ![s].levels =
                              [k \in DOMAIN @ \cup {l} |->
                                 IF k = l THEN [vectors |-> {}, coverage |-> 0] ELSE @[k]]]
     \/ \E b \in Start : manifests[s] = Torn /\ manifests' = [manifests EXCEPT ![s] = b.manifests[s]]
  /\ UNCHANGED <<disk, releases, prose>>
EditReleases ==
  /\ Edits
  /\ \E b \in Start : b.releases # releases /\ releases' = b.releases
  /\ UNCHANGED <<disk, manifests, prose>>
EditProse ==
  /\ Edits
  /\ \E b \in Start : b.prose # prose /\ prose' = b.prose
  /\ UNCHANGED <<disk, manifests, releases>>

Next ==
  \/ Begin \/ CompareSuite \/ WriteManifest \/ Finish \/ Crash
  \/ \E s \in Suite, l \in Level, f \in Files : EditVectors(s, l, f)
  \/ \E s \in Suite : EditManifest(s)
  \/ EditReleases \/ EditProse

Spec == Init /\ [][Next]_vars

-----------------------------------------------------------------------------
(* Properties *)

\* A manifest, and RELEASES.json, speak of the vectors there are: every file is
\* listed, nothing else is, and the numbers add up.  The coverage of a level
\* that lists nothing is not compared by the code, and may be anything.
ManifestsAgree ==
  \A s \in Suite :
    /\ \A l \in DOMAIN manifests[s].levels :
         /\ manifests[s].levels[l].vectors = disk[s][l]
         /\ disk[s][l] # {} => manifests[s].levels[l].coverage = Cardinality(disk[s][l])
    /\ \A l \in Level \ DOMAIN manifests[s].levels : disk[s][l] = {}
    /\ manifests[s].total = Cardinality(UNION {{l} \X disk[s][l] : l \in Level})
ReleasesAgree ==
  \A s \in Suite :
    /\ releases[s] # None /\ releases[s].total = Sum(releases[s].levels)
    /\ releases[s].total = manifests[s].total
    /\ \A l \in DOMAIN releases[s].levels : releases[s].levels[l] = Cardinality(disk[s][l])
ProseAgrees ==
  /\ \A s \in Suite :
       /\ prose.rows[s] # None /\ prose.rows[s].total = releases[s].total
       /\ (Level = DOMAIN manifests[s].levels /\ Dash \notin ToSet(prose.rows[s].cells)
             => Sum(prose.rows[s].cells) = prose.rows[s].total)
  /\ prose.grand # None => prose.grand = Sum([s \in Suite |-> prose.rows[s].total])
  /\ prose.metric # None => \A j \in 1..2 : prose.metric[j] = Sum([s \in Suite |-> releases[s].total])
  /\ \A t \in prose.tokens :
       t.n = IF t.level \in DOMAIN releases[t.suite].levels THEN releases[t.suite].levels[t.level] ELSE 0

\* "compares against every place counts are published" (release-check.ts:6): when
\* a run has nothing to report, and no author came in between, all that is
\* published agrees with the disk and with each other, also after a --write that
\* died between the manifests and RELEASES.json.
CleanMeansTrue ==
  verdict = "consistent" /\ untouched => ManifestsAgree /\ ReleasesAgree /\ ProseAgrees

\* "`--write` regenerates 1 and 2 from disk" (release-check.ts:16): it leaves
\* manifests and RELEASES.json that agree with the disk, whatever an earlier
\* --write that died had left, when every level that has vectors is declared and
\* every suite is in RELEASES.json: those two it only reports.
WriteRepairs ==
  verdict = "rewritten" /\ untouched
    /\ (\A s \in Suite : releases[s] # None /\ DOMAIN CountSuite(s) \subseteq DOMAIN manifests[s].levels)
  => ManifestsAgree /\ ReleasesAgree
=============================================================================
