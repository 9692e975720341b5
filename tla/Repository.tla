---------------------------- MODULE Repository ----------------------------
(***************************************************************************)
(* The repository's signed files under the hands of their authors, of      *)
(* `bun run sign` and of `bun run gen-reference-path`, any of which may    *)
(* die, and what `bun run verify` and the SDK's verifyTim make of them.    *)
(*                                                                         *)
(* The signer reads one file after another, and writes back what it signs: *)
(* an author may save the file in between.                                 *)
(***************************************************************************)
EXTENDS ReferencePath, Tim, ConformanceMeaning

CONSTANTS
  Start,      \* the repositories to start from, by what they are to show: functions from
              \* names to files
  Contents,   \* what an author may write for a content
  Ids, Exps, Times,
  CoSigners,  \* <<key, kid>> of those who witness and create TIMs
  Scenarios,  \* revisions of the reference path's script
  DirectoryOrder(_), \* names in the order the signer comes to them
  MaxEdits    \* bounds what the authors and the generator do

ASSUME RepositoryAssumption ==
  /\ MaxEdits \in Nat /\ TestKey \in Keys /\ WitnessKey \in Keys /\ NotaryKey \in Keys
  /\ CoSigners \subseteq Keys \X (Keys \cup DOMAIN KeyOfKid)
  /\ \A kid \in DOMAIN KeyOfKid : KeyOfKid[kid] \in Keys
  /\ DOMAIN KeyOfKid \cap Keys = {} /\ {TestKid, WitnessKid, NotaryKid} \subseteq DOMAIN KeyOfKid
  /\ KeyOfKid[WitnessKid] = WitnessKey

VARIABLES
  files,    \* from names to what is there
  issued,   \* history: who signed what
  visited,  \* history: which files the signer has "read", or "written", as they are now
  job,      \* the script that is running: [who, todo, held]
  edits

vars == <<files, issued, visited, job, edits>>

Names == DOMAIN files
Nobody == [who |-> "nobody", todo |-> <<>>, held |-> None]
PathNames == Roles \cup {"chain"}
HasArtifact(f) == f # Torn /\ f.place \notin {"chain", "vector"}

\* What an artifact says, whatever its form.
Meaning(a) ==
  [kind |-> a.kind, id |-> a.id, exp |-> a.exp, ts |-> a.time.ts,
   what |-> IF a.what = NonFinite THEN WithNull ELSE a.what]

SignaturesOf(a) ==
  {s \in {a.sig} \cup {Witnesses(a)[j] : j \in DOMAIN Witnesses(a)} : IsJws(s)}

Issued(jws, a) == [by |-> jws.by, meaning |-> Meaning(a), cid |-> Cid(jws.over)]

\* What can be found at a name.
WellMade(a) ==
  /\ a = [kind |-> a.kind, id |-> a.id, what |-> a.what, exp |-> a.exp, time |-> a.time,
          cid |-> a.cid, sig |-> a.sig]
  /\ a.time = [given |-> a.time.given, ts |-> a.time.ts, witnesses |-> a.time.witnesses]
  /\ Witnesses(a) \in Seq(ToSet(Witnesses(a)))
WellPlaced(n, f) ==
  /\ HasArtifact(f) =>
       /\ f = [place |-> f.place, artifact |-> f.artifact, valid |-> f.valid,
               crypto |-> f.crypto, fresh |-> f.fresh]
       /\ WellMade(f.artifact)
       /\ f.place = "inputs" => f.artifact.kind # "tim"
  /\ n \in Roles /\ f # Torn => f.place = "chained"
  /\ n = "chain" /\ f # Torn => f.place = "chain"

\* Only legacy signatures are there at first.
ASSUME StartAssumption ==
  \A family \in DOMAIN Start : \A start \in Start[family] :
    /\ \A n \in DOMAIN start :
         /\ WellPlaced(n, start[n])
         /\ HasArtifact(start[n]) => \A s \in SignaturesOf(start[n].artifact) : s.b64
    /\ PathNames \cap DOMAIN start # {} =>
         /\ PathNames \subseteq DOMAIN start
         /\ start["chain"] # Torn => \A l \in Links : start["chain"].values[l] # None
    /\ DirectoryOrder(DOMAIN start) \in Seq(DOMAIN start)

ASSUME VectorAssumption ==
  \A family \in DOMAIN Start : \A start \in Start[family] : \A n \in DOMAIN start :
    start[n] # Torn /\ start[n].place = "vector" => VectorMade(start[n].vector)

Init ==
  /\ \E family \in DOMAIN Start : files \in Start[family]
  /\ issued = {} /\ visited = [n \in DOMAIN files |-> "not"] /\ job = Nobody /\ edits = 0

-----------------------------------------------------------------------------
(* Authors *)

Saves(n, f, signed) ==
  /\ edits < MaxEdits /\ edits' = edits + 1
  /\ files' = [files EXCEPT ![n] = f]
  /\ issued' = issued \cup signed
  /\ visited' = [visited EXCEPT ![n] = "not"]
  /\ UNCHANGED job

\* The same signature with text between its dots, or without.
Redotted(jws) ==
  [kid |-> jws.kid, by |-> jws.by, over |-> jws.over, b64 |-> jws.b64, between |-> ~jws.between]

Edited(a) ==
  {[a EXCEPT !.what = w] : w \in Contents} \cup {[a EXCEPT !.id = id] : id \in Ids}
    \cup {[a EXCEPT !.exp = e] : e \in Exps}
    \cup {[a EXCEPT !.cid = x] : x \in {None, Placeholder, NotText}}
    \cup {[a EXCEPT !.sig = x] : x \in {None, Placeholder, NotText}}
    \cup (IF IsJws(a.sig) THEN {[a EXCEPT !.sig = Redotted(a.sig)]} ELSE {})
    \cup (IF ~a.time.given THEN {}
          ELSE {[a EXCEPT !.time.ts = t] : t \in Times \cup {None}}
                 \cup {[a EXCEPT !.time.witnesses = w] : w \in {None, <<Placeholder>>}})

Edit(n) ==
  /\ HasArtifact(files[n])
  /\ \E a \in Edited(files[n].artifact) \ {files[n].artifact} :
       Saves(n, [files[n] EXCEPT !.artifact = a], {})

\* The cid and the signature of one artifact copied to another.
Paste(n, m) ==
  /\ n # m /\ HasArtifact(files[n]) /\ HasArtifact(files[m])
  /\ Saves(n, [files[n] EXCEPT !.artifact.cid = files[m].artifact.cid,
                               !.artifact.sig = files[m].artifact.sig], {})

\* A TIM made with the SDK.
Create(n) ==
  /\ HasArtifact(files[n]) /\ files[n].artifact.kind = "tim"
  /\ \E signer \in CoSigners, t \in Times :
       LET body == TimBody(files[n].artifact.id, files[n].artifact.what,
                           files[n].artifact.exp, t)
           tim == CreateTim(body, signer[1], signer[2])
       IN /\ Canonicalizable(body)
          /\ Saves(n, [files[n] EXCEPT !.artifact = tim], {Issued(tim.sig, tim)})

\* A witness signs what the TIM says now, and is appended.
CoSign(n) ==
  /\ HasArtifact(files[n]) /\ IsTim(files[n].artifact)
  /\ \E signer \in CoSigners :
       LET a == files[n].artifact
           w == SignDetached(Jcs(CanonicalBody(a)), signer[1], signer[2])
       IN Saves(n, [files[n] EXCEPT !.artifact.time.witnesses = Append(Witnesses(a), w)],
                {Issued(w, a)})

-----------------------------------------------------------------------------
(* bun run sign *)

StartSign ==
  /\ job.who = "nobody"
  /\ job' = [who |-> "signer", todo |-> DirectoryOrder(Names), held |-> None]
  /\ UNCHANGED <<files, issued, visited, edits>>

\* A file that needs no signing is done with when it has been read.
ReadFile ==
  /\ job.who = "signer" /\ job.held = None /\ job.todo # <<>>
  /\ LET n == Head(job.todo)
         signs == SignedFile(files[n]) # files[n]
     IN /\ job' = [who |-> "signer", todo |-> Tail(job.todo),
                   held |-> IF signs THEN [name |-> n, file |-> files[n]] ELSE None]
        /\ visited' = IF signs THEN visited ELSE [visited EXCEPT ![n] = "read"]
  /\ UNCHANGED <<files, issued, edits>>

WriteFile ==
  /\ job.who = "signer" /\ job.held # None
  /\ LET f == SignedFile(job.held.file)
     IN /\ files' = [files EXCEPT ![job.held.name] = f]
        /\ issued' = issued \cup
             {Issued(s, f.artifact) :
                s \in SignaturesOf(f.artifact) \ SignaturesOf(job.held.file.artifact)}
  /\ visited' = [visited EXCEPT ![job.held.name] = "written"]
  /\ job' = [who |-> "signer", todo |-> job.todo, held |-> None]
  /\ UNCHANGED edits

-----------------------------------------------------------------------------
(* bun run gen-reference-path *)

StartGenerate ==
  /\ job.who = "nobody" /\ "chain" \in Names
  /\ edits < MaxEdits /\ edits' = edits + 1
  /\ \E scenario \in Scenarios :
       LET made == PathArtifacts(scenario)
       IN /\ job' = [who |-> "generator", todo |-> PathWrites(scenario), held |-> None]
          /\ issued' = issued \cup
               UNION {{Issued(s, made[r]) : s \in SignaturesOf(made[r])} : r \in Roles}
  /\ UNCHANGED <<files, visited>>

WritePath ==
  /\ job.who = "generator" /\ job.todo # <<>>
  /\ files' = [files EXCEPT ![Head(job.todo).name] = Head(job.todo).file]
  /\ visited' = [visited EXCEPT ![Head(job.todo).name] = "not"]
  /\ job' = [who |-> "generator", todo |-> Tail(job.todo), held |-> None]
  /\ UNCHANGED <<issued, edits>>

-----------------------------------------------------------------------------
(* Ends *)

Done ==
  /\ job.who # "nobody" /\ job.todo = <<>> /\ job.held = None
  /\ job' = Nobody
  /\ UNCHANGED <<files, issued, visited, edits>>

\* Between two files, or in the middle of a write.
Crash ==
  /\ job.who # "nobody"
  /\ job' = Nobody
  /\ \/ UNCHANGED <<files, visited>>
     \/ \E n \in Names :
          /\ \/ job.who = "signer" /\ job.held # None /\ n = job.held.name
             \/ job.who = "generator" /\ job.todo # <<>> /\ n = Head(job.todo).name
          /\ files' = [files EXCEPT ![n] = Torn]
          /\ visited' = [visited EXCEPT ![n] = "not"]
  /\ UNCHANGED <<issued, edits>>

Next ==
  \/ \E n \in Names : Edit(n) \/ Create(n) \/ CoSign(n)
  \/ \E n, m \in Names : Paste(n, m)
  \/ StartSign \/ ReadFile \/ WriteFile \/ StartGenerate \/ WritePath \/ Done \/ Crash

Spec == Init /\ [][Next]_vars

-----------------------------------------------------------------------------
(* Properties *)

\* No report of `bun run verify` fails, and it does not throw.
VerifyPasses ==
  /\ \A n \in Names \ PathNames :
       /\ files[n] # Torn
       /\ IF HasArtifact(files[n]) THEN FilePasses(files[n]) ELSE VectorPasses(files[n].vector)
  /\ "chain" \in Names => PathPasses(files)

IsVector(n, checks) ==
  files[n] # Torn /\ files[n].place = "vector" /\ files[n].vector.check \in checks
Witnessed(key, a) == \E s \in issued : s.by = key /\ s.meaning = Meaning(a)
SignedBy(key, a) ==
  \E s \in issued : s.by = key /\ s.meaning = Meaning(a) /\ a.cid \in {None, s.cid}

\* sign-artifacts.ts, gen-reference-path.ts and tim.ts sign, verify-artifacts.ts
\* verifies, each with its own code for the canonical body, and the files change
\* in between.  When verify passes, every artifact it checks was signed, as it
\* reads now, by the key it names or a test key, and so did every witness.
PassMeansSigned ==
  VerifyPasses =>
    \A n \in Names :
      HasArtifact(files[n]) /\ Checked(files[n]) /\ (n \in Roles => files["chain"] # Torn) =>
        LET a == files[n].artifact IN
        /\ SignedBy(IF a.id \in Keys THEN a.id
                    ELSE IF files[n].place = "chained" THEN ResolveWitnessKey(a.sig)
                    ELSE TestKey, a)
        /\ \A j \in DOMAIN Witnesses(a) : Witnessed(ResolveWitnessKey(Witnesses(a)[j]), a)

\* What the signer wrote last in a file, the verifier accepts, though each has
\* its own code for the canonical body, and whatever was edited between the read
\* and the write: but not when the identity names another key, nor when what is
\* no TIM has witnesses, which the signer signs and the verifier leaves out.  And
\* no TIM that the signer has passed over has a stale cid.
SignedVerifies ==
  \A n \in Names :
    HasArtifact(files[n]) /\ files[n].place \in SignedPlaces =>
      LET a == files[n].artifact IN
      /\ visited[n] = "written" /\ a.id \notin Keys \ {TestKey}
           /\ (IsTim(a) \/ a.time.witnesses = None) => Accepted(a, TestKey)
      /\ visited[n] # "not" /\ IsTim(a) /\ ~Negative(files[n]) => ~HasStaleTimCid(a)

\* The signer ("only touches artifacts whose sig/cid is a placeholder or stale",
\* CONFORMANCE.md) rewrites nothing that is broken on purpose, and nothing that
\* the verifier accepted when it was read, but for one thing: text between the
\* dots of the issuer's signature, which the verifier does not look at
\* (verify-artifacts.ts:247) and the signer takes for a stale signature
\* (sign-artifacts.ts:124).
TouchesOnlyBroken ==
  [][WriteFile => LET f == job.held.file
                  IN /\ ~Negative(f)
                     /\ Accepted(f.artifact, TestKeyOf(f)) => f.artifact.sig.between]_vars

\* verifyTim of the SDK calls valid only what the identity's key signed as it
\* reads now, what each witness signed too, and what has not expired.
ValidIsSigned ==
  \A n \in Names : HasArtifact(files[n]) /\ files[n].artifact.kind = "tim" =>
    LET a == files[n].artifact IN
    \A at \in Exps \cup {None} : VerifyTim(a, at).valid =>
      /\ SignedBy(a.id, a)
      /\ \A j \in DOMAIN Witnesses(a) : Witnessed(ResolveDidKey(a, Witnesses(a)[j]), a)
      /\ at \in Int /\ a.exp \in Int => at < a.exp

\* The SDK and the script are two verifiers of one TIM.  Take one that is
\* complete, whose identity and witnesses are did:keys, and whose signatures and
\* numbers can be written: the script falls back to a test key and knows the
\* kids of the fixtures, the SDK does neither.  The SDK calls it valid exactly
\* when the script accepts it and nothing stands between the dots of the issuer's
\* signature: there only the SDK looks (jws.ts:74, verify-artifacts.ts:247).
VerifiersAgree ==
  \A n \in Names : HasArtifact(files[n]) /\ files[n].artifact.kind = "tim" =>
    LET a == files[n].artifact IN
    /\ MissingFields(a) = {} /\ a.sig # NotText /\ a.id \in Keys
    /\ Canonicalizable(CanonicalBody(a))
    /\ \A j \in DOMAIN Witnesses(a) : IsJws(Witnesses(a)[j]) /\ Witnesses(a)[j].kid \in Keys
    => (VerifyTim(a, None).valid <=> Accepted(a, TestKey) /\ ~a.sig.between)

\* Of the vectors that are executed: a Merkle root or proof passes exactly when
\* the root is that of the cids, or the leaf on its way from the root, however
\* many there are (an odd level repeats its last node).
MerkleVectorsMean ==
  \A n \in Names : IsVector(n, {"merkle_root", "inclusion_valid"}) =>
    RootMeaning(files[n].vector) /\ InclusionMeaning(files[n].vector)

\* A Settler vector passes when its key is that of the very request, when nothing
\* goes on after the first failure, and when statuses only advance.
SettlerVectorsMean ==
  \A n \in Names : IsVector(n, {"idempotency_key", "xr_statuses", "all_transitions_correct"}) =>
    /\ KeyMeaning(files[n].vector) /\ CascadeMeaning(files[n].vector)
    /\ TransitionMeaning(files[n].vector)

\* A finality vector that passes asks for the depth that satisfies registry,
\* policy pack and request at once, and a reorganisation of what was final is
\* never repaired in silence.
FinalityVectorsMean ==
  \A n \in Names : IsVector(n, {"all_depths_correct", "all_reorg_outcomes_correct"}) =>
    DepthMeaning(files[n].vector) /\ ReorgMeaning(files[n].vector)

\* Policy packs that are merged relax none of them, and a level that is required
\* is met by an entry that is advertised.
PolicyVectorsMean ==
  \A n \in Names : IsVector(n, {"pack_merge", "spec_compat"}) =>
    MergeMeaning(files[n].vector) /\ CompatMeaning(files[n].vector)

\* "This proves the loop holds together as one chain" (verify-artifacts.ts): when
\* verify passes, each cid that an artifact of the reference path cites was
\* issued for what its target says now, whatever mixture of two generations, of
\* edits and of new signatures is there.  The chain must be readable.
PassMeansLinked ==
  VerifyPasses /\ "chain" \in Names /\ files["chain"] # Torn =>
    \A l \in Links :
      \E s \in issued : /\ s.cid = Cite(files[l[1]].artifact, l[2])
                        /\ s.meaning = Meaning(files[l[3]].artifact)
=============================================================================
