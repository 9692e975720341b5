-------------------------- MODULE RepositoryProofs --------------------------
(***************************************************************************)
(* What is proved of the signed files, for any keys, repositories, number  *)
(* of files and of edits: the signer rewrites only what is broken, what    *)
(* the two verifiers accept was signed as it reads now, and they agree.    *)
(***************************************************************************)
EXTENDS Repository, ConformanceProofs

-----------------------------------------------------------------------------
(* The two verifiers *)

\* Both verifiers take the same key for a witness that names a did:key.
LEMMA WitnessKeysAgree ==
  ASSUME NEW a, NEW w, IsJws(w), w.kid \in Keys
  PROVE  ResolveDidKey(a, w) = ResolveWitnessKey(w) /\ ResolveWitnessKey(w) # None
BY RepositoryAssumption, FormsAssumption
   DEF ResolveDidKey, ResolveWitnessKey, DecodeDidKey

\* What is accepted passes each of the three checks.
LEMMA AcceptedParts ==
  ASSUME NEW a, NEW key
  PROVE  Accepted(a, key) <=>
           /\ a.cid = None \/ a.cid = Cid(Jcs(CanonicalBody(a)))
           /\ FlattenedVerify(a.sig, Jcs(CanonicalBody(a)), SigningKey(a, key))
           /\ VerifyWitnesses(a, Jcs(CanonicalBody(a)))
BY Zenon DEF Accepted, VerifyArtifact

\* A TIM that is complete, and names did:keys only, is valid for the SDK exactly
\* when the script accepts it and the issuer's signature is detached: jws.ts looks
\* between the dots, verify-artifacts.ts does not.
THEOREM OneVerdict == Spec => []VerifiersAgree
<1>1. VerifiersAgree
  <2> SUFFICES ASSUME NEW a, MissingFields(a) = {}, a.sig # NotText, a.id \in Keys,
                      Canonicalizable(CanonicalBody(a)),
                      \A j \in DOMAIN Witnesses(a) :
                        IsJws(Witnesses(a)[j]) /\ Witnesses(a)[j].kid \in Keys
               PROVE  VerifyTim(a, None).valid <=> Accepted(a, TestKey) /\ ~a.sig.between
    BY DEF VerifiersAgree
  <2> DEFINE body == CanonicalBody(a)
  <2>1. Jcs(body) = body
    BY DEF Jcs, Canonicalizable
  <2>2. ResolveDidKey(a, None) = a.id /\ SigningKey(a, TestKey) = a.id /\ a.id # None
    BY FormsAssumption DEF ResolveDidKey, SigningKey, DecodeDidKey, IsJws
  <2>3. VerifyWitnesses(a, body)
          <=> \A j \in DOMAIN Witnesses(a) : WitnessOk(a, Witnesses(a)[j])
    BY WitnessKeysAgree DEF VerifyWitnesses, WitnessOk
  <2>4. a.cid # None
    BY DEF MissingFields
  <2>5. Fresh(a, None)
    BY FormsAssumption DEF Fresh
  <2>6. VerifyTim(a, None).valid <=>
          /\ a.cid = Cid(body) /\ VerifyDetached(a.sig, body, a.id)
          /\ \A j \in DOMAIN Witnesses(a) : WitnessOk(a, Witnesses(a)[j])
    BY <2>2, <2>5 DEF VerifyTim, Verdict
  <2>7. Accepted(a, TestKey) <=>
          /\ a.cid = None \/ a.cid = Cid(body)
          /\ FlattenedVerify(a.sig, body, a.id) /\ VerifyWitnesses(a, body)
    BY <2>1, <2>2, AcceptedParts
  <2> QED
    BY <2>3, <2>4, <2>6, <2>7 DEF VerifyDetached
<1> QED
  BY <1>1, PTL

-----------------------------------------------------------------------------
(* What artifacts say *)

\* Neither the form that is signed nor what is written back says anything else.
LEMMA MeaningOfJcs ==
  ASSUME NEW a, WellMade(a)
  PROVE  Meaning(Jcs(a)) = Meaning(a) /\ Meaning(Written(a)) = Meaning(a)
BY FormsAssumption DEF WellMade, Meaning, Jcs, Written

\* What is stripped before signing is no part of what an artifact says.
LEMMA MeaningOfBody ==
  ASSUME NEW a, WellMade(a)
  PROVE  /\ Meaning(CanonicalBody(a)) = Meaning(a)
         /\ Meaning(Jcs(CanonicalBody(a))) = Meaning(a)
         /\ Meaning(Jcs(Unsigned(a))) = Meaning(a)
<1>1. /\ CanonicalBody(a).kind = a.kind /\ CanonicalBody(a).id = a.id
      /\ CanonicalBody(a).exp = a.exp /\ CanonicalBody(a).what = a.what
      /\ CanonicalBody(a).time = StripWitnesses(a.time)
  BY DEF WellMade, CanonicalBody, Unsigned
<1>2. StripWitnesses(a.time).ts = a.time.ts
  BY DEF WellMade, StripWitnesses, NoTime
<1>3. Meaning(CanonicalBody(a)) = Meaning(a)
  BY <1>1, <1>2 DEF Meaning
<1>4. Meaning(Unsigned(a)) = Meaning(a)
  BY DEF WellMade, Unsigned, Meaning
<1>5. ASSUME NEW b, DOMAIN b = {"kind", "id", "what", "exp", "time", "cid", "sig"}
      PROVE  Meaning(Jcs(b)) = Meaning(b)
  BY <1>5, FormsAssumption DEF Meaning, Jcs
<1>6. /\ DOMAIN CanonicalBody(a) = {"kind", "id", "what", "exp", "time", "cid", "sig"}
      /\ DOMAIN Unsigned(a) = {"kind", "id", "what", "exp", "time", "cid", "sig"}
  BY DEF WellMade, CanonicalBody, Unsigned
<1> QED
  BY <1>3, <1>4, <1>5, <1>6

-----------------------------------------------------------------------------
(* The inductive invariant *)

\* Who made a signature, of any but the legacy form, over what is on record.
Traced(s, history) ==
  ~s.b64 => [by |-> s.by, meaning |-> Meaning(s.over), cid |-> Cid(s.over)] \in history

\* What may be at a name: well made, and with no signature that nobody made.
Kept(n, f, history) ==
  /\ WellPlaced(n, f)
  /\ HasArtifact(f) => \A s \in SignaturesOf(f.artifact) : Traced(s, history)

NamesOk ==
  /\ DirectoryOrder(Names) \in Seq(Names)
  /\ PathNames \cap Names # {} => PathNames \subseteq Names

FilesOk == \A n \in Names : Kept(n, files[n], issued)

\* The signer holds a file that it is going to change, as it was; the generator
\* is to write what it has signed.
JobOk ==
  /\ job.who = "signer" =>
       /\ job.todo \in Seq(Names)
       /\ job.held # None => /\ job.held.name \in Names
                             /\ Kept(job.held.name, job.held.file, issued)
                             /\ SignedFile(job.held.file) # job.held.file
  /\ job.who = "generator" =>
       /\ job.todo \in Seq(ToSet(job.todo))
       /\ job.held = None
       /\ \A w \in ToSet(job.todo) : Kept(w.name, w.file, issued)

RepoInv == NamesOk /\ FilesOk /\ JobOk

-----------------------------------------------------------------------------
(* Files that stay in order *)

\* A longer record traces whatever a shorter one did.
LEMMA KeptGrows ==
  ASSUME NEW n, NEW f, NEW h, NEW g, h \subseteq g, Kept(n, f, h)
  PROVE  Kept(n, f, g)
BY DEF Kept, Traced

\* A sequence over a set is one over its own elements, which are in the set.
LEMMA OwnSeq ==
  ASSUME NEW S, NEW q \in Seq(S)
  PROVE  q \in Seq(ToSet(q)) /\ ToSet(q) \subseteq S
BY DEF ToSet

\* The parts of a sequence that is not empty.
LEMMA RestOfSeq ==
  ASSUME NEW S, NEW q \in Seq(S), q # <<>>
  PROVE  Head(q) \in ToSet(q) /\ Tail(q) \in Seq(S) /\ ToSet(Tail(q)) \subseteq ToSet(q)
BY DEF ToSet

\* An artifact with a signature is what is made of it when signatures are exchanged.
LEMMA KeptWith ==
  ASSUME NEW n, NEW f, NEW h, Kept(n, f, h), HasArtifact(f),
         NEW b, WellMade(b), b.kind = f.artifact.kind,
         \A s \in SignaturesOf(b) : s \in SignaturesOf(f.artifact) \/ Traced(s, h)
  PROVE  Kept(n, [f EXCEPT !.artifact = b], h)
BY DEF Kept, WellPlaced, HasArtifact

\* A torn file has no signature.
LEMMA TornIsKept == \A n, h : Kept(n, Torn, h)
BY DEF Kept, WellPlaced, HasArtifact

-----------------------------------------------------------------------------
(* What authors do *)

\* An author's step keeps the invariant when what is saved is kept by what was
\* signed before and with it.
LEMMA SavesKeep ==
  ASSUME RepoInv, NEW n \in Names, NEW f, NEW signed, Saves(n, f, signed),
         Kept(n, f, issued \cup signed)
  PROVE  RepoInv'
<1>1. /\ Names' = Names /\ issued' = issued \cup signed /\ job' = job
      /\ \A m \in Names : files'[m] = IF m = n THEN f ELSE files[m]
  BY DEF Saves, Names
<1>2. NamesOk'
  BY <1>1 DEF RepoInv, NamesOk
<1>3. FilesOk'
  <2> SUFFICES ASSUME NEW m \in Names PROVE Kept(m, files'[m], issued')
    BY <1>1 DEF FilesOk
  <2>1. Kept(m, files[m], issued')
    BY <1>1, KeptGrows DEF RepoInv, FilesOk
  <2> QED
    BY <1>1, <2>1
<1>4. JobOk'
  <2>1. \A m, g : Kept(m, g, issued) => Kept(m, g, issued')
    BY <1>1, KeptGrows
  <2> QED
    BY <1>1, <2>1 DEF RepoInv, JobOk
<1> QED
  BY <1>2, <1>3, <1>4 DEF RepoInv

\* What is edited says something else, but has no signature that it had not, but
\* for the text between its dots.
LEMMA EditedIsMade ==
  ASSUME NEW a, WellMade(a), NEW b \in Edited(a)
  PROVE  /\ WellMade(b) /\ b.kind = a.kind
         /\ \A s \in SignaturesOf(b) :
              s \in SignaturesOf(a) \/ (a.sig \in SignaturesOf(a) /\ s = Redotted(a.sig))
<1>1. \A x \in {None, Placeholder, NotText} : ~IsJws(x)
  BY DEF IsJws
<1>2. ASSUME NEW x, b \in {[a EXCEPT !.what = x], [a EXCEPT !.id = x], [a EXCEPT !.exp = x],
                           [a EXCEPT !.cid = x]}
      PROVE  WellMade(b) /\ b.kind = a.kind /\ b.sig = a.sig /\ b.time = a.time
  BY <1>2 DEF WellMade, Witnesses
<1>3. ASSUME NEW x, b = [a EXCEPT !.sig = x]
      PROVE  WellMade(b) /\ b.kind = a.kind /\ b.sig = x /\ b.time = a.time
  BY <1>3 DEF WellMade, Witnesses
<1>4. ASSUME NEW t, b = [a EXCEPT !.time.ts = t]
      PROVE  WellMade(b) /\ b.kind = a.kind /\ b.sig = a.sig /\ Witnesses(b) = Witnesses(a)
  BY <1>4 DEF WellMade, Witnesses
<1>5. ASSUME NEW w \in {None, <<Placeholder>>}, b = [a EXCEPT !.time.witnesses = w]
      PROVE  /\ WellMade(b) /\ b.kind = a.kind /\ b.sig = a.sig
             /\ Witnesses(b) \in {<<>>, <<Placeholder>>}
  <2>1. Witnesses(b) \in {<<>>, <<Placeholder>>}
    BY <1>5 DEF WellMade, Witnesses
  <2>2. <<>> \in Seq({Placeholder}) /\ <<Placeholder>> \in Seq({Placeholder})
    <3>1. Placeholder \in {Placeholder}
      OBVIOUS
    <3> QED
      BY <3>1
  <2>3. Witnesses(b) \in Seq(ToSet(Witnesses(b)))
    BY <2>1, <2>2, OwnSeq
  <2>4. /\ b = [kind |-> b.kind, id |-> b.id, what |-> b.what, exp |-> b.exp, time |-> b.time,
                cid |-> b.cid, sig |-> b.sig]
        /\ b.time = [given |-> b.time.given, ts |-> b.time.ts, witnesses |-> b.time.witnesses]
        /\ b.kind = a.kind /\ b.sig = a.sig
    BY <1>5 DEF WellMade
  <2> QED
    BY <2>1, <2>3, <2>4 DEF WellMade
<1>6. \/ \E x : b \in {[a EXCEPT !.what = x], [a EXCEPT !.id = x], [a EXCEPT !.exp = x],
                       [a EXCEPT !.cid = x]}
      \/ \E x \in {None, Placeholder, NotText} : b = [a EXCEPT !.sig = x]
      \/ IsJws(a.sig) /\ b = [a EXCEPT !.sig = Redotted(a.sig)]
      \/ \E t : b = [a EXCEPT !.time.ts = t]
      \/ \E w \in {None, <<Placeholder>>} : b = [a EXCEPT !.time.witnesses = w]
  BY Zenon DEF Edited
<1>7. \A q \in {<<>>, <<Placeholder>>} : \A j \in DOMAIN q : ~IsJws(q[j])
  BY <1>1
<1>8. \/ b.time = a.time \/ Witnesses(b) = Witnesses(a)
      \/ Witnesses(b) \in {<<>>, <<Placeholder>>}
  <2>1. CASE \E x : b \in {[a EXCEPT !.what = x], [a EXCEPT !.id = x],
                            [a EXCEPT !.exp = x], [a EXCEPT !.cid = x]}
    <3>1. PICK x : b \in {[a EXCEPT !.what = x], [a EXCEPT !.id = x],
                          [a EXCEPT !.exp = x], [a EXCEPT !.cid = x]}
      BY <2>1
    <3>2. b.time = a.time
      BY <1>2, <3>1
    <3> QED
      BY <3>2
  <2>2. CASE \E t : b = [a EXCEPT !.time.ts = t]
    BY <1>4, <2>2
  <2>3. CASE \E w \in {None, <<Placeholder>>} : b = [a EXCEPT !.time.witnesses = w]
    BY <1>5, <2>3
  <2>4. CASE \E x : b = [a EXCEPT !.sig = x]
    BY <1>3, <2>4, Zenon
  <2> QED
    BY <1>6, <2>1, <2>2, <2>3, <2>4, Zenon
<1>9. \/ b.sig = a.sig \/ ~IsJws(b.sig)
      \/ IsJws(a.sig) /\ b.sig = Redotted(a.sig)
  BY <1>1, <1>2, <1>3, <1>4, <1>5, <1>6
<1>10. \A s \in SignaturesOf(b) :
         s \in SignaturesOf(a) \/ (a.sig \in SignaturesOf(a) /\ s = Redotted(a.sig))
  BY <1>7, <1>8, <1>9 DEF SignaturesOf, Witnesses
<1> QED
  <2>1. WellMade(b) /\ b.kind = a.kind
    BY <1>2, <1>3, <1>4, <1>5, <1>6
  <2> QED
    BY <2>1, <1>10

\* Text between its dots makes no signature another's.
LEMMA RedottedIsTraced ==
  ASSUME NEW s, NEW history, Traced(s, history)
  PROVE  Traced(Redotted(s), history)
BY DEF Traced, Redotted

\* An edit keeps the invariant: it signs nothing.
LEMMA EditKeeps ==
  ASSUME RepoInv, NEW n \in Names, Edit(n)
  PROVE  RepoInv'
<1>1. Kept(n, files[n], issued) /\ HasArtifact(files[n])
  BY DEF RepoInv, FilesOk, Edit
<1>2. PICK a \in Edited(files[n].artifact) :
        Saves(n, [files[n] EXCEPT !.artifact = a], {})
  BY DEF Edit
<1>3. /\ WellMade(a) /\ a.kind = files[n].artifact.kind
      /\ \A s \in SignaturesOf(a) : Traced(s, issued)
  BY <1>1, EditedIsMade, RedottedIsTraced DEF Kept, WellPlaced
<1>4. Kept(n, [files[n] EXCEPT !.artifact = a], issued)
  BY <1>1, <1>3, KeptWith
<1>5. Kept(n, [files[n] EXCEPT !.artifact = a], issued \cup {})
  BY <1>4, KeptGrows
<1> QED
  BY <1>2, <1>5, SavesKeep

\* An artifact that gets a cid and a signature, field by field.
LEMMA Sealed ==
  ASSUME NEW a, WellMade(a), NEW cid, NEW sig
  PROVE  [a EXCEPT !.cid = cid, !.sig = sig]
           = [kind |-> a.kind, id |-> a.id, what |-> a.what, exp |-> a.exp, time |-> a.time,
              cid |-> cid, sig |-> sig]
<1>1. a = [kind |-> a.kind, id |-> a.id, what |-> a.what, exp |-> a.exp, time |-> a.time,
           cid |-> a.cid, sig |-> a.sig]
  BY DEF WellMade
<1>2. [a EXCEPT !.cid = cid]
        = [kind |-> a.kind, id |-> a.id, what |-> a.what, exp |-> a.exp, time |-> a.time,
           cid |-> cid, sig |-> a.sig]
  BY <1>1
<1> DEFINE b == [a EXCEPT !.cid = cid]
<1>3. /\ b = [kind |-> b.kind, id |-> b.id, what |-> b.what, exp |-> b.exp, time |-> b.time,
              cid |-> b.cid, sig |-> b.sig]
      /\ b.kind = a.kind /\ b.id = a.id /\ b.what = a.what /\ b.exp = a.exp
      /\ b.time = a.time /\ b.cid = cid
  BY <1>2
<1> HIDE DEF b
<1>4. [b EXCEPT !.sig = sig]
        = [kind |-> b.kind, id |-> b.id, what |-> b.what, exp |-> b.exp, time |-> b.time,
           cid |-> b.cid, sig |-> sig]
  BY <1>3
<1> QED
  BY <1>3, <1>4 DEF b

\* An artifact that gets other witnesses, field by field.
LEMMA WitnessedBy ==
  ASSUME NEW a, WellMade(a), NEW q
  PROVE  [a EXCEPT !.time.witnesses = q]
           = [kind |-> a.kind, id |-> a.id, what |-> a.what, exp |-> a.exp,
              time |-> [given |-> a.time.given, ts |-> a.time.ts, witnesses |-> q],
              cid |-> a.cid, sig |-> a.sig]
<1>1. a = [kind |-> a.kind, id |-> a.id, what |-> a.what, exp |-> a.exp, time |-> a.time,
           cid |-> a.cid, sig |-> a.sig]
  BY DEF WellMade
<1>2. [a.time EXCEPT !.witnesses = q] = [given |-> a.time.given, ts |-> a.time.ts, witnesses |-> q]
  BY DEF WellMade
<1>3. [a EXCEPT !.time = [a.time EXCEPT !.witnesses = q]]
        = [kind |-> a.kind, id |-> a.id, what |-> a.what, exp |-> a.exp,
           time |-> [a.time EXCEPT !.witnesses = q], cid |-> a.cid, sig |-> a.sig]
  BY <1>1
<1> QED
  BY <1>2, <1>3

\* A pasted signature was on record already.
LEMMA PasteKeeps ==
  ASSUME RepoInv, NEW n \in Names, NEW m \in Names, Paste(n, m)
  PROVE  RepoInv'
<1> DEFINE a == files[n].artifact
           b == [a EXCEPT !.cid = files[m].artifact.cid, !.sig = files[m].artifact.sig]
<1>1. /\ Kept(n, files[n], issued) /\ HasArtifact(files[n])
      /\ Kept(m, files[m], issued) /\ HasArtifact(files[m])
  BY DEF RepoInv, FilesOk, Paste
<1>2. WellMade(a)
  BY <1>1 DEF Kept, WellPlaced
<1>3. WellMade(b) /\ b.kind = a.kind /\ b.time = a.time /\ b.sig = files[m].artifact.sig
  <2> DEFINE cid == files[m].artifact.cid  sig == files[m].artifact.sig
  <2> HIDE DEF cid, sig, a
  <2>1. [a EXCEPT !.cid = cid, !.sig = sig]
          = [kind |-> a.kind, id |-> a.id, what |-> a.what, exp |-> a.exp, time |-> a.time,
             cid |-> cid, sig |-> sig]
    BY <1>2, Sealed
  <2>2. \A x : x.time = a.time => Witnesses(x) = Witnesses(a)
    BY DEF Witnesses
  <2> QED
    BY <1>2, <2>1, <2>2 DEF WellMade, cid, sig
<1>4. SignaturesOf(b) \subseteq SignaturesOf(a) \cup SignaturesOf(files[m].artifact)
  BY <1>3 DEF SignaturesOf, Witnesses
<1>5. \A s \in SignaturesOf(files[m].artifact) : Traced(s, issued)
  BY <1>1 DEF Kept
<1>6. Saves(n, [files[n] EXCEPT !.artifact = b], {})
  <2>1. files[n] = [place |-> files[n].place, artifact |-> files[n].artifact,
                    valid |-> files[n].valid, crypto |-> files[n].crypto,
                    fresh |-> files[n].fresh]
    BY <1>1 DEF Kept, WellPlaced
  <2>2. [files[n] EXCEPT !.artifact.cid = files[m].artifact.cid,
                         !.artifact.sig = files[m].artifact.sig]
          = [files[n] EXCEPT !.artifact = b]
    BY <1>2, <2>1 DEF WellMade
  <2> QED
    BY <2>2 DEF Paste
<1> HIDE DEF b
<1>7. Kept(n, [files[n] EXCEPT !.artifact = b], issued)
  BY <1>1, <1>3, <1>4, <1>5, KeptWith
<1>8. Kept(n, [files[n] EXCEPT !.artifact = b], issued \cup {})
  BY <1>7, KeptGrows
<1> QED
  BY <1>6, <1>8, SavesKeep

\* A signature is traced to the one who is recorded to have made it.
LEMMA MadeIsTraced ==
  ASSUME NEW over, NEW key, NEW kid, NEW a, Meaning(over) = Meaning(a),
         NEW h, Issued(SignDetached(over, key, kid), a) \in h
  PROVE  Traced(SignDetached(over, key, kid), h)
BY DEF Traced, Issued, SignDetached

\* A TIM that the SDK makes is recorded with its signature.
LEMMA CreateKeeps ==
  ASSUME RepoInv, NEW n \in Names, Create(n)
  PROVE  RepoInv'
<1>1. /\ Kept(n, files[n], issued) /\ HasArtifact(files[n])
      /\ files[n].artifact.kind = "tim"
  BY DEF RepoInv, FilesOk, Create
<1>2. PICK signer \in CoSigners, t \in Times :
        LET body == TimBody(files[n].artifact.id, files[n].artifact.what,
                            files[n].artifact.exp, t)
            tim == CreateTim(body, signer[1], signer[2])
        IN Saves(n, [files[n] EXCEPT !.artifact = tim], {Issued(tim.sig, tim)})
  BY DEF Create
<1> DEFINE body == TimBody(files[n].artifact.id, files[n].artifact.what,
                           files[n].artifact.exp, t)
           tim == CreateTim(body, signer[1], signer[2])
           h == issued \cup {Issued(tim.sig, tim)}
<1>3. /\ tim.sig = SignDetached(body, signer[1], signer[2])
      /\ tim.kind = "tim" /\ Witnesses(tim) = <<>> /\ Meaning(body) = Meaning(tim)
      /\ WellMade(tim)
  <2> DEFINE x == files[n].artifact
  <2>1. body = [kind |-> "tim", id |-> x.id, what |-> x.what, exp |-> x.exp,
                time |-> [given |-> TRUE, ts |-> t, witnesses |-> None],
                cid |-> None, sig |-> None]
    BY DEF TimBody
  <2>2. tim = [body EXCEPT !.cid = Cid(body), !.sig = SignDetached(body, signer[1], signer[2])]
    BY DEF CreateTim
  <2> DEFINE cid == Cid(body)  sig == SignDetached(body, signer[1], signer[2])
  <2> HIDE DEF body, tim, x, cid, sig
  <2>3. tim = [kind |-> "tim", id |-> x.id, what |-> x.what, exp |-> x.exp,
               time |-> [given |-> TRUE, ts |-> t, witnesses |-> None],
               cid |-> cid, sig |-> sig]
    BY <2>1, <2>2 DEF cid, sig
  <2>4. Witnesses(tim) = <<>>
    BY <2>3 DEF Witnesses
  <2>5. <<>> \in Seq(ToSet(<<>>))
    OBVIOUS
  <2>6. WellMade(tim)
    BY <2>3, <2>4, <2>5 DEF WellMade
  <2>7. Meaning(body) = Meaning(tim)
    BY <2>1, <2>3 DEF Meaning
  <2> QED
    BY <2>3, <2>4, <2>6, <2>7 DEF sig
<1> HIDE DEF body, tim
<1>4. Traced(tim.sig, h)
  <2>1. Meaning(body) = Meaning(tim) /\ tim.sig = SignDetached(body, signer[1], signer[2])
    BY <1>3
  <2> QED
    BY <2>1, MadeIsTraced
<1>5. SignaturesOf(tim) \subseteq {tim.sig}
  BY <1>3 DEF SignaturesOf
<1>6. Kept(n, files[n], h)
  BY <1>1, KeptGrows
<1>7. Kept(n, [files[n] EXCEPT !.artifact = tim], h)
  BY <1>1, <1>3, <1>4, <1>5, <1>6, KeptWith
<1> QED
  BY <1>2, <1>7, SavesKeep DEF body, tim

\* Appending keeps a sequence over its own elements.
LEMMA AppendOwn ==
  ASSUME NEW q, q \in Seq(ToSet(q)), NEW e
  PROVE  /\ Append(q, e) \in Seq(ToSet(Append(q, e)))
         /\ ToSet(Append(q, e)) \subseteq ToSet(q) \cup {e}
<1> DEFINE S == ToSet(q) \cup {e}
<1>1. q \in Seq(S) /\ e \in S
  OBVIOUS
<1> HIDE DEF S
<1>2. Append(q, e) \in Seq(S)
  BY <1>1
<1> QED
  BY <1>2, OwnSeq DEF S

\* A witness is recorded with what the TIM said when it signed.
LEMMA CoSignKeeps ==
  ASSUME RepoInv, NEW n \in Names, CoSign(n)
  PROVE  RepoInv'
<1> DEFINE a == files[n].artifact
<1>1. Kept(n, files[n], issued) /\ HasArtifact(files[n]) /\ IsTim(a)
  BY DEF RepoInv, FilesOk, CoSign
<1>2. PICK signer \in CoSigners :
        LET w == SignDetached(Jcs(CanonicalBody(a)), signer[1], signer[2])
        IN Saves(n, [files[n] EXCEPT !.artifact.time.witnesses = Append(Witnesses(a), w)],
                 {Issued(w, a)})
  BY DEF CoSign
<1> DEFINE w == SignDetached(Jcs(CanonicalBody(a)), signer[1], signer[2])
           b == [a EXCEPT !.time.witnesses = Append(Witnesses(a), w)]
           h == issued \cup {Issued(w, a)}
<1>3. WellMade(a)
  BY <1>1 DEF Kept, WellPlaced
<1>4. Traced(w, h)
  BY <1>3, MeaningOfBody, MadeIsTraced
<1> HIDE DEF w
<1>5. Witnesses(a) \in Seq(ToSet(Witnesses(a)))
  BY <1>3 DEF WellMade
<1> DEFINE q == Append(Witnesses(a), w)
<1>6. q \in Seq(ToSet(q)) /\ ToSet(q) \subseteq ToSet(Witnesses(a)) \cup {w}
  BY <1>5, AppendOwn
<1> HIDE DEF q
<1>7. /\ WellMade(b) /\ b.kind = a.kind /\ b.sig = a.sig /\ Witnesses(b) \in {<<>>, q}
  <2>1. /\ b = [kind |-> b.kind, id |-> b.id, what |-> b.what, exp |-> b.exp, time |-> b.time,
                cid |-> b.cid, sig |-> b.sig]
        /\ b.time = [given |-> a.time.given, ts |-> a.time.ts, witnesses |-> q]
        /\ b.kind = a.kind /\ b.sig = a.sig
    <3>1. b = [kind |-> a.kind, id |-> a.id, what |-> a.what, exp |-> a.exp,
               time |-> [given |-> a.time.given, ts |-> a.time.ts, witnesses |-> q],
               cid |-> a.cid, sig |-> a.sig]
      BY <1>3, WitnessedBy DEF q
    <3> QED
      BY <3>1
  <2>2. Witnesses(b) \in {<<>>, q}
    <3>1. b.time.witnesses = q
      BY <2>1
    <3> QED
      BY <3>1, Zenon DEF Witnesses
  <2>3. <<>> \in Seq(ToSet(<<>>))
    OBVIOUS
  <2>4. Witnesses(b) \in Seq(ToSet(Witnesses(b)))
    BY <1>6, <2>2, <2>3
  <2> QED
    BY <2>1, <2>2, <2>4 DEF WellMade
<1>8. SignaturesOf(b) \subseteq SignaturesOf(a) \cup {w}
  <2> HIDE DEF a, b
  <2> SUFFICES ASSUME NEW s \in SignaturesOf(b)
               PROVE  s \in SignaturesOf(a) \cup {w}
    OBVIOUS
  <2>1. IsJws(s) /\ (s = b.sig \/ \E j \in DOMAIN Witnesses(b) : s = Witnesses(b)[j])
    BY DEF SignaturesOf
  <2>2. CASE s = b.sig
    BY <1>7, <2>1, <2>2 DEF SignaturesOf
  <2>3. CASE s # b.sig
    <3>1. PICK j \in DOMAIN Witnesses(b) : s = Witnesses(b)[j]
      BY <2>1, <2>3
    <3>2. Witnesses(b) = q
      BY <1>7, <3>1
    <3>3. s \in ToSet(q)
      BY <3>1, <3>2 DEF ToSet
    <3>4. s \in ToSet(Witnesses(a)) \cup {w}
      BY <1>6, <3>3
    <3> QED
      BY <2>1, <3>4 DEF SignaturesOf, ToSet
  <2> QED
    BY <2>2, <2>3
<1>9. Kept(n, files[n], h)
  BY <1>1, KeptGrows
<1>10. Kept(n, [files[n] EXCEPT !.artifact = b], h)
  <2> HIDE DEF a, b, h
  <2> QED
    BY <1>1, <1>4, <1>7, <1>8, <1>9, KeptWith DEF a
<1>11. [files[n] EXCEPT !.artifact.time.witnesses = Append(Witnesses(a), w)]
        = [files[n] EXCEPT !.artifact = b]
  OBVIOUS
<1> QED
  BY <1>2, <1>10, <1>11, SavesKeep DEF w

-----------------------------------------------------------------------------
(* What the signer makes *)

\* What is left of an artifact when its cid, its signature and its time change.
Remake(a, cid, sig, time) == [a EXCEPT !.cid = cid, !.sig = sig, !.time = time]

\* Remaking an artifact changes these three parts and no other.
LEMMA RemakeParts ==
  ASSUME NEW a, WellMade(a), NEW cid, NEW sig, NEW time
  PROVE  Remake(a, cid, sig, time)
           = [kind |-> a.kind, id |-> a.id, what |-> a.what, exp |-> a.exp, time |-> time,
              cid |-> cid, sig |-> sig]
<1> DEFINE b == [a EXCEPT !.cid = cid, !.sig = sig]
<1>1. b = [kind |-> a.kind, id |-> a.id, what |-> a.what, exp |-> a.exp, time |-> a.time,
           cid |-> cid, sig |-> sig]
  BY Sealed
<1>2. /\ b = [kind |-> b.kind, id |-> b.id, what |-> b.what, exp |-> b.exp, time |-> b.time,
              cid |-> b.cid, sig |-> b.sig]
      /\ b.kind = a.kind /\ b.id = a.id /\ b.what = a.what /\ b.exp = a.exp
      /\ b.cid = cid /\ b.sig = sig
  BY <1>1
<1> HIDE DEF b
<1>3. [b EXCEPT !.time = time]
        = [kind |-> b.kind, id |-> b.id, what |-> b.what, exp |-> b.exp, time |-> time,
           cid |-> b.cid, sig |-> b.sig]
  BY <1>2
<1> QED
  BY <1>2, <1>3 DEF b, Remake

Resigned(a) ==
  [given |-> a.time.given, ts |-> a.time.ts,
   witnesses |-> [j \in DOMAIN Witnesses(a) |->
                    SignJws(Jcs(CanonicalBody(a)), WitnessKey, WitnessKid)]]

\* What the signer makes of a TIM, field by field.
LEMMA TimRemade ==
  ASSUME NEW a, WellMade(a)
  PROVE  ProcessTim(a) =
           [kind |-> a.kind, id |-> a.id, what |-> a.what, exp |-> a.exp,
            time |-> IF Witnesses(a) = <<>> THEN a.time ELSE Resigned(a),
            cid |-> Cid(Jcs(CanonicalBody(a))),
            sig |-> SignJws(Jcs(CanonicalBody(a)), TestKey, TestKid)]
<1> DEFINE q == [j \in DOMAIN Witnesses(a) |->
                   SignJws(Jcs(CanonicalBody(a)), WitnessKey, WitnessKid)]
<1>1. ResignWitnesses(a) = IF Witnesses(a) = <<>> THEN a.time ELSE Resigned(a)
  <2> HIDE DEF q
  <2>1. [a.time EXCEPT !.witnesses = q]
          = [given |-> a.time.given, ts |-> a.time.ts, witnesses |-> q]
    BY DEF WellMade
  <2> QED
    BY <2>1 DEF ResignWitnesses, Resigned, q
<1> DEFINE cid == Cid(Jcs(CanonicalBody(a)))
           sig == SignJws(Jcs(CanonicalBody(a)), TestKey, TestKid)
           time == ResignWitnesses(a)
<1>2. ProcessTim(a) = Remake(a, cid, sig, time)
  BY Zenon DEF ProcessTim, Remake
<1> HIDE DEF cid, sig, time
<1>3. Remake(a, cid, sig, time)
        = [kind |-> a.kind, id |-> a.id, what |-> a.what, exp |-> a.exp, time |-> time,
           cid |-> cid, sig |-> sig]
  BY RemakeParts
<1>4. ProcessTim(a)
        = [kind |-> a.kind, id |-> a.id, what |-> a.what, exp |-> a.exp, time |-> time,
           cid |-> cid, sig |-> sig]
  BY <1>2, <1>3
<1> QED
  BY <1>1, <1>4 DEF cid, sig, time

\* What the signer makes of any other artifact, field by field.
LEMMA SealedAgain ==
  ASSUME NEW a, WellMade(a)
  PROVE  ProcessSignedArtifact(a) =
           [kind |-> a.kind, id |-> a.id, what |-> a.what, exp |-> a.exp, time |-> a.time,
            cid |-> IF a.cid = None THEN None ELSE Cid(Jcs(Unsigned(a))),
            sig |-> SignJws(Jcs(Unsigned(a)), TestKey, TestKid)]
BY Sealed, Zenon DEF ProcessSignedArtifact

\* A new signature is over what the artifact says, and the others were there.
SignedFrom(a, b) ==
  /\ WellMade(b) /\ b.kind = a.kind /\ Meaning(b) = Meaning(a)
  /\ \A s \in SignaturesOf(b) : s \in SignaturesOf(a) \/ Meaning(s.over) = Meaning(a)

\* The witnesses are in the time.
LEMMA SameWitnesses == \A a, b : a.time = b.time => Witnesses(a) = Witnesses(b)
BY DEF Witnesses

\* The signer signs what a TIM says.
LEMMA TimFrom ==
  ASSUME NEW a, WellMade(a)
  PROVE  SignedFrom(a, ProcessTim(a))
<1> DEFINE b == ProcessTim(a)
           c == Jcs(CanonicalBody(a))
<1>1. /\ b = [kind |-> a.kind, id |-> a.id, what |-> a.what, exp |-> a.exp,
              time |-> IF Witnesses(a) = <<>> THEN a.time ELSE Resigned(a),
              cid |-> Cid(c), sig |-> SignJws(c, TestKey, TestKid)]
  BY TimRemade
<1>2. Meaning(c) = Meaning(a)
  BY MeaningOfBody
<1>3. \A key, kid : SignJws(c, key, kid).over = c
  BY DEF SignJws, SignDetached
<1> DEFINE q == [j \in DOMAIN Witnesses(a) |-> SignJws(c, WitnessKey, WitnessKid)]
<1>4. /\ Witnesses(a) \in Seq(ToSet(Witnesses(a)))
      /\ a.time = [given |-> a.time.given, ts |-> a.time.ts, witnesses |-> a.time.witnesses]
  BY DEF WellMade
<1>5. q \in Seq({SignJws(c, WitnessKey, WitnessKid)})
  <2> DEFINE n == Len(Witnesses(a))
  <2>1. n \in Nat /\ DOMAIN Witnesses(a) = 1..n
    BY <1>4
  <2> HIDE DEF n
  <2> QED
    BY <2>1
<1>6. q \in Seq(ToSet(q)) /\ ToSet(q) \subseteq {SignJws(c, WitnessKey, WitnessKid)}
  BY <1>5, OwnSeq
<1>7. Resigned(a) = [given |-> a.time.given, ts |-> a.time.ts, witnesses |-> q]
  BY DEF Resigned
<1> HIDE DEF b, c, q
<1>8. b.time = a.time \/ b.time = [given |-> a.time.given, ts |-> a.time.ts, witnesses |-> q]
  BY <1>1, <1>7
<1>9. Witnesses(b) \in {Witnesses(a), <<>>, q}
  BY <1>8 DEF Witnesses
<1>10. WellMade(b)
  <2>1. <<>> \in Seq(ToSet(<<>>))
    OBVIOUS
  <2>2. Witnesses(b) \in Seq(ToSet(Witnesses(b)))
    BY <1>4, <1>6, <1>9, <2>1
  <2>3. b.time = [given |-> b.time.given, ts |-> b.time.ts, witnesses |-> b.time.witnesses]
    BY <1>4, <1>8
  <2>4. b = [kind |-> b.kind, id |-> b.id, what |-> b.what, exp |-> b.exp, time |-> b.time,
             cid |-> b.cid, sig |-> b.sig]
    BY <1>1
  <2> QED
    BY <2>2, <2>3, <2>4 DEF WellMade
<1>11. Meaning(b) = Meaning(a)
  <2>1. b.kind = a.kind /\ b.id = a.id /\ b.what = a.what /\ b.exp = a.exp
    BY <1>1
  <2>2. b.time.ts = a.time.ts
    BY <1>8
  <2> QED
    BY <2>1, <2>2 DEF Meaning
<1>12. ASSUME NEW s \in SignaturesOf(b)
       PROVE  s \in SignaturesOf(a) \/ Meaning(s.over) = Meaning(a)
  <2>1. IsJws(s) /\ (s = b.sig \/ \E j \in DOMAIN Witnesses(b) : s = Witnesses(b)[j])
    BY <1>12 DEF SignaturesOf
  <2>2. CASE s = b.sig
    BY <1>1, <1>2, <1>3, <2>2
  <2>3. CASE s # b.sig
    <3>1. PICK j \in DOMAIN Witnesses(b) : s = Witnesses(b)[j]
      BY <2>1, <2>3
    <3>2. CASE Witnesses(b) = Witnesses(a)
      BY <2>1, <3>1, <3>2 DEF SignaturesOf
    <3>3. CASE Witnesses(b) = q
      <4>1. s = SignJws(c, WitnessKey, WitnessKid)
        BY <1>6, <3>1, <3>3 DEF ToSet
      <4> QED
        BY <1>2, <1>3, <4>1
    <3> QED
      BY <1>9, <3>1, <3>2, <3>3
  <2> QED
    BY <2>2, <2>3
<1>13. b.kind = a.kind
  BY <1>1
<1> QED
  BY <1>10, <1>11, <1>12, <1>13 DEF SignedFrom, b

\* The signer signs what any other artifact says.
LEMMA ArtifactFrom ==
  ASSUME NEW a, WellMade(a)
  PROVE  SignedFrom(a, ProcessSignedArtifact(a))
<1> DEFINE b == ProcessSignedArtifact(a)
           c == Jcs(Unsigned(a))
           cid == IF a.cid = None THEN None ELSE Cid(c)
<1>1. /\ b = [kind |-> a.kind, id |-> a.id, what |-> a.what, exp |-> a.exp, time |-> a.time,
              cid |-> cid, sig |-> SignJws(c, TestKey, TestKid)]
  BY SealedAgain
<1>2. Meaning(c) = Meaning(a)
  BY MeaningOfBody
<1>3. SignJws(c, TestKey, TestKid).over = c
  BY DEF SignJws, SignDetached
<1> HIDE DEF b, c, cid
<1>4. Witnesses(b) = Witnesses(a)
  BY <1>1, SameWitnesses
<1>5. WellMade(b)
  BY <1>1, <1>4 DEF WellMade
<1>6. Meaning(b) = Meaning(a)
  BY <1>1 DEF Meaning
<1>7. ASSUME NEW s \in SignaturesOf(b)
      PROVE  s \in SignaturesOf(a) \/ Meaning(s.over) = Meaning(a)
  <2>1. CASE s = b.sig
    BY <1>1, <1>2, <1>3, <2>1
  <2>2. CASE s # b.sig
    BY <1>4, <1>7, <2>2 DEF SignaturesOf
  <2> QED
    BY <2>1, <2>2
<1>8. b.kind = a.kind
  BY <1>1
<1> QED
  BY <1>5, <1>6, <1>7, <1>8 DEF SignedFrom, b

\* Writing an artifact back changes none of it.
LEMMA WrittenFrom ==
  ASSUME NEW a, WellMade(a), NEW b, SignedFrom(a, b)
  PROVE  SignedFrom(a, Written(b))
<1> DEFINE w == Written(b)
<1>1. /\ w = [kind |-> b.kind, id |-> b.id, what |-> w.what, exp |-> b.exp, time |-> b.time,
              cid |-> b.cid, sig |-> b.sig]
      /\ Meaning(w) = Meaning(b)
  <2>1. w = [kind |-> b.kind, id |-> b.id, what |-> w.what, exp |-> b.exp, time |-> b.time,
             cid |-> b.cid, sig |-> b.sig]
    BY DEF SignedFrom, WellMade, Written
  <2> QED
    BY <2>1, MeaningOfJcs DEF SignedFrom
<1> HIDE DEF w
<1>2. w.kind = b.kind /\ w.time = b.time /\ w.sig = b.sig
  BY <1>1
<1>3. Witnesses(w) = Witnesses(b)
  BY <1>2, SameWitnesses
<1>4. WellMade(w)
  BY <1>1, <1>2, <1>3 DEF SignedFrom, WellMade
<1>5. SignaturesOf(w) = SignaturesOf(b)
  BY <1>2, <1>3 DEF SignaturesOf
<1> QED
  BY <1>1, <1>2, <1>4, <1>5 DEF SignedFrom, w

\* What the signer changes is an artifact that it may sign, and not on purpose broken.
LEMMA ChangedIsSigned ==
  ASSUME NEW f, SignedFile(f) # f
  PROVE  /\ f # Torn /\ f.place \in SignedPlaces /\ ~Negative(f) /\ HasArtifact(f)
         /\ SignedArtifact(f) # f.artifact
         /\ SignedArtifact(f) \in {ProcessTim(f.artifact), ProcessSignedArtifact(f.artifact)}
         /\ SignedFile(f) = [f EXCEPT !.artifact = Written(SignedArtifact(f))]
<1>1. /\ f # Torn /\ f.place \in SignedPlaces /\ ~Negative(f) /\ SignedArtifact(f) # f.artifact
      /\ SignedFile(f) = [f EXCEPT !.artifact = Written(SignedArtifact(f))]
  BY DEF SignedFile
<1>2. SignedArtifact(f)
        \in {f.artifact, ProcessTim(f.artifact), ProcessSignedArtifact(f.artifact)}
  BY <1>1, Zenon DEF SignedPlaces, SignedArtifact, SignTopLevel, SignEmbeddedTim, SignEmbedded
<1> QED
  BY <1>1, <1>2 DEF SignedPlaces, HasArtifact

\* What is in the file that the signer writes was signed from what it read.
LEMMA SignedFileFrom ==
  ASSUME NEW n, NEW f, NEW h, Kept(n, f, h), SignedFile(f) # f
  PROVE  LET g == SignedFile(f)
             new == {Issued(s, g.artifact) :
                       s \in SignaturesOf(g.artifact) \ SignaturesOf(f.artifact)}
         IN Kept(n, g, h \cup new)
<1> DEFINE a == f.artifact
           b == Written(SignedArtifact(f))
           g == SignedFile(f)
           new == {Issued(s, b) : s \in SignaturesOf(b) \ SignaturesOf(a)}
<1>1. WellMade(a) /\ HasArtifact(f) /\ g = [f EXCEPT !.artifact = b]
  BY ChangedIsSigned DEF Kept, WellPlaced
<1>2. SignedFrom(a, SignedArtifact(f))
  BY <1>1, ChangedIsSigned, TimFrom, ArtifactFrom
<1>3. SignedFrom(a, b)
  BY <1>1, <1>2, WrittenFrom
<1> HIDE DEF b
<1>4. ASSUME NEW s \in SignaturesOf(b), s \notin SignaturesOf(a)
      PROVE  Traced(s, h \cup new)
  <2>1. Meaning(s.over) = Meaning(b)
    BY <1>3, <1>4 DEF SignedFrom
  <2>2. Issued(s, b) \in new
    BY <1>4
  <2> QED
    BY <2>1, <2>2 DEF Traced, Issued
<1> HIDE DEF new
<1>5. Kept(n, f, h \cup new)
  BY KeptGrows
<1>6. WellMade(b) /\ b.kind = a.kind
  BY <1>3 DEF SignedFrom
<1>7. Kept(n, g, h \cup new)
  BY <1>1, <1>4, <1>5, <1>6, KeptWith
<1>8. g.artifact = b
  BY <1>1 DEF Kept, WellPlaced
<1> QED
  BY <1>7, <1>8 DEF new

-----------------------------------------------------------------------------
(* What the signer does *)

\* The signer starts with files that are in order.
LEMMA StartSignKeeps ==
  ASSUME RepoInv, StartSign
  PROVE  RepoInv'
BY DEF RepoInv, NamesOk, FilesOk, JobOk, StartSign, Names

\* What the signer holds is as it was when it was read.
LEMMA ReadFileKeeps ==
  ASSUME RepoInv, ReadFile
  PROVE  RepoInv'
<1> DEFINE n == Head(job.todo)
           signs == SignedFile(files[n]) # files[n]
           held == IF signs THEN [name |-> n, file |-> files[n]] ELSE None
<1>1. /\ job.who = "signer" /\ job.held = None /\ job.todo # <<>>
      /\ UNCHANGED <<files, issued>> /\ Names' = Names
      /\ job' = [who |-> "signer", todo |-> Tail(job.todo), held |-> held]
  BY Zenon DEF ReadFile, Names
<1>2. job.todo \in Seq(Names)
  BY <1>1 DEF RepoInv, JobOk
<1>3. n \in Names /\ Tail(job.todo) \in Seq(Names)
  BY <1>1, <1>2
<1>4. held # None => /\ held.name \in Names /\ Kept(held.name, held.file, issued)
                     /\ SignedFile(held.file) # held.file
  BY <1>3 DEF RepoInv, FilesOk
<1> HIDE DEF held
<1>5. JobOk'
  BY <1>1, <1>3, <1>4 DEF JobOk
<1> QED
  BY <1>1, <1>5 DEF RepoInv, NamesOk, FilesOk

\* The signer records what it signs as it writes it.
LEMMA WriteFileKeeps ==
  ASSUME RepoInv, WriteFile
  PROVE  RepoInv'
<1> DEFINE n == job.held.name
           f == job.held.file
           g == SignedFile(f)
           new == {Issued(s, g.artifact) : s \in SignaturesOf(g.artifact) \ SignaturesOf(f.artifact)}
<1>1. /\ job.who = "signer" /\ job.held # None
      /\ files' = [files EXCEPT ![n] = g] /\ issued' = issued \cup new
      /\ job' = [who |-> "signer", todo |-> job.todo, held |-> None]
  BY DEF WriteFile
<1>2. /\ n \in Names /\ Kept(n, f, issued) /\ g # f /\ job.todo \in Seq(Names)
  BY <1>1 DEF RepoInv, JobOk
<1>3. Kept(n, g, issued')
  BY <1>1, <1>2, SignedFileFrom
<1> HIDE DEF n, g, new
<1>4. Names' = Names /\ \A m \in Names : files'[m] = IF m = n THEN g ELSE files[m]
  BY <1>1 DEF Names
<1>5. FilesOk'
  <2> SUFFICES ASSUME NEW m \in Names PROVE Kept(m, files'[m], issued')
    BY <1>4 DEF FilesOk
  <2>1. Kept(m, files[m], issued')
    BY <1>1, KeptGrows DEF RepoInv, FilesOk
  <2> QED
    BY <1>3, <1>4, <2>1
<1>6. JobOk'
  BY <1>1, <1>2, <1>4 DEF JobOk
<1> QED
  BY <1>4, <1>5, <1>6 DEF RepoInv, NamesOk

-----------------------------------------------------------------------------
(* What the generator does *)

\* Made and signed as it reads.
MadeWhole(a) == WellMade(a) /\ \A s \in SignaturesOf(a) : Meaning(s.over) = Meaning(a)

\* What the generator signs is signed as it reads.
LEMMA SignPathMade ==
  ASSUME NEW kind, NEW id, NEW time, NEW text, NEW cites, NEW key, NEW kid,
         time = [given |-> time.given, ts |-> time.ts, witnesses |-> None]
  PROVE  LET body == Body(kind, id, time, text, cites)
             a == SignPath(body, key, kid)
         IN /\ a = [kind |-> kind, id |-> id, what |-> [text |-> text, cites |-> cites],
                    exp |-> None, time |-> time, cid |-> Cid(Jcs(body)),
                    sig |-> SignDetached(Jcs(body), key, kid)]
            /\ Meaning(Jcs(body)) = Meaning(a) /\ Witnesses(a) = <<>> /\ MadeWhole(a)
<1> DEFINE body == Body(kind, id, time, text, cites)
           what == [text |-> text, cites |-> cites]
           cid == Cid(Jcs(body))
           sig == SignDetached(Jcs(body), key, kid)
           a == SignPath(body, key, kid)
           m == [kind |-> kind, id |-> id, what |-> what, exp |-> None, time |-> time,
                 cid |-> cid, sig |-> sig]
<1>1. body = [kind |-> kind, id |-> id, what |-> what, exp |-> None, time |-> time,
              cid |-> None, sig |-> None]
  BY DEF Body
<1>2. a = [body EXCEPT !.cid = cid, !.sig = sig]
  BY DEF SignPath
<1>3. sig.over = Jcs(body)
  BY DEF SignDetached
<1> HIDE DEF body, what, cid, sig, a, m
<1>4. Witnesses(body) = <<>> /\ <<>> \in Seq(ToSet(<<>>))
  BY <1>1 DEF Witnesses
<1>5. WellMade(body)
  BY <1>1, <1>4 DEF WellMade
<1>6. /\ body.kind = kind /\ body.id = id /\ body.what = what /\ body.exp = None
      /\ body.time = time
  BY <1>1
<1>7. a = m
  <2>1. [body EXCEPT !.cid = cid, !.sig = sig]
          = [kind |-> body.kind, id |-> body.id, what |-> body.what, exp |-> body.exp,
             time |-> body.time, cid |-> cid, sig |-> sig]
    BY <1>5, Sealed
  <2> QED
    BY <1>2, <1>6, <2>1 DEF m
<1>8. Witnesses(m) = <<>>
  BY DEF m, Witnesses
<1>9. WellMade(m)
  BY <1>4, <1>8 DEF WellMade, m
<1>10. Meaning(Jcs(body)) = Meaning(m)
  <2>1. Meaning(Jcs(body)) = Meaning(body)
    BY <1>5, MeaningOfJcs
  <2>2. m.kind = kind /\ m.id = id /\ m.what = what /\ m.exp = None /\ m.time = time
    BY DEF m
  <2> QED
    BY <1>6, <2>1, <2>2 DEF Meaning
<1>11. \A s \in SignaturesOf(m) : s = sig
  BY <1>8 DEF SignaturesOf, m
<1>12. MadeWhole(m)
  BY <1>3, <1>9, <1>10, <1>11 DEF MadeWhole
<1> QED
  BY <1>7, <1>8, <1>10, <1>12 DEF body, what, cid, sig, a, m

\* The fields of the absent time.
LEMMA NoTimeShape ==
  NoTime = [given |-> NoTime.given, ts |-> NoTime.ts, witnesses |-> None]
BY DEF NoTime

\* The notary's witness is over what the issuer signed.
LEMMA PathTimMade ==
  ASSUME NEW scenario
  PROVE  MadeWhole(PathTim(scenario))
<1> DEFINE time == [given |-> TRUE, ts |-> 1, witnesses |-> None]
           body == Body("tim", DidKeyFromPublicKey(TestKey), time, scenario.measured, <<>>)
           a == SignPath(body, TestKey, TestKid)
           w == SignDetached(Jcs(body), NotaryKey, NotaryKid)
           b == [a EXCEPT !.time.witnesses = <<w>>]
<1>1. PathTim(scenario) = b
  BY DEF PathTim
<1>2. time = [given |-> time.given, ts |-> time.ts, witnesses |-> None]
  OBVIOUS
<1>3. Meaning(Jcs(body)) = Meaning(a) /\ MadeWhole(a) /\ a.sig.over = Jcs(body)
  <2> HIDE DEF time
  <2>1. /\ a = [kind |-> "tim", id |-> DidKeyFromPublicKey(TestKey),
                what |-> [text |-> scenario.measured, cites |-> <<>>],
                exp |-> None, time |-> time, cid |-> Cid(Jcs(body)),
                sig |-> SignDetached(Jcs(body), TestKey, TestKid)]
        /\ Meaning(Jcs(body)) = Meaning(a) /\ MadeWhole(a)
    BY <1>2, SignPathMade
  <2>2. SignDetached(Jcs(body), TestKey, TestKid).over = Jcs(body)
    BY DEF SignDetached
  <2> HIDE DEF a, body
  <2> QED
    BY <2>1, <2>2
<1>4. w.over = Jcs(body)
  BY DEF SignDetached
<1> HIDE DEF time, body, a, w
<1>5. b = [kind |-> a.kind, id |-> a.id, what |-> a.what, exp |-> a.exp,
           time |-> [given |-> a.time.given, ts |-> a.time.ts, witnesses |-> <<w>>],
           cid |-> a.cid, sig |-> a.sig]
  BY <1>3, WitnessedBy DEF MadeWhole
<1> HIDE DEF b
<1>6. Witnesses(b) \in {<<>>, <<w>>}
  BY <1>5 DEF Witnesses
<1>7. <<>> \in Seq(ToSet(<<>>)) /\ <<w>> \in Seq(ToSet(<<w>>))
  <2> DEFINE q == <<w>>
  <2>1. w \in {w} /\ q \in Seq({w})
    OBVIOUS
  <2>2. <<>> \in Seq(ToSet(<<>>))
    OBVIOUS
  <2> HIDE DEF q
  <2>3. q \in Seq(ToSet(q))
    BY <2>1, OwnSeq
  <2> QED
    BY <2>2, <2>3 DEF q
<1>8. WellMade(b)
  BY <1>5, <1>6, <1>7 DEF WellMade
<1>9. Meaning(b) = Meaning(a)
  <2>1. b.kind = a.kind /\ b.id = a.id /\ b.what = a.what /\ b.exp = a.exp
        /\ b.time.ts = a.time.ts
    BY <1>5
  <2> QED
    BY <2>1 DEF Meaning
<1>10. \A s \in SignaturesOf(b) : s \in {a.sig, w}
  <2>1. \A q \in {<<>>, <<w>>} : \A j \in DOMAIN q : q[j] = w
    OBVIOUS
  <2> QED
    BY <1>5, <1>6, <2>1 DEF SignaturesOf
<1> QED
  BY <1>1, <1>3, <1>4, <1>8, <1>9, <1>10 DEF MadeWhole

\* Each artifact of the path is signed as it reads.
LEMMA PathMade ==
  ASSUME NEW scenario, NEW r \in Roles
  PROVE  MadeWhole(PathArtifacts(scenario)[r])
<1> DEFINE tim == PathTim(scenario)  kernel == PathKernel(scenario)
           decision == PathDecision(tim, kernel)
<1>1. MadeWhole(tim)
  BY PathTimMade
<1>2. MadeWhole(kernel)
  BY SignPathMade, NoTimeShape DEF PathKernel
<1>3. \A x, y : MadeWhole(PathDecision(x, y))
  BY SignPathMade, NoTimeShape DEF PathDecision
<1>4. \A x : MadeWhole(PathAnchor(x))
  BY SignPathMade, NoTimeShape DEF PathAnchor
<1>5. \A x, y : MadeWhole(PathXr(x, y))
  BY SignPathMade, NoTimeShape DEF PathXr
<1>6. PathArtifacts(scenario) =
        [tim |-> tim, anchor |-> PathAnchor(tim), kernel |-> kernel, decision |-> decision,
         xr |-> PathXr(kernel, decision)]
  BY DEF PathArtifacts
<1> HIDE DEF tim, kernel
<1> QED
  BY <1>1, <1>2, <1>3, <1>4, <1>5, <1>6 DEF Roles

\* All that the generator is about to write is on record from its start.
LEMMA StartGenerateKeeps ==
  ASSUME RepoInv, StartGenerate
  PROVE  RepoInv'
<1>1. PICK scenario \in Scenarios :
        /\ job' = [who |-> "generator", todo |-> PathWrites(scenario), held |-> None]
        /\ issued' = issued \cup
             UNION {{Issued(s, PathArtifacts(scenario)[r]) :
                       s \in SignaturesOf(PathArtifacts(scenario)[r])} : r \in Roles}
  BY DEF StartGenerate
<1>2. files' = files /\ Names' = Names
  BY DEF StartGenerate, Names
<1> DEFINE made == PathArtifacts(scenario)
           q == PathWrites(scenario)
<1>3. ASSUME NEW r \in Roles PROVE Kept(r, Chained(made[r]), issued')
  <2>1. ASSUME NEW s \in SignaturesOf(made[r]) PROVE Traced(s, issued')
    <3>1. Issued(s, made[r]) \in issued'
      BY <1>1
    <3>2. Meaning(s.over) = Meaning(made[r])
      BY <2>1, PathMade DEF MadeWhole
    <3> QED
      BY <3>1, <3>2 DEF Traced, Issued
  <2>2. WellMade(made[r])
    BY PathMade DEF MadeWhole
  <2> HIDE DEF made
  <2>3. r # "chain"
    BY DEF Roles
  <2> QED
    BY <2>1, <2>2, <2>3 DEF Kept, WellPlaced, Chained
<1>4. Kept("chain", Chain(made), issued')
  BY DEF Kept, WellPlaced, Chain, HasArtifact, Roles
<1>5. ASSUME NEW w \in ToSet(q) PROVE Kept(w.name, w.file, issued')
  <2>1. q = <<[name |-> "tim", file |-> Chained(made["tim"])],
              [name |-> "anchor", file |-> Chained(made["anchor"])],
              [name |-> "kernel", file |-> Chained(made["kernel"])],
              [name |-> "decision", file |-> Chained(made["decision"])],
              [name |-> "xr", file |-> Chained(made["xr"])],
              [name |-> "chain", file |-> Chain(made)]>>
    BY DEF PathWrites
  <2> HIDE DEF q, made
  <2>2. \/ \E r \in Roles : w = [name |-> r, file |-> Chained(made[r])]
        \/ w = [name |-> "chain", file |-> Chain(made)]
    BY <1>5, <2>1 DEF ToSet, Roles
  <2> QED
    BY <1>3, <1>4, <2>2
<1>6. q \in Seq(ToSet(q))
  <2>1. PICK a, b, c, d, e, f : q = <<a, b, c, d, e, f>>
    BY DEF PathWrites
  <2> HIDE DEF q
  <2>2. q \in Seq({a, b, c, d, e, f})
    BY <2>1
  <2> QED
    BY <2>2, OwnSeq
<1> HIDE DEF q
<1>7. JobOk'
  BY <1>1, <1>5, <1>6 DEF JobOk, q
<1>8. FilesOk'
  <2> SUFFICES ASSUME NEW m \in Names PROVE Kept(m, files[m], issued')
    BY <1>2 DEF FilesOk
  <2> QED
    BY <1>1, KeptGrows DEF RepoInv, FilesOk
<1> QED
  BY <1>2, <1>7, <1>8 DEF RepoInv, NamesOk

\* The generator writes what it made.
LEMMA WritePathKeeps ==
  ASSUME RepoInv, WritePath
  PROVE  RepoInv'
<1> DEFINE w == Head(job.todo)
<1>1. /\ job.who = "generator" /\ job.todo # <<>> /\ issued' = issued
      /\ files' = [files EXCEPT ![w.name] = w.file]
      /\ job' = [who |-> "generator", todo |-> Tail(job.todo), held |-> None]
  BY DEF WritePath
<1>2. /\ job.todo \in Seq(ToSet(job.todo))
      /\ \A x \in ToSet(job.todo) : Kept(x.name, x.file, issued)
  BY <1>1 DEF RepoInv, JobOk
<1>3. /\ w \in ToSet(job.todo) /\ Tail(job.todo) \in Seq(ToSet(job.todo))
      /\ ToSet(Tail(job.todo)) \subseteq ToSet(job.todo)
  BY <1>1, <1>2, RestOfSeq
<1>4. Tail(job.todo) \in Seq(ToSet(Tail(job.todo)))
  BY <1>3, OwnSeq
<1>5. JobOk'
  BY <1>1, <1>2, <1>3, <1>4 DEF JobOk
<1> HIDE DEF w
<1>6. Names' = Names /\ \A m \in Names : files'[m] = IF m = w.name THEN w.file ELSE files[m]
  BY <1>1 DEF Names
<1>7. FilesOk'
  BY <1>1, <1>2, <1>3, <1>6 DEF RepoInv, FilesOk
<1> QED
  BY <1>5, <1>6, <1>7 DEF RepoInv, NamesOk

\* A script that ends, or dies, leaves files that are in order, or torn.
LEMMA EndKeeps ==
  ASSUME RepoInv, Done \/ Crash
  PROVE  RepoInv'
<1>1. job' = Nobody /\ issued' = issued
  BY DEF Done, Crash
<1>2. JobOk'
  BY <1>1 DEF JobOk, Nobody
<1>3. files' = files \/ \E n \in Names : files' = [files EXCEPT ![n] = Torn]
  BY DEF Done, Crash
<1>4. Names' = Names /\ \A m \in Names : files'[m] \in {files[m], Torn}
  BY <1>3 DEF Names
<1>5. FilesOk'
  <2> SUFFICES ASSUME NEW m \in Names PROVE Kept(m, files'[m], issued)
    BY <1>1, <1>4 DEF FilesOk
  <2> QED
    BY <1>4, TornIsKept DEF RepoInv, FilesOk
<1> QED
  BY <1>2, <1>4, <1>5 DEF RepoInv, NamesOk

-----------------------------------------------------------------------------
(* The theorems *)

\* At first nothing is signed but by legacy signatures.
LEMMA InitOk ==
  ASSUME Init
  PROVE  RepoInv
<1>1. PICK family \in DOMAIN Start : files \in Start[family]
  BY DEF Init
<1>2. /\ \A n \in Names :
           /\ WellPlaced(n, files[n])
           /\ HasArtifact(files[n]) => \A s \in SignaturesOf(files[n].artifact) : s.b64
      /\ PathNames \cap Names # {} => PathNames \subseteq Names
      /\ DirectoryOrder(Names) \in Seq(Names)
  BY <1>1, StartAssumption DEF Names
<1>3. job = Nobody
  BY DEF Init
<1> QED
  BY <1>2, <1>3 DEF RepoInv, NamesOk, FilesOk, JobOk, Kept, Traced, Nobody

\* Every step keeps the invariant.
LEMMA StepOk ==
  ASSUME RepoInv, [Next]_vars
  PROVE  RepoInv'
<1>1. CASE \E n \in Names : Edit(n) \/ Create(n) \/ CoSign(n)
  BY <1>1, EditKeeps, CreateKeeps, CoSignKeeps
<1>2. CASE \E n, m \in Names : Paste(n, m)
  BY <1>2, PasteKeeps
<1>3. CASE UNCHANGED vars
  BY <1>3 DEF vars, RepoInv, NamesOk, FilesOk, JobOk, Names
<1> QED
  BY <1>1, <1>2, <1>3, StartSignKeeps, ReadFileKeeps, WriteFileKeeps, StartGenerateKeeps,
     WritePathKeeps, EndKeeps DEF Next

\* The invariant holds at all times.
LEMMA RepositoryInvariance == Spec => []RepoInv
BY InitOk, StepOk, PTL DEF Spec

\* A signature that holds over what an artifact says is on record, by its key.
LEMMA RecordedIsSigned ==
  ASSUME RepoInv, NEW n \in Names, HasArtifact(files[n]), NEW s, NEW key, NEW over,
         s \in SignaturesOf(files[n].artifact), FlattenedVerify(s, over, key)
  PROVE  [by |-> key, meaning |-> Meaning(over), cid |-> Cid(over)] \in issued
BY DEF RepoInv, FilesOk, Kept, Traced, FlattenedVerify

\* What the SDK calls valid was signed as it reads now, and so were its witnesses.
THEOREM ValidMeansSigned == Spec => []ValidIsSigned
<1>1. RepoInv => ValidIsSigned
  <2> SUFFICES ASSUME RepoInv, NEW n \in Names, HasArtifact(files[n]),
                      NEW at \in Exps \cup {None}, VerifyTim(files[n].artifact, at).valid
               PROVE  LET a == files[n].artifact IN
                      /\ SignedBy(a.id, a)
                      /\ \A j \in DOMAIN Witnesses(a) :
                           Witnessed(ResolveDidKey(a, Witnesses(a)[j]), a)
                      /\ at \in Int /\ a.exp \in Int => at < a.exp
    BY DEF ValidIsSigned
  <2> DEFINE a == files[n].artifact
             body == CanonicalBody(a)
  <2>1. WellMade(a)
    BY DEF RepoInv, FilesOk, Kept, WellPlaced
  <2>2. Meaning(body) = Meaning(a)
    BY <2>1, MeaningOfBody
  <2>3. /\ MissingFields(a) = {} /\ a.cid = Cid(body) /\ ResolveDidKey(a, None) # None
        /\ VerifyDetached(a.sig, body, ResolveDidKey(a, None))
        /\ \A j \in DOMAIN Witnesses(a) : WitnessOk(a, Witnesses(a)[j])
        /\ Fresh(a, at)
    BY Zenon DEF VerifyTim, Verdict
  <2>4. ResolveDidKey(a, None) = a.id
    BY <2>3 DEF ResolveDidKey, DecodeDidKey, IsJws
  <2>5. SignedBy(a.id, a)
    <3>1. a.sig \in SignaturesOf(a)
      BY <2>3 DEF SignaturesOf, VerifyDetached, FlattenedVerify
    <3>2. [by |-> a.id, meaning |-> Meaning(body), cid |-> Cid(body)] \in issued
      BY <2>3, <2>4, <3>1, RecordedIsSigned DEF VerifyDetached
    <3> HIDE DEF body
    <3> QED
      BY <2>2, <2>3, <3>2 DEF SignedBy
  <2>6. ASSUME NEW j \in DOMAIN Witnesses(a)
        PROVE  Witnessed(ResolveDidKey(a, Witnesses(a)[j]), a)
    <3> DEFINE w == Witnesses(a)[j]
    <3>1. VerifyDetached(w, body, ResolveDidKey(a, w))
      BY <2>3 DEF WitnessOk
    <3>2. w \in SignaturesOf(a)
      BY <3>1 DEF SignaturesOf, VerifyDetached, FlattenedVerify
    <3>3. [by |-> ResolveDidKey(a, w), meaning |-> Meaning(body), cid |-> Cid(body)] \in issued
      BY <3>1, <3>2, RecordedIsSigned DEF VerifyDetached
    <3> HIDE DEF body, w
    <3> QED
      BY <2>2, <3>3 DEF Witnessed, w
  <2>7. at \in Int /\ a.exp \in Int => at < a.exp
    BY <2>3 DEF Fresh
  <2> QED
    BY <2>5, <2>6, <2>7
<1> QED
  BY <1>1, RepositoryInvariance, PTL

\* What the script accepts was signed as it reads now, by the key it is checked
\* with, and so were its witnesses.
LEMMA AcceptedIsSigned ==
  ASSUME RepoInv, NEW n \in Names, HasArtifact(files[n]), NEW key,
         Accepted(files[n].artifact, key)
  PROVE  LET a == files[n].artifact IN
         /\ SignedBy(SigningKey(a, key), a)
         /\ \A j \in DOMAIN Witnesses(a) : Witnessed(ResolveWitnessKey(Witnesses(a)[j]), a)
<1> DEFINE a == files[n].artifact
           over == Jcs(CanonicalBody(a))
<1>1. Meaning(over) = Meaning(a)
  BY MeaningOfBody DEF RepoInv, FilesOk, Kept, WellPlaced
<1>2. /\ a.cid = None \/ a.cid = Cid(over)
      /\ FlattenedVerify(a.sig, over, SigningKey(a, key)) /\ VerifyWitnesses(a, over)
  BY AcceptedParts
<1>3. SignedBy(SigningKey(a, key), a)
  <2>1. a.sig \in SignaturesOf(a)
    BY <1>2 DEF SignaturesOf, FlattenedVerify
  <2>2. [by |-> SigningKey(a, key), meaning |-> Meaning(over), cid |-> Cid(over)] \in issued
    BY <1>2, <2>1, RecordedIsSigned
  <2> HIDE DEF over
  <2> QED
    BY <1>1, <1>2, <2>2 DEF SignedBy
<1>4. ASSUME NEW j \in DOMAIN Witnesses(a)
      PROVE  Witnessed(ResolveWitnessKey(Witnesses(a)[j]), a)
  <2> DEFINE w == Witnesses(a)[j]
  <2>1. VerifyDetached(w, over, ResolveWitnessKey(w))
    BY <1>2 DEF VerifyWitnesses
  <2>2. w \in SignaturesOf(a)
    BY <2>1 DEF SignaturesOf, VerifyDetached, FlattenedVerify
  <2>3. [by |-> ResolveWitnessKey(w), meaning |-> Meaning(over), cid |-> Cid(over)] \in issued
    BY <2>1, <2>2, RecordedIsSigned DEF VerifyDetached
  <2> HIDE DEF over, w
  <2> QED
    BY <1>1, <2>3 DEF Witnessed, w
<1> QED
  BY <1>3, <1>4

\* When verify passes, every file that it checks is accepted.
LEMMA PassMeansAccepted ==
  ASSUME RepoInv, VerifyPasses, NEW n \in Names, HasArtifact(files[n]), Checked(files[n]),
         n \in Roles => files["chain"] # Torn
  PROVE  Accepted(files[n].artifact, TestKeyOf(files[n]))
<1>1. n # "chain"
  BY DEF RepoInv, FilesOk, Kept, WellPlaced, HasArtifact
<1>2. CASE n \in Roles
  <2>1. "chain" \in Names
    BY <1>2 DEF RepoInv, NamesOk, PathNames
  <2> QED
    BY <1>2, <2>1 DEF VerifyPasses, PathPasses, FilePasses
<1>3. CASE n \notin Roles
  BY <1>1, <1>3 DEF VerifyPasses, PathNames, FilePasses
<1> QED
  BY <1>2, <1>3

\* When `bun run verify` passes, all that it checks was signed as it reads now.
THEOREM PassingIsSigned == Spec => []PassMeansSigned
<1>1. RepoInv => PassMeansSigned
  <2> SUFFICES ASSUME RepoInv, VerifyPasses, NEW n \in Names, HasArtifact(files[n]),
                      Checked(files[n]), n \in Roles => files["chain"] # Torn
               PROVE  LET a == files[n].artifact IN
                      /\ SignedBy(IF a.id \in Keys THEN a.id
                                  ELSE IF files[n].place = "chained"
                                       THEN ResolveWitnessKey(a.sig) ELSE TestKey, a)
                      /\ \A j \in DOMAIN Witnesses(a) :
                           Witnessed(ResolveWitnessKey(Witnesses(a)[j]), a)
    BY DEF PassMeansSigned
  <2>1. Accepted(files[n].artifact, TestKeyOf(files[n]))
    BY PassMeansAccepted
  <2>2. SigningKey(files[n].artifact, TestKeyOf(files[n])) =
          IF files[n].artifact.id \in Keys THEN files[n].artifact.id
          ELSE IF files[n].place = "chained" THEN ResolveWitnessKey(files[n].artifact.sig)
          ELSE TestKey
    BY FormsAssumption DEF SigningKey, DecodeDidKey, TestKeyOf
  <2> QED
    BY <2>1, <2>2, AcceptedIsSigned
<1> QED
  BY <1>1, RepositoryInvariance, PTL

-----------------------------------------------------------------------------
(* What is computed is not what stands for something missing *)

\* Constants cannot be assumed to differ from every hash: the theorems that need
\* it say so.
ValuesAreApart ==
  /\ \A x : Cid(x) \notin {None, Placeholder, NotText}
  /\ \A x, key, kid : IsJws(SignDetached(x, key, kid))
  /\ \A S, x : [j \in S |-> x] # None

\* The signer leaves alone what the verifier accepts, when its signature is detached.
LEMMA AcceptedStays ==
  ASSUME ValuesAreApart, NEW f, f.place \in SignedPlaces, NEW key, Accepted(f.artifact, key),
         ~f.artifact.sig.between
  PROVE  SignedArtifact(f) = f.artifact
<1> DEFINE a == f.artifact
           over == Jcs(CanonicalBody(a))
<1>1. /\ a.cid = None \/ a.cid = Cid(over)
      /\ FlattenedVerify(a.sig, over, SigningKey(a, key)) /\ VerifyWitnesses(a, over)
  BY AcceptedParts
<1>2. IsJws(a.sig) /\ ~a.sig.between
  BY <1>1 DEF FlattenedVerify
<1>3. ~IsPlaceholderSig(a.sig) /\ a.sig # None
  BY <1>2 DEF IsPlaceholderSig, IsJws
<1>4. ~IsPlaceholderCid(a.cid)
  BY <1>1, FormsAssumption DEF IsPlaceholderCid, ValuesAreApart
<1>5. ~HasPlaceholderWitness(a)
  BY <1>1 DEF HasPlaceholderWitness, VerifyWitnesses, VerifyDetached, FlattenedVerify,
              IsPlaceholderSig, IsJws
<1>6. ~HasStaleTimCid(a)
  BY <1>1 DEF HasStaleTimCid
<1> HIDE DEF a
<1>7. SignTopLevel(a) = a /\ SignEmbeddedTim(a) = a /\ SignEmbedded(a) = a
  BY <1>3, <1>4, <1>5, <1>6, Zenon DEF SignTopLevel, SignEmbeddedTim, SignEmbedded
<1> QED
  BY <1>7, Zenon DEF SignedArtifact, SignedPlaces, a

\* The signer rewrites only what the verifier would not have accepted, or has not
\* looked at: text between the dots of the issuer's signature.
THEOREM OnlyBrokenTouched ==
  ASSUME ValuesAreApart PROVE Spec => TouchesOnlyBroken
<1>1. ASSUME RepoInv, WriteFile
      PROVE  LET f == job.held.file
             IN /\ ~Negative(f)
                /\ Accepted(f.artifact, TestKeyOf(f)) => f.artifact.sig.between
  <2>1. SignedFile(job.held.file) # job.held.file
    BY <1>1 DEF WriteFile, RepoInv, JobOk
  <2> QED
    BY <2>1, ChangedIsSigned, AcceptedStays
<1> QED
  BY <1>1, RepositoryInvariance, PTL DEF TouchesOnlyBroken

-----------------------------------------------------------------------------
(* The links of the reference path *)

Linked(f) == \A l \in Links : f.values[l] # None

ChainInv ==
  /\ "chain" \in Names /\ files["chain"] # Torn => Linked(files["chain"])
  /\ job.who = "generator" =>
       \A w \in ToSet(job.todo) : w.name = "chain" => Linked(w.file)

\* Every step keeps the chain linked.
LEMMA ChainStep ==
  ASSUME ValuesAreApart, RepoInv, ChainInv, [Next]_vars
  PROVE  ChainInv'
<1>1. \A n \in Names : HasArtifact(files[n]) => n # "chain"
  BY DEF RepoInv, FilesOk, Kept, WellPlaced, HasArtifact
<1>2. ASSUME NEW n \in Names, NEW f, NEW signed, HasArtifact(files[n]), Saves(n, f, signed)
      PROVE  ChainInv'
  <2>1. Names' = Names /\ job' = job /\ ("chain" \in Names => files'["chain"] = files["chain"])
    BY <1>1, <1>2 DEF Saves, Names
  <2> QED
    BY <2>1 DEF ChainInv, Linked
<1>3. CASE \E n \in Names : Edit(n) \/ Create(n) \/ CoSign(n)
  BY <1>2, <1>3 DEF Edit, Create, CoSign
<1>4. CASE \E n, m \in Names : Paste(n, m)
  BY <1>2, <1>4 DEF Paste
<1>5. CASE StartSign \/ ReadFile
  BY <1>5 DEF StartSign, ReadFile, ChainInv, Linked, Names
<1>6. CASE WriteFile
  <2>1. SignedFile(job.held.file) # job.held.file /\ Kept(job.held.name, job.held.file, issued)
    BY <1>6 DEF WriteFile, RepoInv, JobOk
  <2>2. job.held.name # "chain"
    BY <2>1, ChangedIsSigned DEF Kept, WellPlaced, HasArtifact
  <2> QED
    BY <1>6, <2>2 DEF WriteFile, ChainInv, Linked, Names
<1>7. CASE StartGenerate
  <2>1. PICK scenario \in Scenarios :
          job' = [who |-> "generator", todo |-> PathWrites(scenario), held |-> None]
    BY <1>7 DEF StartGenerate
  <2> DEFINE made == PathArtifacts(scenario)
  <2>2. \A r \in Roles : made[r].cid # None
    <3>1. \A kind, id, time, text, cites, key, kid :
            time = [given |-> time.given, ts |-> time.ts, witnesses |-> None] =>
              SignPath(Body(kind, id, time, text, cites), key, kid).cid # None
      <4> TAKE kind, id, time, text, cites, key, kid
      <4> HAVE time = [given |-> time.given, ts |-> time.ts, witnesses |-> None]
      <4> DEFINE cid == Cid(Jcs(Body(kind, id, time, text, cites)))
      <4>1. SignPath(Body(kind, id, time, text, cites), key, kid).cid = cid
        BY SignPathMade
      <4>2. cid # None
        BY DEF ValuesAreApart
      <4> QED
        BY <4>1, <4>2
    <3>2. PathTim(scenario).cid # None
      <4> DEFINE time == [given |-> TRUE, ts |-> 1, witnesses |-> None]
                 a == SignPath(Body("tim", DidKeyFromPublicKey(TestKey), time,
                                    scenario.measured, <<>>), TestKey, TestKid)
      <4>1. time = [given |-> time.given, ts |-> time.ts, witnesses |-> None]
        OBVIOUS
      <4>2. WellMade(a)
        <5> HIDE DEF time
        <5> QED
          BY <4>1, SignPathMade DEF MadeWhole
      <4>3. a.cid # None
        BY <3>1, <4>1
      <4>4. \A w : [a EXCEPT !.time.witnesses = w].cid = a.cid
        <5> HIDE DEF a
        <5> QED
          BY <4>2, WitnessedBy
      <4> HIDE DEF a
      <4>5. \E w : PathTim(scenario) = [a EXCEPT !.time.witnesses = w]
        BY DEF PathTim, a
      <4> QED
        BY <4>3, <4>4, <4>5
    <3>3. /\ \A x : PathAnchor(x).cid # None /\ PathKernel(x).cid # None
          /\ \A x, y : PathDecision(x, y).cid # None /\ PathXr(x, y).cid # None
      BY <3>1, NoTimeShape, Zenon DEF PathAnchor, PathKernel, PathDecision, PathXr
    <3> QED
      BY <3>2, <3>3 DEF PathArtifacts, Roles
  <2>3. Linked(Chain(made))
    <3>1. \A l \in Links : l[3] \in Roles
      BY DEF Links, Roles
    <3> HIDE DEF made
    <3> QED
      BY <2>2, <3>1 DEF Linked, Chain
  <2>4. \A w \in ToSet(PathWrites(scenario)) : w.name = "chain" => w.file = Chain(made)
    BY DEF PathWrites, ToSet
  <2>5. files' = files /\ Names' = Names
    BY <1>7 DEF StartGenerate, Names
  <2> QED
    BY <2>1, <2>3, <2>4, <2>5 DEF ChainInv, Linked
<1>8. CASE WritePath
  <2> DEFINE w == Head(job.todo)
  <2>1. /\ job.who = "generator" /\ files' = [files EXCEPT ![w.name] = w.file]
        /\ job.todo \in Seq(ToSet(job.todo)) /\ job.todo # <<>>
        /\ job' = [who |-> "generator", todo |-> Tail(job.todo), held |-> None]
    BY <1>8 DEF WritePath, RepoInv, JobOk
  <2>2. w \in ToSet(job.todo) /\ ToSet(Tail(job.todo)) \subseteq ToSet(job.todo)
    BY <2>1, RestOfSeq
  <2> HIDE DEF w
  <2>3. /\ Names' = Names
        /\ "chain" \in Names =>
             files'["chain"] = IF w.name = "chain" THEN w.file ELSE files["chain"]
    BY <2>1 DEF Names
  <2> QED
    BY <2>1, <2>2, <2>3 DEF ChainInv, Linked
<1>9. CASE Done \/ Crash
  <2>1. job' = Nobody
    BY <1>9 DEF Done, Crash
  <2>2. files' = files \/ \E n \in Names : files' = [files EXCEPT ![n] = Torn]
    BY <1>9 DEF Done, Crash
  <2>3. Names' = Names /\ \A m \in Names : files'[m] \in {files[m], Torn}
    BY <2>2 DEF Names
  <2> QED
    BY <2>1, <2>3 DEF ChainInv, Linked, Nobody
<1>10. CASE UNCHANGED vars
  BY <1>10 DEF vars, ChainInv, Linked, Names
<1> QED
  BY <1>3, <1>4, <1>5, <1>6, <1>7, <1>8, <1>9, <1>10 DEF Next

\* When verify passes, the citations of the path are of what their targets say now.
THEOREM PassingIsLinked ==
  ASSUME ValuesAreApart PROVE Spec => []PassMeansLinked
<1>1. Init => ChainInv
  <2> SUFFICES ASSUME Init PROVE ChainInv
    OBVIOUS
  <2>1. PICK family \in DOMAIN Start : files \in Start[family]
    BY DEF Init
  <2>2. job = Nobody
    BY DEF Init
  <2> QED
    BY <2>1, <2>2, StartAssumption DEF ChainInv, Linked, Names, Nobody, PathNames
<1>2. RepoInv /\ ChainInv => PassMeansLinked
  <2> SUFFICES ASSUME RepoInv, ChainInv, VerifyPasses, "chain" \in Names,
                      files["chain"] # Torn, NEW l \in Links
               PROVE  \E s \in issued : /\ s.cid = Cite(files[l[1]].artifact, l[2])
                                        /\ s.meaning = Meaning(files[l[3]].artifact)
    BY DEF PassMeansLinked
  <2> DEFINE r == l[3]
             a == files[r].artifact
  <2>1. r \in Roles
    BY DEF Links, Roles
  <2>2. r \in Names
    BY <2>1 DEF RepoInv, NamesOk, PathNames
  <2>3. /\ files[r] # Torn /\ LinkHolds(files, l)
    BY <2>1 DEF VerifyPasses, PathPasses
  <2>4. HasArtifact(files[r]) /\ Checked(files[r])
    BY <2>1, <2>2, <2>3 DEF RepoInv, FilesOk, Kept, WellPlaced, HasArtifact, Checked
  <2>5. Accepted(a, TestKeyOf(files[r]))
    BY <2>2, <2>4, PassMeansAccepted
  <2>6. \E key : SignedBy(key, a)
    BY <2>2, <2>4, <2>5, AcceptedIsSigned
  <2>7. /\ Cite(files[l[1]].artifact, l[2]) = files["chain"].values[l]
        /\ a.cid = files["chain"].values[l] /\ files["chain"].values[l] # None
    BY <2>3 DEF LinkHolds, ChainInv, Linked
  <2> QED
    BY <2>6, <2>7 DEF SignedBy
<1> QED
  BY <1>1, <1>2, ChainStep, RepositoryInvariance, PTL DEF Spec

-----------------------------------------------------------------------------
(* What the signer has done to a file *)

\* The canonical form, field by field.
LEMMA CanonicalForm ==
  ASSUME NEW a, WellMade(a)
  PROVE  Jcs(CanonicalBody(a)) =
           [kind |-> a.kind, id |-> a.id,
            what |-> IF a.what = NonFinite THEN WithNull ELSE a.what, exp |-> a.exp,
            time |-> StripWitnesses(a.time), cid |-> None, sig |-> None]
<1> DEFINE u == Unsigned(a)
           b == CanonicalBody(a)
           time == StripWitnesses(a.time)
<1>1. u = [kind |-> a.kind, id |-> a.id, what |-> a.what, exp |-> a.exp, time |-> a.time,
           cid |-> None, sig |-> None]
  BY Sealed DEF Unsigned
<1>2. b = [u EXCEPT !.time = time]
  BY DEF CanonicalBody
<1> HIDE DEF u, b, time
<1>3. b = [kind |-> a.kind, id |-> a.id, what |-> a.what, exp |-> a.exp, time |-> time,
           cid |-> None, sig |-> None]
  <2>1. /\ u = [kind |-> u.kind, id |-> u.id, what |-> u.what, exp |-> u.exp, time |-> u.time,
                cid |-> u.cid, sig |-> u.sig]
        /\ u.kind = a.kind /\ u.id = a.id /\ u.what = a.what /\ u.exp = a.exp
        /\ u.cid = None /\ u.sig = None
    BY <1>1
  <2> HIDE DEF u
  <2>2. [u EXCEPT !.time = time]
          = [kind |-> u.kind, id |-> u.id, what |-> u.what, exp |-> u.exp, time |-> time,
             cid |-> u.cid, sig |-> u.sig]
    BY <2>1
  <2> QED
    BY <1>2, <2>1, <2>2
<1>4. /\ b = [kind |-> b.kind, id |-> b.id, what |-> b.what, exp |-> b.exp, time |-> b.time,
              cid |-> b.cid, sig |-> b.sig]
      /\ b.kind = a.kind /\ b.id = a.id /\ b.what = a.what /\ b.exp = a.exp
      /\ b.time = time /\ b.cid = None /\ b.sig = None
  BY <1>3
<1>5. [b EXCEPT !.what = WithNull]
        = [kind |-> b.kind, id |-> b.id, what |-> WithNull, exp |-> b.exp, time |-> b.time,
           cid |-> b.cid, sig |-> b.sig]
  BY <1>4
<1>6. Jcs(b) = IF a.what = NonFinite THEN [b EXCEPT !.what = WithNull] ELSE b
  BY <1>4 DEF Jcs
<1> QED
  BY <1>4, <1>5, <1>6 DEF b, time

\* What the verifier demands of an artifact that the test key has signed.
LEMMA FreshIsAccepted ==
  ASSUME ValuesAreApart, NEW b, NEW c, c = Jcs(CanonicalBody(b)),
         b.cid = None \/ b.cid = Cid(c), b.sig = SignJws(c, TestKey, TestKid),
         \A j \in DOMAIN Witnesses(b) : Witnesses(b)[j] = SignJws(c, WitnessKey, WitnessKid),
         b.id \notin Keys \ {TestKey}
  PROVE  Accepted(b, TestKey)
<1>1. \A key, kid : /\ VerifyDetached(SignJws(c, key, kid), c, key)
                    /\ FlattenedVerify(SignJws(c, key, kid), c, key)
                    /\ SignJws(c, key, kid).kid = kid /\ IsJws(SignJws(c, key, kid))
  BY DEF VerifyDetached, FlattenedVerify, SignJws, SignDetached, ValuesAreApart
<1>2. SigningKey(b, TestKey) = TestKey
  BY DEF SigningKey, DecodeDidKey
<1>3. ResolveWitnessKey(SignJws(c, WitnessKey, WitnessKid)) = WitnessKey
  BY <1>1, RepositoryAssumption DEF ResolveWitnessKey
<1>4. WitnessKey # None
  BY RepositoryAssumption, FormsAssumption
<1>5. VerifyWitnesses(b, c)
  BY <1>1, <1>3, <1>4 DEF VerifyWitnesses
<1> QED
  BY <1>1, <1>2, <1>5, AcceptedParts

\* Times that differ in their witnesses only are signed alike.
LEMMA StripsAlike ==
  ASSUME NEW given, NEW ts, NEW v, NEW w, v # None, w # None
  PROVE  StripWitnesses([given |-> given, ts |-> ts, witnesses |-> v])
           = StripWitnesses([given |-> given, ts |-> ts, witnesses |-> w])
BY DEF StripWitnesses

\* A TIM that was signed is as it was to the verifier.
LEMMA SignedTimHolds ==
  ASSUME ValuesAreApart, NEW a, WellMade(a)
  PROVE  LET b == Written(ProcessTim(a))
         IN /\ ~HasStaleTimCid(b)
            /\ b.id \notin Keys \ {TestKey} => Accepted(b, TestKey)
<1> DEFINE p == ProcessTim(a)
           b == Written(p)
           c == Jcs(CanonicalBody(a))
<1>1. p = [kind |-> a.kind, id |-> a.id, what |-> a.what, exp |-> a.exp,
           time |-> IF Witnesses(a) = <<>> THEN a.time ELSE Resigned(a),
           cid |-> Cid(c), sig |-> SignJws(c, TestKey, TestKid)]
  BY TimRemade
<1>2. SignedFrom(a, b)
  BY TimFrom, WrittenFrom
<1> HIDE DEF p, c
<1>3. /\ p.what = a.what
      /\ p = [kind |-> p.kind, id |-> p.id, what |-> p.what, exp |-> p.exp, time |-> p.time,
              cid |-> p.cid, sig |-> p.sig]
  BY <1>1
<1>4. /\ b.kind = p.kind /\ b.id = p.id /\ b.exp = p.exp /\ b.time = p.time
      /\ b.cid = p.cid /\ b.sig = p.sig
      /\ b.what = IF a.what = NonFinite THEN WithNull ELSE a.what
  BY <1>3 DEF Written
<1> HIDE DEF b
<1>5. /\ b.kind = a.kind /\ b.id = a.id /\ b.exp = a.exp /\ b.cid = Cid(c)
      /\ b.sig = SignJws(c, TestKey, TestKid)
      /\ b.time = IF Witnesses(a) = <<>> THEN a.time ELSE Resigned(a)
  BY <1>1, <1>4
<1>6. StripWitnesses(b.time) = StripWitnesses(a.time)
  <2>1. CASE Witnesses(a) = <<>>
    BY <1>5, <2>1
  <2>2. CASE Witnesses(a) # <<>>
    <3> DEFINE q == [j \in DOMAIN Witnesses(a) |->
                       SignJws(Jcs(CanonicalBody(a)), WitnessKey, WitnessKid)]
    <3>1. q # None
      BY DEF ValuesAreApart
    <3>2. b.time = [given |-> a.time.given, ts |-> a.time.ts, witnesses |-> q]
      BY <1>5, <2>2 DEF Resigned
    <3> HIDE DEF q
    <3>3. a.time.witnesses # None
      BY <2>2 DEF Witnesses
    <3>4. a.time = [given |-> a.time.given, ts |-> a.time.ts, witnesses |-> a.time.witnesses]
      BY DEF WellMade
    <3> QED
      BY <3>1, <3>2, <3>3, <3>4, StripsAlike
  <2> QED
    BY <2>1, <2>2
<1>7. Jcs(CanonicalBody(b)) = c
  <2>1. b.what = NonFinite <=> FALSE
    BY <1>4, FormsAssumption
  <2> QED
    BY <1>2, <1>4, <1>5, <1>6, <2>1, CanonicalForm DEF SignedFrom, c
<1>8. \A j \in DOMAIN Witnesses(b) : Witnesses(b)[j] = SignJws(c, WitnessKey, WitnessKid)
  <2>1. CASE Witnesses(a) = <<>>
    BY <1>5, <2>1, SameWitnesses
  <2>2. CASE Witnesses(a) # <<>>
    BY <1>5, <2>2 DEF Resigned, Witnesses, c
  <2> QED
    BY <2>1, <2>2
<1>9. ~HasStaleTimCid(b)
  BY <1>5, <1>7 DEF HasStaleTimCid
<1>10. b.id \notin Keys \ {TestKey} => Accepted(b, TestKey)
  BY <1>5, <1>7, <1>8, FreshIsAccepted
<1> QED
  BY <1>9, <1>10 DEF b, p

\* So is what is no TIM, when it has no witnesses.
LEMMA SignedOtherHolds ==
  ASSUME ValuesAreApart, NEW a, WellMade(a), ~IsTim(a)
  PROVE  LET b == Written(ProcessSignedArtifact(a))
         IN /\ ~IsTim(b)
            /\ b.id \notin Keys \ {TestKey} /\ b.time.witnesses = None => Accepted(b, TestKey)
<1> DEFINE p == ProcessSignedArtifact(a)
           b == Written(p)
           c == Jcs(Unsigned(a))
           cid == IF a.cid = None THEN None ELSE Cid(c)
<1>1. p = [kind |-> a.kind, id |-> a.id, what |-> a.what, exp |-> a.exp, time |-> a.time,
           cid |-> cid, sig |-> SignJws(c, TestKey, TestKid)]
  BY SealedAgain
<1>2. SignedFrom(a, b)
  BY ArtifactFrom, WrittenFrom
<1>3. cid = None \/ cid = Cid(c)
  OBVIOUS
<1> HIDE DEF p, c, cid
<1>4. /\ p.what = a.what
      /\ p = [kind |-> p.kind, id |-> p.id, what |-> p.what, exp |-> p.exp, time |-> p.time,
              cid |-> p.cid, sig |-> p.sig]
  BY <1>1
<1>5. /\ b.kind = p.kind /\ b.id = p.id /\ b.exp = p.exp /\ b.time = p.time
      /\ b.cid = p.cid /\ b.sig = p.sig
      /\ b.what = IF a.what = NonFinite THEN WithNull ELSE a.what
  BY <1>4 DEF Written
<1> HIDE DEF b
<1>6. /\ b.kind = a.kind /\ b.id = a.id /\ b.exp = a.exp /\ b.time = a.time /\ b.cid = cid
      /\ b.sig = SignJws(c, TestKey, TestKid)
  BY <1>1, <1>5
<1>7. ~IsTim(b)
  BY <1>5, <1>6, FormsAssumption DEF IsTim
<1>8. ASSUME b.id \notin Keys \ {TestKey}, b.time.witnesses = None
      PROVE  Accepted(b, TestKey)
  <2>1. StripWitnesses(a.time) = a.time /\ StripWitnesses(b.time) = b.time
    BY <1>6, <1>8 DEF StripWitnesses
  <2>2. c = Jcs(CanonicalBody(a))
    <3>1. Unsigned(a) = [kind |-> a.kind, id |-> a.id, what |-> a.what, exp |-> a.exp,
                         time |-> a.time, cid |-> None, sig |-> None]
      BY Sealed DEF Unsigned
    <3>2. [Unsigned(a) EXCEPT !.time = a.time] = Unsigned(a)
      BY <3>1
    <3> QED
      BY <2>1, <3>2 DEF CanonicalBody, c
  <2>3. b.what # NonFinite
    BY <1>5, FormsAssumption
  <2>4. Jcs(CanonicalBody(b)) = c
    BY <1>2, <1>5, <1>6, <2>1, <2>2, <2>3, CanonicalForm DEF SignedFrom
  <2>5. Witnesses(b) = <<>>
    BY <1>8 DEF Witnesses
  <2> QED
    BY <1>3, <1>6, <1>8, <2>4, <2>5, FreshIsAccepted
<1> QED
  BY <1>7, <1>8 DEF b, p

\* What the signer writes the verifier accepts.
LEMMA WrittenHolds ==
  ASSUME ValuesAreApart, NEW n, NEW f, WellPlaced(n, f), SignedFile(f) # f
  PROVE  LET b == SignedFile(f).artifact
         IN /\ b.id \notin Keys \ {TestKey} /\ (IsTim(b) \/ b.time.witnesses = None)
                 => Accepted(b, TestKey)
            /\ IsTim(b) => ~HasStaleTimCid(b)
<1> DEFINE a == f.artifact
<1>1. /\ HasArtifact(f) /\ WellMade(a) /\ f.place \in SignedPlaces
      /\ SignedFile(f) = [f EXCEPT !.artifact = Written(SignedArtifact(f))]
      /\ SignedArtifact(f) # a
      /\ SignedArtifact(f) \in {ProcessTim(a), ProcessSignedArtifact(a)}
  BY ChangedIsSigned DEF WellPlaced
<1>2. SignedFile(f).artifact = Written(SignedArtifact(f))
  BY <1>1 DEF WellPlaced
<1>3. \/ SignedArtifact(f) = ProcessTim(a)
      \/ SignedArtifact(f) = ProcessSignedArtifact(a) /\ ~IsTim(a)
  <2>1. CASE f.place = "inputs"
    <3>1. ~IsTim(a)
      BY <1>1, <2>1 DEF WellPlaced, IsTim
    <3> QED
      BY <1>1, <3>1
  <2>2. CASE f.place \in {"inputs.tim", "tim"}
    <3>1. SignedArtifact(f) \in {SignEmbeddedTim(a), a}
      BY <2>2 DEF SignedArtifact
    <3> QED
      BY <1>1, <3>1, Zenon DEF SignEmbeddedTim
  <2>3. CASE f.place \in {"file", "core", "chained"}
    <3>1. SignedArtifact(f) = SignTopLevel(a)
      BY <2>3, Zenon DEF SignedArtifact
    <3> QED
      BY <1>1, <3>1, Zenon DEF SignTopLevel
  <2> QED
    BY <1>1, <2>1, <2>2, <2>3 DEF SignedPlaces
<1> HIDE DEF a
<1>4. CASE SignedArtifact(f) = ProcessTim(a)
  BY <1>1, <1>2, <1>4, SignedTimHolds
<1>5. CASE SignedArtifact(f) = ProcessSignedArtifact(a) /\ ~IsTim(a)
  BY <1>1, <1>2, <1>5, SignedOtherHolds
<1> QED
  BY <1>3, <1>4, <1>5

\* A TIM that the signer leaves as it is has no stale cid.
LEMMA ReadHolds ==
  ASSUME NEW n, NEW f, WellPlaced(n, f), HasArtifact(f), f.place \in SignedPlaces,
         SignedFile(f) = f, IsTim(f.artifact), ~Negative(f)
  PROVE  ~HasStaleTimCid(f.artifact)
<1> SUFFICES ASSUME HasStaleTimCid(f.artifact) PROVE FALSE
  OBVIOUS
<1> DEFINE a == f.artifact
           b == Written(ProcessTim(a))
<1>1. WellMade(a) /\ f.place # "inputs"
  BY DEF WellPlaced, IsTim
<1>2. SignedArtifact(f) = ProcessTim(a)
  <2>1. CASE f.place \in {"inputs.tim", "tim"}
    BY <2>1, Zenon DEF SignedArtifact, SignEmbeddedTim
  <2>2. CASE f.place \in {"file", "core", "chained"}
    BY <2>2, Zenon DEF SignedArtifact, SignTopLevel
  <2> QED
    BY <1>1, <2>1, <2>2 DEF SignedPlaces
<1>3. ProcessTim(a).cid = Cid(Jcs(CanonicalBody(a))) /\ a.cid # Cid(Jcs(CanonicalBody(a)))
  BY <1>1, TimRemade DEF HasStaleTimCid
<1>4. SignedFile(f) = [f EXCEPT !.artifact = b]
  BY <1>2, <1>3 DEF SignedFile, HasArtifact
<1>5. b.cid = ProcessTim(a).cid
  <2>1. WellMade(ProcessTim(a))
    BY <1>1, TimFrom DEF SignedFrom
  <2> QED
    BY <2>1 DEF WellMade, Written
<1> HIDE DEF b
<1>6. f.artifact = b
  BY <1>4 DEF WellPlaced
<1> QED
  BY <1>3, <1>5, <1>6

SignerInv == SignedVerifies /\ DOMAIN visited = Names

\* What the signer wrote last the verifier accepts, and no TIM that it passed over
\* has a stale cid.
THEOREM SignerIsVerified ==
  ASSUME ValuesAreApart PROVE Spec => []SignedVerifies
<1> DEFINE Ok(f, how) ==
      HasArtifact(f) /\ f.place \in SignedPlaces =>
        /\ how = "written" /\ f.artifact.id \notin Keys \ {TestKey}
             => (IsTim(f.artifact) \/ f.artifact.time.witnesses = None
                   => Accepted(f.artifact, TestKey))
        /\ how # "not" /\ IsTim(f.artifact) /\ ~Negative(f) => ~HasStaleTimCid(f.artifact)
<1>1. /\ SignedVerifies <=> \A n \in Names : Ok(files[n], visited[n])
      /\ \A f : Ok(f, "not") /\ Ok(Torn, "written")
  BY Zenon DEF SignedVerifies, HasArtifact
<1>2. SignedVerifies' <=> \A n \in Names' : Ok(files'[n], visited'[n])
  BY Zenon DEF SignedVerifies
<1>3. ASSUME Init PROVE SignerInv
  <2>1. DOMAIN visited = Names /\ \A n \in Names : visited[n] = "not"
    BY <1>3 DEF Init, Names
  <2> HIDE DEF Ok
  <2> QED
    BY <1>1, <2>1 DEF SignerInv
<1>4. ASSUME RepoInv, SignerInv, [Next]_vars PROVE SignerInv'
  <2> USE <1>4 DEF SignerInv
  <2>1. ASSUME NEW n, NEW g, NEW how, files' = [files EXCEPT ![n] = g],
               visited' = [visited EXCEPT ![n] = how], n \in Names => Ok(g, how)
        PROVE  SignerInv'
    <3> HIDE DEF Ok
    <3>1. Names' = Names /\ DOMAIN visited' = Names
      BY <2>1 DEF Names
    <3>2. \A m \in Names : /\ files'[m] = IF m = n THEN g ELSE files[m]
                           /\ visited'[m] = IF m = n THEN how ELSE visited[m]
      BY <2>1 DEF Names
    <3> QED
      BY <1>1, <1>2, <2>1, <3>1, <3>2
  <2>2. CASE UNCHANGED <<files, visited>>
    BY <2>2 DEF SignedVerifies, Names
  <2>3. CASE \E n \in Names : Edit(n) \/ Create(n) \/ CoSign(n)
    <3>1. PICK n \in Names : \E f, signed : Saves(n, f, signed)
      BY <2>3, Zenon DEF Edit, Create, CoSign
    <3> HIDE DEF Ok
    <3> QED
      BY <1>1, <2>1, <3>1 DEF Saves
  <2>4. CASE \E n, m \in Names : Paste(n, m)
    <3>1. PICK n \in Names : \E f, signed : Saves(n, f, signed)
      BY <2>4, Zenon DEF Paste
    <3> HIDE DEF Ok
    <3> QED
      BY <1>1, <2>1, <3>1 DEF Saves
  <2>5. CASE ReadFile
    <3> DEFINE n == Head(job.todo)
    <3>1. job.who = "signer" /\ job.todo # <<>> /\ files' = files
      BY <2>5 DEF ReadFile
    <3>2. n \in Names
      BY <3>1 DEF RepoInv, JobOk
    <3>3. CASE SignedFile(files[n]) # files[n]
      BY <2>2, <2>5, <3>3, Zenon DEF ReadFile
    <3>4. CASE SignedFile(files[n]) = files[n]
      <4>1. visited' = [visited EXCEPT ![n] = "read"]
        BY <2>5, <3>4, Zenon DEF ReadFile
      <4>2. WellPlaced(n, files[n])
        BY <3>2 DEF RepoInv, FilesOk, Kept
      <4>3. Ok(files[n], "read")
        BY <3>4, <4>2, ReadHolds
      <4> HIDE DEF Ok, n
      <4>4. /\ Names' = Names /\ DOMAIN visited' = Names
            /\ \A m \in Names : visited'[m] = IF m = n THEN "read" ELSE visited[m]
        BY <3>1, <4>1 DEF Names
      <4> QED
        BY <1>1, <1>2, <3>1, <4>3, <4>4
    <3> QED
      BY <3>3, <3>4
  <2>6. CASE WriteFile
    <3> DEFINE f == job.held.file  g == SignedFile(f)
    <3>1. /\ files' = [files EXCEPT ![job.held.name] = g]
          /\ visited' = [visited EXCEPT ![job.held.name] = "written"]
          /\ g # f /\ WellPlaced(job.held.name, f)
      BY <2>6 DEF WriteFile, RepoInv, JobOk, Kept
    <3>2. Ok(g, "written")
      BY <3>1, WrittenHolds
    <3> HIDE DEF Ok, g
    <3> QED
      BY <2>1, <3>1, <3>2
  <2>7. CASE WritePath
    <3> HIDE DEF Ok
    <3> QED
      BY <1>1, <2>1, <2>7 DEF WritePath
  <2>8. CASE Crash
    <3>1. \/ UNCHANGED <<files, visited>>
          \/ \E n \in Names : /\ files' = [files EXCEPT ![n] = Torn]
                              /\ visited' = [visited EXCEPT ![n] = "not"]
      BY <2>8 DEF Crash
    <3> HIDE DEF Ok
    <3> QED
      BY <1>1, <2>1, <2>2, <3>1
  <2>9. CASE StartSign \/ StartGenerate \/ Done \/ UNCHANGED vars
    BY <2>2, <2>9 DEF StartSign, StartGenerate, Done, vars
  <2> QED
    BY <2>3, <2>4, <2>5, <2>6, <2>7, <2>8, <2>9 DEF Next
<1> QED
  BY <1>3, <1>4, RepositoryInvariance, PTL DEF Spec, SignerInv

-----------------------------------------------------------------------------
(* The vectors that are executed *)

IsNoVector(f) == f = Torn \/ f.place # "vector"

\* Nobody rewrites a vector: what is at its name is what its author made of it.
VectorsInv ==
  /\ \A n \in Names : files[n] # Torn /\ files[n].place = "vector" => VectorMade(files[n].vector)
  /\ job.who = "generator" => \A w \in ToSet(job.todo) : IsNoVector(w.file)

\* A file with an artifact stays one, whatever becomes of the artifact.
LEMMA PlaceStays ==
  ASSUME NEW n, NEW f, NEW h, Kept(n, f, h), HasArtifact(f), NEW a
  PROVE  [f EXCEPT !.artifact = a].place = f.place
BY DEF Kept, WellPlaced

\* Every step leaves the vectors as they were made, or torn.
LEMMA VectorsStep ==
  ASSUME RepoInv, VectorsInv, [Next]_vars
  PROVE  VectorsInv'
<1>1. ASSUME NEW n \in Names, NEW f, files' = [files EXCEPT ![n] = f], IsNoVector(f)
      PROVE  /\ Names' = Names
             /\ \A m \in Names : files'[m] # Torn /\ files'[m].place = "vector" =>
                  VectorMade(files'[m].vector)
  BY <1>1 DEF Names, VectorsInv, IsNoVector
<1>2. ASSUME NEW n \in Names, NEW f, NEW signed, IsNoVector(f), Saves(n, f, signed)
      PROVE  VectorsInv'
  BY <1>1, <1>2 DEF Saves, VectorsInv
<1>3. ASSUME NEW n \in Names, HasArtifact(files[n])
      PROVE  \A a : IsNoVector([files[n] EXCEPT !.artifact = a])
  <2>1. Kept(n, files[n], issued) /\ files[n].place # "vector"
    BY <1>3 DEF RepoInv, FilesOk, HasArtifact
  <2> QED
    BY <1>3, <2>1, PlaceStays DEF IsNoVector
<1>4. ASSUME NEW n \in Names, Edit(n)
      PROVE  VectorsInv'
  BY <1>2, <1>3, <1>4 DEF Edit
<1>5. ASSUME NEW n \in Names, Create(n)
      PROVE  VectorsInv'
  BY <1>2, <1>3, <1>5 DEF Create
<1>6. ASSUME NEW n \in Names, CoSign(n)
      PROVE  VectorsInv'
  <2>1. HasArtifact(files[n]) /\ \E w, signed :
          Saves(n, [files[n] EXCEPT !.artifact.time.witnesses = w], signed)
    BY <1>6 DEF CoSign
  <2> QED
    BY <1>2, <1>3, <2>1
<1>7. ASSUME NEW n \in Names, NEW m \in Names, Paste(n, m)
      PROVE  VectorsInv'
  <2> DEFINE f == [files[n] EXCEPT !.artifact.cid = files[m].artifact.cid,
                                   !.artifact.sig = files[m].artifact.sig]
  <2>1. HasArtifact(files[n]) /\ Saves(n, f, {})
    BY <1>7 DEF Paste
  <2>2. f.place = files[n].place
    BY <2>1 DEF RepoInv, FilesOk, Kept, WellPlaced
  <2>3. IsNoVector(f)
    BY <2>1, <2>2 DEF IsNoVector, HasArtifact
  <2> QED
    BY <1>2, <2>1, <2>3
<1>8. CASE StartSign \/ ReadFile
  BY <1>8 DEF StartSign, ReadFile, VectorsInv, Names
<1>9. CASE WriteFile
  <2> DEFINE n == job.held.name
             f == SignedFile(job.held.file)
  <2>1. /\ n \in Names /\ Kept(n, job.held.file, issued) /\ f # job.held.file
        /\ files' = [files EXCEPT ![n] = f] /\ job'.who = "signer"
    BY <1>9 DEF WriteFile, RepoInv, JobOk
  <2>2. HasArtifact(job.held.file) /\ \E a : f = [job.held.file EXCEPT !.artifact = a]
    BY <2>1, ChangedIsSigned
  <2>3. IsNoVector(f)
    BY <2>1, <2>2, PlaceStays DEF IsNoVector, HasArtifact
  <2> HIDE DEF n, f
  <2> QED
    BY <1>1, <2>1, <2>3 DEF VectorsInv
<1>10. CASE StartGenerate
  <2>1. PICK scenario \in Scenarios :
          job' = [who |-> "generator", todo |-> PathWrites(scenario), held |-> None]
    BY <1>10 DEF StartGenerate
  <2>2. \A a : IsNoVector(Chained(a)) /\ IsNoVector(Chain(a))
    BY DEF IsNoVector, Chained, Chain
  <2>3. \A w \in ToSet(PathWrites(scenario)) : IsNoVector(w.file)
    <3>1. \A w \in ToSet(PathWrites(scenario)) : \E a : w.file = Chained(a) \/ w.file = Chain(a)
      BY DEF PathWrites, ToSet
    <3> QED
      BY <2>2, <3>1
  <2>4. files' = files /\ Names' = Names
    BY <1>10 DEF StartGenerate, Names
  <2> QED
    BY <2>1, <2>3, <2>4 DEF VectorsInv
<1>11. CASE WritePath
  <2> DEFINE w == Head(job.todo)
  <2>1. /\ job.who = "generator" /\ files' = [files EXCEPT ![w.name] = w.file]
        /\ job.todo \in Seq(ToSet(job.todo)) /\ job.todo # <<>>
        /\ job' = [who |-> "generator", todo |-> Tail(job.todo), held |-> None]
    BY <1>11 DEF WritePath, RepoInv, JobOk
  <2>2. w \in ToSet(job.todo) /\ ToSet(Tail(job.todo)) \subseteq ToSet(job.todo)
    BY <2>1, RestOfSeq
  <2> HIDE DEF w
  <2>3. IsNoVector(w.file)
    BY <2>1, <2>2 DEF VectorsInv
  <2>4. Names' = Names /\ \A m \in Names : files'[m] = IF m = w.name THEN w.file ELSE files[m]
    BY <2>1 DEF Names
  <2> QED
    BY <2>1, <2>2, <2>3, <2>4 DEF VectorsInv, IsNoVector
<1>12. CASE Done \/ Crash
  <2>1. job' = Nobody
    BY <1>12 DEF Done, Crash
  <2>2. files' = files \/ \E n \in Names : files' = [files EXCEPT ![n] = Torn]
    BY <1>12 DEF Done, Crash
  <2>3. Names' = Names /\ \A m \in Names : files'[m] \in {files[m], Torn}
    BY <2>2 DEF Names
  <2> QED
    BY <2>1, <2>3 DEF VectorsInv, Nobody
<1>13. CASE UNCHANGED vars
  BY <1>13 DEF vars, VectorsInv, Names
<1> QED
  BY <1>4, <1>5, <1>6, <1>7, <1>8, <1>9, <1>10, <1>11, <1>12, <1>13 DEF Next

\* Whatever the scripts and the authors do, and whenever a script dies, a vector
\* is one that an author could have made.
LEMMA VectorsStay == Spec => []VectorsInv
<1>1. Init => VectorsInv
  <2> SUFFICES ASSUME Init PROVE VectorsInv
    OBVIOUS
  <2>1. PICK family \in DOMAIN Start : files \in Start[family]
    BY DEF Init
  <2>2. job = Nobody
    BY DEF Init
  <2> QED
    BY <2>1, <2>2, VectorAssumption DEF VectorsInv, Names, Nobody
<1> QED
  BY <1>1, VectorsStep, RepositoryInvariance, PTL DEF Spec

\* A Merkle vector passes exactly when its root is that of the cids, or its leaf
\* on its way from the root, for any number of cids and any path.
THEOREM MerkleVectorsTrue == Spec => []MerkleVectorsMean
<1>1. VectorsInv => MerkleVectorsMean
  BY RootMeans, InclusionMeans DEF VectorsInv, MerkleVectorsMean, IsVector
<1> QED
  BY <1>1, VectorsStay, PTL

\* A Settler vector passes exactly when its key is that of the request, when
\* nothing goes on after the first failure, and only when statuses advance, for
\* requests and lists of statuses of any length.
THEOREM SettlerVectorsTrue == Spec => []SettlerVectorsMean
<1>1. VectorsInv => SettlerVectorsMean
  BY KeyMeans, CascadeMeans, TransitionMeans DEF VectorsInv, SettlerVectorsMean, IsVector
<1> QED
  BY <1>1, VectorsStay, PTL

\* A finality vector that passes asks for a depth that satisfies whoever asks for
\* one, and for no silence about what was final, for any depths.
THEOREM FinalityVectorsTrue == Spec => []FinalityVectorsMean
<1>1. VectorsInv => FinalityVectorsMean
  BY DepthMeans, ReorgMeans DEF VectorsInv, FinalityVectorsMean, IsVector
<1> QED
  BY <1>1, VectorsStay, PTL

\* A policy vector that passes relaxes no pack, however many are merged, and
\* accepts a manifest exactly when each requirement is met by what is advertised.
THEOREM PolicyVectorsTrue == Spec => []PolicyVectorsMean
<1>1. VectorsInv => PolicyVectorsMean
  BY MergeMeans, CompatMeans DEF VectorsInv, PolicyVectorsMean, IsVector
<1> QED
  BY <1>1, VectorsStay, PTL
=============================================================================
