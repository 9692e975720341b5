--------------------------- MODULE ArtifactSigner ---------------------------
(***************************************************************************)
(* What sign-artifacts.ts does to one file of the repository.              *)
(*                                                                         *)
(* A file is Torn (not JSON) or [place, artifact, valid, crypto, fresh]:   *)
(* where the artifact stands in it ("file", "core" and "chained" when the  *)
(* file is the artifact), and, of a vector, whether it expects the         *)
(* artifact to be valid, its signature to be checked, and it to be fresh.  *)
(***************************************************************************)
EXTENDS SignedArtifacts

CONSTANTS
  Torn,              \* what a writer that dies leaves
  TestKey, TestKid,  \* the issuer's test key and its kid
  WitnessKey, WitnessKid

\* A placeholder, or a JWS with text between its dots; not a missing one.
IsPlaceholderSig(sig) == sig = Placeholder \/ (IsJws(sig) /\ sig.between)
IsPlaceholderCid(cid) == cid = Placeholder
HasPlaceholderWitness(a) ==
  \E j \in DOMAIN Witnesses(a) : IsPlaceholderSig(Witnesses(a)[j])
HasStaleTimCid(a) ==
  a.cid \notin {None, NotText} /\ a.cid # Cid(Jcs(CanonicalBody(a)))

SignJws(canonical, key, kid) == SignDetached(canonical, key, kid)

IsTim(a) == a.kind = "tim" /\ a.time.given /\ a.id # None /\ a.what # None
\* Registries and packs, commitments, execution receipts.
IsSignableType(a) == a.kind \in {"registry", "kernel", "receipt"}

-----------------------------------------------------------------------------
(* Signing again *)

\* Every witness there was is replaced by the test witness.
ResignWitnesses(a) ==
  IF Witnesses(a) = <<>> THEN a.time
  ELSE [a.time EXCEPT !.witnesses = [j \in DOMAIN Witnesses(a) |->
          SignJws(Jcs(CanonicalBody(a)), WitnessKey, WitnessKid)]]

\* Mutant: the witnesses are kept as they are.
ProcessTimKeepWitnesses(a) ==
  [a EXCEPT !.cid = Cid(Jcs(CanonicalBody(a))),
            !.sig = SignJws(Jcs(CanonicalBody(a)), TestKey, TestKid)]
ProcessTim(a) ==
  [a EXCEPT !.cid  = Cid(Jcs(CanonicalBody(a))),
            !.sig  = SignJws(Jcs(CanonicalBody(a)), TestKey, TestKid),
            !.time = ResignWitnesses(a)]

\* time.witnesses, should there be any, stay in what is signed.
ProcessSignedArtifact(a) ==
  [a EXCEPT !.cid = IF a.cid = None THEN None ELSE Cid(Jcs(Unsigned(a))),
            !.sig = SignJws(Jcs(Unsigned(a)), TestKey, TestKid)]

\* An artifact that is a file of its own.
SignTopLevel(a) ==
  LET needsSign == \/ IsPlaceholderSig(a.sig)
                   \/ (IsTim(a) \/ IsSignableType(a)) /\ a.sig = None
      needsWitnessResign == IsTim(a) /\ (HasPlaceholderWitness(a) \/ HasStaleTimCid(a))
  IN IF ~(needsSign \/ IsPlaceholderCid(a.cid) \/ needsWitnessResign) THEN a
     ELSE IF IsTim(a) THEN ProcessTim(a) ELSE ProcessSignedArtifact(a)

\* A TIM in a vector or a fixture.
SignEmbeddedTim(a) ==
  IF \/ IsPlaceholderSig(a.sig) \/ IsPlaceholderCid(a.cid)
     \/ HasPlaceholderWitness(a) \/ HasStaleTimCid(a)
  THEN ProcessTim(a) ELSE a

\* A commitment or a discovery index in a vector.
SignEmbedded(a) ==
  IF IsPlaceholderSig(a.sig) \/ IsPlaceholderCid(a.cid)
  THEN ProcessSignedArtifact(a) ELSE a

Negative(f) == f.valid = FALSE

\* JSON.stringify writes null for a number that is not finite.
Written(a) == IF a.what = NonFinite THEN [a EXCEPT !.what = WithNull] ELSE a

SignedPlaces == {"file", "core", "chained", "inputs.tim", "tim", "inputs"}
SignedArtifact(f) ==
  CASE f.place \in {"file", "core", "chained"} -> SignTopLevel(f.artifact)
    [] f.place = "inputs.tim" -> SignEmbeddedTim(f.artifact)
    [] f.place = "tim" -> IF IsTim(f.artifact) THEN SignEmbeddedTim(f.artifact) ELSE f.artifact
    [] f.place = "inputs" -> SignEmbedded(f.artifact)

\* Mutant: negative vectors are signed like the others.
SignedEveryFile(f) ==
  IF f # Torn /\ f.place \in SignedPlaces /\ SignedArtifact(f) # f.artifact
  THEN [f EXCEPT !.artifact = Written(SignedArtifact(f))] ELSE f
\* The file after the signer has come by.  What is not JSON is skipped, and so
\* are negative vectors.
SignedFile(f) ==
  IF f # Torn /\ f.place \in SignedPlaces /\ ~Negative(f) /\ SignedArtifact(f) # f.artifact
  THEN [f EXCEPT !.artifact = Written(SignedArtifact(f))] ELSE f
=============================================================================
