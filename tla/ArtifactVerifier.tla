-------------------------- MODULE ArtifactVerifier --------------------------
(***************************************************************************)
(* What verify-artifacts.ts reports of a file with a signed artifact.      *)
(***************************************************************************)
EXTENDS ArtifactSigner

CONSTANT KeyOfKid   \* the fixture keys, by their kids

\* The key the identity names, or the test key.
SigningKey(a, testKey) == IF DecodeDidKey(a.id) = None THEN testKey ELSE DecodeDidKey(a.id)

\* A fixture kid, or a did:key; there is no falling back to the identity.
ResolveWitnessKey(jws) ==
  CASE ~IsJws(jws) -> None
    [] jws.kid \in DOMAIN KeyOfKid -> KeyOfKid[jws.kid]
    [] OTHER -> DecodeDidKey(jws.kid)

VerifyWitnesses(a, canonical) ==
  \A j \in DOMAIN Witnesses(a) :
    LET w == Witnesses(a)[j]
    IN ResolveWitnessKey(w) # None /\ VerifyDetached(w, canonical, ResolveWitnessKey(w))

\* Nothing must stand between the dots of a witness; those of the issuer's
\* signature are not looked at.
VerifyArtifact(a, key) ==
  LET canonical == Jcs(CanonicalBody(a))
  IN [cid |-> a.cid = None \/ a.cid = Cid(canonical),
      sig |-> FlattenedVerify(a.sig, canonical, SigningKey(a, key)),
      witnesses |-> VerifyWitnesses(a, canonical)]

Accepted(a, key) ==
  LET report == VerifyArtifact(a, key) IN report.cid /\ report.sig /\ report.witnesses

-----------------------------------------------------------------------------
(* Which files are looked at *)

\* Of a vector: expect.fresh against the time it gives, when it gives one and its
\* TIM has a text for exp.  A date that cannot be read expires nothing.
FreshnessMatches(f) ==
  \/ f.fresh = None \/ f.place # "inputs.tim"
  \/ f.fresh.at = None \/ f.artifact.exp \in {None, NotText}
  \/ f.fresh.expect = ~(f.fresh.at \in Int /\ f.artifact.exp \in Int /\ f.artifact.exp <= f.fresh.at)

\* Directories of artifacts pass over what has no text for a signature, fixtures
\* what has none; a vector must ask for the check, and then have a signature.
Checked(f) ==
  CASE f.place = "file" -> f.artifact.sig \notin {None, NotText}
    [] f.place = "tim"  -> f.artifact.sig # None
    [] f.place \in {"inputs.tim", "inputs"} -> ~Negative(f) /\ f.crypto
    [] OTHER -> TRUE

\* An artifact of the reference path is checked with the key of its kid.
TestKeyOf(f) == IF f.place = "chained" THEN ResolveWitnessKey(f.artifact.sig) ELSE TestKey

\* No report of the file fails.
FilePasses(f) ==
  /\ f.place \in {"inputs.tim", "inputs"} => FreshnessMatches(f)
  /\ Checked(f) => TestKeyOf(f) # None /\ Accepted(f.artifact, TestKeyOf(f))
=============================================================================
