-------------------------------- MODULE Tim --------------------------------
(***************************************************************************)
(* TIMs of @arky/core (tim.ts): createTim and verifyTim with the default   *)
(* resolver, which reads did:key identities and the did:key kids of        *)
(* witnesses.                                                              *)
(***************************************************************************)
EXTENDS SignedArtifacts

\* The fields createTim takes from its caller.
TimBody(id, what, exp, ts) ==
  [kind |-> "tim", id |-> id, what |-> what, exp |-> exp,
   time |-> [given |-> TRUE, ts |-> ts, witnesses |-> None], cid |-> None, sig |-> None]

\* Nothing makes the key that of the identity, nor the kid that of the key.
CreateTim(body, key, kid) ==
  [body EXCEPT !.cid = Cid(body), !.sig = SignDetached(body, key, kid)]

MissingFields(a) ==
  {p \in {"id", "what", "cid", "sig"} : a[p] = None}
    \cup (IF a.time.ts = None THEN {"ts"} ELSE {})

\* Mutant: a witness is always checked with the key of the TIM's identity.
ResolveIdentity(a, witness) == DecodeDidKey(a.id)
\* The key for the issuer (witness = None) or a witness: the kid's when it is a
\* did:key, the identity's otherwise.
ResolveDidKey(a, witness) ==
  IF IsJws(witness) /\ witness.kid \in Keys THEN DecodeDidKey(witness.kid)
  ELSE DecodeDidKey(a.id)

\* A date that cannot be read is not a number, and expires nothing.
Fresh(a, at) == ~(at \in Int /\ a.exp \in Int /\ a.exp <= at)

WitnessOk(a, w) ==
  /\ ResolveDidKey(a, w) # None
  /\ VerifyDetached(w, CanonicalBody(a), ResolveDidKey(a, w))

Verdict(missing, cid, signature, witnesses, fresh) ==
  [schema_valid |-> missing = {}, cid_valid |-> cid, signature_valid |-> signature,
   witnesses_valid |-> witnesses, fresh |-> fresh,
   valid |-> cid /\ signature /\ witnesses /\ fresh]

VerifyTim(a, at) ==
  IF MissingFields(a) # {} \/ ~Canonicalizable(CanonicalBody(a))
  THEN Verdict(MissingFields(a), FALSE, FALSE, FALSE, TRUE)
  ELSE Verdict({}, a.cid = Cid(CanonicalBody(a)),
               /\ ResolveDidKey(a, None) # None
               /\ VerifyDetached(a.sig, CanonicalBody(a), ResolveDidKey(a, None)),
               \A j \in DOMAIN Witnesses(a) : WitnessOk(a, Witnesses(a)[j]),
               Fresh(a, at))
=============================================================================
