-------------------------- MODULE SignedArtifacts --------------------------
(***************************************************************************)
(* What every signed artifact of Arky is made of: canonical bodies, the    *)
(* cids and the detached JWS over them, and the names of keys (packages/   *)
(* core: canonicalize.ts, cid.ts, jws.ts, keys.ts; the scripts have copies *)
(* of their own).                                                          *)
(*                                                                         *)
(* Canonical bytes stand as the value they are the bytes of, a hash as     *)
(* what is hashed, a signature as who signed what.  An artifact is         *)
(* [kind, id, what, exp, time, cid, sig]: identity.id, the rest of the     *)
(* content, and the members that are treated one by one.  time is [given,  *)
(* ts, witnesses].                                                         *)
(***************************************************************************)
EXTENDS Integers, Sequences

CONSTANTS
  None,        \* undefined
  Keys,        \* the key pairs there are; a key is its own did:key
  Placeholder, \* text that is no cid and no signature
  NotText,     \* a value that is not a string
  NonFinite,   \* content with a number that is not finite
  WithNull     \* that content, with null for the number

ASSUME FormsAssumption ==
  /\ {None, Placeholder, NotText, NonFinite, WithNull} \cap Keys = {}
  /\ NonFinite # WithNull /\ None # NotText /\ None # Placeholder
  /\ None # NonFinite /\ None # WithNull /\ None \notin Int

-----------------------------------------------------------------------------
(* Canonical bodies *)

NoTime == [given |-> FALSE, ts |-> None, witnesses |-> None]
Witnesses(a) == IF a.time.witnesses = None THEN <<>> ELSE a.time.witnesses

\* time without its witnesses, and no time at all when they were all of it.
StripWitnesses(time) ==
  IF time.witnesses = None THEN time
  ELSE IF time.ts = None THEN NoTime ELSE [time EXCEPT !.witnesses = None]

Unsigned(a) == [a EXCEPT !.cid = None, !.sig = None]

\* Mutant: the identity is not part of what is signed.
BodyWithoutId(a) ==
  [Unsigned(a) EXCEPT !.time = StripWitnesses(a.time), !.id = None]
\* What issuer and witnesses sign, and the cid is the hash of.
CanonicalBody(a) == [Unsigned(a) EXCEPT !.time = StripWitnesses(a.time)]

\* canonicalize() throws on a number that is not finite.
Canonicalizable(body) == body.what # NonFinite

\* The scripts' JCS writes it as JSON.stringify does.
Jcs(body) == IF body.what = NonFinite THEN [body EXCEPT !.what = WithNull] ELSE body

-----------------------------------------------------------------------------
(* cids, keys, detached JWS *)

Cid(canonical) == [hash |-> canonical]

DidKeyFromPublicKey(key) == key

\* The key a did:key names, or None.
DecodeDidKey(id) == IF id \in Keys THEN id ELSE None

\* Its header says b64:false, and nothing stands between its dots.  A legacy JWS
\* signs its payload encoded, and carries it there.
SignDetached(canonical, key, kid) ==
  [kid |-> kid, by |-> key, over |-> canonical, b64 |-> FALSE, between |-> FALSE]

IsJws(x) == x \notin {None, Placeholder, NotText}

\* Of the header and the signature.  What is between the dots is not signed.
FlattenedVerify(jws, canonical, key) ==
  IsJws(jws) /\ ~jws.b64 /\ jws.by = key /\ jws.over = canonical

\* Mutant: whose key made the signature is not looked at.
VerifyBodyOnly(jws, canonical, key) ==
  IsJws(jws) /\ ~jws.b64 /\ ~jws.between /\ jws.over = canonical
VerifyDetached(jws, canonical, key) == FlattenedVerify(jws, canonical, key) /\ ~jws.between
=============================================================================
