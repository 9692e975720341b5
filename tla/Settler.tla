------------------------------ MODULE Settler ------------------------------
(***************************************************************************)
(* The reference Settler of packages/core (settler.ts): execute() checks a *)
(* request, answers a repeated key with the receipt it kept, and otherwise *)
(* issues a new execution receipt (XR).  Callers call it one after another *)
(* (it never yields), with any of the stores, or with none, at any time.   *)
(*                                                                         *)
(* An object of arguments is [given, amount, rail, finite, rest]: the      *)
(* names it has, its amount and rail, whether its numbers are finite, and  *)
(* what else is in it.  Hashes are injective, so the hash of an object     *)
(* stands as the object itself.                                            *)
(***************************************************************************)
EXTENDS Integers, Sequences

CONSTANTS
  None,         \* undefined or null
  Requests,     \* what callers ask for
  Verbs,        \* REGISTERED_VERBS
  RequiredArgs, \* VERB_REQUIRED_ARGS
  UnknownRails, \* the rails whose scheme is "unknown:"
  Stores,       \* the idempotency stores
  Times,        \* values of ts
  MaxCalls      \* bound: how many calls are made

ASSUME SettlerAssumption == None \notin Stores /\ None # "" /\ MaxCalls \in Nat

VARIABLES
  stores, \* the receipts in each store, one for a key (a Map)
  log     \* history: the calls made, with what they returned and, if they
          \* issued a receipt, when

settlerVars == <<stores, log>>

-----------------------------------------------------------------------------
(* A request *)

OrEmpty(x) == IF x = None THEN "" ELSE x

NoArgs == [given |-> {}, amount |-> None, rail |-> None, finite |-> TRUE, rest |-> None]

\* args, or else the older params.
ArgsOf(r) == IF r.args # None THEN r.args
             ELSE IF r.params # None THEN r.params ELSE NoArgs

RailOf(r) == IF r.rail # None THEN r.rail
             ELSE IF r.params # None THEN r.params.rail ELSE None

RailSupported(rail) == rail \notin UnknownRails

\* What is wrong with an amount, if anything.
AmountFault(a) ==
  IF ~a.object THEN {"amount"}
  ELSE IF a.value \notin Int \/ a.value <= 0 THEN {"amount.value"}
  ELSE IF a.unit = None THEN {"amount.unit"} ELSE {}

ValidateAmount(args) == IF "amount" \in args.given THEN AmountFault(args.amount) ELSE {}

\* Mutant: the rail is left out of the key.
DeriveWithoutRail(r) ==
  [commitment_cid |-> OrEmpty(r.commitment_cid), verb |-> r.verb, rail |-> "",
   args_hash |-> ArgsOf(r), verb_index |-> 0]
\* The key of a request whose client gives none.
DeriveIdempotencyKey(r) ==
  [commitment_cid |-> OrEmpty(r.commitment_cid), verb |-> r.verb,
   rail |-> OrEmpty(RailOf(r)), args_hash |-> ArgsOf(r), verb_index |-> 0]

KeyOf(r) == IF r.idempotency_key # None THEN r.idempotency_key
            ELSE DeriveIdempotencyKey(r)

Receipt(r, ts) ==
  [request_id |-> IF r.request_id # None THEN r.request_id ELSE <<"exec", KeyOf(r)>>,
   commitment_cid |-> OrEmpty(r.commitment_cid), verb |-> r.verb,
   rail |-> OrEmpty(RailOf(r)), args_hash |-> ArgsOf(r),
   idempotency_key |-> KeyOf(r), ts |-> ts]

-----------------------------------------------------------------------------
(* The checks before execution, in their order *)

Failed(error, fields) ==
  [status |-> "FAILED", errors |-> {error}, missing_fields |-> fields, receipt |-> None]

Faults(r) ==
  IF r.verb \notin Verbs THEN {Failed("settler.unknown_verb", {})}
  ELSE IF ~(RequiredArgs[r.verb] \subseteq ArgsOf(r).given)
  THEN {Failed("settler.invalid_args", RequiredArgs[r.verb] \ ArgsOf(r).given)}
  ELSE IF ValidateAmount(ArgsOf(r)) # {}
  THEN {Failed("settler.invalid_args", ValidateAmount(ArgsOf(r)))}
  ELSE IF ~RailSupported(RailOf(r)) THEN {Failed("settler.unsupported_rail", {})}
  ELSE {}

\* Nothing that cannot be canonicalized can be hashed.
Hashable(r) == ArgsOf(r).finite

-----------------------------------------------------------------------------
(* A call *)

\* Mutant: the receipt is looked up by its request_id.
CachedById(s, r) ==
  IF s = None THEN {} ELSE {x \in stores[s] : x.request_id = r.request_id}
\* The receipt the store has for the key of r.
Cached(s, r) ==
  IF s = None THEN {} ELSE {x \in stores[s] : x.idempotency_key = KeyOf(r)}

\* Map.set: what was there under the key is replaced.
Put(s, r, x) ==
  stores' = IF s = None THEN stores
            ELSE [stores EXCEPT ![s] = (@ \ Cached(s, r)) \cup {x}]

Success(x) ==
  [status |-> "SUCCESS", errors |-> {}, missing_fields |-> {}, receipt |-> x]
Thrown == [status |-> "THROWN", errors |-> {}, missing_fields |-> {}, receipt |-> None]

Returns(r, s, ts, result) ==
  log' = Append(log, [req |-> r, store |-> s, ts |-> ts, result |-> result])

Reject(r, s) ==
  /\ \E f \in Faults(r) : Returns(r, s, None, f)
  /\ UNCHANGED stores

\* Mutant: the cache is asked before the request is checked.
ReplayUnchecked(r, s) ==
  /\ \E x \in Cached(s, r) : Returns(r, s, None, Success(x))
  /\ UNCHANGED stores
\* A key derived for what cannot be hashed is never asked for.
Replay(r, s) ==
  /\ Faults(r) = {} /\ (r.idempotency_key # None \/ Hashable(r))
  /\ \E x \in Cached(s, r) : Returns(r, s, None, Success(x))
  /\ UNCHANGED stores

\* canonicalize() throws, in the key or in the receipt, and nothing is kept.
Throw(r, s) ==
  /\ Faults(r) = {} /\ ~Hashable(r)
  /\ r.idempotency_key = None \/ Cached(s, r) = {}
  /\ Returns(r, s, None, Thrown)
  /\ UNCHANGED stores

\* Mutant: a receipt is issued for a key that has one.
SettleAgain(r, s, ts) ==
  /\ Faults(r) = {} /\ Hashable(r)
  /\ Returns(r, s, ts, Success(Receipt(r, ts)))
  /\ Put(s, r, Receipt(r, ts))
Settle(r, s, ts) ==
  /\ Faults(r) = {} /\ Hashable(r) /\ Cached(s, r) = {}
  /\ Returns(r, s, ts, Success(Receipt(r, ts)))
  /\ Put(s, r, Receipt(r, ts))

SettlerInit ==
  /\ stores = [s \in Stores |-> {}]
  /\ log = <<>>

SettlerNext ==
  /\ Len(log) < MaxCalls
  /\ \E r \in Requests, s \in Stores \cup {None} :
       \/ Reject(r, s)
       \/ Replay(r, s)
       \/ Throw(r, s)
       \/ \E ts \in Times : Settle(r, s, ts)

SettlerSpec == SettlerInit /\ [][SettlerNext]_settlerVars

-----------------------------------------------------------------------------
(* Properties *)

Succeeded(n) == log[n].result.status = "SUCCESS"

Receipts == {Receipt(r, ts) : r \in Requests, ts \in Times}
Failures == UNION {Faults(r) : r \in Requests}
Results  == {Thrown} \cup Failures \cup {Success(x) : x \in Receipts}
Calls    == [req : Requests, store : Stores \cup {None}, ts : Times \cup {None},
             result : Results]

\* The state has its types, and a store has one receipt for a key.
SettlerTypeOK ==
  /\ stores \in [Stores -> SUBSET Receipts]
  /\ log \in Seq(Calls)
  /\ \A s \in Stores : \A x, y \in stores[s] :
       x.idempotency_key = y.idempotency_key => x = y

\* Retries are safe: whatever comes between, two calls with one store and one
\* key that succeed are answered with the identical receipt, the later one with
\* the time of the earlier (settler.ts:163-167; the test "same key returns the
\* identical receipt").
OneReceiptPerKey ==
  \A m, n \in DOMAIN log :
    /\ Succeeded(m) /\ Succeeded(n)
    /\ log[m].store = log[n].store /\ log[m].store # None
    /\ KeyOf(log[m].req) = KeyOf(log[n].req)
    => log[m].result.receipt = log[n].result.receipt

\* Some call up to n issued the receipt that n was answered with.
IssuedBefore(n) ==
  \E m \in 1..n :
    /\ Faults(log[m].req) = {} /\ Hashable(log[m].req)
    /\ log[n].result = Success(Receipt(log[m].req, log[m].ts))
    /\ log[m].result = log[n].result
    /\ KeyOf(log[m].req) = KeyOf(log[n].req)
    /\ m # n => log[m].store = log[n].store

\* Nothing is answered with a receipt that was not earned: the request itself
\* passes every check, cached or not, and the receipt was issued to it or to an
\* earlier call with its key and store, which passed them too
\* (settler.ts:132-167).
ReceiptIsEarned ==
  \A n \in DOMAIN log : Succeeded(n) => Faults(log[n].req) = {} /\ IssuedBefore(n)

SameAction(r, x) ==
  /\ x.verb = r.verb /\ x.rail = OrEmpty(RailOf(r))
  /\ x.args_hash = ArgsOf(r) /\ x.commitment_cid = OrEmpty(r.commitment_cid)

\* Keys that are derived keep requests apart: a receipt is for another action
\* than was asked for only if a client gave the key, in this call or in the one
\* that the receipt was issued to (settler.ts:163).
DerivedKeysTellApart ==
  \A n \in DOMAIN log : Succeeded(n) =>
    \/ SameAction(log[n].req, log[n].result.receipt)
    \/ \E m \in 1..n : /\ KeyOf(log[m].req) = KeyOf(log[n].req)
                       /\ log[m].req.idempotency_key # None

\* "If client provides idempotency_key: Settler MUST dedupe per tuple
\* (idempotency_key, verb, rail)" (specs/core/ARKY-SETTLERS-v1.md:495-496): a
\* receipt is for the verb and the rail that were asked for.
DedupedPerTuple ==
  \A n \in DOMAIN log : Succeeded(n) =>
    /\ log[n].result.receipt.verb = log[n].req.verb
    /\ log[n].result.receipt.rail = OrEmpty(RailOf(log[n].req))
=============================================================================
