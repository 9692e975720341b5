----------------------------- MODULE MCSettler -----------------------------
(***************************************************************************)
(* Up to MaxCalls calls over two verbs, two rails, arguments of every kind *)
(* the checks distinguish, keys given, derived, empty and given in the     *)
(* form of a derived one, and two stores.                                  *)
(***************************************************************************)
EXTENDS Settler, TLC

CONSTANTS
  Id1, Id2, \* request ids
  GivenKey, \* a key of a client's own
  EmptyKey, \* the empty string as a key
  NotNumber, Cash

Amount(value, unit) == [object |-> TRUE, value |-> value, unit |-> unit]
NotObject == [object |-> FALSE, value |-> NotNumber, unit |-> None]

PayArgs(amount, rest) ==
  [given |-> {"to", "amount"}, amount |-> amount, rail |-> None, finite |-> TRUE,
   rest |-> rest]
Good == PayArgs(Amount(1, Cash), 1)

Request(verb, rail, args, key) ==
  [verb |-> verb, rail |-> rail, args |-> args, params |-> None,
   commitment_cid |-> None, request_id |-> None, idempotency_key |-> key]

Base == Request("pay", "ach", Good, None)
OldForm == [Good EXCEPT !.given = @ \cup {"rail"}, !.rail = "evm"]

Accepted ==
  {Base, [Base EXCEPT !.rail = None], [Base EXCEPT !.rail = "evm"],
   [Base EXCEPT !.commitment_cid = "c1"],
   [Base EXCEPT !.args = PayArgs(Amount(2, Cash), 1)],
   [Base EXCEPT !.rail = None, !.args = None, !.params = OldForm],
   [Base EXCEPT !.rail = None, !.params = OldForm],
   Request("signal", "ach", [NoArgs EXCEPT !.given = {"channel"}, !.rest = 2], None),
   [Base EXCEPT !.args.finite = FALSE]}
Keyed ==
  {[r EXCEPT !.idempotency_key = GivenKey, !.request_id = Id1] :
     r \in {q \in Accepted : q.params = None /\ q.rail # None}}
  \cup {[Base EXCEPT !.idempotency_key = GivenKey, !.request_id = Id2],
        [Base EXCEPT !.idempotency_key = EmptyKey],
        [Base EXCEPT !.rail = "evm", !.idempotency_key = EmptyKey],
        [Base EXCEPT !.rail = "evm", !.idempotency_key = DeriveIdempotencyKey(Base)]}
Refused ==
  {[Base EXCEPT !.verb = "mint", !.idempotency_key = GivenKey],
   [Base EXCEPT !.args.given = {"to"}, !.idempotency_key = GivenKey],
   [Base EXCEPT !.rail = "unknown:x", !.idempotency_key = GivenKey]}
  \cup {[Base EXCEPT !.args = PayArgs(a, 1), !.idempotency_key = GivenKey] :
          a \in {NotObject, Amount(0, Cash), Amount(NotNumber, Cash), Amount(1, None)}}

MCRequests == Accepted \cup Keyed \cup Refused
MCVerbs == {"pay", "signal"}
MCRequiredArgs == [v \in MCVerbs |-> IF v = "pay" THEN {"to", "amount"} ELSE {"channel"}]
MCUnknownRails == {"unknown:x"}

\* Nothing tells one store from another.
StoreSymmetry == Permutations(Stores)
=============================================================================
