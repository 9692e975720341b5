--------------------------- MODULE SettlerProofs ---------------------------
(***************************************************************************)
(* What is proved of the Settler, for any requests, stores and number of   *)
(* calls: a key has one receipt, every receipt was earned, and derived     *)
(* keys tell requests apart.                                               *)
(***************************************************************************)
EXTENDS Settler, TLAPS

\* The call n issued the receipt x, for the store s.
Issued(n, s, x) ==
  /\ Faults(log[n].req) = {} /\ Hashable(log[n].req)
  /\ log[n].store = s /\ log[n].result = Success(x)
  /\ x = Receipt(log[n].req, log[n].ts)

\* What a store has was issued by a call recorded in the log.
StoreHasOrigin ==
  \A s \in Stores : \A x \in stores[s] : \E n \in DOMAIN log : Issued(n, s, x)

\* What was answered with a store is still in it.
AnswerIsKept ==
  \A n \in DOMAIN log : Succeeded(n) /\ log[n].store # None =>
    /\ log[n].result.receipt \in stores[log[n].store]
    /\ log[n].result.receipt.idempotency_key = KeyOf(log[n].req)

\* The inductive invariant.
SettlerInv == SettlerTypeOK /\ StoreHasOrigin /\ AnswerIsKept /\ ReceiptIsEarned

-----------------------------------------------------------------------------
(* The log only grows at its end *)

\* A call leaves the calls before it as they were.
LEMMA LogGrows ==
  ASSUME log \in Seq(Calls), NEW r \in Requests, NEW s \in Stores \cup {None},
         NEW ts \in Times \cup {None}, NEW result \in Results, Returns(r, s, ts, result)
  PROVE  /\ log' \in Seq(Calls) /\ DOMAIN log' = 1..(Len(log) + 1)
         /\ DOMAIN log = 1..Len(log) /\ Len(log) \in Nat
         /\ \A n \in DOMAIN log : log'[n] = log[n]
         /\ log'[Len(log) + 1] = [req |-> r, store |-> s, ts |-> ts, result |-> result]
<1> DEFINE c == [req |-> r, store |-> s, ts |-> ts, result |-> result]
<1>1. c \in Calls /\ log' = Append(log, c)
  BY DEF Calls, Returns
<1> QED
  BY <1>1

\* What calls issued they have issued for good.
LEMMA OriginStays ==
  ASSUME StoreHasOrigin, UNCHANGED stores, DOMAIN log \subseteq DOMAIN log',
         \A n \in DOMAIN log : log'[n] = log[n]
  PROVE  StoreHasOrigin'
<1> SUFFICES ASSUME NEW s \in Stores, NEW x \in stores[s]
             PROVE  \E n \in DOMAIN log' : Issued(n, s, x)'
  BY DEF StoreHasOrigin
<1>1. PICK n \in DOMAIN log : Issued(n, s, x)
  BY DEF StoreHasOrigin
<1>2. Issued(n, s, x)'
  BY <1>1 DEF Issued
<1> QED
  BY <1>2

\* Who was issued what before a call is not changed by what comes after it.
LEMMA IssuedStays ==
  ASSUME DOMAIN log = 1..Len(log), Len(log) \in Nat,
         \A n \in DOMAIN log : log'[n] = log[n], NEW n \in DOMAIN log, IssuedBefore(n)
  PROVE  IssuedBefore(n)'
<1>1. \A m \in 1..n : log'[m] = log[m]
  OBVIOUS
<1>2. log'[n] = log[n]
  OBVIOUS
<1> QED
  BY <1>1, <1>2 DEF IssuedBefore

\* The receipts that may be issued, and the answers with them, have their types.
LEMMA ReceiptType ==
  ASSUME NEW r \in Requests, NEW ts \in Times
  PROVE  Receipt(r, ts) \in Receipts
BY SMT DEF Receipts

\* A success with a receipt is one of the answers.
LEMMA ResultType == \A x \in Receipts : Success(x) \in Results
BY DEF Results

\* The key of a receipt is the key of its request.
LEMMA ReceiptKey == \A r, ts : Receipt(r, ts).idempotency_key = KeyOf(r)
BY DEF Receipt

-----------------------------------------------------------------------------
(* A call that issues no receipt *)

\* A call that is not answered with success, and leaves the stores alone,
\* preserves the invariant.
LEMMA FailureKeeps ==
  ASSUME SettlerInv, NEW r \in Requests, NEW s \in Stores \cup {None},
         NEW result \in Results, result.status # "SUCCESS",
         Returns(r, s, None, result), UNCHANGED stores
  PROVE  SettlerInv'
<1> USE DEF SettlerInv
<1>0. log \in Seq(Calls) /\ None \in Times \cup {None}
  BY DEF SettlerTypeOK
<1>1. /\ log' \in Seq(Calls) /\ DOMAIN log' = 1..(Len(log) + 1)
      /\ DOMAIN log = 1..Len(log) /\ Len(log) \in Nat
      /\ \A n \in DOMAIN log : log'[n] = log[n]
      /\ log'[Len(log) + 1] = [req |-> r, store |-> s, ts |-> None, result |-> result]
  BY <1>0, LogGrows
<1>2. \A n \in DOMAIN log' : Succeeded(n)' => n \in DOMAIN log /\ Succeeded(n)
  BY <1>1 DEF Succeeded
<1>3. SettlerTypeOK'
  BY <1>1 DEF SettlerTypeOK
<1>4. StoreHasOrigin'
  BY <1>1, OriginStays
<1>5. AnswerIsKept'
  BY <1>1, <1>2 DEF AnswerIsKept
<1>6. ReceiptIsEarned'
  <2>1. \A n \in DOMAIN log : IssuedBefore(n) => IssuedBefore(n)'
    BY <1>1, IssuedStays
  <2> QED
    BY <1>1, <1>2, <2>1 DEF ReceiptIsEarned
<1> QED
  BY <1>3, <1>4, <1>5, <1>6

-----------------------------------------------------------------------------
(* A call that is answered with a receipt *)

\* A repeated key is answered with a receipt that the store has, and whose call
\* is in the log.
LEMMA ReplayKeeps ==
  ASSUME SettlerInv, NEW r \in Requests, NEW s \in Stores \cup {None}, Replay(r, s)
  PROVE  SettlerInv'
<1> USE DEF SettlerInv
<1>1. PICK x \in Cached(s, r) : Returns(r, s, None, Success(x))
  BY DEF Replay
<1>2. s \in Stores /\ x \in stores[s] /\ x.idempotency_key = KeyOf(r) /\ s # None
  BY <1>1, SettlerAssumption DEF Cached
<1>3. x \in Receipts
  BY <1>2 DEF SettlerTypeOK
<1>4. Success(x) \in Results
  BY <1>3, ResultType
<1>5. /\ log' \in Seq(Calls) /\ DOMAIN log' = 1..(Len(log) + 1)
      /\ DOMAIN log = 1..Len(log) /\ Len(log) \in Nat
      /\ \A n \in DOMAIN log : log'[n] = log[n]
      /\ log'[Len(log) + 1] = [req |-> r, store |-> s, ts |-> None, result |-> Success(x)]
  BY <1>1, <1>4, LogGrows DEF SettlerTypeOK
<1>6. UNCHANGED stores
  BY DEF Replay
<1>7. SettlerTypeOK'
  BY <1>5, <1>6 DEF SettlerTypeOK
<1>8. StoreHasOrigin'
  BY <1>5, <1>6, OriginStays
<1>9. AnswerIsKept'
  BY <1>2, <1>5, <1>6 DEF AnswerIsKept, Succeeded, Success
<1>10. ReceiptIsEarned'
  <2>1. PICK m \in DOMAIN log : Issued(m, s, x)
    BY <1>2 DEF StoreHasOrigin
  <2>2. KeyOf(log[m].req) = KeyOf(r)
    BY <1>2, <2>1, ReceiptKey DEF Issued
  <2>3. Faults(r) = {}
    BY DEF Replay
  <2> SUFFICES ASSUME NEW n \in DOMAIN log', Succeeded(n)'
               PROVE  Faults(log'[n].req) = {} /\ IssuedBefore(n)'
    BY DEF ReceiptIsEarned
  <2>4. CASE n \in DOMAIN log
    BY <1>5, <2>4, IssuedStays DEF ReceiptIsEarned, Succeeded
  <2>5. CASE n = Len(log) + 1
    <3>1. /\ log'[n].result = Success(x) /\ log'[n].req = r /\ log'[n].store = s
      BY <1>5, <2>5
    <3>2. m \in 1..n /\ log'[m] = log[m]
      BY <1>5, <2>5
    <3>3. IssuedBefore(n)'
      BY <2>1, <2>2, <3>1, <3>2 DEF IssuedBefore, Issued, Hashable
    <3> QED
      BY <2>3, <3>1, <3>3
  <2> QED
    BY <1>5, <2>4, <2>5
<1> QED
  BY <1>7, <1>8, <1>9, <1>10

\* A new receipt is issued for a key that the store does not have.
LEMMA SettleKeeps ==
  ASSUME SettlerInv, NEW r \in Requests, NEW s \in Stores \cup {None},
         NEW ts \in Times, Settle(r, s, ts)
  PROVE  SettlerInv'
<1> USE DEF SettlerInv
<1> DEFINE x == Receipt(r, ts)
<1>1. x \in Receipts /\ Success(x) \in Results
  BY ReceiptType, ResultType
<1>2. Returns(r, s, ts, Success(x)) /\ Put(s, r, x) /\ Cached(s, r) = {}
      /\ Faults(r) = {} /\ Hashable(r)
  BY DEF Settle
<1>3. x.idempotency_key = KeyOf(r)
  BY ReceiptKey
<1> HIDE DEF x
<1>4. /\ log' \in Seq(Calls) /\ DOMAIN log' = 1..(Len(log) + 1)
      /\ DOMAIN log = 1..Len(log) /\ Len(log) \in Nat
      /\ \A n \in DOMAIN log : log'[n] = log[n]
      /\ log'[Len(log) + 1] = [req |-> r, store |-> s, ts |-> ts, result |-> Success(x)]
  BY <1>1, <1>2, LogGrows DEF SettlerTypeOK
<1>5. \A t \in Stores : stores'[t] = IF t = s THEN stores[t] \cup {x} ELSE stores[t]
  BY <1>2, SettlerAssumption DEF Put, SettlerTypeOK
<1>6. s # None => \A y \in stores[s] : y.idempotency_key # x.idempotency_key
  BY <1>2, <1>3 DEF Cached
<1>7. SettlerTypeOK'
  <2>1. stores' \in [Stores -> SUBSET Receipts]
    BY <1>1, <1>2, SettlerAssumption DEF Put, SettlerTypeOK, Cached
  <2>2. \A t \in Stores : \A y, z \in stores'[t] :
          y.idempotency_key = z.idempotency_key => y = z
    BY <1>5, <1>6, SettlerAssumption DEF SettlerTypeOK
  <2> QED
    BY <1>4, <2>1, <2>2 DEF SettlerTypeOK
<1>8. ASSUME NEW n, n = Len(log) + 1 PROVE Issued(n, s, x)'
  BY <1>2, <1>4, <1>8 DEF Issued, Hashable, x
<1>9. StoreHasOrigin'
  <2> SUFFICES ASSUME NEW t \in Stores, NEW y \in stores'[t]
               PROVE  \E n \in DOMAIN log' : Issued(n, t, y)'
    BY DEF StoreHasOrigin
  <2>1. CASE y \in stores[t]
    <3>1. PICK n \in DOMAIN log : Issued(n, t, y)
      BY <2>1 DEF StoreHasOrigin
    <3> QED
      BY <1>4, <3>1 DEF Issued
  <2>2. CASE y = x /\ t = s
    <3>1. PICK n \in DOMAIN log' : n = Len(log) + 1
      BY <1>4
    <3>2. Issued(n, s, x)'
      BY <1>8, <3>1
    <3> QED
      BY <2>2, <3>2
  <2> QED
    BY <1>5, <2>1, <2>2
<1>10. AnswerIsKept'
  <2> SUFFICES ASSUME NEW n \in DOMAIN log', Succeeded(n)', log'[n].store # None
               PROVE  /\ log'[n].result.receipt \in stores'[log'[n].store]
                      /\ log'[n].result.receipt.idempotency_key = KeyOf(log'[n].req)
    BY DEF AnswerIsKept
  <2>1. log'[n].store \in Stores
    <3>1. log'[n] \in Calls
      BY <1>4
    <3> QED
      BY <3>1 DEF Calls
  <2>2. CASE n \in DOMAIN log
    BY <1>4, <1>5, <2>1, <2>2 DEF AnswerIsKept, Succeeded
  <2>3. CASE n = Len(log) + 1
    <3>1. log'[n].result.receipt = x /\ log'[n].req = r /\ log'[n].store = s
      BY <1>4, <2>3 DEF Success
    <3> QED
      BY <1>3, <1>5, <2>1, <3>1
  <2> QED
    BY <1>4, <2>2, <2>3
<1>11. ReceiptIsEarned'
  <2> SUFFICES ASSUME NEW n \in DOMAIN log', Succeeded(n)'
               PROVE  Faults(log'[n].req) = {} /\ IssuedBefore(n)'
    BY DEF ReceiptIsEarned
  <2>1. CASE n \in DOMAIN log
    BY <1>4, <2>1, IssuedStays DEF ReceiptIsEarned, Succeeded
  <2>2. CASE n = Len(log) + 1
    <3>1. /\ log'[n].result = Success(x) /\ log'[n].req = r /\ log'[n].ts = ts
      BY <1>4, <2>2
    <3>2. n \in 1..n
      BY <1>4, <2>2
    <3>3. IssuedBefore(n)'
      BY <1>2, <3>1, <3>2 DEF IssuedBefore, Hashable, x
    <3> QED
      BY <1>2, <3>1, <3>3
  <2> QED
    BY <1>4, <2>1, <2>2
<1> QED
  BY <1>7, <1>9, <1>10, <1>11

-----------------------------------------------------------------------------
(* The theorems *)

\* The invariant holds at first, is kept by every call, and so always holds.
LEMMA Invariance == SettlerSpec => []SettlerInv
<1>1. SettlerInit => SettlerInv
  BY DEF SettlerInit, SettlerInv, SettlerTypeOK, StoreHasOrigin, AnswerIsKept,
         ReceiptIsEarned, Calls
<1>2. SettlerInv /\ [SettlerNext]_settlerVars => SettlerInv'
  <2> SUFFICES ASSUME SettlerInv, [SettlerNext]_settlerVars PROVE SettlerInv'
    OBVIOUS
  <2>1. ASSUME NEW r \in Requests, NEW s \in Stores \cup {None}, Reject(r, s)
        PROVE  SettlerInv'
    <3>1. PICK f \in Faults(r) : Returns(r, s, None, f)
      BY <2>1 DEF Reject
    <3>2. f \in Results
      BY <3>1 DEF Results, Failures
    <3>3. f.status # "SUCCESS"
      BY <3>1 DEF Faults, Failed
    <3> QED
      BY <2>1, <3>1, <3>2, <3>3, FailureKeeps DEF Reject
  <2>2. ASSUME NEW r \in Requests, NEW s \in Stores \cup {None}, Replay(r, s)
        PROVE  SettlerInv'
    BY <2>2, ReplayKeeps
  <2>3. ASSUME NEW r \in Requests, NEW s \in Stores \cup {None}, Throw(r, s)
        PROVE  SettlerInv'
    BY <2>3, FailureKeeps DEF Throw, Results, Thrown
  <2>4. ASSUME NEW r \in Requests, NEW s \in Stores \cup {None}, NEW ts \in Times,
               Settle(r, s, ts)
        PROVE  SettlerInv'
    BY <2>4, SettleKeeps
  <2>5. CASE UNCHANGED settlerVars
    <3>1. StoreHasOrigin'
      BY <2>5, OriginStays DEF settlerVars, SettlerInv
    <3> QED
      BY <2>5, <3>1 DEF settlerVars, SettlerInv, SettlerTypeOK, AnswerIsKept,
                        ReceiptIsEarned, IssuedBefore, Succeeded
  <2> QED
    BY <2>1, <2>2, <2>3, <2>4, <2>5 DEF SettlerNext
<1> QED
  BY <1>1, <1>2, PTL DEF SettlerSpec

\* The stores hold receipts, one for a key, and the log holds answered calls.
THEOREM SettlerTypeCorrect == SettlerSpec => []SettlerTypeOK
BY Invariance, PTL DEF SettlerInv

\* Two calls with one store and one key are never answered with two receipts.
THEOREM RetriesAreSafe == SettlerSpec => []OneReceiptPerKey
<1>1. SettlerInv => OneReceiptPerKey
  <2> SUFFICES ASSUME SettlerInv, NEW m \in DOMAIN log, NEW n \in DOMAIN log,
                      Succeeded(m), Succeeded(n), log[m].store = log[n].store,
                      log[m].store # None, KeyOf(log[m].req) = KeyOf(log[n].req)
               PROVE  log[m].result.receipt = log[n].result.receipt
    BY DEF OneReceiptPerKey
  <2>1. log[m].store \in Stores
    <3>1. log[m] \in Calls
      BY DEF SettlerInv, SettlerTypeOK
    <3> QED
      BY <3>1 DEF Calls
  <2> QED
    BY <2>1 DEF SettlerInv, SettlerTypeOK, AnswerIsKept
<1> QED
  BY <1>1, Invariance, PTL

\* Whatever is answered with a receipt passed every check, and so did the call
\* that the receipt was issued to.
THEOREM ReceiptsEarned == SettlerSpec => []ReceiptIsEarned
BY Invariance, PTL DEF SettlerInv

\* When neither call gives the key, the receipt is for what was asked for.
THEOREM DerivedKeysSound == SettlerSpec => []DerivedKeysTellApart
<1>1. SettlerInv => DerivedKeysTellApart
  <2> SUFFICES ASSUME SettlerInv, NEW n \in DOMAIN log, Succeeded(n),
                      \A m \in 1..n : KeyOf(log[m].req) = KeyOf(log[n].req)
                                        => log[m].req.idempotency_key = None
               PROVE  SameAction(log[n].req, log[n].result.receipt)
    BY DEF DerivedKeysTellApart
  <2>1. PICK m \in 1..n : /\ log[n].result.receipt = Receipt(log[m].req, log[m].ts)
                          /\ KeyOf(log[m].req) = KeyOf(log[n].req)
    <3>1. IssuedBefore(n)
      BY DEF SettlerInv, ReceiptIsEarned
    <3>2. \A x : Success(x).receipt = x
      BY DEF Success
    <3> QED
      BY <3>1, <3>2 DEF IssuedBefore
  <2>2. n \in 1..n
    BY DEF SettlerInv, SettlerTypeOK
  <2>3. DeriveIdempotencyKey(log[m].req) = DeriveIdempotencyKey(log[n].req)
    BY <2>1, <2>2 DEF KeyOf
  <2> QED
    BY <2>1, <2>3 DEF DeriveIdempotencyKey, Receipt, SameAction
<1> QED
  BY <1>1, Invariance, PTL
=============================================================================
