------------------------------ MODULE McpAudit ------------------------------
(***************************************************************************)
(* The offline verifier of audit bundles (verify.ts), read as operators on *)
(* the files of module McpProxy, and what the proxy and its bundle promise *)
(* together.                                                               *)
(***************************************************************************)
EXTENDS McpProxy

-----------------------------------------------------------------------------
(* verifyBundle *)

If(problem, condition) == IF condition THEN {problem} ELSE {}

\* The evidence files of a call, as the cids they hold.
Found(d, s) == {<<tim[d][s][i], i>> : i \in {j \in TimIndex : tim[d][s][j] # 0}}
\* The cids a decision cites: the TIMs of its own call.
Cited(d, s) == {<<decision[d][s], i>> :
                  i \in 0..TimCount[msg[decision[d][s]].load] - 1}

\* The receipt of a call against its decision and its evidence.
ReceiptErrors(d, s) ==
  LET D == decision[d][s]
      X == xr[d][s].tag
      tool == tim[d][s][0]
  IN If("receipt on a denied call", ~Approved(D))
     \cup If("decision_cid mismatch", X # D)
     \cup If("no tool TIM", tool = 0)
     \cup If("args_hash mismatch", tool # 0 /\ msg[X].load # msg[tool].load)

\* Every check on the files of one call number.  The replay is not listed: on
\* exactly the cited evidence the Kernel gives the recorded verdict again, and
\* on any other evidence a citation error is reported already.
VerifyCall(d, s) ==
  IF decision[d][s] = 0
  THEN If("missing decision", Found(d, s) # {} \/ xr[d][s].tag # 0)
  ELSE If("TIM not cited", ~(Found(d, s) \subseteq Cited(d, s)))
       \cup If("number of citations",
               Cardinality(Found(d, s)) # Cardinality(Cited(d, s)))
       \cup IF xr[d][s].tag = 0 THEN {} ELSE ReceiptErrors(d, s)

\* session.json must be there, with every commitment it declares.
VerifyHeader(d) ==
  If("no session.json", header[d] = "absent")
  \cup If("declared commitment missing", header[d] = "partial")

-----------------------------------------------------------------------------
(* Invariants *)

ClientTypes ==
  /\ msg \in Seq(Message) /\ Len(msg) <= MaxMsgs
  /\ base \in 0..Len(msg) /\ input \in {"open", "ended", "closed"}
PipeTypes ==
  /\ stdin \in Seq(Sent) /\ childIn \in Seq(Sent)
  /\ childOut \in Seq(ServerLine)
ServerTypes ==
  /\ childUp \in BOOLEAN /\ executed \subseteq Sent
  /\ working \subseteq {t \in Sent : HasId(t)}
  /\ served \in [Tags -> OptOutcomes] /\ pushes \in Nat
EngineTypes ==
  /\ up \in BOOLEAN /\ pending \in [Keys -> Pending] /\ seq \in Nat
  /\ dir \in 0..MaxRuns /\ runs \in 0..MaxRuns /\ crashes \in Nat
BundleTypes ==
  /\ header \in [Dirs -> {"absent", "partial", "complete"}]
  /\ tim \in [Dirs -> [Seqs -> [TimIndex -> OptTags]]]
  /\ decision \in [Dirs -> [Seqs -> OptTags]]
  /\ xr \in [Dirs -> [Seqs -> Receipt]]
ShownTypes == denied \subseteq Sent \X Ids /\ replied \subseteq OptTags

\* Every variable has its type; what is in the pipes was sent by the client.
TypeOK == /\ ClientTypes /\ PipeTypes /\ ServerTypes
          /\ EngineTypes /\ BundleTypes /\ ShownTypes

\* What the server was sent or may still read.
Reached == executed \cup {childIn[i] : i \in DOMAIN childIn}

\* Only an approved tools/call ever reaches the wrapped server, and never one
\* inside a batch (proxy.ts: "only an APPROVED decision lets the message
\* through"), over all crashes and restarts.
OnlyApprovedReach ==
  \A t \in Reached :
    /\ msg[t].kind \in {"call", "request", "opaque"}
    /\ IsCall(t) => Approved(t)

\* No call runs off the record: whatever reached the server has, in one of the
\* audit directories, its decision and exactly its evidence (the decision is
\* written before the line is forwarded, and no later run may lose it).
ReachedIsRecorded ==
  \A t \in Reached : IsCall(t) =>
    \E d \in Dirs, s \in Seqs :
      /\ decision[d][s] = t
      /\ Found(d, s) = Cited(d, s)

\* A receipt stands beside the decision it names, that decision approved the
\* call, and the outcome is the one the server gave to this very call.
ReceiptIsTrue ==
  \A d \in Dirs, s \in Seqs :
    LET r == xr[d][s] IN
    r.tag # 0 =>
      /\ decision[d][s] = r.tag /\ Approved(r.tag)
      /\ r.tag \in executed
      /\ r.outcome = served[r.tag]

\* A client that holds the server's answer to a tool call has a receipt of it
\* in the bundle: the receipt is written before the answer is relayed.
AnswerHasReceipt ==
  \A t \in replied : IsCall(t) =>
    \E d \in Dirs, s \in Seqs : xr[d][s].tag = t

\* Calls with an id that were forwarded in this run and whose reply the proxy
\* has not handled yet.
InFlight ==
  {t \in ThisRun :
     /\ IsCall(t) /\ HasId(t)
     /\ \/ t \in working
        \/ \E i \in DOMAIN childIn : childIn[i] = t
        \/ \E i \in DOMAIN childOut :
             childOut[i].kind = "response" /\ childOut[i].tag = t}

\* While the server lives, the pending map holds exactly the calls in flight,
\* each under its own key with the number its evidence was filed under: no
\* entry leaks, none is lost, none is overwritten.
PendingIsInFlight ==
  up /\ childUp =>
    /\ {pending[k].tag : k \in Keys} \ {0} = InFlight
    /\ \A t \in InFlight :
         LET p == pending[KeyOf[msg[t].id]] IN
         p.tag = t /\ decision[dir][p.seq] = t

\* The client never gets a denial and the server's answer for one request, and
\* a denied call never reached the server.
DenialIsFinal == \A d \in denied : d[1] \notin replied \cup Reached

\* What a crash can do to a bundle: at most its last call is torn, with evidence
\* and no decision, and the verifier says just that; a bundle with a torn header
\* holds no call.  The directory that is being written to verifies, header and
\* calls (verify.test.ts: "a freshly written bundle verifies clean").
DamageIsLocal ==
  \A d \in Dirs :
    /\ up /\ d = dir =>
         VerifyHeader(d) = {} /\ \A s \in Seqs : VerifyCall(d, s) = {}
    /\ \A s \in Seqs : VerifyCall(d, s) # {} =>
         /\ VerifyCall(d, s) = {"missing decision"}
         /\ \A later \in Seqs : later > s => Found(d, later) = {}
    /\ VerifyHeader(d) # {} => \A s \in Seqs : Found(d, s) = {}

\* When the proxy has ended, with no crash behind it, every tool call the server
\* answered has its receipt (README: "Receipts the outcome: what the server
\* actually returned").
ServedIsReceipted ==
  (~up /\ crashes = 0) =>
    \A t \in executed : IsCall(t) /\ served[t] # "none" =>
      \E d \in Dirs, s \in Seqs : xr[d][s].tag = t

-----------------------------------------------------------------------------
(* Action properties *)

\* The bundle only grows: an artifact once written is never replaced.
BundleAppendOnly ==
  [][\A d \in Dirs, s \in Seqs :
       /\ decision[d][s] # 0 => decision'[d][s] = decision[d][s]
       /\ xr[d][s] # NoReceipt => xr'[d][s] = xr[d][s]
       /\ \A i \in TimIndex :
            tim[d][s][i] # 0 => tim'[d][s][i] = tim[d][s][i]]_disk

-----------------------------------------------------------------------------
(* The life of each call, as module AuditGate promises it *)

Decided(t)   == \E d \in Dirs, s \in Seqs : decision[d][s] = t
Receipted(t) == \E d \in Dirs, s \in Seqs : xr[d][s].tag = t

StageOf(t) ==
  CASE Receipted(t)                -> "receipted"
    [] ~Receipted(t) /\ t \in executed /\ IsCall(t) -> "executed"
    [] Decided(t) /\ t \notin executed /\ ~Receipted(t) ->
         IF Approved(t) THEN "approved" ELSE "refused"
    [] OTHER                       -> "open"

Gate == INSTANCE AuditGate WITH
          Calls <- Tags, stage <- [t \in Tags |-> StageOf(t)]

\* Every tool call goes through decision, execution and receipt in this order,
\* each at most once, and a refused call goes nowhere.
GateRefined == Gate!GateSpec

-----------------------------------------------------------------------------
(* Liveness *)

\* With a server that answers, every request that stands on a line of its own is
\* answered, by the proxy if it is a denied call and by the server otherwise; so
\* is every tools/call of a batch.  Nothing is said of the other requests of a
\* denied batch: proxy.ts drops them without an answer.
RequestsAnswered ==
  \A t \in Tags, i \in Ids : (t \in Sent /\ msg[t].id = i) ~> AnswerGiven(t, i)
=============================================================================
