------------------------------ MODULE McpProxy ------------------------------
(***************************************************************************)
(* The policy-gated audit proxy of packages/mcp: an agent (the client)     *)
(* writes newline-delimited JSON-RPC on the proxy's stdin, the proxy       *)
(* forwards what its policy approves to the wrapped server (a child        *)
(* process), reads the server's replies and relays them to the client, and *)
(* on the way writes signed artifacts (evidence TIMs, the Kernel decision, *)
(* the execution receipt XR) into an audit bundle directory.               *)
(*                                                                         *)
(* The proxy is one JavaScript event loop: the handler of one line runs to *)
(* its end before the next begins, so a handler is one action.  A handler  *)
(* can still die halfway (a failed write throws, the process is killed):   *)
(* the Crash... actions perform a proper prefix of the handler's effects.  *)
(* The pipes are FIFO.  The server answers its requests in any order.      *)
(*                                                                         *)
(* A message is named by its tag, the position at which the client sent    *)
(* it; msg[t] says what it was.  The proxy never sees a tag: it knows a    *)
(* message by its JSON-RPC id only.  On disk tags stand for content ids    *)
(* (a signed artifact holds the call's time and arguments), 0 for no file. *)
(***************************************************************************)
EXTENDS Naturals, Sequences, FiniteSets

CONSTANTS
  Ids,        \* the JSON-RPC ids the client may put on the wire
  NoId,       \* the absence of an id (a notification)
  Keys,       \* the strings ids turn into
  KeyOf,      \* String(id): the key under which the proxy files an id
  Loads,      \* what a tools/call may ask for: a tool and its arguments
  Verdict,    \* the Kernel's verdict on each load (module ToolGate)
  TimCount,   \* how many evidence TIMs each load gives rise to
  MaxTims,    \* bound on TimCount
  Kinds,      \* the kinds of line the client sends in this instance
  ReuseOut,   \* is every run of the proxy given the same --out directory?
  ClientWaits,\* does the client close stdin only when all is answered?
  MaxMsgs,    \* bound: messages the client sends over all runs
  MaxRuns,    \* bound: times the proxy is started
  MaxCrashes, \* bound: crashes of the proxy or of the server
  MaxPushes   \* bound: requests or notifications the server sends unasked

Verdicts == {"APPROVED", "REJECTED", "INDETERMINATE"}
AllKinds == {"call",    \* a tools/call
             "batch",   \* a JSON array that holds a tools/call, and other
                        \* requests perhaps (other calls are answered alike)
             "request", \* any other method, with an id
             "opaque",  \* a line no reply is owed to: notification, not JSON
             "fatal"}   \* a line on which the handler throws: null, 1e999

ASSUME ProxyConstants ==
  /\ NoId \notin Ids
  /\ KeyOf \in [Ids -> Keys]
  /\ Verdict \in [Loads -> Verdicts]
  /\ MaxTims \in Nat \ {0}
  /\ TimCount \in [Loads -> 1..MaxTims]
  /\ Loads # {}
  /\ Kinds \subseteq AllKinds
  /\ ReuseOut \in BOOLEAN
  /\ ClientWaits \in BOOLEAN
  /\ MaxMsgs \in Nat /\ MaxRuns \in Nat /\ MaxCrashes \in Nat
  /\ MaxPushes \in Nat

Tags     == 1..MaxMsgs
OptTags  == 0..MaxMsgs
Dirs     == 1..MaxRuns       \* audit directories
Seqs     == 0..MaxMsgs - 1   \* the <seq> of calls/<seq>-<kind>.json
TimIndex == 0..MaxTims - 1   \* the <n> of <seq>-tim-<n>.json

\* "also": in a batch, the ids of the requests beside the call.
Message == [kind : AllKinds, id : Ids \cup {NoId}, load : Loads,
            also : SUBSET Ids]
Outcomes == {"success", "failed"}
OptOutcomes == Outcomes \cup {"none"}
Pending == [tag : OptTags, seq : Nat]
Receipt == [tag : OptTags, outcome : OptOutcomes]
ServerLine == [kind : {"response"}, tag : Tags, id : Ids, outcome : Outcomes]
              \cup [kind : {"push"}, tag : {0}, id : Ids \cup {NoId},
                    outcome : {"none"}]

NoCall == [tag |-> 0, seq |-> 0]
NoReceipt == [tag |-> 0, outcome |-> "none"]

VARIABLES
  msg,      \* every message the client ever sent, in order
  base,     \* how many of them were sent in earlier runs
  input,    \* the client's end of stdin: "open", "ended", "closed" (child too)
  stdin,    \* lines the proxy has not read yet
  childIn,  \* lines written to the server's stdin and not read yet
  childOut, \* lines the server wrote that the proxy has not read yet
  childUp,  \* is the server process alive?
  working,  \* messages the server has read and not answered yet
  executed, \* every message a server ever read
  served,   \* the outcome the server gave each message
  pushes,   \* unasked lines the server sent
  up,       \* is the proxy process alive?
  pending,  \* approved calls whose reply is awaited, by key
  seq,      \* BundleWriter.seq: the next call number of this run
  dir,      \* the audit directory of this run
  runs,     \* times the proxy was started
  crashes,  \* crashes so far
  header,   \* per directory: session.json and the commitments
  tim,      \* per directory, call number and index: the evidence TIM
  decision, \* per directory and call number: the decision
  xr,       \* per directory and call number: the execution receipt
  denied,   \* <<message, id>>: the denials the proxy gave the client
  replied   \* messages the client got the server's reply to

client == <<msg, base, input>>
server == <<childUp, working, executed, served, pushes>>
disk   == <<header, tim, decision, xr>>
shown  == <<denied, replied>>
life   == <<up, dir, runs, crashes>>
vars == <<client, stdin, childIn, childOut, server, life, pending, seq, disk,
          shown>>

IsCall(t) == msg[t].kind = "call"
Approved(t) == Verdict[msg[t].load] = "APPROVED"
HasId(t) == msg[t].id # NoId
\* The ids a line asks for an answer to.
Owed(t) == ({msg[t].id} \cup msg[t].also) \ {NoId}
\* The client holds an answer to id i of line t.
AnswerGiven(t, i) == <<t, i>> \in denied \/ (t \in replied /\ i = msg[t].id)
Sent == 1..Len(msg)
ThisRun == base + 1..Len(msg)

Init ==
  /\ msg = <<>> /\ base = 0 /\ input = "closed"
  /\ stdin = <<>> /\ childIn = <<>> /\ childOut = <<>>
  /\ childUp = FALSE /\ working = {} /\ executed = {} /\ pushes = 0
  /\ served = [t \in Tags |-> "none"]
  /\ up = FALSE /\ pending = [k \in Keys |-> NoCall] /\ seq = 0
  /\ dir = 0 /\ runs = 0 /\ crashes = 0
  /\ header = [d \in Dirs |-> "absent"]
  /\ tim = [d \in Dirs |-> [s \in Seqs |-> [i \in TimIndex |-> 0]]]
  /\ decision = [d \in Dirs |-> [s \in Seqs |-> 0]]
  /\ xr = [d \in Dirs |-> [s \in Seqs |-> NoReceipt]]
  /\ denied = {} /\ replied = {}
-----------------------------------------------------------------------------
(* The command line: start a run, write the bundle's header, spawn the server *)

\* Mutant: every run defaults to one and the same directory.
OutDirFixed == 1

\* --out, or by default a directory named after the starting time.
OutDir == IF ReuseOut THEN 1 ELSE runs + 1

\* A run begins: session.json and every compiled Commitment are written, the
\* engine is created with no pending call and the server is spawned.  (A server
\* orphaned by an earlier run is no longer followed.)
Start ==
  /\ ~up /\ runs < MaxRuns
  /\ dir' = OutDir /\ runs' = runs + 1
  /\ header' = [header EXCEPT ![OutDir] = "complete"]
  /\ up' = TRUE /\ pending' = [k \in Keys |-> NoCall] /\ seq' = 0
  /\ base' = Len(msg) /\ input' = "open"
  /\ stdin' = <<>> /\ childIn' = <<>> /\ childOut' = <<>>
  /\ childUp' = TRUE /\ working' = {}
  /\ UNCHANGED <<msg, executed, served, pushes, crashes, tim, decision, xr,
                 shown>>

\* The process dies between session.json and the last commitment.
CrashInStart ==
  /\ ~up /\ runs < MaxRuns /\ crashes < MaxCrashes
  /\ dir' = OutDir /\ runs' = runs + 1 /\ crashes' = crashes + 1
  /\ header' = [header EXCEPT ![OutDir] =
                  IF @ = "complete" THEN @ ELSE "partial"]
  /\ UNCHANGED <<client, stdin, childIn, childOut, server, up, pending, seq,
                 tim, decision, xr, shown>>

\* The proxy process is gone: whatever it had not read or written is lost.
ProxyGone ==
  /\ up' = FALSE /\ stdin' = <<>> /\ childOut' = <<>> /\ input' = "closed"
  /\ pending' = [k \in Keys |-> NoCall] /\ seq' = 0

\* The last lines written to the server may still have been in its memory.
PipeCut == \E n \in 0..Len(childIn) : childIn' = SubSeq(childIn, 1, n)

\* child.on("exit"): the proxy exits with its server, whatever is still unread.
ExitWithServer ==
  /\ up /\ ~childUp
  /\ ProxyGone
  /\ UNCHANGED <<msg, base, childIn, server, dir, runs, crashes, disk, shown>>

\* Killed between two lines.
Crash ==
  /\ up /\ crashes < MaxCrashes /\ crashes' = crashes + 1
  /\ ProxyGone /\ PipeCut
  /\ UNCHANGED <<msg, base, server, dir, runs, disk, shown>>

-----------------------------------------------------------------------------
(* The client *)

\* MCP: a request id must not have been used before in the same session.
FreshId(i) == \A t \in ThisRun : i \notin Owed(t)

\* Only a tools/call has a load that matters, only requests have ids.
Lines ==
  {m \in Message :
     /\ m.kind \in Kinds
     /\ m.kind = "request" => m.id # NoId
     /\ m.kind \in {"opaque", "fatal"} => m.id = NoId
     /\ m.kind # "call" => m.load = CHOOSE l \in Loads : TRUE
     /\ m.kind # "batch" => m.also = {}
     /\ m.id \notin m.also}

ClientSend ==
  /\ up /\ input = "open" /\ Len(msg) < MaxMsgs
  /\ \E m \in Lines :
       /\ \A i \in {m.id} \cup m.also : FreshId(i)
       /\ msg' = Append(msg, m)
  /\ stdin' = Append(stdin, Len(msg) + 1)
  /\ UNCHANGED <<base, input, childIn, childOut, server, life, pending, seq,
                 disk, shown>>

\* The client closes the proxy's stdin.
ClientClose ==
  /\ up /\ input = "open"
  /\ ClientWaits => \A t \in ThisRun : \A i \in Owed(t) : AnswerGiven(t, i)
  /\ input' = "ended"
  /\ UNCHANGED <<msg, base, stdin, childIn, childOut, server, life, pending,
                 seq, disk, shown>>

-----------------------------------------------------------------------------
(* handleClientMessage: one line from the client *)

\* child.stdin.write: nobody reads it once the server is dead.
Piped(t) == IF childUp THEN Append(childIn, t) ELSE childIn

\* The next line is t, and this handler takes it.
Takes(t) == up /\ stdin # <<>> /\ t = Head(stdin) /\ stdin' = Tail(stdin)

\* Not a tools/call: passed on unchanged.
ForwardRaw ==
  /\ \E t \in Tags :
       /\ Takes(t) /\ msg[t].kind \in {"request", "opaque"}
       /\ childIn' = Piped(t)
  /\ UNCHANGED <<client, childOut, server, life, pending, seq, disk, shown>>

\* The reply to a denied call, if the call has an id.
Denial(t) == IF HasId(t) THEN {<<t, msg[t].id>>} ELSE {}

\* Mutant: the denied batch is forwarded all the same.
DenyBatchAndForward ==
  /\ \E t \in Tags :
       /\ Takes(t) /\ msg[t].kind = "batch"
       /\ denied' = denied \cup Denial(t)
       /\ childIn' = Piped(t)
  /\ UNCHANGED <<client, childOut, server, life, pending, seq, disk, replied>>

\* A batch with a tools/call in it is dropped as a whole; only the calls that
\* have an id are answered, its other requests never are.
DenyBatch ==
  /\ \E t \in Tags :
       /\ Takes(t) /\ msg[t].kind = "batch"
       /\ denied' = denied \cup Denial(t)
  /\ UNCHANGED <<client, childIn, childOut, server, life, pending, seq, disk,
                 replied>>

\* Mutant: the last TIM is left out.
TimsOfButLast(t, k) ==
  [i \in TimIndex |-> IF i < k - 1 THEN t ELSE tim[dir][seq][i]]
\* The files a call leaves: the first k evidence TIMs, and the decision.
TimsOf(t, k) == [i \in TimIndex |-> IF i < k THEN t ELSE tim[dir][seq][i]]
\* Mutant: no decision is written.
RecordTimsOnly(t) ==
  /\ seq' = seq + 1
  /\ tim' = [tim EXCEPT ![dir][seq] = TimsOf(t, TimCount[msg[t].load])]
  /\ UNCHANGED decision
Record(t) ==
  /\ seq' = seq + 1
  /\ tim' = [tim EXCEPT ![dir][seq] = TimsOf(t, TimCount[msg[t].load])]
  /\ decision' = [decision EXCEPT ![dir][seq] = t]

\* Mutant: a denied call is answered and forwarded (no early return).
DenyCallAndForward ==
  /\ \E t \in Tags :
       /\ Takes(t) /\ IsCall(t) /\ ~Approved(t)
       /\ Record(t)
       /\ denied' = denied \cup Denial(t)
       /\ childIn' = Piped(t)
  /\ UNCHANGED <<client, childOut, server, life, pending, header, xr, replied>>
\* Mutant: denied calls are dropped without an answer.
DenyCallSilently ==
  /\ \E t \in Tags :
       /\ Takes(t) /\ IsCall(t) /\ ~Approved(t)
       /\ Record(t)
  /\ UNCHANGED <<client, childIn, childOut, server, life, pending, header, xr,
                 shown>>

\* Not positively approved: recorded, answered by the proxy, never forwarded.
DenyCall ==
  /\ \E t \in Tags :
       /\ Takes(t) /\ IsCall(t) /\ ~Approved(t)
       /\ Record(t)
       /\ denied' = denied \cup Denial(t)
  /\ UNCHANGED <<client, childIn, childOut, server, life, pending, header, xr,
                 replied>>

\* Mutant: a call is awaited only when no other is.
AwaitOne(t) ==
  pending' = IF HasId(t) /\ \A k \in Keys : pending[k] = NoCall
             THEN [pending EXCEPT ![KeyOf[msg[t].id]] =
                     [tag |-> t, seq |-> seq]]
             ELSE pending
\* Mutant: every receipt goes to the first call number.
AwaitFirst(t) ==
  pending' = IF HasId(t)
             THEN [pending EXCEPT ![KeyOf[msg[t].id]] = [tag |-> t, seq |-> 0]]
             ELSE pending

\* this.pending.set(String(id), ...): an entry under the same key is replaced.
Await(t) ==
  pending' = IF HasId(t)
             THEN [pending EXCEPT ![KeyOf[msg[t].id]] =
                     [tag |-> t, seq |-> seq]]
             ELSE pending

\* Mutant: forwarded whatever the decision.
ForwardAnyCall ==
  /\ \E t \in Tags :
       /\ Takes(t) /\ IsCall(t)
       /\ Record(t) /\ Await(t)
       /\ childIn' = Piped(t)
  /\ UNCHANGED <<client, childOut, server, life, header, xr, shown>>

\* Approved: recorded, awaited if it has an id, forwarded.
ForwardCall ==
  /\ \E t \in Tags :
       /\ Takes(t) /\ IsCall(t) /\ Approved(t)
       /\ Record(t) /\ Await(t)
       /\ childIn' = Piped(t)
  /\ UNCHANGED <<client, childOut, server, life, header, xr, shown>>

\* The handler dies after k TIMs, or with the decision written and nothing done
\* about it (k = TimCount + 1).
CrashInCall ==
  /\ crashes < MaxCrashes /\ crashes' = crashes + 1
  /\ \E t \in Tags, k \in 1..MaxTims + 1 :
       /\ up /\ stdin # <<>> /\ t = Head(stdin) /\ IsCall(t)
       /\ k <= TimCount[msg[t].load] + 1
       /\ tim' = [tim EXCEPT ![dir][seq] =
                    TimsOf(t, IF k > TimCount[msg[t].load] THEN k - 1 ELSE k)]
       /\ decision' = IF k = TimCount[msg[t].load] + 1
                      THEN [decision EXCEPT ![dir][seq] = t] ELSE decision
  /\ ProxyGone /\ PipeCut
  /\ UNCHANGED <<msg, base, server, dir, runs, header, xr, shown>>

\* A line that makes the handler throw before it wrote anything ends the
\* process: null has no method, a non-finite argument cannot be canonicalized.
Throw ==
  /\ \E t \in Tags : up /\ stdin # <<>> /\ t = Head(stdin) /\ msg[t].kind = "fatal"
  /\ ProxyGone /\ PipeCut
  /\ UNCHANGED <<msg, base, server, dir, runs, crashes, disk, shown>>

\* stdin has ended and every line of it was handled: the server's is closed.
EndOfInput ==
  /\ up /\ input = "ended" /\ stdin = <<>>
  /\ input' = "closed"
  /\ UNCHANGED <<msg, base, stdin, childIn, childOut, server, life, pending,
                 seq, disk, shown>>

-----------------------------------------------------------------------------
(* handleServerMessage: one line from the server *)

\* Mutant: any line with the id counts, a request of the server's too.
AnsweredById(r) == IF r.id # NoId THEN pending[KeyOf[r.id]] ELSE NoCall

\* The pending call a line is taken to answer: its id decides.
Answered(r) == IF r.kind = "response" THEN pending[KeyOf[r.id]] ELSE NoCall

\* What the client learns from a line.
Shown(r) == IF r.kind = "response" THEN replied \cup {r.tag} ELSE replied

\* A notification, a request of the server's own, or a reply to nothing that is
\* pending: passed on unchanged.
Relay ==
  /\ up /\ childOut # <<>>
  /\ Answered(Head(childOut)) = NoCall
  /\ replied' = Shown(Head(childOut))
  /\ childOut' = Tail(childOut)
  /\ UNCHANGED <<client, stdin, childIn, server, life, pending, seq, disk,
                 denied>>

\* Mutant: a failed call is receipted as a success.
WriteReceiptSuccess(r) ==
  xr' = [xr EXCEPT ![dir][Answered(r).seq] =
           [tag |-> Answered(r).tag, outcome |-> "success"]]
\* Mutant: the wrong field of the line becomes the receipt's status.
WriteReceiptKind(r) ==
  xr' = [xr EXCEPT ![dir][Answered(r).seq] =
           [tag |-> Answered(r).tag, outcome |-> r.kind]]

\* The receipt is filed under the pending call, with the outcome of the line.
WriteReceipt(r) ==
  xr' = [xr EXCEPT ![dir][Answered(r).seq] =
           [tag |-> Answered(r).tag, outcome |-> r.outcome]]

\* Mutant: the answered call stays pending.
ReceiptReplyKeeps ==
  /\ up /\ childOut # <<>>
  /\ LET r == Head(childOut) IN
       /\ Answered(r) # NoCall
       /\ WriteReceipt(r)
       /\ replied' = Shown(r)
  /\ childOut' = Tail(childOut)
  /\ UNCHANGED <<client, stdin, childIn, server, life, pending, seq, header,
                 tim, decision, denied>>

\* The reply to a pending call: receipt first, then the client.
ReceiptReply ==
  /\ up /\ childOut # <<>>
  /\ LET r == Head(childOut) IN
       /\ Answered(r) # NoCall
       /\ pending' = [pending EXCEPT ![KeyOf[r.id]] = NoCall]
       /\ WriteReceipt(r)
       /\ replied' = Shown(r)
  /\ childOut' = Tail(childOut)
  /\ UNCHANGED <<client, stdin, childIn, server, life, seq, header, tim,
                 decision, denied>>

\* The handler dies with the receipt written and the reply not relayed.
CrashInReply ==
  /\ up /\ childOut # <<>> /\ crashes < MaxCrashes /\ crashes' = crashes + 1
  /\ Answered(Head(childOut)) # NoCall
  /\ WriteReceipt(Head(childOut))
  /\ ProxyGone /\ PipeCut
  /\ UNCHANGED <<msg, base, server, dir, runs, header, tim, decision, shown>>

-----------------------------------------------------------------------------
(* The wrapped server *)

\* Reads a line; a request with an id is owed a reply.
ServerRead ==
  /\ childUp /\ childIn # <<>>
  /\ LET t == Head(childIn) IN
       /\ executed' = executed \cup {t}
       /\ working' = IF HasId(t) THEN working \cup {t} ELSE working
  /\ childIn' = Tail(childIn)
  /\ UNCHANGED <<client, stdin, childOut, childUp, served, pushes, life,
                 pending, seq, disk, shown>>

\* Answers any request it is working on, with the id the request carried.
ServerReply(t) ==
  /\ childUp /\ t \in working
  /\ working' = working \ {t}
  /\ \E o \in Outcomes :
       /\ served' = [served EXCEPT ![t] = o]
       /\ childOut' = IF up
                      THEN Append(childOut, [kind |-> "response", tag |-> t,
                                             id |-> msg[t].id, outcome |-> o])
                      ELSE childOut
  /\ UNCHANGED <<client, stdin, childIn, childUp, executed, pushes, life,
                 pending, seq, disk, shown>>

\* A notification, or a request with an id of the server's own choice.
ServerPush ==
  /\ childUp /\ up /\ pushes < MaxPushes /\ pushes' = pushes + 1
  /\ \E i \in Ids \cup {NoId} :
       childOut' = Append(childOut, [kind |-> "push", tag |-> 0, id |-> i,
                                     outcome |-> "none"])
  /\ UNCHANGED <<client, stdin, childIn, childUp, working, executed, served,
                 life, pending, seq, disk, shown>>

\* End of input, and everything answered: the server exits.
ServerExit ==
  /\ childUp /\ (input = "closed" \/ ~up)
  /\ childIn = <<>> /\ working = {}
  /\ childUp' = FALSE
  /\ UNCHANGED <<client, stdin, childIn, childOut, working, executed, served,
                 pushes, life, pending, seq, disk, shown>>

\* The server dies, or is sent the signal the proxy was sent.
ServerCrash ==
  /\ childUp /\ crashes < MaxCrashes /\ crashes' = crashes + 1
  /\ childUp' = FALSE /\ childIn' = <<>> /\ working' = {}
  /\ UNCHANGED <<client, stdin, childOut, executed, served, pushes, up, dir,
                 runs, pending, seq, disk, shown>>

-----------------------------------------------------------------------------
ProxyInput == ForwardRaw \/ DenyBatch \/ DenyCall \/ ForwardCall \/ EndOfInput
ProxyOutput == Relay \/ ReceiptReply
Server == \/ ServerRead \/ (\E t \in Tags : ServerReply(t)) \/ ServerPush
          \/ ServerExit \/ ServerCrash
Lifecycle == \/ Start \/ CrashInStart \/ ExitWithServer \/ Crash
             \/ CrashInCall \/ CrashInReply \/ Throw

Next == \/ ClientSend \/ ClientClose
        \/ ProxyInput \/ ProxyOutput \/ Server \/ Lifecycle

Spec == Init /\ [][Next]_vars

\* The event loop handles what has arrived on each pipe, and the server goes on
\* reading and answering.  Nothing makes the client send or close.
FairSpec ==
  /\ Spec
  /\ WF_vars(ProxyInput) /\ WF_vars(ProxyOutput)
  /\ WF_vars(ServerRead) /\ \A t \in Tags : WF_vars(ServerReply(t))
=============================================================================
