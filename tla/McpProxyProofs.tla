--------------------------- MODULE McpProxyProofs ---------------------------
(***************************************************************************)
(* What is proved of the audit proxy, for any ids, loads, verdicts and     *)
(* bounds: its state is well typed, only what the policy approved reaches  *)
(* the server and, when every run has a directory of its own, nothing      *)
(* reaches the server off the record.  Lines are handled in turn and a     *)
(* denial is final, and a request stays on its way until it is answered.   *)
(*                                                                         *)
(* The second half is about what it knows of its calls, in memory and on   *)
(* disk.  When every run has a directory of its own and String() tells the *)
(* ids of a run apart, the pending map is exact, receipts are true, every  *)
(* answer has its own, nothing on disk is replaced, a crash tears one call *)
(* only, and the whole implements the life of a tool call that AuditGate   *)
(* promises.                                                               *)
(***************************************************************************)
EXTENDS McpAudit, TLAPS

-----------------------------------------------------------------------------
(* Lines in pipes *)

\* Appending keeps a sequence within a set, and adds just the new element.
LEMMA AppendStays ==
  ASSUME NEW S, NEW q \in Seq(S), NEW e \in S
  PROVE  Append(q, e) \in Seq(S)
OBVIOUS

\* Reading the first line leaves a sequence of the same lines.
LEMMA TailStays ==
  ASSUME NEW S, NEW q \in Seq(S), q # <<>>
  PROVE  /\ Head(q) \in S /\ Tail(q) \in Seq(S)
         /\ Len(Tail(q)) = Len(q) - 1 /\ Len(q) \in Nat \ {0}
         /\ \A i \in 1..Len(Tail(q)) : Tail(q)[i] = q[i + 1]
OBVIOUS

\* An empty pipe holds nothing.
LEMMA EmptyStays ==
  ASSUME NEW S
  PROVE  <<>> \in Seq(S)
OBVIOUS

\* Lines sent earlier stay sent.
LEMMA SeqGrows ==
  ASSUME NEW S, NEW T, S \subseteq T, NEW q \in Seq(S)
  PROVE  q \in Seq(T)
OBVIOUS

-----------------------------------------------------------------------------
(* What each part of the state may be changed by *)

\* Only the client's own lines, and the ends of the runs, change what it has sent.
LEMMA ClientFrame ==
  ASSUME [Next]_vars
  PROVE  \/ UNCHANGED client
         \/ Start \/ ExitWithServer \/ Crash \/ ClientSend \/ ClientClose
         \/ CrashInCall \/ CrashInReply \/ Throw \/ EndOfInput
BY DEF Next, ProxyInput, ProxyOutput, Server, Lifecycle, vars, CrashInStart,
       ForwardRaw, DenyBatch, DenyCall, ForwardCall, Relay, ReceiptReply,
       ServerRead, ServerReply, ServerPush, ServerExit, ServerCrash

-----------------------------------------------------------------------------
(* Types *)

\* The client's part of the state keeps its types.
LEMMA ClientStep ==
  ASSUME TypeOK, [Next]_vars
  PROVE  ClientTypes'
<1> USE DEF TypeOK, ClientTypes, client
<1>1. CASE UNCHANGED client
  BY <1>1
<1>2. CASE Start
  BY <1>2 DEF Start
<1>3. CASE ExitWithServer \/ Crash \/ CrashInCall \/ CrashInReply \/ Throw
  BY <1>3 DEF ExitWithServer, Crash, CrashInCall, CrashInReply, Throw, ProxyGone
<1>4. CASE ClientSend
  <2>1. PICK m \in Message : msg' = Append(msg, m)
    BY <1>4 DEF ClientSend, Lines
  <2> QED
    BY <1>4, <2>1, ProxyConstants DEF ClientSend
<1>5. CASE ClientClose
  BY <1>5 DEF ClientClose
<1>6. CASE EndOfInput
  BY <1>6 DEF EndOfInput
<1> QED
  BY <1>1, <1>2, <1>3, <1>4, <1>5, <1>6, ClientFrame

\* A message once sent stays what it is, and counts as sent for good.
LEMMA SentStep ==
  ASSUME TypeOK, [Next]_vars
  PROVE  Sent \subseteq Sent' /\ \A t \in Sent : msg'[t] = msg[t]
<1> USE DEF TypeOK, ClientTypes, client, Sent
<1>1. CASE UNCHANGED msg
  BY <1>1
<1>2. CASE ClientSend
  <2>1. PICK m \in Message : msg' = Append(msg, m)
    BY <1>2 DEF ClientSend, Lines
  <2> QED
    BY <2>1
<1> QED
  BY <1>1, <1>2, ClientFrame
     DEF Start, ExitWithServer, Crash, CrashInCall, CrashInReply, Throw,
         ClientClose, EndOfInput

\* What a handler reads off its pipe is a line the client sent.
LEMMA TakesSent ==
  ASSUME TypeOK, NEW t \in Tags, Takes(t)
  PROVE  t \in Sent /\ stdin' \in Seq(Sent)
BY DEF Takes, TypeOK, PipeTypes

\* A pipe cut short holds lines that were in it.
LEMMA PipeCutTypes ==
  ASSUME TypeOK, PipeCut
  PROVE  childIn' \in Seq(Sent)
<1>1. PICK n \in 0..Len(childIn) : childIn' = SubSeq(childIn, 1, n)
  BY DEF PipeCut
<1> QED
  BY <1>1 DEF TypeOK, PipeTypes

\* The pipes hold sent lines and well-formed answers after every step.
LEMMA PipeStep ==
  ASSUME TypeOK, [Next]_vars
  PROVE  PipeTypes'
<1>1. /\ stdin \in Seq(Sent') /\ childIn \in Seq(Sent')
      /\ childOut \in Seq(ServerLine)
  BY SentStep, SeqGrows DEF TypeOK, PipeTypes
<1>2. stdin' \in Seq(Sent')
  <2>0. CASE stdin' = <<>>
    BY <2>0, EmptyStays
  <2>1. CASE UNCHANGED stdin
    BY <2>1, <1>1
  <2>2. CASE stdin # <<>> /\ stdin' = Tail(stdin)
    BY <2>2, <1>1
  <2>3. CASE ClientSend
    <3>1. Len(msg) + 1 \in Sent'
      BY <2>3 DEF ClientSend, Sent, Lines, TypeOK, ClientTypes
    <3> QED
      BY <3>1, <2>3, <1>1 DEF ClientSend
  <2> QED
    BY <2>0, <2>1, <2>2, <2>3
       DEF Next, ProxyInput, ProxyOutput, Server, Lifecycle, vars, Start,
           CrashInStart, ExitWithServer, Crash, ClientClose, ForwardRaw, Takes,
           DenyBatch, DenyCall, ForwardCall, CrashInCall, Throw, EndOfInput,
           Relay, ReceiptReply, CrashInReply, ServerRead, ServerReply,
           ServerPush, ServerExit, ServerCrash, ProxyGone
<1>3. childIn' \in Seq(Sent')
  <2>0. CASE childIn' = <<>>
    BY <2>0, EmptyStays
  <2>1. CASE UNCHANGED childIn
    BY <2>1, <1>1
  <2>2. CASE childIn # <<>> /\ childIn' = Tail(childIn)
    BY <2>2, <1>1
  <2>3. CASE PipeCut
    BY <2>3, PipeCutTypes, SentStep, SeqGrows
  <2>4. ASSUME NEW t \in Tags, Takes(t), childIn' = Piped(t)
        PROVE  childIn' \in Seq(Sent')
    BY <2>4, <1>1, TakesSent, SentStep DEF Piped
  <2> QED
    BY <2>0, <2>1, <2>2, <2>3, <2>4
       DEF Next, ProxyInput, ProxyOutput, Server, Lifecycle, vars, Start,
           CrashInStart, ExitWithServer, Crash, ClientSend, ClientClose,
           ForwardRaw, DenyBatch, DenyCall, ForwardCall, CrashInCall, Throw,
           EndOfInput, Relay, ReceiptReply, CrashInReply, ServerRead,
           ServerReply, ServerPush, ServerExit, ServerCrash
<1>4. childOut' \in Seq(ServerLine)
  <2>0. CASE childOut' = <<>>
    BY <2>0, EmptyStays
  <2>1. CASE UNCHANGED childOut
    BY <2>1, <1>1
  <2>2. CASE childOut # <<>> /\ childOut' = Tail(childOut)
    BY <2>2, <1>1
  <2>3. ASSUME NEW t \in Tags, ServerReply(t) PROVE childOut' \in Seq(ServerLine)
    <3>1. msg[t].id \in Ids
      <4>1. t \in 1..Len(msg) /\ msg[t].id # NoId
        BY <2>3 DEF ServerReply, TypeOK, ServerTypes, Sent, HasId
      <4>2. msg[t] \in Message
        BY <4>1 DEF TypeOK, ClientTypes
      <4> QED
        BY <4>1, <4>2 DEF Message
    <3>2. PICK o \in Outcomes :
            childOut' = IF up THEN Append(childOut,
                                [kind |-> "response", tag |-> t,
                                 id |-> msg[t].id, outcome |-> o])
                              ELSE childOut
      BY <2>3 DEF ServerReply
    <3>3. [kind |-> "response", tag |-> t, id |-> msg[t].id, outcome |-> o]
            \in ServerLine
      BY <3>1 DEF ServerLine
    <3> QED
      BY <1>1, <3>2, <3>3
  <2>4. CASE ServerPush
    <3>1. PICK i \in Ids \cup {NoId} :
            childOut' = Append(childOut, [kind |-> "push", tag |-> 0, id |-> i,
                                          outcome |-> "none"])
      BY <2>4 DEF ServerPush
    <3>2. [kind |-> "push", tag |-> 0, id |-> i, outcome |-> "none"]
            \in ServerLine
      BY DEF ServerLine
    <3> QED
      BY <1>1, <3>1, <3>2
  <2> QED
    BY <2>0, <2>1, <2>2, <2>3, <2>4
       DEF Next, ProxyInput, ProxyOutput, Server, Lifecycle, vars, Start,
           CrashInStart, ExitWithServer, Crash, ClientSend, ClientClose,
           ForwardRaw, DenyBatch, DenyCall, ForwardCall, CrashInCall, Throw,
           EndOfInput, Relay, ReceiptReply, CrashInReply, ServerRead,
           ServerExit, ServerCrash, ProxyGone
<1> QED
  BY <1>2, <1>3, <1>4 DEF PipeTypes

\* The server works on, and has read, only lines the client sent.
LEMMA ServerStep ==
  ASSUME TypeOK, [Next]_vars
  PROVE  ServerTypes'
<1>1. UNCHANGED served \/ \E t \in Tags : ServerReply(t)
  BY DEF Next, ProxyInput, ProxyOutput, Server, Lifecycle, vars, server, Start,
         CrashInStart, ExitWithServer, Crash, ClientSend, ClientClose,
         ForwardRaw, DenyBatch, DenyCall, ForwardCall, CrashInCall, Throw,
         EndOfInput, Relay, ReceiptReply, CrashInReply, ServerRead, ServerPush,
         ServerExit, ServerCrash
<1>2. served' \in [Tags -> OptOutcomes]
  BY <1>1 DEF TypeOK, ServerTypes, ServerReply, OptOutcomes
<1>3. \/ UNCHANGED <<childUp, working, executed, pushes>>
      \/ Start \/ ServerRead \/ (\E t \in Tags : ServerReply(t))
      \/ ServerPush \/ ServerExit \/ ServerCrash
  BY DEF Next, ProxyInput, ProxyOutput, Server, Lifecycle, vars, server,
         CrashInStart, ExitWithServer, Crash, ClientSend, ClientClose,
         ForwardRaw, DenyBatch, DenyCall, ForwardCall, CrashInCall, Throw,
         EndOfInput, Relay, ReceiptReply, CrashInReply
<1>4. /\ childUp' \in BOOLEAN /\ pushes' \in Nat /\ executed' \subseteq Sent'
      /\ working' \subseteq {t \in Sent' : msg'[t].id # NoId}
  <2>0. /\ childUp \in BOOLEAN /\ pushes \in Nat /\ executed \subseteq Sent'
        /\ working \subseteq {t \in Sent' : msg'[t].id # NoId}
    BY SentStep DEF TypeOK, ServerTypes, HasId
  <2>1. CASE UNCHANGED <<childUp, working, executed, pushes>>
    BY <2>0, <2>1
  <2>2. CASE Start
    BY <2>0, <2>2 DEF Start
  <2>3. CASE ServerRead
    <3>1. Head(childIn) \in Sent' /\ msg'[Head(childIn)] = msg[Head(childIn)]
      BY <2>3, TailStays, SentStep DEF ServerRead, TypeOK, PipeTypes
    <3> QED
      BY <2>0, <2>3, <3>1 DEF ServerRead, HasId
  <2>4. CASE \E t \in Tags : ServerReply(t)
    BY <2>0, <2>4 DEF ServerReply
  <2>5. CASE ServerPush
    BY <2>0, <2>5 DEF ServerPush
  <2>6. CASE ServerExit \/ ServerCrash
    BY <2>0, <2>6 DEF ServerExit, ServerCrash
  <2> QED
    BY <1>3, <2>1, <2>2, <2>3, <2>4, <2>5, <2>6
<1> QED
  BY <1>2, <1>4 DEF ServerTypes, HasId

\* The pending call a line answers, if any, is one of the pending calls.
LEMMA AnsweredType ==
  ASSUME TypeOK, NEW r \in ServerLine
  PROVE  Answered(r) # NoCall =>
           /\ Answered(r) \in Pending /\ r.outcome \in Outcomes
           /\ r.tag \in Tags /\ KeyOf[r.id] \in Keys
<1>1. CASE r.kind = "response"
  <2>1. r \in [kind : {"response"}, tag : Tags, id : Ids, outcome : Outcomes]
    BY <1>1 DEF ServerLine
  <2> QED
    BY <1>1, <2>1, ProxyConstants DEF Answered, TypeOK, EngineTypes
<1> QED
  BY <1>1 DEF Answered

\* The pending map, the call number and the life of the process keep their types.
LEMMA EngineStep ==
  ASSUME TypeOK, [Next]_vars
  PROVE  EngineTypes'
<1> USE DEF TypeOK, EngineTypes
<1>1. NoCall \in Pending
  BY ProxyConstants DEF NoCall, Pending, OptTags
<1>2. /\ up' \in BOOLEAN /\ dir' \in 0..MaxRuns /\ runs' \in 0..MaxRuns
      /\ crashes' \in Nat
  <2>1. \/ UNCHANGED life
        \/ Start \/ CrashInStart \/ ExitWithServer \/ Crash \/ CrashInCall
        \/ Throw \/ CrashInReply \/ ServerCrash
    BY DEF Next, ProxyInput, ProxyOutput, Server, Lifecycle, vars, life,
           ClientSend, ClientClose, ForwardRaw, DenyBatch, DenyCall,
           ForwardCall, EndOfInput, Relay, ReceiptReply, ServerRead,
           ServerReply, ServerPush, ServerExit
  <2>2. CASE UNCHANGED life
    BY <2>2 DEF life
  <2>3. CASE Start \/ CrashInStart
    <3>1. /\ runs < MaxRuns /\ runs' = runs + 1 /\ dir' = OutDir
          /\ crashes' = crashes \/ crashes' = crashes + 1
      BY <2>3 DEF Start, CrashInStart
    <3>2. up' \in BOOLEAN
      BY <2>3 DEF Start, CrashInStart
    <3> QED
      BY <3>1, <3>2, ProxyConstants DEF OutDir
  <2>4. CASE ExitWithServer \/ Crash \/ CrashInCall \/ Throw \/ CrashInReply
    <3>1. /\ up' \in BOOLEAN /\ dir' = dir /\ runs' = runs
          /\ crashes' = crashes \/ crashes' = crashes + 1
      BY <2>4 DEF ExitWithServer, Crash, CrashInCall, Throw, CrashInReply, ProxyGone
    <3> QED
      BY <3>1
  <2>5. CASE ServerCrash
    BY <2>5 DEF ServerCrash
  <2> QED
    BY <2>1, <2>2, <2>3, <2>4, <2>5
<1>3. seq' \in Nat
  <2>1. UNCHANGED seq \/ seq' = 0 \/ seq' = seq + 1
    BY DEF Next, ProxyInput, ProxyOutput, Server, Lifecycle, vars, Start,
           CrashInStart, ExitWithServer, Crash, ClientSend, ClientClose,
           ForwardRaw, DenyBatch, DenyCall, ForwardCall, CrashInCall, Throw,
           EndOfInput, Relay, ReceiptReply, CrashInReply, ServerRead,
           ServerReply, ServerPush, ServerExit, ServerCrash, ProxyGone, Record
  <2> QED
    BY <2>1
<1>4. pending' \in [Keys -> Pending]
  <2>1. \/ UNCHANGED pending
        \/ pending' = [k \in Keys |-> NoCall]
        \/ ForwardCall \/ ReceiptReply
    BY DEF Next, ProxyInput, ProxyOutput, Server, Lifecycle, vars, Start,
           CrashInStart, ExitWithServer, Crash, ClientSend, ClientClose,
           ForwardRaw, DenyBatch, DenyCall, CrashInCall, Throw,
           EndOfInput, Relay, CrashInReply, ServerRead,
           ServerReply, ServerPush, ServerExit, ServerCrash, ProxyGone
  <2>2. CASE ForwardCall
    <3>1. PICK t \in Tags : Await(t)
      BY <2>2 DEF ForwardCall
    <3>2. [tag |-> t, seq |-> seq] \in Pending
      BY DEF Pending, Tags, OptTags
    <3> QED
      BY <3>1, <3>2 DEF Await
  <2>3. CASE ReceiptReply
    BY <2>3, <1>1 DEF ReceiptReply
  <2>4. CASE pending' = [k \in Keys |-> NoCall]
    BY <2>4, <1>1
  <2> QED
    BY <2>1, <2>2, <2>3, <2>4
<1> QED
  BY <1>2, <1>3, <1>4

\* Writing one call's file, wherever it goes, keeps a directory tree's type.
LEMMA WriteType ==
  ASSUME NEW T, NEW f \in [Dirs -> [Seqs -> T]], NEW d, NEW n, NEW v,
         d \in Dirs /\ n \in Seqs => v \in T
  PROVE  [f EXCEPT ![d][n] = v] \in [Dirs -> [Seqs -> T]]
<1>1. ASSUME d \in Dirs PROVE [f[d] EXCEPT ![n] = v] \in [Seqs -> T]
  BY <1>1
<1> QED
  BY <1>1

\* A call's evidence files are files.
LEMMA TimsOfType ==
  ASSUME TypeOK, NEW t \in Tags, NEW k, dir \in Dirs, seq \in Seqs
  PROVE  TimsOf(t, k) \in [TimIndex -> OptTags]
BY DEF TimsOf, TypeOK, BundleTypes, Tags, OptTags

\* The bundle's directories keep their shape, whatever is written or torn.
LEMMA BundleStep ==
  ASSUME TypeOK, [Next]_vars
  PROVE  BundleTypes'
<1> DEFINE Tims == [TimIndex -> OptTags]
<1>0. /\ header \in [Dirs -> {"absent", "partial", "complete"}]
      /\ tim \in [Dirs -> [Seqs -> Tims]]
      /\ decision \in [Dirs -> [Seqs -> OptTags]]
      /\ xr \in [Dirs -> [Seqs -> Receipt]]
  BY DEF TypeOK, BundleTypes
<1>t. ASSUME NEW t \in Tags, NEW k
      PROVE  [tim EXCEPT ![dir][seq] = TimsOf(t, k)] \in [Dirs -> [Seqs -> Tims]]
  <2>1. dir \in Dirs /\ seq \in Seqs => TimsOf(t, k) \in Tims
    BY TimsOfType
  <2> QED
    BY <1>0, <2>1, WriteType
<1>d. ASSUME NEW t \in Tags
      PROVE  [decision EXCEPT ![dir][seq] = t] \in [Dirs -> [Seqs -> OptTags]]
  <2>1. t \in OptTags
    BY DEF Tags, OptTags
  <2> QED
    BY <1>0, <2>1, WriteType
<1>x. ASSUME childOut # <<>>, Answered(Head(childOut)) # NoCall,
             WriteReceipt(Head(childOut))
      PROVE  xr' \in [Dirs -> [Seqs -> Receipt]]
  <2>1. Head(childOut) \in ServerLine
    BY <1>x, TailStays DEF TypeOK, PipeTypes
  <2>2. [tag |-> Answered(Head(childOut)).tag,
         outcome |-> Head(childOut).outcome] \in Receipt
    BY <1>x, <2>1, AnsweredType DEF Pending, Receipt, OptOutcomes
  <2> QED
    BY <1>0, <1>x, <2>2, WriteType DEF WriteReceipt
<1>1. header' \in [Dirs -> {"absent", "partial", "complete"}]
  <2>1. UNCHANGED header \/ Start \/ CrashInStart
    BY DEF Next, ProxyInput, ProxyOutput, Server, Lifecycle, vars, disk,
           ExitWithServer, Crash, ClientSend, ClientClose,
           ForwardRaw, DenyBatch, DenyCall, ForwardCall, CrashInCall, Throw,
           EndOfInput, Relay, ReceiptReply, CrashInReply, ServerRead,
           ServerReply, ServerPush, ServerExit, ServerCrash
  <2> QED
    BY <1>0, <2>1 DEF Start, CrashInStart
<1>2. tim' \in [Dirs -> [Seqs -> Tims]]
  <2>1. UNCHANGED tim \/ DenyCall \/ ForwardCall \/ CrashInCall
    BY DEF Next, ProxyInput, ProxyOutput, Server, Lifecycle, vars, disk,
           Start, CrashInStart, ExitWithServer, Crash, ClientSend, ClientClose,
           ForwardRaw, DenyBatch, Throw, EndOfInput, Relay, ReceiptReply,
           CrashInReply, ServerRead, ServerReply, ServerPush, ServerExit,
           ServerCrash
  <2>2. CASE DenyCall \/ ForwardCall
    <3>1. PICK t \in Tags : Record(t)
      BY <2>2 DEF DenyCall, ForwardCall
    <3> QED
      BY <3>1, <1>t DEF Record
  <2>3. CASE CrashInCall
    <3>1. PICK t \in Tags, k \in 1..MaxTims + 1 :
            tim' = [tim EXCEPT ![dir][seq] =
                      TimsOf(t, IF k > TimCount[msg[t].load] THEN k - 1 ELSE k)]
      BY <2>3 DEF CrashInCall
    <3> QED
      BY <3>1, <1>t
  <2> QED
    BY <1>0, <2>1, <2>2, <2>3
<1>3. decision' \in [Dirs -> [Seqs -> OptTags]]
  <2>1. UNCHANGED decision \/ DenyCall \/ ForwardCall \/ CrashInCall
    BY DEF Next, ProxyInput, ProxyOutput, Server, Lifecycle, vars, disk,
           Start, CrashInStart, ExitWithServer, Crash, ClientSend, ClientClose,
           ForwardRaw, DenyBatch, Throw, EndOfInput, Relay, ReceiptReply,
           CrashInReply, ServerRead, ServerReply, ServerPush, ServerExit,
           ServerCrash
  <2>2. UNCHANGED decision
        \/ \E t \in Tags : decision' = [decision EXCEPT ![dir][seq] = t]
    BY <2>1 DEF DenyCall, ForwardCall, CrashInCall, Record
  <2> QED
    BY <1>0, <1>d, <2>2
<1>4. xr' \in [Dirs -> [Seqs -> Receipt]]
  <2>1. UNCHANGED xr \/ ReceiptReply \/ CrashInReply
    BY DEF Next, ProxyInput, ProxyOutput, Server, Lifecycle, vars, disk,
           Start, CrashInStart, ExitWithServer, Crash, ClientSend, ClientClose,
           ForwardRaw, DenyBatch, DenyCall, ForwardCall, CrashInCall, Throw,
           EndOfInput, Relay, ServerRead, ServerReply, ServerPush, ServerExit,
           ServerCrash, Record
  <2> QED
    BY <1>0, <1>x, <2>1 DEF ReceiptReply, CrashInReply
<1> QED
  BY <1>1, <1>2, <1>3, <1>4 DEF BundleTypes

\* What the client is told is about messages.
LEMMA ShownStep ==
  ASSUME TypeOK, [Next]_vars
  PROVE  ShownTypes'
<1>0. denied \subseteq Sent' \X Ids /\ replied \subseteq OptTags
  BY SentStep DEF TypeOK, ShownTypes
<1>1. denied' \subseteq Sent' \X Ids
  <2>1. \/ UNCHANGED denied
        \/ \E t \in Tags : Takes(t) /\ denied' = denied \cup Denial(t)
    BY DEF Next, ProxyInput, ProxyOutput, Server, Lifecycle, vars, shown,
           Start, CrashInStart, ExitWithServer, Crash, ClientSend, ClientClose,
           ForwardRaw, DenyBatch, DenyCall, ForwardCall, CrashInCall, Throw,
           EndOfInput, Relay, ReceiptReply, CrashInReply, ServerRead,
           ServerReply, ServerPush, ServerExit, ServerCrash
  <2>2. ASSUME NEW t \in Tags, Takes(t) PROVE Denial(t) \subseteq Sent' \X Ids
    <3>1. t \in Sent /\ t \in Sent'
      BY <2>2, TakesSent, SentStep
    <3>2. msg[t] \in Message
      BY <3>1 DEF TypeOK, ClientTypes, Sent
    <3> QED
      BY <3>1, <3>2 DEF Denial, HasId, Message
  <2> QED
    BY <1>0, <2>1, <2>2
<1>2. replied' \subseteq OptTags
  <2>1. UNCHANGED replied \/ Relay \/ ReceiptReply
    BY DEF Next, ProxyInput, ProxyOutput, Server, Lifecycle, vars, shown,
           Start, CrashInStart, ExitWithServer, Crash, ClientSend, ClientClose,
           ForwardRaw, DenyBatch, DenyCall, ForwardCall, CrashInCall, Throw,
           EndOfInput, CrashInReply, ServerRead, ServerReply, ServerPush,
           ServerExit, ServerCrash
  <2>2. ASSUME childOut # <<>> PROVE Head(childOut).tag \in OptTags
    <3>1. Head(childOut) \in ServerLine
      BY <2>2, TailStays DEF TypeOK, PipeTypes
    <3> QED
      BY <3>1, ProxyConstants DEF ServerLine, Tags, OptTags
  <2> QED
    BY <1>0, <2>1, <2>2 DEF Shown, Relay, ReceiptReply
<1> QED
  BY <1>1, <1>2 DEF ShownTypes

\* Nothing has been sent, written or started at first.
LEMMA TypeInit ==
  ASSUME Init
  PROVE  TypeOK
<1> USE ProxyConstants DEF Init
<1>1. ClientTypes
  BY EmptyStays DEF ClientTypes
<1>2. PipeTypes
  BY EmptyStays DEF PipeTypes
<1>3. ServerTypes
  BY DEF ServerTypes, OptOutcomes
<1>4. EngineTypes
  <2>1. NoCall \in Pending
    BY DEF Pending, NoCall, OptTags
  <2>2. up \in BOOLEAN
    OBVIOUS
  <2> QED
    BY <2>1, <2>2 DEF EngineTypes
<1>5. BundleTypes
  BY DEF BundleTypes, Receipt, NoReceipt, OptTags, OptOutcomes
<1>6. ShownTypes
  BY DEF ShownTypes
<1> QED
  BY <1>1, <1>2, <1>3, <1>4, <1>5, <1>6 DEF TypeOK

\* Every action keeps every variable in its type.
LEMMA TypeStep ==
  ASSUME TypeOK, [Next]_vars
  PROVE  TypeOK'
BY ClientStep, PipeStep, ServerStep, EngineStep, BundleStep, ShownStep DEF TypeOK

\* The proxy's state is well typed: in particular the handlers file artifacts
\* under numbers and pending calls under keys that exist, and every line in a
\* pipe is one the client sent (proxy.ts, audit.ts, cli.ts).
THEOREM TypeCorrect == Spec => []TypeOK
<1>1. Init => TypeOK
  BY TypeInit
<1>2. TypeOK /\ [Next]_vars => TypeOK'
  BY TypeStep
<1> QED
  BY <1>1, <1>2, PTL DEF Spec

-----------------------------------------------------------------------------
(* Only what the policy approves reaches the server *)

\* A line comes within the server's reach only by one of the two handlers that
\* forward it.
LEMMA ReachStep ==
  ASSUME TypeOK, [Next]_vars, NEW t \in Reached'
  PROVE  \/ t \in Reached
         \/ t \in Tags /\ Takes(t) /\ ForwardRaw
              /\ msg[t].kind \in {"request", "opaque"}
         \/ t \in Tags /\ Takes(t) /\ IsCall(t) /\ Approved(t)
              /\ ForwardCall /\ Record(t)
<1> DEFINE In(q) == {q[i] : i \in DOMAIN q}
           New == \/ t \in Tags /\ Takes(t) /\ ForwardRaw
                       /\ msg[t].kind \in {"request", "opaque"}
                  \/ t \in Tags /\ Takes(t) /\ IsCall(t) /\ Approved(t)
                       /\ ForwardCall /\ Record(t)
<1>0. childIn \in Seq(Sent)
  BY DEF TypeOK, PipeTypes
<1>1. ASSUME t \in executed' PROVE t \in Reached
  <2>1. UNCHANGED executed \/ ServerRead
    BY DEF Next, ProxyInput, ProxyOutput, Server, Lifecycle, vars, server,
           Start, CrashInStart, ExitWithServer, Crash, ClientSend, ClientClose,
           ForwardRaw, DenyBatch, DenyCall, ForwardCall, CrashInCall, Throw,
           EndOfInput, Relay, ReceiptReply, CrashInReply, ServerReply,
           ServerPush, ServerExit, ServerCrash
  <2>2. childIn # <<>> => Head(childIn) \in In(childIn)
    BY <1>0
  <2> QED
    BY <1>1, <2>1, <2>2 DEF Reached, ServerRead
<1>2. ASSUME t \in In(childIn') PROVE t \in In(childIn) \/ New
  <2>1. \/ UNCHANGED childIn \/ childIn' = <<>>
        \/ childIn # <<>> /\ childIn' = Tail(childIn)
        \/ PipeCut
        \/ ForwardRaw \/ ForwardCall
    BY DEF Next, ProxyInput, ProxyOutput, Server, Lifecycle, vars,
           Start, CrashInStart, ExitWithServer, Crash, ClientSend, ClientClose,
           DenyBatch, DenyCall, CrashInCall, Throw, EndOfInput, Relay,
           ReceiptReply, CrashInReply, ServerRead, ServerReply, ServerPush,
           ServerExit, ServerCrash
  <2>2. CASE UNCHANGED childIn
    BY <1>2, <2>2
  <2>3. CASE childIn' = <<>>
    BY <1>2, <2>3
  <2>4. CASE childIn # <<>> /\ childIn' = Tail(childIn)
    BY <1>0, <1>2, <2>4
  <2>5. CASE PipeCut
    BY <1>0, <1>2, <2>5 DEF PipeCut
  <2>6. ASSUME NEW u \in Tags, childIn' = Piped(u)
        PROVE  t \in In(childIn) \/ t = u
    BY <1>0, <1>2, <2>6 DEF Piped
  <2>7. CASE ForwardRaw
    BY <2>6, <2>7 DEF ForwardRaw
  <2>8. CASE ForwardCall
    BY <2>6, <2>8 DEF ForwardCall
  <2> QED
    BY <2>1, <2>2, <2>3, <2>4, <2>5, <2>7, <2>8
<1> QED
  BY <1>1, <1>2 DEF Reached

\* What is within the server's reach was sent by the client.
LEMMA ReachedSent ==
  ASSUME TypeOK
  PROVE  Reached \subseteq Sent
BY DEF Reached, TypeOK, PipeTypes, ServerTypes

\* Over all crashes and restarts, whatever the ids and verdicts, no line reaches
\* the wrapped server but an approved tools/call or a line that is none and
\* holds none (proxy.ts: "only an APPROVED decision lets the message through").
THEOREM ApprovedOnly == Spec => []OnlyApprovedReach
<1>1. Init => OnlyApprovedReach
  BY DEF Init, OnlyApprovedReach, Reached
<1>2. TypeOK /\ OnlyApprovedReach /\ [Next]_vars => OnlyApprovedReach'
  <2> SUFFICES ASSUME TypeOK, OnlyApprovedReach, [Next]_vars, NEW t \in Reached'
               PROVE  /\ (msg[t].kind)' \in {"call", "request", "opaque"}
                      /\ IsCall(t)' => Approved(t)'
    BY DEF OnlyApprovedReach
  <2>1. /\ msg[t].kind \in {"call", "request", "opaque"}
        /\ IsCall(t) => Approved(t)
    BY ReachStep DEF OnlyApprovedReach, IsCall
  <2>2. t \in Sent
    BY ReachStep, ReachedSent, TakesSent
  <2> QED
    BY <2>1, <2>2, SentStep DEF IsCall, Approved
<1> QED
  BY <1>1, <1>2, TypeCorrect, PTL DEF Spec

-----------------------------------------------------------------------------
(* No call runs off the record, when every run has a directory of its own *)

\* No decision and no evidence under this number.
Blank(d, s) == decision[d][s] = 0 /\ \A i \in TimIndex : tim[d][s][i] = 0

\* The numbers not given out yet, and the directories not used yet, are blank,
\* and there are numbers enough for the lines still to be read.
Fresh ==
  /\ \A d \in Dirs, s \in Seqs : d > runs => Blank(d, s)
  /\ up => /\ dir = runs /\ dir \in Dirs
           /\ seq + Len(stdin) <= Len(msg)
           /\ \A s \in Seqs : s >= seq => Blank(dir, s)

\* A call's files go where they are written, and nowhere else.
LEMMA WriteElsewhere ==
  ASSUME NEW T, NEW f \in [Dirs -> [Seqs -> T]], NEW a, NEW b, NEW v,
         NEW d \in Dirs, NEW s \in Seqs
  PROVE  /\ d = a /\ s = b => [f EXCEPT ![a][b] = v][d][s] = v
         /\ ~(d = a /\ s = b) => [f EXCEPT ![a][b] = v][d][s] = f[d][s]
<1>1. [f EXCEPT ![a][b] = v][d] = IF d = a THEN [f[d] EXCEPT ![b] = v] ELSE f[d]
  OBVIOUS
<1>2. f[d] \in [Seqs -> T]
  OBVIOUS
<1> QED
  BY <1>1, <1>2

\* The only files a step may write are those of the call number in turn.
LEMMA OnlyInTurn ==
  ASSUME TypeOK, [Next]_vars, NEW d \in Dirs, NEW s \in Seqs
  PROVE  \/ decision'[d][s] = decision[d][s] /\ tim'[d][s] = tim[d][s]
         \/ up /\ d = dir /\ s = seq
<1> DEFINE T == [TimIndex -> OptTags]
<1>0. tim \in [Dirs -> [Seqs -> T]] /\ decision \in [Dirs -> [Seqs -> OptTags]]
  BY DEF TypeOK, BundleTypes
<1>1. \/ UNCHANGED <<decision, tim>>
      \/ DenyCall \/ ForwardCall \/ CrashInCall
  BY DEF Next, ProxyInput, ProxyOutput, Server, Lifecycle, vars, disk,
         Start, CrashInStart, ExitWithServer, Crash, ClientSend, ClientClose,
         ForwardRaw, DenyBatch, Throw, EndOfInput, Relay, ReceiptReply,
         CrashInReply, ServerRead, ServerReply, ServerPush, ServerExit,
         ServerCrash
<1>2. CASE UNCHANGED <<decision, tim>>
  BY <1>2
<1>3. ASSUME up,
             \/ UNCHANGED decision
             \/ \E v : decision' = [decision EXCEPT ![dir][seq] = v],
             \E w : tim' = [tim EXCEPT ![dir][seq] = w],
             ~(d = dir /\ s = seq)
      PROVE  decision'[d][s] = decision[d][s] /\ tim'[d][s] = tim[d][s]
  <2>1. decision'[d][s] = decision[d][s]
    BY <1>0, <1>3, WriteElsewhere
  <2>2. tim'[d][s] = tim[d][s]
    <3>1. PICK w : tim' = [tim EXCEPT ![dir][seq] = w]
      BY <1>3
    <3> HIDE DEF T
    <3> QED
      BY <1>0, <1>3, <3>1, WriteElsewhere
  <2> QED
    BY <2>1, <2>2
<1>4. CASE DenyCall \/ ForwardCall
  <2>1. up /\ \E t \in Tags : Record(t)
    BY <1>4 DEF DenyCall, ForwardCall, Takes
  <2> QED
    BY <1>3, <2>1 DEF Record
<1>5. CASE CrashInCall
  <2>1. up
    BY <1>5 DEF CrashInCall
  <2>2. \/ UNCHANGED decision
        \/ \E v : decision' = [decision EXCEPT ![dir][seq] = v]
    BY <1>5 DEF CrashInCall
  <2>3. \E w : tim' = [tim EXCEPT ![dir][seq] = w]
    BY <1>5 DEF CrashInCall
  <2> QED
    BY <1>3, <2>1, <2>2, <2>3
<1> QED
  BY <1>1, <1>2, <1>4, <1>5

\* When every run has a directory of its own, the files still to be written are
\* not there: a step keeps the call numbers from seq on, and later directories, blank.
LEMMA FreshStep ==
  ASSUME ~ReuseOut, TypeOK, Fresh, [Next]_vars
  PROVE  Fresh'
<1>0. /\ stdin \in Seq(Sent) /\ msg \in Seq(Message) /\ runs \in 0..MaxRuns
      /\ seq \in Nat /\ runs' \in 0..MaxRuns /\ Len(stdin) \in Nat
      /\ Len(msg) \in Nat
  <2>1. TypeOK'
    BY TypeStep
  <2>2. runs \in 0..MaxRuns /\ seq \in Nat /\ runs' \in 0..MaxRuns
    BY <2>1 DEF TypeOK, EngineTypes
  <2>3. stdin \in Seq(Sent) /\ msg \in Seq(Message)
    BY DEF TypeOK, PipeTypes, ClientTypes
  <2> QED
    BY <2>2, <2>3
<1>1. \/ runs' = runs
      \/ ~up /\ runs' = runs + 1
  BY DEF Next, ProxyInput, ProxyOutput, Server, Lifecycle, vars, life, Start,
         CrashInStart, ExitWithServer, Crash, ClientSend, ClientClose,
         ForwardRaw, DenyBatch, DenyCall, ForwardCall, CrashInCall, Throw,
         EndOfInput, Relay, ReceiptReply, CrashInReply, ServerRead,
         ServerReply, ServerPush, ServerExit, ServerCrash
<1>2. ASSUME NEW d \in Dirs, NEW s \in Seqs, d > runs' PROVE Blank(d, s)'
  <2>1. d > runs /\ ~(up /\ d = dir)
    BY <1>0, <1>1, <1>2 DEF Fresh, Dirs
  <2> QED
    BY <2>1, OnlyInTurn DEF Fresh, Blank
<1>3. ASSUME up'
      PROVE  /\ dir' = runs' /\ dir' \in Dirs
             /\ seq' + Len(stdin') <= Len(msg')
             /\ \A s \in Seqs : s >= seq' => Blank(dir, s)'
  <2> DEFINE Goal == /\ dir' = runs' /\ dir' \in Dirs
                     /\ seq' + Len(stdin') <= Len(msg')
                     /\ \A s \in Seqs : s >= seq' => Blank(dir, s)'
  <2>1. CASE Start
    <3>1. dir' = runs + 1 /\ runs' = runs + 1 /\ seq' = 0 /\ stdin' = <<>>
          /\ msg' = msg /\ ~up
      BY <2>1 DEF Start, OutDir
    <3>2. dir' \in Dirs
      BY <1>0, <3>1 DEF Dirs
    <3>3. ASSUME NEW s \in Seqs PROVE Blank(dir, s)'
      <4>1. Blank(dir', s)
        BY <1>0, <3>1, <3>2 DEF Fresh
      <4> QED
        BY <1>0, <3>1, <3>2, <4>1, OnlyInTurn DEF Fresh, Blank
    <3> QED
      BY <1>0, <3>1, <3>2, <3>3
  <2>2. ASSUME ~Start PROVE up /\ dir' = dir /\ runs' = runs
    BY <1>3, <2>2
       DEF Next, ProxyInput, ProxyOutput, Server, Lifecycle, vars, life,
           CrashInStart, ExitWithServer, Crash, ClientSend, ClientClose,
           ForwardRaw, DenyBatch, DenyCall, ForwardCall, CrashInCall, Throw,
           EndOfInput, Relay, ReceiptReply, CrashInReply, ServerRead,
           ServerReply, ServerPush, ServerExit, ServerCrash, ProxyGone
  <2>3. ASSUME ~Start
        PROVE  \/ UNCHANGED <<seq, stdin, msg>>
               \/ UNCHANGED seq /\ ClientSend
               \/ (\E t \in Tags : Takes(t)) /\ seq' \in {seq, seq + 1}
                    /\ UNCHANGED msg
    BY <1>3, <2>3
       DEF Next, ProxyInput, ProxyOutput, Server, Lifecycle, vars, life, client,
           CrashInStart, ExitWithServer, Crash, ClientSend, ClientClose,
           ForwardRaw, DenyBatch, DenyCall, ForwardCall, CrashInCall, Throw,
           EndOfInput, Relay, ReceiptReply, CrashInReply, ServerRead,
           ServerReply, ServerPush, ServerExit, ServerCrash, ProxyGone, Record
  <2>4. ASSUME ~Start PROVE seq' + Len(stdin') <= Len(msg')
    <3>1. seq + Len(stdin) <= Len(msg)
      BY <2>2, <2>4 DEF Fresh
    <3>2. CASE UNCHANGED <<seq, stdin, msg>>
      BY <3>1, <3>2
    <3>3. CASE UNCHANGED seq /\ ClientSend
      <4>1. /\ Len(msg') = Len(msg) + 1
            /\ Len(stdin') = Len(stdin) + 1
        BY <1>0, <3>3 DEF ClientSend, Lines
      <4> QED
        BY <1>0, <3>1, <3>3, <4>1
    <3>4. CASE /\ \E t \in Tags : Takes(t)
               /\ seq' \in {seq, seq + 1} /\ UNCHANGED msg
      <4>1. Len(stdin') = Len(stdin) - 1
        BY <1>0, <3>4, TailStays DEF Takes
      <4> QED
        BY <1>0, <3>1, <3>4, <4>1
    <3> QED
      BY <2>3, <2>4, <3>2, <3>3, <3>4
  <2>5. ASSUME ~Start, NEW s \in Seqs, s >= seq' PROVE Blank(dir, s)'
    <3>1. up /\ dir' = dir /\ dir \in Dirs /\ s >= seq
      BY <1>0, <2>2, <2>3, <2>5 DEF Fresh, Seqs
    <3>2. CASE UNCHANGED <<decision, tim>>
      BY <3>1, <3>2 DEF Fresh, Blank
    <3>3. CASE seq' = seq + 1
      <4>1. s # seq
        BY <1>0, <2>5, <3>3 DEF Seqs
      <4> QED
        BY <3>1, <4>1, OnlyInTurn DEF Fresh, Blank
    <3>4. UNCHANGED <<decision, tim>> \/ seq' = seq + 1
      BY <1>3, <2>5
         DEF Next, ProxyInput, ProxyOutput, Server, Lifecycle, vars, disk,
             CrashInStart, ExitWithServer, Crash, ClientSend, ClientClose,
             ForwardRaw, DenyBatch, DenyCall, ForwardCall, CrashInCall, Throw,
             EndOfInput, Relay, ReceiptReply, CrashInReply, ServerRead,
             ServerReply, ServerPush, ServerExit, ServerCrash, ProxyGone, Record
    <3> QED
      BY <3>2, <3>3, <3>4
  <2> QED
    BY <2>1, <2>2, <2>4, <2>5 DEF Fresh
<1> QED
  BY <1>2, <1>3 DEF Fresh

\* A call is filed with its evidence and its decision, complete.
LEMMA RecordComplete ==
  ASSUME TypeOK, Fresh, NEW t \in Tags, Takes(t), IsCall(t), Record(t),
         UNCHANGED msg, NEW d, NEW s, d = dir, s = seq
  PROVE  /\ d \in Dirs /\ s \in Seqs
         /\ decision'[d][s] = t
         /\ Found(d, s)' = Cited(d, s)'
<1> DEFINE T == [TimIndex -> OptTags]
           k == TimCount[msg[t].load]
<1>0. /\ tim \in [Dirs -> [Seqs -> T]] /\ decision \in [Dirs -> [Seqs -> OptTags]]
      /\ stdin \in Seq(Sent) /\ msg \in Seq(Message) /\ seq \in Nat
      /\ runs \in 0..MaxRuns /\ dir \in 0..MaxRuns /\ Len(msg) <= MaxMsgs
  BY DEF TypeOK, BundleTypes, PipeTypes, ClientTypes, EngineTypes
<1>1. d \in Dirs /\ s \in Seqs
  <2>1. up /\ stdin # <<>>
    BY DEF Takes
  <2>2. Len(stdin) \in Nat \ {0} /\ Len(msg) \in Nat
    BY <1>0, <2>1, TailStays
  <2> QED
    BY <1>0, <2>1, <2>2, ProxyConstants DEF Fresh, Seqs
<1>2. decision'[d][s] = t /\ tim'[d][s] = TimsOf(t, k)
  <2>1. decision' = [decision EXCEPT ![dir][seq] = t]
        /\ tim' = [tim EXCEPT ![dir][seq] = TimsOf(t, k)]
    BY DEF Record
  <2> HIDE DEF T
  <2> QED
    BY <1>0, <1>1, <2>1, WriteElsewhere
<1>3. ASSUME NEW i \in TimIndex
      PROVE  tim'[d][s][i] = IF i < k THEN t ELSE 0
  <2>1. tim[dir][seq][i] = 0
    BY <1>0, <1>1 DEF Fresh, Blank, Takes
  <2> QED
    BY <1>2, <2>1 DEF TimsOf
<1>4. k \in 1..MaxTims /\ t # 0
  <2>1. msg[t] \in Message
    BY <1>0, TakesSent DEF Sent
  <2> QED
    BY <2>1, ProxyConstants DEF Message, Tags
<1>5. {j \in TimIndex : tim'[d][s][j] # 0} = 0..k - 1
  BY <1>3, <1>4, ProxyConstants DEF TimIndex
<1>6. Found(d, s)' = {<<t, i>> : i \in 0..k - 1}
  <2>1. Found(d, s)' = {<<tim'[d][s][i], i>> : i \in 0..k - 1}
    BY <1>5 DEF Found
  <2>2. \A i \in 0..k - 1 : tim'[d][s][i] = t
    BY <1>3, <1>4, ProxyConstants DEF TimIndex
  <2> QED
    BY <2>1, <2>2
<1>7. Cited(d, s)' = {<<t, i>> : i \in 0..k - 1}
  BY <1>2 DEF Cited
<1> QED
  BY <1>1, <1>2, <1>6, <1>7

\* A complete record stays as it is.
LEMMA RecordKept ==
  ASSUME TypeOK, Fresh, [Next]_vars, NEW d \in Dirs, NEW s \in Seqs,
         decision[d][s] \in Sent, Found(d, s) = Cited(d, s)
  PROVE  decision'[d][s] = decision[d][s] /\ Found(d, s)' = Cited(d, s)'
<1>1. ~(up /\ d = dir /\ s = seq)
  BY DEF Fresh, Blank, Sent, TypeOK, EngineTypes
<1>2. decision'[d][s] = decision[d][s] /\ tim'[d][s] = tim[d][s]
  BY <1>1, OnlyInTurn
<1>3. msg'[decision[d][s]] = msg[decision[d][s]]
  BY SentStep
<1> QED
  BY <1>2, <1>3 DEF Found, Cited

\* When every run writes to a directory of its own, every tools/call that
\* reaches the server has its decision and its whole evidence on disk by then,
\* and no later call, crash or restart loses them (proxy.ts writes before it
\* forwards; audit.ts numbers the calls of a run).
THEOREM OnTheRecord ==
  ASSUME ~ReuseOut
  PROVE  Spec => []ReachedIsRecorded
<1>1. Init => Fresh /\ ReachedIsRecorded
  BY DEF Init, Fresh, Blank, ReachedIsRecorded, Reached
<1>2. TypeOK /\ Fresh /\ [Next]_vars => Fresh'
  BY FreshStep
<1>3. TypeOK /\ Fresh /\ ReachedIsRecorded /\ [Next]_vars => ReachedIsRecorded'
  <2> SUFFICES ASSUME TypeOK, Fresh, ReachedIsRecorded, [Next]_vars,
                      NEW t \in Reached', IsCall(t)'
               PROVE  \E d \in Dirs, s \in Seqs :
                        /\ decision'[d][s] = t
                        /\ Found(d, s)' = Cited(d, s)'
    BY DEF ReachedIsRecorded
  <2>1. t \in Sent
    BY ReachStep, ReachedSent, TakesSent
  <2>2. IsCall(t)
    BY <2>1, SentStep DEF IsCall
  <2>3. CASE t \in Reached
    <3>1. PICK d \in Dirs, s \in Seqs :
            decision[d][s] = t /\ Found(d, s) = Cited(d, s)
      BY <2>2, <2>3 DEF ReachedIsRecorded
    <3> QED
      BY <2>1, <3>1, RecordKept
  <2>4. CASE t \notin Reached
    <3>1. t \in Tags /\ Takes(t) /\ ForwardCall /\ Record(t)
      BY <2>2, <2>4, ReachStep DEF IsCall
    <3>2. UNCHANGED msg
      BY <3>1 DEF ForwardCall, client
    <3> QED
      BY <2>2, <3>1, <3>2, RecordComplete
  <2> QED
    BY <2>3, <2>4
<1> QED
  BY <1>1, <1>2, <1>3, TypeCorrect, PTL DEF Spec

-----------------------------------------------------------------------------
(* The lines that were handled *)

\* The client's lines are handled in the order they were sent; what a run that
\* ended has left unread counts as handled.
Handled == Len(msg) - Len(stdin)
InTurn == \A j \in DOMAIN stdin : stdin[j] = Handled + j

\* What changes the lines still to be read.
LEMMA InputFrame ==
  ASSUME [Next]_vars
  PROVE  \/ UNCHANGED <<msg, stdin, base, up>>
         \/ Start \/ ClientSend
         \/ (\E t \in Tags : Takes(t)) /\ UNCHANGED <<msg, base, up>>
         \/ ProxyGone /\ UNCHANGED <<msg, base>>
BY DEF Next, ProxyInput, ProxyOutput, Server, Lifecycle, vars, client, life,
       CrashInStart, ExitWithServer, Crash, ClientClose, ForwardRaw, DenyBatch,
       DenyCall, ForwardCall, CrashInCall, Throw, EndOfInput, Relay, ReceiptReply,
       CrashInReply, ServerRead, ServerReply, ServerPush, ServerExit, ServerCrash, Takes

\* The line that is taken is the first that was not handled.
LEMMA TakesNext ==
  ASSUME TypeOK, InTurn, NEW t \in Tags, Takes(t), UNCHANGED msg
  PROVE  t = Handled + 1 /\ Handled' = t /\ InTurn'
<1>1. stdin \in Seq(Sent) /\ stdin # <<>> /\ msg \in Seq(Message)
  BY DEF TypeOK, PipeTypes, ClientTypes, Takes
<1>2. /\ stdin' = Tail(stdin) /\ Len(stdin') = Len(stdin) - 1 /\ Len(stdin) \in Nat \ {0}
      /\ Len(msg) \in Nat /\ stdin' \in Seq(Sent)
      /\ \A j \in 1..Len(stdin') : stdin'[j] = stdin[j + 1]
  BY <1>1, TailStays DEF Takes
<1>3. t = stdin[1]
  BY <1>1 DEF Takes
<1>4. t = Handled + 1 /\ Handled' = t
  BY <1>1, <1>2, <1>3 DEF InTurn, Handled
<1>5. ASSUME NEW j \in DOMAIN stdin' PROVE stdin'[j] = Handled' + j
  BY <1>2, <1>4 DEF InTurn, Handled
<1> QED
  BY <1>4, <1>5 DEF InTurn

\* Lines are read in turn, and what was handled stays so.
LEMMA HandledStep ==
  ASSUME TypeOK, InTurn, [Next]_vars
  PROVE  InTurn' /\ Handled' >= Handled /\ Handled' \in Nat /\ Handled \in Nat
<1>1. stdin \in Seq(Sent) /\ msg \in Seq(Message)
  BY DEF TypeOK, PipeTypes, ClientTypes
<1>2. Len(stdin) \in Nat /\ Len(msg) \in Nat
  BY <1>1
<1>3. Handled \in Nat
  <2>1. CASE stdin = <<>>
    BY <1>2, <2>1 DEF Handled
  <2>2. CASE stdin # <<>>
    <3>1. stdin[1] \in Sent /\ stdin[1] = Handled + 1
      BY <1>1, <2>2 DEF InTurn
    <3> QED
      BY <1>2, <3>1 DEF Handled, Sent
  <2> QED
    BY <2>1, <2>2
<1>4. CASE UNCHANGED <<msg, stdin, base, up>>
  BY <1>3, <1>4 DEF InTurn, Handled
<1>5. CASE stdin' = <<>> /\ msg' = msg
  <2>1. Handled' = Len(msg) /\ InTurn'
    BY <1>2, <1>5 DEF InTurn, Handled
  <2> QED
    BY <1>2, <1>3, <2>1 DEF Handled
<1>6. CASE ClientSend
  <2>1. PICK m \in Message : msg' = Append(msg, m)
    BY <1>6 DEF ClientSend, Lines
  <2>2. Len(msg') = Len(msg) + 1 /\ stdin' = Append(stdin, Len(msg) + 1)
    BY <1>1, <1>6, <2>1 DEF ClientSend
  <2>3. Len(stdin') = Len(stdin) + 1 /\ Handled' = Handled
    BY <1>1, <1>2, <2>2 DEF Handled
  <2>4. ASSUME NEW j \in DOMAIN stdin' PROVE stdin'[j] = Handled + j
    <3>1. CASE j = Len(stdin) + 1
      BY <1>1, <1>2, <2>2, <3>1 DEF Handled
    <3>2. CASE j \in DOMAIN stdin
      BY <1>1, <2>2, <3>2 DEF InTurn
    <3> QED
      BY <1>1, <2>2, <2>4, <3>1, <3>2
  <2> QED
    BY <1>3, <2>3, <2>4 DEF InTurn
<1>7. CASE (\E t \in Tags : Takes(t)) /\ UNCHANGED msg
  BY <1>3, <1>7, TakesNext DEF Tags
<1>8. CASE Start \/ (ProxyGone /\ UNCHANGED msg)
  BY <1>3, <1>5, <1>8 DEF Start, ProxyGone
<1> QED
  BY <1>4, <1>6, <1>7, <1>8, InputFrame

-----------------------------------------------------------------------------
(* The lines that the server reads *)

\* The server reads every line at most once, in the order they were sent.
ReadInTurn ==
  /\ \A j, m \in DOMAIN childIn : j < m => childIn[j] < childIn[m]
  /\ \A t \in executed, j \in DOMAIN childIn : t < childIn[j]
  /\ \A t \in Reached : t <= Handled

\* What changes the lines the server has still to read.
LEMMA ChildInFrame ==
  ASSUME [Next]_vars
  PROVE  \/ UNCHANGED <<childIn, executed>>
         \/ childIn' = <<>> /\ executed' = executed
         \/ PipeCut /\ executed' = executed
         \/ ServerRead
         \/ \E t \in Tags : Takes(t) /\ childIn' = Piped(t) /\ UNCHANGED <<msg, executed>>
BY DEF Next, ProxyInput, ProxyOutput, Server, Lifecycle, vars, client, server, Start,
       CrashInStart, ExitWithServer, Crash, ClientSend, ClientClose, ForwardRaw, DenyBatch,
       DenyCall, ForwardCall, CrashInCall, Throw, EndOfInput, Relay, ReceiptReply,
       CrashInReply, ServerReply, ServerPush, ServerExit, ServerCrash

\* A line that is forwarded comes after all that were, and a line that is read
\* before all that were not.
LEMMA ReadStep ==
  ASSUME TypeOK, InTurn, ReadInTurn, [Next]_vars
  PROVE  ReadInTurn'
<1>0. /\ childIn \in Seq(Sent) /\ executed \subseteq Sent
      /\ InTurn' /\ Handled' >= Handled /\ Handled \in Nat /\ Handled' \in Nat
      /\ \A t \in Sent : t \in Nat
  BY HandledStep DEF TypeOK, PipeTypes, ServerTypes, Sent
<1>1. ASSUME NEW t \in Reached' PROVE t <= Handled'
  <2>1. CASE t \in Reached
    <3>1. t <= Handled /\ t \in Nat
      BY <1>0, <2>1, ReachedSent DEF ReadInTurn
    <3> QED
      BY <1>0, <3>1
  <2>2. CASE t \in Tags /\ Takes(t) /\ UNCHANGED msg
    BY <1>0, <2>2, TakesNext
  <2> QED
    BY <1>1, <2>1, <2>2, ReachStep DEF ForwardRaw, ForwardCall, client
<1>2. CASE UNCHANGED <<childIn, executed>>
  BY <1>1, <1>2 DEF ReadInTurn
<1>3. CASE childIn' = <<>> /\ executed' = executed
  BY <1>1, <1>3 DEF ReadInTurn
<1>4. CASE PipeCut /\ executed' = executed
  <2>1. PICK n \in 0..Len(childIn) : childIn' = SubSeq(childIn, 1, n)
    BY <1>4 DEF PipeCut
  <2>2. DOMAIN childIn' \subseteq DOMAIN childIn
        /\ \A j \in DOMAIN childIn' : childIn'[j] = childIn[j]
    BY <1>0, <2>1
  <2> QED
    BY <1>1, <1>4, <2>2 DEF ReadInTurn
<1>5. CASE ServerRead
  <2>1. childIn # <<>> /\ childIn' = Tail(childIn) /\ executed' = executed \cup {childIn[1]}
    BY <1>0, <1>5 DEF ServerRead
  <2>2. /\ 1 \in DOMAIN childIn
        /\ \A j \in DOMAIN childIn' : /\ j + 1 \in DOMAIN childIn /\ childIn'[j] = childIn[j + 1]
                                      /\ j \in Nat \ {0}
    BY <1>0, <2>1, TailStays
  <2>3. \A j \in DOMAIN childIn' : childIn[1] < childIn'[j]
    BY <2>2 DEF ReadInTurn
  <2>4. \A j, m \in DOMAIN childIn' : j < m => childIn'[j] < childIn'[m]
    BY <2>2 DEF ReadInTurn
  <2> QED
    BY <1>1, <2>1, <2>2, <2>3, <2>4 DEF ReadInTurn
<1>6. CASE \E t \in Tags : Takes(t) /\ childIn' = Piped(t) /\ UNCHANGED <<msg, executed>>
  <2>1. PICK t \in Tags : Takes(t) /\ childIn' = Piped(t) /\ UNCHANGED <<msg, executed>>
    BY <1>6
  <2>2. t = Handled + 1
    BY <2>1, TakesNext
  <2>3. CASE childIn' = childIn
    BY <1>1, <2>1, <2>3 DEF ReadInTurn
  <2>4. CASE childIn' = Append(childIn, t)
    <3>1. \A j \in DOMAIN childIn : childIn[j] <= Handled /\ childIn[j] \in Nat
      BY <1>0 DEF ReadInTurn, Reached
    <3>2. \A e \in executed : e <= Handled /\ e \in Nat
      BY <1>0 DEF ReadInTurn, Reached
    <3>3. \A j \in DOMAIN childIn' :
            \/ j \in DOMAIN childIn /\ childIn'[j] = childIn[j] /\ j < Len(childIn) + 1
            \/ j = Len(childIn) + 1 /\ childIn'[j] = t
      BY <1>0, <2>4
    <3> QED
      BY <1>0, <1>1, <2>1, <2>2, <3>1, <3>2, <3>3 DEF ReadInTurn
  <2> QED
    BY <2>1, <2>3, <2>4 DEF Piped
<1> QED
  BY <1>2, <1>3, <1>4, <1>5, <1>6, ChildInFrame

-----------------------------------------------------------------------------
(* The server's answers *)

Answers == {j \in DOMAIN childOut : childOut[j].kind = "response"}

\* A request is answered once, by the one server that read it, with the id it
\* came with; what the client was shown was read.
ServedOnce ==
  /\ working \subseteq executed
  /\ \A t \in working : served[t] = "none"
  /\ \A t \in Tags \ executed : served[t] = "none"
  /\ \A j \in Answers : /\ childOut[j].tag \in executed
                        /\ childOut[j].id = msg[childOut[j].tag].id
                        /\ childOut[j].outcome = served[childOut[j].tag]
  /\ \A j, m \in Answers : childOut[j].tag = childOut[m].tag => j = m
  /\ replied \subseteq executed
  /\ ~up => childOut = <<>>

\* What changes the server's answers and what the client is shown of them.
LEMMA AnswersFrame ==
  ASSUME [Next]_vars
  PROVE  \/ /\ childOut' \in {childOut, <<>>} /\ working' \in {working, {}}
            /\ (~up' => ~up \/ childOut' = <<>>)
            /\ UNCHANGED <<executed, served, replied>>
         \/ /\ childOut # <<>> /\ childOut' = Tail(childOut)
            /\ replied' = Shown(Head(childOut))
            /\ UNCHANGED <<executed, served, working, up>>
         \/ ServerRead \/ (\E t \in Tags : ServerReply(t)) \/ ServerPush
BY DEF Next, ProxyInput, ProxyOutput, Server, Lifecycle, vars, client, server, shown, life,
       Start, CrashInStart, ExitWithServer, Crash, ClientSend, ClientClose, ForwardRaw,
       DenyBatch, DenyCall, ForwardCall, CrashInCall, Throw, EndOfInput, Relay,
       ReceiptReply, CrashInReply, ServerExit, ServerCrash, ProxyGone

\* No answer comes twice, and none without its request.
LEMMA AnswersStep ==
  ASSUME TypeOK, ReadInTurn, ServedOnce, [Next]_vars
  PROVE  ServedOnce'
<1>0. /\ childIn \in Seq(Sent) /\ childOut \in Seq(ServerLine) /\ executed \subseteq Sent
      /\ served \in [Tags -> OptOutcomes] /\ Sent \subseteq Tags
      /\ \A t \in Sent : msg'[t] = msg[t]
  <2>1. /\ childIn \in Seq(Sent) /\ childOut \in Seq(ServerLine) /\ executed \subseteq Sent
        /\ served \in [Tags -> OptOutcomes]
    BY DEF TypeOK, PipeTypes, ServerTypes
  <2>2. Sent \subseteq Tags
    BY ProxyConstants DEF TypeOK, ClientTypes, Sent, Tags
  <2> QED
    BY <2>1, <2>2, SentStep
<1>1. CASE /\ childOut' \in {childOut, <<>>} /\ working' \in {working, {}}
           /\ (~up' => ~up \/ childOut' = <<>>)
           /\ UNCHANGED <<executed, served, replied>>
  BY <1>0, <1>1 DEF ServedOnce, Answers
<1>2. CASE /\ childOut # <<>> /\ childOut' = Tail(childOut)
           /\ replied' = Shown(Head(childOut))
           /\ UNCHANGED <<executed, served, working, up>>
  <2>1. /\ 1 \in DOMAIN childOut /\ Head(childOut) = childOut[1]
        /\ \A j \in DOMAIN childOut' : /\ j + 1 \in DOMAIN childOut
                                       /\ childOut'[j] = childOut[j + 1] /\ j \in Nat
    BY <1>0, <1>2, TailStays
  <2>2. replied' \subseteq executed
    BY <1>2, <2>1 DEF Shown, ServedOnce, Answers
  <2>3. \A j \in Answers' : j + 1 \in Answers /\ childOut'[j] = childOut[j + 1] /\ j \in Nat
    BY <2>1 DEF Answers
  <2>4. \A j, m \in Answers' : childOut'[j].tag = childOut'[m].tag => j = m
    BY <2>3 DEF ServedOnce
  <2>5. \A j \in Answers' : /\ childOut'[j].tag \in executed
                             /\ childOut'[j].id = msg'[childOut'[j].tag].id
                             /\ childOut'[j].outcome = served[childOut'[j].tag]
    BY <1>0, <2>3 DEF ServedOnce
  <2>6. up
    BY <1>2 DEF ServedOnce
  <2> QED
    BY <1>2, <2>2, <2>4, <2>5, <2>6 DEF ServedOnce
<1>3. CASE ServerRead
  <2>1. childIn # <<>> /\ childIn[1] \in Sent /\ Head(childIn) = childIn[1]
    BY <1>0, <1>3 DEF ServerRead
  <2>2. childIn[1] \notin executed
    BY <1>0, <2>1 DEF ReadInTurn, Sent
  <2>3. served[childIn[1]] = "none"
    BY <1>0, <2>1, <2>2 DEF ServedOnce
  <2>4. UNCHANGED <<childOut, served, replied, up, msg>> /\ Answers' = Answers
    BY <1>3 DEF ServerRead, shown, client, life, Answers
  <2>5. working' \subseteq working \cup {childIn[1]} /\ executed' = executed \cup {childIn[1]}
    BY <1>3, <2>1 DEF ServerRead
  <2> QED
    BY <2>3, <2>4, <2>5 DEF ServedOnce
<1>4. ASSUME NEW t \in Tags, ServerReply(t) PROVE ServedOnce'
  <2>1. PICK o \in Outcomes :
          /\ served' = [served EXCEPT ![t] = o]
          /\ childOut' = IF up THEN Append(childOut, [kind |-> "response", tag |-> t,
                                             id |-> msg[t].id, outcome |-> o])
                         ELSE childOut
    BY <1>4 DEF ServerReply
  <2>2. /\ t \in working /\ working' = working \ {t}
        /\ UNCHANGED <<executed, replied, up, msg>>
    BY <1>4 DEF ServerReply, shown, client, life
  <2>3. \A u \in Tags : served'[u] = IF u = t THEN o ELSE served[u]
    BY <1>0, <2>1
  <2>4. t \in executed /\ served[t] = "none"
    BY <2>2 DEF ServedOnce
  <2>5. \A j \in Answers : childOut[j].tag # t
    BY <1>0, <2>4 DEF ServedOnce, Answers, ServerLine, Outcomes
  <2>6. CASE up
    <3>1. /\ Len(childOut) + 1 \notin DOMAIN childOut
          /\ DOMAIN childOut' = DOMAIN childOut \cup {Len(childOut) + 1}
          /\ \A j \in DOMAIN childOut : childOut'[j] = childOut[j]
          /\ childOut'[Len(childOut) + 1] = [kind |-> "response", tag |-> t,
                                             id |-> msg[t].id, outcome |-> o]
      BY <1>0, <2>1, <2>6
    <3>2. /\ Answers' = Answers \cup {Len(childOut) + 1}
          /\ \A j \in Answers : childOut'[j] = childOut[j]
      BY <3>1 DEF Answers
    <3>3. \A j \in Answers' : /\ childOut'[j].tag \in executed
                              /\ childOut'[j].id = msg[childOut'[j].tag].id
                              /\ childOut'[j].outcome = served'[childOut'[j].tag]
      BY <1>0, <2>3, <2>4, <2>5, <3>1, <3>2 DEF ServedOnce
    <3>4. \A j, m \in Answers' : childOut'[j].tag = childOut'[m].tag => j = m
      BY <2>5, <3>1, <3>2 DEF ServedOnce
    <3> QED
      BY <1>0, <2>2, <2>3, <2>4, <2>6, <3>3, <3>4 DEF ServedOnce
  <2>7. CASE ~up
    BY <1>0, <2>1, <2>2, <2>3, <2>4, <2>5, <2>7 DEF ServedOnce, Answers
  <2> QED
    BY <2>6, <2>7
<1>5. CASE ServerPush
  <2>1. PICK i : childOut' = Append(childOut, [kind |-> "push", tag |-> 0, id |-> i,
                                               outcome |-> "none"])
    BY <1>5 DEF ServerPush
  <2>2. Answers' = Answers /\ \A j \in Answers : childOut'[j] = childOut[j]
    BY <1>0, <2>1 DEF Answers
  <2>3. UNCHANGED <<working, executed, served, replied, up, msg>> /\ up
    BY <1>5 DEF ServerPush, shown, client, life
  <2> QED
    BY <2>2, <2>3 DEF ServedOnce
<1> QED
  BY <1>1, <1>2, <1>3, <1>4, <1>5, AnswersFrame

\* What every line's way has in common, whatever ids and directories are given.
WayInv == InTurn /\ ReadInTurn /\ ServedOnce

\* It holds of every run, with every crash and restart.
LEMMA WayHolds == Spec => []WayInv
<1>1. Init => WayInv
  BY DEF Init, WayInv, InTurn, Handled, ReadInTurn, Reached, ServedOnce, Answers
<1>2. TypeOK /\ WayInv /\ [Next]_vars => WayInv'
  BY HandledStep, ReadStep, AnswersStep DEF WayInv
<1> QED
  BY <1>1, <1>2, TypeCorrect, PTL DEF Spec

-----------------------------------------------------------------------------
(* A denial is final *)

\* What is denied is what is never forwarded.
DeniedLines ==
  \A d \in denied : msg[d[1]].kind = "batch" \/ (IsCall(d[1]) /\ ~Approved(d[1]))

\* The handlers deny nothing else.
LEMMA DeniedStep ==
  ASSUME TypeOK, DeniedLines, [Next]_vars
  PROVE  DeniedLines'
<1>1. \/ UNCHANGED denied
      \/ \E t \in Tags : /\ Takes(t) /\ denied' = denied \cup Denial(t) /\ UNCHANGED msg
                         /\ msg[t].kind = "batch" \/ (IsCall(t) /\ ~Approved(t))
  BY DEF Next, ProxyInput, ProxyOutput, Server, Lifecycle, vars, shown, client,
         Start, CrashInStart, ExitWithServer, Crash, ClientSend, ClientClose,
         ForwardRaw, DenyBatch, DenyCall, ForwardCall, CrashInCall, Throw,
         EndOfInput, Relay, ReceiptReply, CrashInReply, ServerRead,
         ServerReply, ServerPush, ServerExit, ServerCrash
<1>2. \A d \in denied : d[1] \in Sent
  BY DEF TypeOK, ShownTypes
<1>3. \A t \in Tags : \A d \in Denial(t) : d[1] = t
  BY DEF Denial
<1> QED
  BY <1>1, <1>2, <1>3, SentStep DEF DeniedLines, IsCall, Approved

\* Whatever the ids, the crashes and the restarts: no request that the proxy denied
\* comes within the server's reach, then or later, and no answer of the server's
\* to it is shown to the client (proxy.ts: the denial is answered and the handler
\* returns).
THEOREM DenialStands == Spec => []DenialIsFinal
<1>1. Init => DeniedLines
  BY DEF Init, DeniedLines
<1>2. TypeOK /\ DeniedLines /\ [Next]_vars => DeniedLines'
  BY DeniedStep
<1>3. OnlyApprovedReach /\ DeniedLines /\ WayInv => DenialIsFinal
  BY DEF DenialIsFinal, OnlyApprovedReach, DeniedLines, WayInv, ServedOnce, Reached
<1> QED
  BY <1>1, <1>2, <1>3, TypeCorrect, ApprovedOnly, WayHolds, PTL DEF Spec

-----------------------------------------------------------------------------
(* Calls in flight *)

\* What was forwarded and is neither lost nor answered to the proxy.
OnTheWay ==
  {childIn[j] : j \in DOMAIN childIn} \cup working \cup {childOut[j].tag : j \in Answers}

\* All that is on its way was handled.
LEMMA WayHandled ==
  ASSUME TypeOK, WayInv
  PROVE  OnTheWay \subseteq Sent /\ \A t \in OnTheWay : t <= Handled /\ t \in Reached
<1>1. OnTheWay \subseteq Reached
  BY DEF OnTheWay, WayInv, ServedOnce, Reached
<1> QED
  BY <1>1, ReachedSent DEF WayInv, ReadInTurn

\* A line sets out when it is forwarded; nothing does in the step that starts a run.
LEMMA WaySetsOut ==
  ASSUME TypeOK, WayInv, [Next]_vars
  PROVE  \/ OnTheWay' \subseteq OnTheWay /\ ~Start
         \/ OnTheWay' = {}
         \/ \E t \in Tags : /\ Takes(t) /\ OnTheWay' \subseteq OnTheWay \cup {t}
                            /\ ((ForwardCall /\ IsCall(t)) \/ (ForwardRaw /\ ~IsCall(t)))
<1>0. /\ childIn \in Seq(Sent) /\ childOut \in Seq(ServerLine)
  BY DEF TypeOK, PipeTypes
<1>1. CASE Start
  BY <1>1 DEF Start, OnTheWay, Answers
<1>2. CASE ForwardRaw \/ ForwardCall
  <2>1. PICK t \in Tags : /\ Takes(t) /\ childIn' = Piped(t)
                          /\ ((ForwardCall /\ IsCall(t)) \/ (ForwardRaw /\ ~IsCall(t)))
    <3>1. CASE ForwardRaw
      BY <3>1 DEF ForwardRaw, IsCall
    <3>2. CASE ForwardCall
      <4>1. PICK t \in Tags : Takes(t) /\ IsCall(t) /\ childIn' = Piped(t)
        BY <3>2 DEF ForwardCall
      <4> QED
        BY <3>2, <4>1
    <3> QED
      BY <1>2, <3>1, <3>2
  <2>2. UNCHANGED <<working, childOut>>
    BY <1>2 DEF ForwardRaw, ForwardCall, server
  <2>3. \A j \in DOMAIN childIn' : childIn'[j] \in {childIn[m] : m \in DOMAIN childIn} \cup {t}
    BY <1>0, <2>1 DEF Piped
  <2> QED
    BY <2>1, <2>2, <2>3 DEF OnTheWay, Answers
<1>3. CASE ServerRead
  <2>1. childIn # <<>> /\ childIn' = Tail(childIn) /\ working' \subseteq working \cup {childIn[1]}
        /\ childOut' = childOut
    BY <1>0, <1>3 DEF ServerRead
  <2>2. 1 \in DOMAIN childIn /\ \A j \in DOMAIN childIn' : \E m \in DOMAIN childIn : childIn'[j] = childIn[m]
    BY <1>0, <2>1, TailStays
  <2> QED
    BY <1>3, <2>1, <2>2 DEF OnTheWay, Answers, ServerRead, Start, life
<1>4. ASSUME NEW t \in Tags, ServerReply(t) PROVE OnTheWay' \subseteq OnTheWay /\ ~Start
  <2>1. t \in working /\ working' \subseteq working /\ childIn' = childIn /\ up' = up
    BY <1>4 DEF ServerReply, life
  <2>2. \A j \in Answers' : childOut'[j].tag \in {childOut[m].tag : m \in Answers} \cup {t}
    BY <1>0, <1>4 DEF ServerReply, Answers
  <2> QED
    BY <2>1, <2>2 DEF OnTheWay, Start
<1>5. CASE ServerPush
  <2>1. UNCHANGED <<working, childIn, up>>
    BY <1>5 DEF ServerPush, life
  <2>2. \A j \in Answers' : \E m \in Answers : childOut'[j] = childOut[m]
    BY <1>0, <1>5 DEF ServerPush, Answers
  <2> QED
    BY <2>1, <2>2 DEF OnTheWay, Start
<1>6. CASE PipeCut /\ childOut' = <<>> /\ working' = working /\ up
  <2>1. \A j \in DOMAIN childIn' : \E m \in DOMAIN childIn : childIn'[j] = childIn[m]
    BY <1>0, <1>6 DEF PipeCut
  <2> QED
    BY <1>6, <2>1 DEF OnTheWay, Answers, Start
<1>7. CASE Relay \/ ReceiptReply
  <2>1. /\ UNCHANGED <<working, childIn>> /\ childOut # <<>> /\ childOut' = Tail(childOut)
        /\ ~Start
    BY <1>7 DEF Relay, ReceiptReply, server, Start
  <2>2. \A j \in Answers' : \E m \in Answers : childOut'[j] = childOut[m]
    <3>1. \A j \in DOMAIN childOut' : j + 1 \in DOMAIN childOut /\ childOut'[j] = childOut[j + 1]
      BY <1>0, <2>1, TailStays
    <3> QED
      BY <3>1 DEF Answers
  <2>3. OnTheWay' \subseteq OnTheWay
    <3>1. {childOut'[j].tag : j \in Answers'} \subseteq {childOut[j].tag : j \in Answers}
      BY <2>2
    <3> QED
      BY <2>1, <3>1 DEF OnTheWay
  <2> QED
    BY <2>1, <2>3
<1>8. CASE /\ childIn' \in {childIn, <<>>} /\ childOut' \in {childOut, <<>>}
           /\ working' \in {working, {}} /\ ~Start
  BY <1>8 DEF OnTheWay, Answers
<1>9. \/ Start \/ ForwardRaw \/ ForwardCall \/ ServerRead \/ (\E t \in Tags : ServerReply(t))
      \/ ServerPush \/ Relay \/ ReceiptReply
      \/ PipeCut /\ childOut' = <<>> /\ working' = working /\ up
      \/ /\ childIn' \in {childIn, <<>>} /\ childOut' \in {childOut, <<>>}
         /\ working' \in {working, {}}
  BY DEF Next, ProxyInput, ProxyOutput, Server, Lifecycle, vars, server,
         CrashInStart, ExitWithServer, Crash, ClientSend, ClientClose,
         DenyBatch, DenyCall, CrashInCall, Throw, EndOfInput,
         CrashInReply, ServerExit, ServerCrash, ProxyGone
<1> QED
  BY <1>1, <1>2, <1>3, <1>4, <1>5, <1>6, <1>7, <1>8, <1>9

\* An id is used once in a run, and what is on its way to and from the server of a
\* run was sent in that run.
OfThisRun ==
  /\ base <= Handled
  /\ \A t, u \in ThisRun : HasId(t) /\ msg[t].id = msg[u].id => t = u
  /\ up => \A t \in OnTheWay : base < t

\* A run begins with nothing on its way, and the client does not reuse an id.
LEMMA ThisRunStep ==
  ASSUME TypeOK, WayInv, OfThisRun, [Next]_vars
  PROVE  OfThisRun'
<1>0. /\ Handled' >= Handled /\ Handled \in Nat /\ Handled' \in Nat
      /\ base \in Nat /\ base' \in Nat /\ base \in 0..Len(msg) /\ msg \in Seq(Message)
      /\ \A t \in Sent : t \in Nat
  BY HandledStep, TypeStep DEF TypeOK, ClientTypes, WayInv, Sent
<1>1. base' <= Handled'
  <2>1. CASE base' = base
    BY <1>0, <2>1 DEF OfThisRun
  <2>2. CASE Start
    <3>1. Handled' = Len(msg) /\ base' = Len(msg)
      BY <1>0, <2>2 DEF Start, Handled
    <3> QED
      BY <1>0, <3>1
  <2> QED
    BY <2>1, <2>2, InputFrame DEF ClientSend, Takes
<1>2. \A t, u \in ThisRun' : HasId(t)' /\ msg'[t].id = msg'[u].id => t = u
  <2>1. CASE UNCHANGED <<msg, base>>
    BY <2>1 DEF OfThisRun, ThisRun, HasId
  <2>2. CASE Start
    BY <1>0, <2>2 DEF Start, ThisRun
  <2>3. CASE ClientSend
    <3>1. PICK m \in Message : FreshId(m.id) /\ msg' = Append(msg, m) /\ base' = base
      BY <2>3 DEF ClientSend, Lines
    <3>2. \A t \in ThisRun' : (t \in ThisRun /\ msg'[t] = msg[t]) \/ (t = Len(msg) + 1 /\ msg'[t] = m)
      <4>1. Len(msg') = Len(msg) + 1 /\ Len(msg) \in Nat
        BY <1>0, <3>1
      <4>2. \A t \in 1..Len(msg) : msg'[t] = msg[t]
        BY <1>0, <3>1
      <4>3. msg'[Len(msg) + 1] = m
        BY <1>0, <3>1
      <4>4. ThisRun' = base + 1..Len(msg) + 1 /\ ThisRun = base + 1..Len(msg)
        BY <3>1, <4>1 DEF ThisRun
      <4>5. ASSUME NEW t \in base + 1..Len(msg) + 1, t # Len(msg) + 1
            PROVE  t \in base + 1..Len(msg) /\ t \in 1..Len(msg)
        BY <1>0, <4>1, <4>5
      <4> QED
        BY <4>2, <4>3, <4>4, <4>5
    <3>3. m.id # NoId => \A t \in ThisRun : msg[t].id # m.id
      BY <3>1 DEF FreshId, Owed
    <3> QED
      BY <3>2, <3>3 DEF OfThisRun, HasId
  <2> QED
    BY <2>1, <2>2, <2>3, InputFrame
<1>3. ASSUME up', NEW t \in OnTheWay' PROVE base' < t
  <2>1. CASE OnTheWay' \subseteq OnTheWay /\ ~Start
    <3>1. up /\ base' = base
      BY <1>3, <2>1, InputFrame DEF ProxyGone, ClientSend, life
    <3> QED
      BY <1>3, <2>1, <3>1 DEF OfThisRun
  <2>2. CASE \E u \in Tags : /\ Takes(u) /\ OnTheWay' \subseteq OnTheWay \cup {u}
                             /\ (ForwardCall \/ ForwardRaw)
    <3>1. PICK u \in Tags : /\ Takes(u) /\ OnTheWay' \subseteq OnTheWay \cup {u}
                            /\ up /\ UNCHANGED <<msg, base>>
      BY <2>2 DEF Takes, ForwardCall, ForwardRaw, client
    <3>2. u = Handled + 1
      BY <3>1, TakesNext DEF WayInv
    <3> QED
      BY <1>0, <1>3, <3>1, <3>2 DEF OfThisRun
  <2> QED
    BY <1>3, <2>1, <2>2, WaySetsOut
<1> QED
  BY <1>1, <1>2, <1>3 DEF OfThisRun

\* While run and server live, a request stays on its way until the proxy handles
\* its answer.
LEMMA WayKept ==
  ASSUME TypeOK, WayInv, [Next]_vars, up', childUp', ~Start, NEW t \in OnTheWay, HasId(t)
  PROVE  \/ t \in OnTheWay'
         \/ /\ Relay \/ ReceiptReply
            /\ Head(childOut).kind = "response" /\ Head(childOut).tag = t
<1>0. childIn \in Seq(Sent) /\ childOut \in Seq(ServerLine)
  BY DEF TypeOK, PipeTypes
<1>1. CASE ForwardRaw \/ ForwardCall
  <2>1. UNCHANGED <<working, childOut>> /\ \E u : childIn' = Piped(u)
    BY <1>1 DEF ForwardRaw, ForwardCall, server
  <2>2. \A j \in DOMAIN childIn : j \in DOMAIN childIn' /\ childIn'[j] = childIn[j]
    BY <1>0, <2>1 DEF Piped
  <2> QED
    BY <2>1, <2>2 DEF OnTheWay, Answers
<1>2. CASE ServerRead
  <2>1. /\ childIn # <<>> /\ childIn' = Tail(childIn) /\ Head(childIn) = childIn[1]
        /\ working \subseteq working' /\ childOut' = childOut
        /\ HasId(childIn[1]) => childIn[1] \in working'
    BY <1>0, <1>2 DEF ServerRead
  <2>2. \A j \in DOMAIN childIn : j # 1 => j - 1 \in DOMAIN childIn' /\ childIn'[j - 1] = childIn[j]
    BY <1>0, <2>1
  <2> QED
    BY <2>1, <2>2 DEF OnTheWay, Answers
<1>3. ASSUME NEW u \in Tags, ServerReply(u) PROVE t \in OnTheWay'
  <2>1. /\ u \in working /\ working' = working \ {u} /\ childIn' = childIn /\ up
    BY <1>3 DEF ServerReply, life
  <2>2. PICK r : childOut' = Append(childOut, r) /\ r.kind = "response" /\ r.tag = u
    BY <1>3, <2>1 DEF ServerReply
  <2>3. \A j \in Answers : j \in Answers' /\ childOut'[j] = childOut[j]
    BY <1>0, <2>2 DEF Answers
  <2>4. Len(childOut) + 1 \in Answers' /\ childOut'[Len(childOut) + 1].tag = u
    BY <1>0, <2>2 DEF Answers
  <2> QED
    BY <2>1, <2>3, <2>4 DEF OnTheWay
<1>4. CASE ServerPush
  <2>1. UNCHANGED <<working, childIn>> /\ \E r : childOut' = Append(childOut, r)
    BY <1>4 DEF ServerPush
  <2>2. \A j \in Answers : j \in Answers' /\ childOut'[j] = childOut[j]
    BY <1>0, <2>1 DEF Answers
  <2> QED
    BY <2>1, <2>2 DEF OnTheWay
<1>5. CASE UNCHANGED <<childIn, childOut, working>>
  BY <1>5 DEF OnTheWay, Answers
<1>6. CASE Relay \/ ReceiptReply
  <2>1. UNCHANGED <<working, childIn>> /\ childOut # <<>> /\ childOut' = Tail(childOut)
    BY <1>6 DEF Relay, ReceiptReply, server
  <2>2. Head(childOut) = childOut[1]
    BY <1>0, <2>1
  <2>3. \A j \in Answers : j # 1 => j - 1 \in Answers' /\ childOut'[j - 1] = childOut[j]
    <3>1. \A j \in DOMAIN childOut : j # 1 => j - 1 \in DOMAIN childOut' /\ childOut'[j - 1] = childOut[j]
      BY <1>0, <2>1
    <3> QED
      BY <3>1 DEF Answers
  <2>4. ASSUME NEW j \in Answers, t = childOut[j].tag, j # 1 PROVE t \in OnTheWay'
    BY <2>3, <2>4 DEF OnTheWay
  <2>5. ASSUME 1 \in Answers, t = childOut[1].tag
        PROVE  Head(childOut).kind = "response" /\ Head(childOut).tag = t
    BY <2>2, <2>5 DEF Answers
  <2>6. t \in working \/ (\E j \in DOMAIN childIn : childIn[j] = t) => t \in OnTheWay'
    BY <2>1 DEF OnTheWay
  <2> QED
    BY <1>6, <2>4, <2>5, <2>6 DEF OnTheWay
<1>7. \/ UNCHANGED <<childIn, childOut, working>>
      \/ ForwardRaw \/ ForwardCall \/ Relay \/ ReceiptReply \/ ServerRead
      \/ (\E u \in Tags : ServerReply(u)) \/ ServerPush
  BY DEF Next, ProxyInput, ProxyOutput, Server, Lifecycle, vars, server, life,
         CrashInStart, ExitWithServer, Crash, ClientSend, ClientClose,
         DenyBatch, DenyCall, CrashInCall, Throw, EndOfInput,
         CrashInReply, ServerExit, ServerCrash, ProxyGone
<1> QED
  BY <1>1, <1>2, <1>3, <1>4, <1>5, <1>6, <1>7

\* What was answered is not on its way to the proxy any more.
LEMMA AnswerArrives ==
  ASSUME TypeOK, WayInv, childOut # <<>>, Head(childOut).kind = "response"
  PROVE  LET t == Head(childOut).tag
         IN /\ t \in OnTheWay /\ t \in executed /\ t \in Sent
            /\ Head(childOut).id = msg[t].id /\ HasId(t)
            /\ Head(childOut).outcome = served[t] /\ served[t] \in Outcomes
            /\ (Relay \/ ReceiptReply) => OnTheWay' = OnTheWay \ {t}
<1> DEFINE t == Head(childOut).tag
<1>0. /\ childIn \in Seq(Sent) /\ childOut \in Seq(ServerLine) /\ executed \subseteq Sent
  BY DEF TypeOK, PipeTypes, ServerTypes
<1>1. /\ 1 \in DOMAIN childOut /\ Head(childOut) = childOut[1] /\ 1 \in Answers
      /\ childOut[1] \in [kind : {"response"}, tag : Tags, id : Ids, outcome : Outcomes]
  BY <1>0 DEF Answers, ServerLine
<1>2. /\ t \in OnTheWay /\ t \in executed /\ t \in Sent
      /\ Head(childOut).id = msg[t].id /\ Head(childOut).outcome = served[t]
  BY <1>0, <1>1 DEF WayInv, ServedOnce, OnTheWay
<1>3. HasId(t) /\ served[t] \in Outcomes
  BY <1>1, <1>2, ProxyConstants DEF HasId
<1>4. ASSUME Relay \/ ReceiptReply PROVE OnTheWay' = OnTheWay \ {t}
  <2>1. /\ UNCHANGED <<childIn, working>> /\ childOut' = Tail(childOut)
    BY <1>4 DEF Relay, ReceiptReply, server
  <2>2. /\ \A j \in Answers' : j + 1 \in Answers /\ childOut'[j] = childOut[j + 1] /\ j + 1 # 1
        /\ \A j \in Answers : j # 1 => j - 1 \in Answers' /\ childOut'[j - 1] = childOut[j]
    <3>1. \A j \in DOMAIN childOut' : j + 1 \in DOMAIN childOut /\ childOut'[j] = childOut[j + 1] /\ j + 1 # 1
      BY <1>0, <2>1, TailStays
    <3>2. \A j \in DOMAIN childOut : j # 1 => j - 1 \in DOMAIN childOut' /\ childOut'[j - 1] = childOut[j]
      BY <1>0, <2>1
    <3> QED
      BY <3>1, <3>2 DEF Answers
  <2>3. {childOut'[j].tag : j \in Answers'} = {childOut[j].tag : j \in Answers} \ {t}
    BY <1>1, <2>2 DEF WayInv, ServedOnce
  <2>4. t \notin working
    BY <1>3 DEF WayInv, ServedOnce, Outcomes
  <2>5. \A j \in DOMAIN childIn : childIn[j] # t
    BY <1>0, <1>2 DEF WayInv, ReadInTurn, Sent
  <2> QED
    BY <1>2, <2>1, <2>3, <2>4, <2>5 DEF OnTheWay
<1> QED
  BY <1>2, <1>3, <1>4

-----------------------------------------------------------------------------
(* The pending map *)

\* String() tells the ids of a run apart.
KeysApart == \A a, b \in Ids : KeyOf[a] = KeyOf[b] => a = b

\* An entry of the pending map is a call of this run that was approved, filed and
\* not receipted, and is on its way as long as the server lives.
Entry(k) ==
  LET t == pending[k].tag
      s == pending[k].seq
  IN /\ t \in Sent /\ base < t /\ t <= Handled
     /\ IsCall(t) /\ HasId(t) /\ Approved(t) /\ KeyOf[msg[t].id] = k
     /\ s \in Seqs /\ s < seq /\ decision[dir][s] = t /\ xr[dir][s] = NoReceipt
     /\ childUp => t \in OnTheWay

\* The map holds what is on its way, and nothing else.
Awaited ==
  /\ up => /\ \A k \in Keys : pending[k] = NoCall \/ Entry(k)
           /\ \A t \in OnTheWay : IsCall(t) /\ HasId(t) => pending[KeyOf[msg[t].id]].tag = t
  /\ ~up => pending = [k \in Keys |-> NoCall]

\* A receipt is of a call that was executed, with the outcome it had.
Filed ==
  \A d \in Dirs, s \in Seqs :
    LET r == xr[d][s] IN
    \/ r = NoReceipt
    \/ /\ r.tag \in Sent /\ decision[d][s] = r.tag /\ Approved(r.tag)
       /\ r.tag \in executed /\ r.outcome = served[r.tag] /\ r.outcome \in Outcomes

\* The id of an answer finds the entry of the very call it answers.
LEMMA AnswerFinds ==
  ASSUME KeysApart, TypeOK, WayInv, OfThisRun, Awaited,
         up, childOut # <<>>, Head(childOut).kind = "response"
  PROVE  LET r == Head(childOut)
         IN /\ Answered(r) = pending[KeyOf[r.id]] /\ KeyOf[r.id] \in Keys
            /\ IsCall(r.tag) => Answered(r) # NoCall
            /\ Answered(r) # NoCall =>
                 /\ Answered(r).tag = r.tag /\ IsCall(r.tag) /\ Entry(KeyOf[r.id])
<1> DEFINE r == Head(childOut)
           t == r.tag
<1>1. /\ t \in OnTheWay /\ t \in Sent /\ r.id = msg[t].id /\ HasId(t)
  BY AnswerArrives
<1>2. Answered(r) = pending[KeyOf[r.id]]
  BY DEF Answered
<1>3. msg \in Seq(Message) /\ base \in 0..Len(msg) /\ \A u \in Sent : msg[u].id \in Ids \cup {NoId}
  <2>1. msg \in Seq(Message) /\ base \in 0..Len(msg)
    BY DEF TypeOK, ClientTypes
  <2>2. \A u \in Sent : msg[u] \in Message
    BY <2>1 DEF Sent
  <2> QED
    BY <2>1, <2>2 DEF Message
<1>4. r.id \in Ids /\ KeyOf[r.id] \in Keys
  BY <1>1, <1>3, ProxyConstants DEF HasId
<1>5. t \in ThisRun /\ t # 0
  BY <1>1, <1>3 DEF OfThisRun, ThisRun, Sent
<1>6. IsCall(t) => Answered(r) # NoCall
  BY <1>1, <1>2, <1>5 DEF Awaited, NoCall
<1>7. ASSUME Answered(r) # NoCall
      PROVE  Answered(r).tag = t /\ IsCall(t) /\ Entry(KeyOf[r.id])
  <2>1. Entry(KeyOf[r.id])
    BY <1>2, <1>4, <1>7 DEF Awaited
  <2>2. PICK u : u = Answered(r).tag /\ u \in Sent /\ base < u /\ HasId(u) /\ IsCall(u)
                 /\ KeyOf[msg[u].id] = KeyOf[r.id]
    BY <1>2, <2>1 DEF Entry
  <2>3. msg[u].id = msg[t].id
    BY <1>1, <1>3, <1>4, <2>2 DEF KeysApart, HasId
  <2>4. u \in ThisRun
    BY <1>3, <2>2 DEF ThisRun, Sent
  <2>5. u = t
    BY <1>5, <2>2, <2>3, <2>4 DEF OfThisRun
  <2> QED
    BY <2>1, <2>2, <2>5
<1> QED
  BY <1>2, <1>4, <1>6, <1>7

\* A number that is not in use has no receipt.
LEMMA BlankUnreceipted ==
  ASSUME Filed, NEW d \in Dirs, NEW s \in Seqs, Blank(d, s)
  PROVE  xr[d][s] = NoReceipt
BY DEF Filed, Blank, Sent


\* A receipt is written by the handler of the answer, under the number of the call
\* that was answered.
LEMMA ReceiptGoes ==
  ASSUME KeysApart, TypeOK, WayInv, OfThisRun, Awaited, Fresh,
         ReceiptReply \/ CrashInReply
  PROVE  LET r == Head(childOut)
             k == KeyOf[r.id]
         IN /\ up /\ dir \in Dirs /\ childOut # <<>> /\ r.kind = "response"
            /\ k \in Keys /\ Entry(k) /\ pending[k].tag = r.tag
            /\ r.tag \in executed /\ r.outcome = served[r.tag] /\ r.outcome \in Outcomes
            /\ xr' = [xr EXCEPT ![dir][pending[k].seq] = [tag |-> r.tag, outcome |-> r.outcome]]
            /\ UNCHANGED <<msg, executed, served, tim, decision>>
<1> DEFINE r == Head(childOut)
<1>1. /\ up /\ childOut # <<>> /\ Answered(r) # NoCall /\ WriteReceipt(r)
      /\ UNCHANGED <<msg, executed, served, tim, decision>>
  BY DEF ReceiptReply, CrashInReply, client, server
<1>2. r.kind = "response"
  BY <1>1 DEF Answered
<1>3. dir \in Dirs
  BY <1>1 DEF Fresh
<1>4. /\ Answered(r) = pending[KeyOf[r.id]] /\ KeyOf[r.id] \in Keys
      /\ Answered(r).tag = r.tag /\ Entry(KeyOf[r.id])
  BY <1>1, <1>2, AnswerFinds
<1>5. r.tag \in executed /\ r.outcome = served[r.tag] /\ r.outcome \in Outcomes
  BY <1>1, <1>2, AnswerArrives
<1> QED
  BY <1>1, <1>2, <1>3, <1>4, <1>5 DEF WriteReceipt

\* Receipts are written nowhere else.
LEMMA ReceiptFrame ==
  ASSUME [Next]_vars
  PROVE  UNCHANGED xr \/ ReceiptReply \/ CrashInReply
BY DEF Next, ProxyInput, ProxyOutput, Server, Lifecycle, vars, disk, Start, CrashInStart,
       ExitWithServer, Crash, ClientSend, ClientClose, ForwardRaw, DenyBatch,
       DenyCall, ForwardCall, CrashInCall, Throw, EndOfInput, Relay, ServerRead,
       ServerReply, ServerPush, ServerExit, ServerCrash

\* What is on disk is not written again.
LEMMA FilesStay ==
  ASSUME KeysApart, TypeOK, WayInv, OfThisRun, Awaited, Fresh, [Next]_vars,
         NEW d \in Dirs, NEW s \in Seqs
  PROVE  /\ decision[d][s] # 0 => decision'[d][s] = decision[d][s]
         /\ \A i \in TimIndex : tim[d][s][i] # 0 => tim'[d][s][i] = tim[d][s][i]
         /\ xr[d][s] # NoReceipt => xr'[d][s] = xr[d][s]
<1>1. /\ decision[d][s] # 0 => decision'[d][s] = decision[d][s]
      /\ \A i \in TimIndex : tim[d][s][i] # 0 => tim'[d][s][i] = tim[d][s][i]
  <2>1. CASE decision'[d][s] = decision[d][s] /\ tim'[d][s] = tim[d][s]
    BY <2>1
  <2>2. CASE up /\ d = dir /\ s = seq
    <3>1. seq \in Nat
      BY DEF TypeOK, EngineTypes
    <3>2. Blank(d, s)
      BY <2>2, <3>1 DEF Fresh
    <3> QED
      BY <3>2 DEF Blank
  <2> QED
    BY <2>1, <2>2, OnlyInTurn
<1>2. ASSUME xr[d][s] # NoReceipt PROVE xr'[d][s] = xr[d][s]
  <2>0. xr \in [Dirs -> [Seqs -> Receipt]]
    BY DEF TypeOK, BundleTypes
  <2>1. CASE UNCHANGED xr
    BY <2>1
  <2>2. CASE ReceiptReply \/ CrashInReply
    <3> DEFINE r == Head(childOut)
               s0 == pending[KeyOf[r.id]].seq
    <3>1. xr[dir][s0] = NoReceipt /\ \E v : xr' = [xr EXCEPT ![dir][s0] = v]
      BY <2>2, ReceiptGoes DEF Entry
    <3>2. ~(d = dir /\ s = s0)
      BY <1>2, <3>1
    <3> HIDE DEF s0
    <3> QED
      BY <2>0, <3>1, <3>2, WriteElsewhere
  <2> QED
    BY <2>1, <2>2, ReceiptFrame
<1> QED
  BY <1>1, <1>2

\* A receipt that is written is the truth, and stays it.
LEMMA FiledStep ==
  ASSUME KeysApart, TypeOK, WayInv, OfThisRun, Awaited, Fresh, Filed, [Next]_vars
  PROVE  Filed'
<1> SUFFICES ASSUME NEW d \in Dirs, NEW s \in Seqs, xr'[d][s] # NoReceipt
             PROVE  LET x == xr'[d][s] IN
                    /\ x.tag \in Sent' /\ decision'[d][s] = x.tag
                    /\ Verdict[msg'[x.tag].load] = "APPROVED"
                    /\ x.tag \in executed' /\ x.outcome = served'[x.tag]
                    /\ x.outcome \in Outcomes
  BY DEF Filed, Approved
<1>0. /\ xr \in [Dirs -> [Seqs -> Receipt]] /\ Sent \subseteq Tags
      /\ served \in [Tags -> OptOutcomes]
  <2>1. Sent \subseteq Tags
    BY ProxyConstants DEF TypeOK, ClientTypes, Sent, Tags
  <2> QED
    BY <2>1 DEF TypeOK, BundleTypes, ServerTypes
<1>1. CASE xr'[d][s] = xr[d][s]
  <2> DEFINE x == xr[d][s]
  <2>1. /\ x.tag \in Sent /\ decision[d][s] = x.tag /\ Approved(x.tag)
        /\ x.tag \in executed /\ x.outcome = served[x.tag] /\ x.outcome \in Outcomes
    BY <1>1 DEF Filed
  <2>2. x.tag \in Sent' /\ msg'[x.tag] = msg[x.tag]
    BY <2>1, SentStep
  <2>3. decision'[d][s] = x.tag
    BY <2>1, FilesStay DEF Sent
  <2>4. executed \subseteq executed' /\ (UNCHANGED served \/ \E u \in Tags : ServerReply(u))
    BY DEF Next, ProxyInput, ProxyOutput, Server, Lifecycle, vars, server, Start,
           CrashInStart, ExitWithServer, Crash, ClientSend, ClientClose, ForwardRaw,
           DenyBatch, DenyCall, ForwardCall, CrashInCall, Throw, EndOfInput, Relay,
           ReceiptReply, CrashInReply, ServerRead, ServerReply, ServerPush, ServerExit,
           ServerCrash
  <2>5. served'[x.tag] = served[x.tag]
    <3>1. ASSUME NEW u \in Tags, ServerReply(u) PROVE served'[x.tag] = served[x.tag]
      <4>1. served[u] = "none" /\ \E o : served' = [served EXCEPT ![u] = o]
        BY <3>1 DEF ServerReply, WayInv, ServedOnce
      <4>2. x.tag # u
        BY <2>1, <4>1 DEF Outcomes
      <4> QED
        BY <1>0, <2>1, <4>1, <4>2
    <3> QED
      BY <2>4, <3>1
  <2> QED
    BY <1>1, <2>1, <2>2, <2>3, <2>4, <2>5 DEF Approved
<1>2. CASE (ReceiptReply \/ CrashInReply) /\ xr'[d][s] # xr[d][s]
  <2> DEFINE r == Head(childOut)
             k == KeyOf[r.id]
             s0 == pending[k].seq
             v == [tag |-> r.tag, outcome |-> r.outcome]
  <2>1. /\ dir \in Dirs /\ Entry(k) /\ pending[k].tag = r.tag
        /\ r.tag \in executed /\ r.outcome = served[r.tag] /\ r.outcome \in Outcomes
        /\ xr' = [xr EXCEPT ![dir][s0] = v]
        /\ UNCHANGED <<msg, executed, served, tim, decision>>
    BY <1>2, ReceiptGoes
  <2>2. d = dir /\ s = s0 /\ xr'[d][s] = v
    <3> HIDE DEF s0, v
    <3> QED
      BY <1>0, <1>2, <2>1, WriteElsewhere
  <2>3. r.tag \in Sent /\ Approved(r.tag) /\ decision[d][s] = r.tag
    BY <2>1, <2>2 DEF Entry
  <2>4. xr'[d][s].tag = r.tag /\ xr'[d][s].outcome = r.outcome
    BY <2>2
  <2>5. /\ r.tag \in Sent' /\ decision'[d][s] = r.tag /\ Verdict[msg'[r.tag].load] = "APPROVED"
        /\ r.tag \in executed' /\ r.outcome = served'[r.tag] /\ r.outcome \in Outcomes
    BY <2>1, <2>3 DEF Approved, Sent
  <2> HIDE DEF r
  <2> QED
    BY <2>4, <2>5
<1> QED
  BY <1>1, <1>2, ReceiptFrame

\* While a run goes on, only two handlers touch the pending map.
LEMMA RunFrame ==
  ASSUME [Next]_vars, up, up'
  PROVE  /\ UNCHANGED <<base, dir>> /\ ~Start /\ (childUp' => childUp)
         /\ UNCHANGED seq \/ (\E t \in Tags : Record(t))
         /\ UNCHANGED pending \/ ForwardCall \/ ReceiptReply
BY DEF Next, ProxyInput, ProxyOutput, Server, Lifecycle, vars, client, server, life, Start,
       CrashInStart, ExitWithServer, Crash, ClientSend, ClientClose, ForwardRaw,
       DenyBatch, DenyCall, ForwardCall, CrashInCall, Throw, EndOfInput, Relay, ReceiptReply,
       CrashInReply, ServerRead, ServerReply, ServerPush, ServerExit, ServerCrash, ProxyGone

\* When the proxy is gone, so is its pending map, and a run starts with none.
LEMMA DownFrame ==
  ASSUME [Next]_vars, ~up \/ ~up'
  PROVE  /\ pending' = [k \in Keys |-> NoCall] \/ (UNCHANGED pending /\ ~up)
         /\ up' => Start
BY DEF Next, ProxyInput, ProxyOutput, Server, Lifecycle, vars, life, Start,
       CrashInStart, ExitWithServer, Crash, ClientSend, ClientClose, ForwardRaw, Takes,
       DenyBatch, DenyCall, ForwardCall, CrashInCall, Throw, EndOfInput, Relay, ReceiptReply,
       CrashInReply, ServerRead, ServerReply, ServerPush, ServerExit, ServerCrash, ProxyGone

\* An entry that is not taken out of the map goes on telling the truth.
LEMMA EntryStays ==
  ASSUME KeysApart, TypeOK, WayInv, OfThisRun, Awaited, Fresh, [Next]_vars, up, up',
         NEW k \in Keys, Entry(k), pending[k] # NoCall, pending'[k] = pending[k]
  PROVE  Entry(k)'
<1> DEFINE t == pending[k].tag
           s == pending[k].seq
<1>1. /\ t \in Sent /\ base < t /\ t <= Handled
      /\ IsCall(t) /\ HasId(t) /\ Approved(t) /\ KeyOf[msg[t].id] = k
      /\ s \in Seqs /\ s < seq /\ decision[dir][s] = t /\ xr[dir][s] = NoReceipt
      /\ childUp => t \in OnTheWay
  BY DEF Entry
<1>2. /\ UNCHANGED <<base, dir>> /\ ~Start /\ (childUp' => childUp) /\ dir \in Dirs
  BY RunFrame DEF Fresh
<1>3. t \in Sent' /\ msg'[t] = msg[t]
  BY <1>1, SentStep
<1>4. t <= Handled'
  <2>1. Handled' >= Handled /\ Handled' \in Nat /\ Handled \in Nat /\ t \in Nat
    BY <1>1, HandledStep DEF WayInv, Sent
  <2> QED
    BY <1>1, <2>1
<1>5. s < seq'
  <2>1. seq' = seq \/ seq' = seq + 1
    BY RunFrame DEF Record
  <2>2. seq \in Nat /\ s \in Nat
    BY <1>1 DEF TypeOK, EngineTypes, Seqs
  <2> QED
    BY <1>1, <2>1, <2>2
<1>6. decision'[dir][s] = t
  BY <1>1, <1>2, FilesStay DEF Sent
<1>7. xr'[dir][s] = NoReceipt
  <2>1. CASE UNCHANGED xr
    BY <1>1, <2>1
  <2>2. CASE ReceiptReply \/ CrashInReply
    <3> DEFINE r == Head(childOut)
               n == KeyOf[r.id]
               s0 == pending[n].seq
    <3>1. /\ n \in Keys /\ Entry(n)
          /\ \E v : xr' = [xr EXCEPT ![dir][s0] = v]
      BY <2>2, ReceiptGoes
    <3>2. n # k
      <4>1. ReceiptReply
        BY <2>2 DEF CrashInReply, ProxyGone
      <4>2. r.kind = "response"
        BY <2>2, ReceiptGoes
      <4>3. pending'[n] = NoCall
        BY <3>1, <4>1 DEF ReceiptReply, TypeOK, EngineTypes
      <4> QED
        BY <4>3
    <3>3. s0 # s
      <4>1. decision[dir][s0] = pending[n].tag /\ KeyOf[msg[pending[n].tag].id] = n
        BY <3>1 DEF Entry
      <4>2. KeyOf[msg[t].id] = k
        BY <1>1 DEF Entry
      <4> QED
        BY <1>1, <3>2, <4>1, <4>2
    <3>4. xr \in [Dirs -> [Seqs -> Receipt]]
      BY DEF TypeOK, BundleTypes
    <3> HIDE DEF s0
    <3>5. xr'[dir][s] = xr[dir][s]
      BY <1>1, <1>2, <3>1, <3>3, <3>4, WriteElsewhere
    <3> QED
      BY <1>1, <3>5
  <2> QED
    BY <2>1, <2>2, ReceiptFrame
<1>8. childUp' => t \in OnTheWay'
  <2> SUFFICES ASSUME childUp', t \notin OnTheWay' PROVE FALSE
    OBVIOUS
  <2>1. t \in OnTheWay /\ HasId(t)
    BY <1>1, <1>2
  <2>2. /\ Relay \/ ReceiptReply
        /\ Head(childOut).kind = "response" /\ Head(childOut).tag = t
    BY <1>2, <2>1, WayKept
  <2>3. childOut # <<>>
    BY <2>2 DEF Relay, ReceiptReply
  <2>4. Answered(Head(childOut)) = pending[k]
    BY <1>1, <2>2, <2>3, AnswerFinds, AnswerArrives
  <2>5. ReceiptReply
    BY <2>2, <2>4 DEF Relay
  <2>6. KeyOf[Head(childOut).id] = k
    BY <1>1, <2>2, <2>3, AnswerArrives
  <2>7. pending'[k] = NoCall
    BY <2>5, <2>6 DEF ReceiptReply, TypeOK, EngineTypes
  <2> QED
    BY <2>7
<1> QED
  BY <1>1, <1>2, <1>3, <1>4, <1>5, <1>6, <1>7, <1>8
     DEF Entry, IsCall, HasId, Approved

\* A call is awaited from when it is forwarded: its entry names its files, and
\* takes nobody else's place.
LEMMA CallAwaited ==
  ASSUME KeysApart, TypeOK, WayInv, OfThisRun, Awaited, Fresh, Filed, [Next]_vars,
         NEW t \in Tags, Takes(t), ForwardCall
  PROVE  /\ HasId(t) =>
              LET k == KeyOf[msg[t].id] IN
              /\ k \in Keys /\ Entry(k)' /\ pending'[k].tag = t
              /\ \A n \in Keys : n # k => pending'[n] = pending[n]
              /\ \A u \in OnTheWay : HasId(u) => KeyOf[msg[u].id] # k
         /\ ~HasId(t) => pending' = pending
<1>0. /\ msg \in Seq(Message) /\ base \in 0..Len(msg) /\ t \in Sent /\ seq \in Nat
      /\ pending \in [Keys -> Pending] /\ t \in Nat
  BY TakesSent DEF TypeOK, ClientTypes, EngineTypes, Tags
<1>1. /\ up /\ IsCall(t) /\ Approved(t) /\ Record(t) /\ Await(t) /\ childIn' = Piped(t)
      /\ UNCHANGED <<msg, base, dir, up, childUp, xr>>
  BY DEF ForwardCall, Takes, client, life, server
<1>2. t = Handled + 1 /\ Handled' = t /\ base <= Handled /\ Handled \in Nat /\ base < t
  <2>1. t = Handled + 1 /\ Handled' = t /\ Handled \in Nat
    BY <1>1, TakesNext, HandledStep DEF WayInv
  <2> QED
    BY <1>0, <2>1 DEF OfThisRun
<1>3. CASE ~HasId(t)
  BY <1>1, <1>3 DEF Await
<1>4. CASE HasId(t)
  <2> DEFINE k == KeyOf[msg[t].id]
  <2>1. msg[t].id \in Ids /\ k \in Keys
    <3>1. msg[t] \in Message
      BY <1>0 DEF Sent
    <3> QED
      BY <1>4, <3>1, ProxyConstants DEF Message, HasId
  <2>2. /\ pending' = [pending EXCEPT ![k] = [tag |-> t, seq |-> seq]]
    BY <1>1, <1>4 DEF Await
  <2>3. /\ pending'[k] = [tag |-> t, seq |-> seq]
        /\ \A n \in Keys : n # k => pending'[n] = pending[n]
    BY <1>0, <2>1, <2>2
  <2>4. /\ dir \in Dirs /\ seq \in Seqs /\ decision'[dir][seq] = t
    BY <1>1, RecordComplete
  <2>5. xr'[dir][seq] = NoReceipt
    <3>1. Blank(dir, seq)
      BY <1>0, <1>1, <2>4 DEF Fresh
    <3> QED
      BY <1>1, <2>4, <3>1, BlankUnreceipted
  <2>6. seq < seq'
    BY <1>0, <1>1 DEF Record
  <2>7. childUp' => t \in OnTheWay'
    <3>1. ASSUME childUp PROVE childIn' = Append(childIn, t) /\ childIn \in Seq(Sent)
      BY <1>1, <3>1 DEF Piped, TypeOK, PipeTypes
    <3>2. ASSUME childUp PROVE \E j \in DOMAIN childIn' : childIn'[j] = t
      <4>1. Len(childIn) + 1 \in DOMAIN childIn' /\ childIn'[Len(childIn) + 1] = t
        BY <1>0, <3>1, <3>2
      <4> QED
        BY <4>1
    <3> QED
      BY <1>1, <3>2 DEF OnTheWay
  <2>8. Entry(k)'
    BY <1>0, <1>1, <1>2, <1>4, <2>3, <2>4, <2>5, <2>6, <2>7
       DEF Entry, IsCall, HasId, Approved, Sent
  <2>9. ASSUME NEW u \in OnTheWay, HasId(u), KeyOf[msg[u].id] = k PROVE FALSE
    <3>1. u \in Sent /\ u <= Handled /\ base < u
      BY <1>1, WayHandled DEF OfThisRun
    <3>2. msg[u].id \in Ids
      <4>1. msg[u] \in Message
        BY <1>0, <3>1 DEF Sent
      <4> QED
        BY <2>9, <4>1 DEF Message, HasId
    <3>3. msg[u].id = msg[t].id
      BY <2>1, <2>9, <3>2 DEF KeysApart
    <3>4. u \in ThisRun /\ t \in ThisRun
      BY <1>0, <1>2, <3>1 DEF ThisRun, Sent
    <3>5. u = t
      BY <2>9, <3>3, <3>4 DEF OfThisRun
    <3> QED
      BY <1>2, <3>1, <3>5
  <2> QED
    BY <1>4, <2>1, <2>3, <2>8, <2>9
<1> QED
  BY <1>3, <1>4

\* The answer's handler takes out the entry of the call that was answered, and no other.
LEMMA CallAnswered ==
  ASSUME KeysApart, TypeOK, WayInv, OfThisRun, Awaited, Fresh, [Next]_vars, ReceiptReply
  PROVE  LET k == KeyOf[Head(childOut).id] IN
         /\ k \in Keys /\ pending'[k] = NoCall
         /\ \A n \in Keys : n # k => pending'[n] = pending[n]
         /\ \A t \in OnTheWay' : /\ t \in OnTheWay
                                 /\ (IsCall(t) /\ HasId(t)) => KeyOf[msg[t].id] # k
<1> DEFINE r == Head(childOut)
           k == KeyOf[r.id]
<1>1. /\ up /\ childOut # <<>> /\ r.kind = "response" /\ k \in Keys
      /\ pending[k].tag = r.tag
  BY ReceiptGoes
<1>2. pending \in [Keys -> Pending] /\ pending' = [pending EXCEPT ![k] = NoCall]
  BY DEF ReceiptReply, TypeOK, EngineTypes
<1>3. OnTheWay' = OnTheWay \ {r.tag}
  BY <1>1, AnswerArrives
<1>4. ASSUME NEW t \in OnTheWay, t # r.tag, IsCall(t), HasId(t)
      PROVE  KeyOf[msg[t].id] # k
  BY <1>1, <1>4 DEF Awaited
<1> QED
  BY <1>1, <1>2, <1>3, <1>4

\* The map holds what is on its way, and nothing else, after every step.
LEMMA AwaitedStep ==
  ASSUME KeysApart, TypeOK, WayInv, OfThisRun, Awaited, Fresh, Filed, [Next]_vars
  PROVE  Awaited'
<1>0. pending \in [Keys -> Pending] /\ TypeOK' /\ OnTheWay \subseteq Sent
  BY TypeStep, WayHandled DEF TypeOK, EngineTypes
<1>1. CASE ~up'
  <2>1. pending' = [k \in Keys |-> NoCall]
    BY <1>1, DownFrame DEF Awaited
  <2> QED
    BY <1>1, <2>1 DEF Awaited
<1>2. CASE up' /\ ~up
  <2>1. Start
    BY <1>2, DownFrame
  <2>2. pending' = [k \in Keys |-> NoCall] /\ OnTheWay' = {}
    BY <2>1 DEF Start, OnTheWay, Answers
  <2> QED
    BY <1>2, <2>2 DEF Awaited
<1>3. CASE up /\ up'
  <2>0. \A t \in OnTheWay : msg'[t] = msg[t]
    BY <1>0, SentStep
  <2>1. ASSUME NEW k \in Keys, pending'[k] = pending[k]
        PROVE  (pending[k] = NoCall \/ Entry(k))'
    <3>1. CASE pending[k] = NoCall
      BY <2>1, <3>1 DEF NoCall
    <3>2. CASE pending[k] # NoCall
      <4>1. Entry(k)
        BY <1>3, <3>2 DEF Awaited
      <4> QED
        BY <1>3, <2>1, <3>2, <4>1, EntryStays
    <3> QED
      BY <3>1, <3>2
  <2>2. CASE ForwardCall
    <3>1. PICK t \in Tags : Takes(t) /\ IsCall(t)
      BY <2>2 DEF ForwardCall
    <3>2. /\ HasId(t) =>
               LET k == KeyOf[msg[t].id] IN
               /\ k \in Keys /\ Entry(k)' /\ pending'[k].tag = t
               /\ \A n \in Keys : n # k => pending'[n] = pending[n]
               /\ \A u \in OnTheWay : HasId(u) => KeyOf[msg[u].id] # k
          /\ ~HasId(t) => pending' = pending
      BY <2>2, <3>1, CallAwaited
    <3>3. ASSUME NEW n \in Keys PROVE (pending[n] = NoCall \/ Entry(n))'
      <4>1. msg' = msg
        BY <2>2 DEF ForwardCall, client
      <4>2. CASE HasId(t) /\ n = KeyOf[msg[t].id]
        BY <3>2, <4>1, <4>2
      <4>3. CASE ~(HasId(t) /\ n = KeyOf[msg[t].id])
        BY <2>1, <3>2, <4>3
      <4> QED
        BY <4>2, <4>3
    <3>4. \A u \in OnTheWay' : u \in OnTheWay \/ u = t
      <4>1. ~ForwardRaw \/ IsCall(t)
        BY <3>1
      <4>2. \A u \in Tags : Takes(u) => u = t
        BY <3>1 DEF Takes
      <4> QED
        BY <4>2, WaySetsOut
    <3>5. msg' = msg
      BY <2>2 DEF ForwardCall, client
    <3>6. ASSUME NEW u \in OnTheWay', IsCall(u), HasId(u)
          PROVE  pending'[KeyOf[msg[u].id]].tag = u
      <4>1. CASE u = t
        BY <3>2, <3>6, <4>1
      <4>2. CASE u \in OnTheWay
        <5>1. pending[KeyOf[msg[u].id]].tag = u /\ KeyOf[msg[u].id] \in Keys
          <6>1. msg[u] \in Message
            BY <1>0, <4>2 DEF TypeOK, ClientTypes, Sent
          <6>2. KeyOf[msg[u].id] \in Keys
            BY <3>6, <6>1, ProxyConstants DEF HasId, Message
          <6> QED
            BY <1>3, <3>6, <4>2, <6>2 DEF Awaited
        <5> QED
          BY <3>2, <3>6, <4>2, <5>1
      <4> QED
        BY <3>4, <4>1, <4>2
    <3> QED
      BY <1>3, <3>3, <3>5, <3>6 DEF Awaited, IsCall, HasId
  <2>3. CASE ReceiptReply
    <3> DEFINE k == KeyOf[Head(childOut).id]
    <3>1. /\ k \in Keys /\ pending'[k] = NoCall
          /\ \A n \in Keys : n # k => pending'[n] = pending[n]
          /\ \A t \in OnTheWay' : /\ t \in OnTheWay
                                  /\ (IsCall(t) /\ HasId(t)) => KeyOf[msg[t].id] # k
      BY <2>3, CallAnswered
    <3>2. \A n \in Keys : (pending[n] = NoCall \/ Entry(n))'
      <4>1. ASSUME NEW n \in Keys, n # k PROVE (pending[n] = NoCall \/ Entry(n))'
        BY <2>1, <3>1, <4>1
      <4>2. ASSUME NEW n \in Keys, n = k PROVE (pending[n] = NoCall)'
        BY <3>1, <4>2 DEF NoCall
      <4> QED
        BY <4>1, <4>2
    <3>3. msg' = msg
      BY <2>3 DEF ReceiptReply, client
    <3>4. ASSUME NEW u \in OnTheWay', IsCall(u), HasId(u)
          PROVE  pending'[KeyOf[msg[u].id]].tag = u
      <4>1. u \in OnTheWay /\ KeyOf[msg[u].id] # k /\ u \in Sent
        BY <1>0, <3>1, <3>4
      <4>2. msg[u] \in Message
        BY <4>1 DEF TypeOK, ClientTypes, Sent
      <4>3. KeyOf[msg[u].id] \in Keys
        BY <3>4, <4>2, ProxyConstants DEF HasId, Message
      <4> QED
        BY <1>3, <3>1, <3>4, <4>1, <4>3 DEF Awaited
    <3> QED
      BY <1>3, <3>2, <3>3, <3>4 DEF Awaited, IsCall, HasId
  <2>4. CASE UNCHANGED pending /\ ~ForwardCall
    <3>1. \A k \in Keys : (pending[k] = NoCall \/ Entry(k))'
      BY <2>1, <2>4
    <3>2. ASSUME NEW t \in OnTheWay', IsCall(t)', HasId(t)'
          PROVE  pending'[KeyOf[msg'[t].id]].tag = t
      <4>1. CASE t \in OnTheWay
        BY <1>3, <2>0, <2>4, <3>2, <4>1 DEF Awaited, IsCall, HasId
      <4>2. CASE t \notin OnTheWay
        <5>1. ForwardRaw /\ ~IsCall(t)
          BY <2>4, <3>2, <4>2, WaySetsOut
        <5>2. msg' = msg
          BY <5>1 DEF ForwardRaw, client
        <5> QED
          BY <3>2, <5>1, <5>2 DEF IsCall
      <4> QED
        BY <4>1, <4>2
    <3> QED
      BY <1>3, <3>1, <3>2 DEF Awaited
  <2> QED
    BY <1>3, <2>2, <2>3, <2>4, RunFrame
<1> QED
  BY <1>1, <1>2, <1>3

-----------------------------------------------------------------------------
(* What the books say *)

\* What the proxy knows of its calls, in memory and on disk.
Books == OfThisRun /\ Fresh /\ Awaited /\ Filed

\* Holds when every run writes to a directory of its own and String() tells the ids
\* of a run apart.
LEMMA BooksHold ==
  ASSUME ~ReuseOut, KeysApart
  PROVE  Spec => []Books
<1>1. Init => Books
  <2> SUFFICES ASSUME Init PROVE Books
    OBVIOUS
  <2>1. OfThisRun
    BY DEF Init, OfThisRun, Handled, ThisRun
  <2>2. Fresh
    BY DEF Init, Fresh, Blank
  <2>3. Awaited
    BY DEF Init, Awaited
  <2>4. Filed
    BY DEF Init, Filed
  <2> QED
    BY <2>1, <2>2, <2>3, <2>4 DEF Books
<1>2. TypeOK /\ WayInv /\ Books /\ [Next]_vars => Books'
  BY ThisRunStep, FreshStep, AwaitedStep, FiledStep DEF Books
<1> QED
  BY <1>1, <1>2, TypeCorrect, WayHolds, PTL DEF Spec

\* Whatever crashes, restarts and orders of answers: a receipt stands beside the
\* decision it names, that decision approved the call, and the outcome in it is the
\* one the server gave to this very call (proxy.ts finds the call by the answer's id).
THEOREM ReceiptsTrue ==
  ASSUME ~ReuseOut, KeysApart
  PROVE  Spec => []ReceiptIsTrue
<1>1. Books => ReceiptIsTrue
  BY DEF Books, Filed, ReceiptIsTrue, NoReceipt
<1> QED
  BY <1>1, BooksHold, PTL

\* While proxy and server live, the pending map holds exactly the calls in flight,
\* each under its own key and with the number of its files.
THEOREM PendingExact ==
  ASSUME ~ReuseOut, KeysApart
  PROVE  Spec => []PendingIsInFlight
<1>1. TypeOK /\ WayInv /\ Books => PendingIsInFlight
  <2> SUFFICES ASSUME TypeOK, WayInv, Books, up, childUp
               PROVE  /\ {pending[k].tag : k \in Keys} \ {0} = InFlight
                      /\ \A t \in InFlight :
                           LET p == pending[KeyOf[msg[t].id]] IN
                           p.tag = t /\ decision[dir][p.seq] = t
    BY DEF PendingIsInFlight
  <2>0. msg \in Seq(Message) /\ base \in 0..Len(msg)
    BY DEF TypeOK, ClientTypes
  <2>1. InFlight = {t \in OnTheWay : IsCall(t) /\ HasId(t)}
    <3>1. \A t \in OnTheWay : t \in Sent /\ base < t
      BY WayHandled DEF Books, OfThisRun
    <3>2. \A t \in OnTheWay : t \in ThisRun
      BY <2>0, <3>1 DEF ThisRun, Sent
    <3> QED
      BY <3>2 DEF InFlight, OnTheWay, Answers
  <2>2. ASSUME NEW t \in InFlight
        PROVE  /\ KeyOf[msg[t].id] \in Keys /\ pending[KeyOf[msg[t].id]].tag = t
               /\ decision[dir][pending[KeyOf[msg[t].id]].seq] = t /\ t # 0
    <3>1. t \in OnTheWay /\ t \in Sent /\ IsCall(t) /\ HasId(t)
      BY <2>1, WayHandled
    <3>2. KeyOf[msg[t].id] \in Keys
      <4>1. msg[t] \in Message
        BY <2>0, <3>1 DEF Sent
      <4> QED
        BY <3>1, <4>1, ProxyConstants DEF HasId, Message
    <3>3. pending[KeyOf[msg[t].id]].tag = t /\ t # 0
      BY <3>1 DEF Books, Awaited, Sent
    <3> QED
      BY <3>2, <3>3 DEF Books, Awaited, Entry, NoCall
  <2>3. ASSUME NEW k \in Keys, pending[k].tag # 0 PROVE pending[k].tag \in InFlight
    BY <2>1, <2>3 DEF Books, Awaited, Entry, NoCall
  <2> QED
    BY <2>2, <2>3
<1> QED
  BY <1>1, BooksHold, TypeCorrect, WayHolds, PTL

\* No client holds the server's answer to a tool call of which there is no receipt,
\* whenever the proxy dies (proxy.ts writes the receipt, then the line).
THEOREM AnswersReceipted ==
  ASSUME ~ReuseOut, KeysApart
  PROVE  Spec => []AnswerHasReceipt
<1>1. Init => AnswerHasReceipt
  BY DEF Init, AnswerHasReceipt
<1>2. TypeOK /\ WayInv /\ Books /\ AnswerHasReceipt /\ [Next]_vars => AnswerHasReceipt'
  <2> SUFFICES ASSUME TypeOK, WayInv, Books, AnswerHasReceipt, [Next]_vars,
                      NEW t \in replied', IsCall(t)'
               PROVE  \E d \in Dirs, s \in Seqs : xr'[d][s].tag = t
    BY DEF AnswerHasReceipt
  <2> USE DEF Books
  <2>1. CASE t \in replied
    <3>1. t \in Sent /\ t # 0
      BY <2>1 DEF WayInv, ServedOnce, TypeOK, ServerTypes, Sent
    <3>2. PICK d \in Dirs, s \in Seqs : xr[d][s].tag = t
      BY <2>1, <3>1, SentStep DEF AnswerHasReceipt, IsCall
    <3>3. xr'[d][s] = xr[d][s]
      BY <3>1, <3>2, FilesStay DEF NoReceipt
    <3> QED
      BY <3>2, <3>3
  <2>2. CASE t \notin replied
    <3> DEFINE r == Head(childOut)
               k == KeyOf[r.id]
    <3>1. /\ Relay \/ ReceiptReply
          /\ r.kind = "response" /\ t = r.tag /\ childOut # <<>> /\ up /\ msg' = msg
      BY <2>2 DEF Next, ProxyInput, ProxyOutput, Server, Lifecycle, vars, shown, client, Start,
                  CrashInStart, ExitWithServer, Crash, ClientSend, ClientClose, ForwardRaw,
                  DenyBatch, DenyCall, ForwardCall, CrashInCall, Throw, EndOfInput, Relay,
                  ReceiptReply, CrashInReply, ServerRead, ServerReply, ServerPush,
                  ServerExit, ServerCrash, Shown
    <3>2. IsCall(t)
      BY <3>1 DEF IsCall
    <3>3. ReceiptReply
      BY <3>1, <3>2, AnswerFinds DEF Relay
    <3>4. /\ dir \in Dirs /\ Entry(k)
          /\ xr' = [xr EXCEPT ![dir][pending[k].seq] = [tag |-> r.tag, outcome |-> r.outcome]]
      BY <3>3, ReceiptGoes
    <3>5. xr \in [Dirs -> [Seqs -> Receipt]]
      BY DEF TypeOK, BundleTypes
    <3>6. pending[k].seq \in Seqs
      BY <3>4 DEF Entry
    <3>7. xr'[dir][pending[k].seq] = [tag |-> r.tag, outcome |-> r.outcome]
      BY <3>4, <3>5, <3>6, WriteElsewhere
    <3> QED
      <4>1. xr'[dir][pending[k].seq].tag = t
        BY <3>1, <3>7
      <4> QED
        BY <3>4, <3>6, <4>1
  <2> QED
    BY <2>1, <2>2
<1> QED
  BY <1>1, <1>2, BooksHold, TypeCorrect, WayHolds, PTL DEF Spec

\* Nothing that is in a bundle is ever written again: no evidence, no decision and no
\* receipt, by any run.
THEOREM NothingReplaced ==
  ASSUME ~ReuseOut, KeysApart
  PROVE  Spec => BundleAppendOnly
<1> DEFINE Kept == \A d \in Dirs, s \in Seqs :
                     /\ decision[d][s] # 0 => decision'[d][s] = decision[d][s]
                     /\ xr[d][s] # NoReceipt => xr'[d][s] = xr[d][s]
                     /\ \A i \in TimIndex :
                          tim[d][s][i] # 0 => tim'[d][s][i] = tim[d][s][i]
<1>1. TypeOK /\ WayInv /\ Books /\ [Next]_vars => [Kept]_disk
  BY FilesStay DEF Books
<1> HIDE DEF Kept
<1>2. Spec => [][Kept]_disk
  BY <1>1, BooksHold, TypeCorrect, WayHolds, PTL DEF Spec
<1> QED
  BY <1>2 DEF BundleAppendOnly, Kept

-----------------------------------------------------------------------------
(* What a crash does to a bundle *)

\* The files of a call are whole, or torn by a crash: evidence with no decision, and
\* nothing after it.
Whole(d, s) == decision[d][s] \in Sent /\ Found(d, s) = Cited(d, s)
Torn(d, s) ==
  /\ decision[d][s] = 0 /\ tim[d][s][0] # 0
  /\ ~(up /\ d = dir) /\ d <= runs
  /\ \A later \in Seqs : later > s => Blank(d, later)

\* Every number is blank, whole or torn; a header is whole before a call is filed.
Damage ==
  /\ \A d \in Dirs, s \in Seqs : Blank(d, s) \/ Whole(d, s) \/ Torn(d, s)
  /\ \A d \in Dirs : d > runs => header[d] = "absent"
  /\ \A d \in Dirs : header[d] # "complete" => \A s \in Seqs : Blank(d, s)
  /\ up => header[dir] = "complete"

\* What a handler that dies in the middle leaves of its call.
LEMMA CallTorn ==
  ASSUME TypeOK, Fresh, [Next]_vars, CrashInCall,
         NEW d \in Dirs, NEW s \in Seqs, d = dir, s = seq
  PROVE  Whole(d, s)' \/ Torn(d, s)'
<1> DEFINE T == [TimIndex -> OptTags]
<1>0. /\ tim \in [Dirs -> [Seqs -> T]] /\ decision \in [Dirs -> [Seqs -> OptTags]]
      /\ stdin \in Seq(Sent) /\ msg \in Seq(Message) /\ runs \in 0..MaxRuns
  BY DEF TypeOK, BundleTypes, PipeTypes, ClientTypes, EngineTypes
<1>1. PICK t \in Tags, k \in 1..MaxTims + 1 :
        /\ up /\ stdin # <<>> /\ t = Head(stdin) /\ k <= TimCount[msg[t].load] + 1
        /\ tim' = [tim EXCEPT ![dir][seq] =
                     TimsOf(t, IF k > TimCount[msg[t].load] THEN k - 1 ELSE k)]
        /\ decision' = IF k = TimCount[msg[t].load] + 1
                       THEN [decision EXCEPT ![dir][seq] = t] ELSE decision
  BY DEF CrashInCall
<1>2. ~up' /\ runs' = runs /\ s \in Nat /\ UNCHANGED msg /\ up /\ d = runs
  BY DEF CrashInCall, ProxyGone, Seqs, Fresh
<1> DEFINE n == TimCount[msg[t].load]
           m == IF k > n THEN k - 1 ELSE k
<1>3. t \in Sent /\ n \in 1..MaxTims /\ t # 0
  <2>1. t \in Sent
    BY <1>0, <1>1, TailStays
  <2>2. msg[t] \in Message
    BY <1>0, <2>1 DEF Sent
  <2> QED
    BY <2>1, <2>2, ProxyConstants DEF Message, Tags
<1>4. m \in 1..n /\ (k = n + 1 => m = n)
  BY <1>1, <1>3
<1>5. tim'[d][s] = TimsOf(t, m) /\ Blank(d, s)
  <2>1. tim' = [tim EXCEPT ![dir][seq] = TimsOf(t, m)]
    BY <1>1
  <2> HIDE DEF T, m
  <2>2. tim'[d][s] = TimsOf(t, m)
    BY <1>0, <2>1, WriteElsewhere
  <2> QED
    BY <1>1, <1>2, <2>2 DEF Fresh
<1>6. \A i \in TimIndex : tim'[d][s][i] = IF i < m THEN t ELSE 0
  BY <1>5 DEF TimsOf, Blank
<1>7. CASE k = n + 1
  <2>1. decision'[d][s] = t
    <3>1. decision' = [decision EXCEPT ![dir][seq] = t]
      BY <1>1, <1>7
    <3> QED
      BY <1>0, <3>1, WriteElsewhere
  <2>2. {j \in TimIndex : tim'[d][s][j] # 0} = 0..n - 1
    BY <1>3, <1>4, <1>6, <1>7, ProxyConstants DEF TimIndex
  <2>3. Found(d, s)' = {<<t, i>> : i \in 0..n - 1}
    <3>1. Found(d, s)' = {<<tim'[d][s][i], i>> : i \in 0..n - 1}
      BY <1>2, <2>2 DEF Found
    <3>2. \A i \in 0..n - 1 : tim'[d][s][i] = t
      BY <1>3, <1>4, <1>6, <1>7, ProxyConstants DEF TimIndex
    <3> QED
      BY <3>1, <3>2
  <2> QED
    BY <1>2, <1>3, <2>1, <2>3 DEF Whole, Cited, Sent
<1>8. CASE k # n + 1
  <2>1. decision'[d][s] = 0
    BY <1>1, <1>5, <1>8 DEF Blank
  <2>2. tim'[d][s][0] # 0
    BY <1>3, <1>4, <1>6, ProxyConstants DEF TimIndex
  <2>3. ASSUME NEW later \in Seqs, later > s PROVE Blank(d, later)'
    <3>1. Blank(d, later) /\ later # s
      BY <1>2, <2>3 DEF Fresh, Seqs
    <3> QED
      BY <3>1, OnlyInTurn DEF Blank
  <2> QED
    BY <1>2, <2>1, <2>2, <2>3 DEF Torn, Dirs
<1> QED
  BY <1>7, <1>8

\* The evidence and the decisions are written by the handlers of a tools/call only.
LEMMA CallFrame ==
  ASSUME [Next]_vars
  PROVE  \/ UNCHANGED <<decision, tim>>
         \/ CrashInCall
         \/ \E t \in Tags : Takes(t) /\ IsCall(t) /\ Record(t) /\ UNCHANGED msg
BY DEF Next, ProxyInput, ProxyOutput, Server, Lifecycle, vars, disk, client, Start,
       CrashInStart, ExitWithServer, Crash, ClientSend, ClientClose, ForwardRaw,
       DenyBatch, DenyCall, ForwardCall, Throw, EndOfInput, Relay, ReceiptReply,
       CrashInReply, ServerRead, ServerReply, ServerPush, ServerExit, ServerCrash

\* The command line writes the header of the run's directory, and nothing else does.
LEMMA HeaderFrame ==
  ASSUME ~ReuseOut, TypeOK, [Next]_vars
  PROVE  \/ /\ UNCHANGED <<header, runs>> /\ (up' => up /\ dir' = dir)
         \/ /\ ~up /\ runs' = runs + 1 /\ dir' = runs + 1 /\ runs + 1 \in Dirs
            /\ \A d \in Dirs : d # runs + 1 => header'[d] = header[d]
            /\ up' => header'[runs + 1] = "complete"
<1>0. header \in [Dirs -> {"absent", "partial", "complete"}] /\ runs \in 0..MaxRuns
  BY DEF TypeOK, BundleTypes, EngineTypes
<1>1. CASE Start
  <2>1. /\ ~up /\ runs < MaxRuns /\ dir' = runs + 1 /\ runs' = runs + 1
        /\ header' = [header EXCEPT ![runs + 1] = "complete"]
    BY <1>1 DEF Start, OutDir
  <2>2. runs + 1 \in Dirs
    BY <1>0, <2>1, ProxyConstants DEF Dirs
  <2> QED
    BY <1>0, <2>1, <2>2
<1>2. CASE CrashInStart
  <2>1. /\ ~up /\ ~up' /\ runs < MaxRuns /\ dir' = runs + 1 /\ runs' = runs + 1
        /\ \E v : header' = [header EXCEPT ![runs + 1] = v]
    BY <1>2 DEF CrashInStart, OutDir
  <2>2. runs + 1 \in Dirs
    BY <1>0, <2>1, ProxyConstants DEF Dirs
  <2> QED
    BY <1>0, <2>1, <2>2
<1>3. CASE ~Start /\ ~CrashInStart
  BY <1>3 DEF Next, ProxyInput, ProxyOutput, Server, Lifecycle, vars, disk, life,
              ExitWithServer, Crash, ClientSend, ClientClose, ForwardRaw, DenyBatch,
              DenyCall, ForwardCall, CrashInCall, Throw, EndOfInput, Relay, ReceiptReply,
              CrashInReply, ServerRead, ServerReply, ServerPush, ServerExit, ServerCrash,
              ProxyGone
<1> QED
  BY <1>1, <1>2, <1>3

\* A step writes whole files or dies over them, and leaves what others wrote.
LEMMA DamageStep ==
  ASSUME ~ReuseOut, TypeOK, Fresh, Damage, [Next]_vars
  PROVE  Damage'
<1>0. /\ runs \in Nat /\ seq \in Nat /\ \A d \in Dirs : d \in Nat
  BY DEF TypeOK, EngineTypes, Dirs
<1>h. \/ /\ UNCHANGED <<header, runs>> /\ (up' => up /\ dir' = dir)
      \/ /\ ~up /\ runs' = runs + 1 /\ dir' = runs + 1 /\ runs + 1 \in Dirs
         /\ \A d \in Dirs : d # runs + 1 => header'[d] = header[d]
         /\ up' => header'[runs + 1] = "complete"
  BY HeaderFrame
<1>1. ASSUME NEW d \in Dirs, NEW s \in Seqs
      PROVE  (Blank(d, s) \/ Whole(d, s) \/ Torn(d, s))'
  <2>1. CASE ~(up /\ d = dir /\ s = seq)
    <3>0. decision'[d][s] = decision[d][s] /\ tim'[d][s] = tim[d][s]
      BY <2>1, OnlyInTurn
    <3>1. CASE Blank(d, s)
      BY <3>0, <3>1 DEF Blank
    <3>2. CASE Whole(d, s)
      <4>1. Found(d, s)' = Cited(d, s)' /\ decision'[d][s] \in Sent'
        BY <3>0, <3>2, RecordKept, SentStep DEF Whole
      <4> QED
        BY <4>1 DEF Whole
    <3>3. CASE Torn(d, s)
      <4>1. ~(up' /\ d = dir') /\ d <= runs'
        BY <1>0, <1>h, <3>3 DEF Torn
      <4>2. ASSUME NEW later \in Seqs, later > s PROVE Blank(d, later)'
        <5>1. Blank(d, later) /\ ~(up /\ d = dir)
          BY <3>3, <4>2 DEF Torn
        <5> QED
          BY <5>1, OnlyInTurn DEF Blank
      <4> QED
        BY <3>0, <3>3, <4>1, <4>2 DEF Torn
    <3> QED
      BY <3>1, <3>2, <3>3 DEF Damage
  <2>2. CASE up /\ d = dir /\ s = seq
    <3>1. CASE UNCHANGED <<decision, tim>>
      BY <1>0, <2>2, <3>1 DEF Fresh, Blank
    <3>2. CASE CrashInCall
      BY <2>2, <3>2, CallTorn
    <3>3. ASSUME NEW t \in Tags, Takes(t), IsCall(t), Record(t), UNCHANGED msg
          PROVE  Whole(d, s)'
      <4>1. decision'[d][s] = t /\ Found(d, s)' = Cited(d, s)'
        BY <2>2, <3>3, RecordComplete
      <4>2. t \in Sent'
        BY <3>3, TakesSent, SentStep
      <4> QED
        BY <4>1, <4>2 DEF Whole
    <3> QED
      BY <3>1, <3>2, <3>3, CallFrame
  <2> QED
    BY <2>1, <2>2
<1>2. \A d \in Dirs : d > runs' => header'[d] = "absent"
  BY <1>0, <1>h DEF Damage
<1>3. ASSUME NEW d \in Dirs, header'[d] # "complete", NEW s \in Seqs PROVE Blank(d, s)'
  <2>1. Blank(d, s) /\ ~(up /\ d = dir)
    BY <1>0, <1>3, <1>h DEF Damage, Fresh
  <2> QED
    BY <2>1, OnlyInTurn DEF Blank
<1>4. up' => header'[dir'] = "complete"
  BY <1>h DEF Damage
<1> QED
  BY <1>1, <1>2, <1>3, <1>4 DEF Damage

\* The verifier finds nothing under a blank number and nothing under a whole one, and
\* one thing under a torn one.
LEMMA VerifierReads ==
  ASSUME TypeOK, Fresh, Filed, NEW d \in Dirs, NEW s \in Seqs
  PROVE  /\ (Blank(d, s) \/ Whole(d, s)) => VerifyCall(d, s) = {}
         /\ Torn(d, s) => VerifyCall(d, s) = {"missing decision"}
         /\ Blank(d, s) => Found(d, s) = {}
<1>0. xr[d][s] \in Receipt /\ 0 \in TimIndex
  BY ProxyConstants DEF TypeOK, BundleTypes, TimIndex
<1>1. ASSUME Blank(d, s) PROVE Found(d, s) = {}
  BY <1>1 DEF Blank, Found
<1>2. ASSUME Blank(d, s) PROVE VerifyCall(d, s) = {}
  <2>1. xr[d][s].tag = 0
    BY <1>2, BlankUnreceipted DEF NoReceipt
  <2> QED
    BY <1>1, <1>2, <2>1 DEF Blank, VerifyCall, If
<1>3. ASSUME Torn(d, s) PROVE VerifyCall(d, s) = {"missing decision"}
  <2>1. <<tim[d][s][0], 0>> \in Found(d, s)
    BY <1>0, <1>3 DEF Torn, Found
  <2> QED
    BY <1>3, <2>1 DEF Torn, VerifyCall, If
<1>4. ASSUME Whole(d, s) PROVE VerifyCall(d, s) = {}
  <2> DEFINE D == decision[d][s]
  <2>1. D \in Sent /\ D # 0 /\ Found(d, s) = Cited(d, s)
    BY <1>4 DEF Whole, Sent
  <2>2. tim[d][s][0] = D
    <3>1. msg[D] \in Message
      BY <2>1 DEF TypeOK, ClientTypes, Sent
    <3>2. TimCount[msg[D].load] \in 1..MaxTims
      BY <3>1, ProxyConstants DEF Message
    <3>3. <<D, 0>> \in Cited(d, s)
      BY <3>2, ProxyConstants DEF Cited
    <3> QED
      BY <2>1, <3>3 DEF Found
  <2>3. ASSUME xr[d][s].tag # 0 PROVE ReceiptErrors(d, s) = {}
    <3>1. xr[d][s].tag = D /\ Approved(D)
      BY <2>3 DEF Filed, NoReceipt
    <3>2. \A p : If(p, ~Approved(D)) = {} /\ If(p, xr[d][s].tag # D) = {} /\ If(p, D = 0) = {}
                 /\ If(p, D # 0 /\ msg[D].load # msg[D].load) = {}
      BY <2>1, <3>1 DEF If
    <3> QED
      BY <2>2, <3>1, <3>2 DEF ReceiptErrors
  <2> QED
    BY <2>1, <2>3 DEF VerifyCall, If
<1> QED
  BY <1>1, <1>2, <1>3, <1>4

\* The verifier never blames more on a crash than the crash did: at most the last call
\* of a bundle is torn, and it says just that; no call stands under a torn header; and
\* what a living proxy writes verifies clean (verify.test.ts: "a freshly written bundle
\* verifies clean").
THEOREM DamageStaysLocal ==
  ASSUME ~ReuseOut, KeysApart
  PROVE  Spec => []DamageIsLocal
<1>1. Init => Damage
  BY DEF Init, Damage, Blank
<1>2. TypeOK /\ Books /\ Damage /\ [Next]_vars => Damage'
  BY DamageStep DEF Books
<1>3. TypeOK /\ Books /\ Damage => DamageIsLocal
  <2> SUFFICES ASSUME TypeOK, Fresh, Filed, Damage, NEW d \in Dirs
               PROVE  /\ up /\ d = dir =>
                           VerifyHeader(d) = {} /\ \A s \in Seqs : VerifyCall(d, s) = {}
                      /\ \A s \in Seqs : VerifyCall(d, s) # {} =>
                           /\ VerifyCall(d, s) = {"missing decision"}
                           /\ \A later \in Seqs : later > s => Found(d, later) = {}
                      /\ VerifyHeader(d) # {} => \A s \in Seqs : Found(d, s) = {}
    BY DEF DamageIsLocal, Books
  <2>1. ASSUME up, d = dir
        PROVE  VerifyHeader(d) = {} /\ \A s \in Seqs : VerifyCall(d, s) = {}
    <3>1. VerifyHeader(d) = {}
      BY <2>1 DEF Damage, VerifyHeader, If
    <3>2. \A s \in Seqs : Blank(d, s) \/ Whole(d, s)
      BY <2>1 DEF Damage, Torn
    <3> QED
      BY <3>1, <3>2, VerifierReads
  <2>2. ASSUME NEW s \in Seqs, VerifyCall(d, s) # {}
        PROVE  /\ VerifyCall(d, s) = {"missing decision"}
               /\ \A later \in Seqs : later > s => Found(d, later) = {}
    <3>1. Torn(d, s)
      BY <2>2, VerifierReads DEF Damage
    <3> QED
      BY <3>1, VerifierReads DEF Torn
  <2>3. ASSUME VerifyHeader(d) # {}, NEW s \in Seqs PROVE Found(d, s) = {}
    <3>1. header[d] # "complete"
      BY <2>3 DEF VerifyHeader, If
    <3> QED
      BY <3>1, VerifierReads DEF Damage
  <2> QED
    BY <2>1, <2>2, <2>3
<1> QED
  BY <1>1, <1>2, <1>3, BooksHold, TypeCorrect, PTL DEF Spec

-----------------------------------------------------------------------------
(* The life of a call *)

\* Only tools/calls are decided.
DecidedCalls ==
  \A d \in Dirs, s \in Seqs :
    decision[d][s] # 0 => decision[d][s] \in Sent /\ IsCall(decision[d][s])

\* The handlers of a tools/call decide, and decide on the line that they were given.
LEMMA DecisionFrame ==
  ASSUME [Next]_vars
  PROVE  \/ UNCHANGED decision
         \/ \E t \in Tags : /\ up /\ stdin # <<>> /\ t = Head(stdin) /\ IsCall(t)
                            /\ decision' = [decision EXCEPT ![dir][seq] = t]
                            /\ UNCHANGED <<msg, executed, xr>>
BY DEF Next, ProxyInput, ProxyOutput, Server, Lifecycle, vars, disk, client, server, Start,
       CrashInStart, ExitWithServer, Crash, ClientSend, ClientClose, ForwardRaw, Takes,
       DenyBatch, DenyCall, ForwardCall, CrashInCall, Throw, EndOfInput, Relay, ReceiptReply,
       CrashInReply, ServerRead, ServerReply, ServerPush, ServerExit, ServerCrash, Record

\* Decisions are of calls, after every step.
LEMMA DecidedCallsStep ==
  ASSUME TypeOK, DecidedCalls, [Next]_vars
  PROVE  DecidedCalls'
<1> SUFFICES ASSUME NEW d \in Dirs, NEW s \in Seqs, decision'[d][s] # 0
             PROVE  /\ decision'[d][s] \in Sent'
                    /\ msg'[decision'[d][s]].kind = "call"
  BY DEF DecidedCalls, IsCall
<1>0. decision \in [Dirs -> [Seqs -> OptTags]] /\ stdin \in Seq(Sent)
  BY DEF TypeOK, BundleTypes, PipeTypes
<1>1. CASE decision'[d][s] = decision[d][s]
  BY <1>1, SentStep DEF DecidedCalls, IsCall
<1>2. CASE decision'[d][s] # decision[d][s]
  <2>1. PICK t \in Tags : /\ stdin # <<>> /\ t = Head(stdin) /\ IsCall(t)
                          /\ decision' = [decision EXCEPT ![dir][seq] = t]
                          /\ UNCHANGED msg
    BY <1>2, DecisionFrame
  <2>2. decision'[d][s] = t
    BY <1>0, <1>2, <2>1, WriteElsewhere
  <2>3. t \in Sent
    BY <1>0, <2>1, TailStays
  <2> QED
    BY <2>1, <2>2, <2>3 DEF IsCall, Sent
<1> QED
  BY <1>1, <1>2

\* The stage a call is in, case by case.
LEMMA Stages ==
  ASSUME NEW t
  PROVE  /\ Receipted(t) => StageOf(t) = "receipted"
         /\ (~Receipted(t) /\ t \in executed /\ IsCall(t)) => StageOf(t) = "executed"
         /\ (~Receipted(t) /\ t \notin executed /\ Decided(t) /\ Approved(t)) =>
              StageOf(t) = "approved"
         /\ (~Receipted(t) /\ t \notin executed /\ Decided(t) /\ ~Approved(t)) =>
              StageOf(t) = "refused"
         /\ (~Receipted(t) /\ ~(t \in executed /\ IsCall(t))
               /\ ~(Decided(t) /\ t \notin executed)) => StageOf(t) = "open"
BY DEF StageOf

\* What the stages of the calls rest on.
Ledger == /\ TypeOK /\ WayInv /\ Books /\ DecidedCalls
          /\ OnlyApprovedReach /\ ReachedIsRecorded

\* What is decided was sent and is a call; what is receipted is decided, approved and
\* executed.
LEMMA LedgerReads ==
  ASSUME Ledger, NEW t \in Tags
  PROVE  /\ Decided(t) => t \in Sent /\ IsCall(t)
         /\ Receipted(t) => Decided(t) /\ Approved(t) /\ t \in executed
         /\ t \in executed => t \in Sent
<1>1. t # 0
  BY DEF Tags
<1> QED
  BY <1>1 DEF Ledger, Books, Filed, DecidedCalls, Decided, Receipted, NoReceipt, TypeOK, ServerTypes

\* A call about which nothing is decided, executed or receipted in a step stays in its
\* stage.
LEMMA StageKept ==
  ASSUME Ledger, [Next]_vars, NEW t \in Tags,
         Decided(t)' = Decided(t), Receipted(t)' = Receipted(t),
         t \in executed' <=> t \in executed
  PROVE  StageOf(t)' = StageOf(t)
<1>1. t \in Sent => IsCall(t)' = IsCall(t) /\ Approved(t)' = Approved(t)
  BY SentStep DEF Ledger, IsCall, Approved
<1>2. Decided(t) \/ t \in executed => t \in Sent
  BY LedgerReads
<1>3. Receipted(t) => Decided(t)
  BY LedgerReads
<1> QED
  BY <1>1, <1>2, <1>3 DEF StageOf

\* A step about one call, seen as a step of the gate.
LEMMA OneAdvances ==
  ASSUME NEW c \in Tags, \A t \in Tags \ {c} : StageOf(t)' = StageOf(t),
         \/ StageOf(c)' = StageOf(c)
         \/ StageOf(c) = "open" /\ StageOf(c)' \in {"refused", "approved"}
         \/ StageOf(c) = "approved" /\ StageOf(c)' = "executed"
         \/ StageOf(c) = "executed" /\ StageOf(c)' = "receipted"
  PROVE  [Gate!GateNext]_[t \in Tags |-> StageOf(t)]
<1> DEFINE S == [t \in Tags |-> StageOf(t)]
<1>1. CASE StageOf(c)' = StageOf(c)
  <2>1. \A t \in Tags : StageOf(t)' = StageOf(t)
    BY <1>1
  <2>2. S' = S
    BY <2>1
  <2> QED
    BY <2>2
<1>2. ASSUME NEW to, StageOf(c)' = to
      PROVE  S' = [S EXCEPT ![c] = to] /\ S[c] = StageOf(c)
  <2>1. S' = [t \in Tags |-> IF t = c THEN to ELSE StageOf(t)]
    BY <1>2
  <2> QED
    BY <2>1
<1>3. CASE StageOf(c) = "open" /\ StageOf(c)' = "refused"
  BY <1>2, <1>3 DEF Gate!GateNext, Gate!Refuse, Gate!Advance
<1>4. CASE StageOf(c) = "open" /\ StageOf(c)' = "approved"
  BY <1>2, <1>4 DEF Gate!GateNext, Gate!Approve, Gate!Advance
<1>5. CASE StageOf(c) = "approved" /\ StageOf(c)' = "executed"
  BY <1>2, <1>5 DEF Gate!GateNext, Gate!Execute, Gate!Advance
<1>6. CASE StageOf(c) = "executed" /\ StageOf(c)' = "receipted"
  BY <1>2, <1>6 DEF Gate!GateNext, Gate!Issue, Gate!Advance
<1> QED
  BY <1>1, <1>3, <1>4, <1>5, <1>6

\* Every step of the proxy, the server and the client is a step of the gate, or none.
LEMMA GateStep ==
  ASSUME KeysApart, Ledger, [Next]_vars
  PROVE  [Gate!GateNext]_[t \in Tags |-> StageOf(t)]
<1>0. /\ decision \in [Dirs -> [Seqs -> OptTags]] /\ xr \in [Dirs -> [Seqs -> Receipt]]
      /\ stdin \in Seq(Sent) /\ childIn \in Seq(Sent) /\ Handled \in Nat /\ 0 \notin Tags
      /\ \A t \in Tags : t \in Nat
  BY HandledStep DEF Ledger, TypeOK, BundleTypes, PipeTypes, WayInv, Tags
<1>f. ASSUME NEW d \in Dirs, NEW s \in Seqs
      PROVE  /\ decision[d][s] # 0 => decision'[d][s] = decision[d][s]
             /\ xr[d][s] # NoReceipt => xr'[d][s] = xr[d][s]
  BY FilesStay DEF Ledger, Books
<1>k. ASSUME NEW t \in Tags
      PROVE  (Decided(t) => Decided(t)') /\ (Receipted(t) => Receipted(t)')
  <2>1. t # 0
    BY <1>0
  <2>2. Decided(t) => Decided(t)'
    BY <1>f, <2>1 DEF Decided
  <2>3. ASSUME NEW d \in Dirs, NEW s \in Seqs, xr[d][s].tag = t PROVE xr'[d][s].tag = t
    BY <1>f, <2>1, <2>3 DEF NoReceipt
  <2>4. Receipted(t) => Receipted(t)'
    BY <2>3 DEF Receipted
  <2> QED
    BY <2>2, <2>4
<1>1. CASE UNCHANGED <<decision, executed, xr>>
  <2>1. \A t \in Tags : StageOf(t)' = StageOf(t)
    BY <1>1, StageKept DEF Decided, Receipted
  <2>2. [t \in Tags |-> StageOf(t)]' = [t \in Tags |-> StageOf(t)]
    BY <2>1
  <2> QED
    BY <2>2
<1>2. CASE decision' # decision
  <2>1. PICK c \in Tags : /\ up /\ stdin # <<>> /\ c = Head(stdin) /\ IsCall(c)
                          /\ decision' = [decision EXCEPT ![dir][seq] = c]
                          /\ UNCHANGED <<msg, executed, xr>>
    BY <1>2, DecisionFrame
  <2>2. \A d \in Dirs, s \in Seqs : decision'[d][s] = decision[d][s] \/ decision'[d][s] = c
    BY <1>0, <2>1, WriteElsewhere
  <2>3. \A t \in Tags \ {c} : StageOf(t)' = StageOf(t)
    <3> SUFFICES ASSUME NEW t \in Tags \ {c} PROVE StageOf(t)' = StageOf(t)
      OBVIOUS
    <3>1. Decided(t)' = Decided(t)
      <4>1. \A d \in Dirs, s \in Seqs : decision'[d][s] = t <=> decision[d][s] = t
        BY <1>f, <1>0, <2>2
      <4> QED
        BY <4>1 DEF Decided
    <3>2. Receipted(t)' = Receipted(t)
      BY <2>1 DEF Receipted
    <3> QED
      BY <2>1, <3>1, <3>2, StageKept
  <2>4. c = Handled + 1 /\ c \notin executed
    <3>1. c = Handled + 1
      BY <1>0, <2>1 DEF Ledger, WayInv, InTurn
    <3> QED
      BY <1>0, <3>1 DEF Ledger, WayInv, ReadInTurn, Reached
  <2>5. CASE Decided(c)' = Decided(c)
    <3>1. Receipted(c)' = Receipted(c)
      BY <2>1 DEF Receipted
    <3>2. StageOf(c)' = StageOf(c)
      BY <2>1, <2>5, <3>1, StageKept
    <3> QED
      BY <2>3, <3>2, OneAdvances
  <2>6. CASE ~Decided(c) /\ Decided(c)'
    <3>1. ~Receipted(c) /\ Receipted(c)' = Receipted(c) /\ c \notin executed'
      BY <2>1, <2>4, <2>6, LedgerReads DEF Receipted
    <3>2. StageOf(c) = "open"
      BY <2>4, <2>6, <3>1, Stages
    <3>3. StageOf(c)' \in {"refused", "approved"}
      BY <2>6, <3>1 DEF StageOf
    <3> QED
      BY <2>3, <3>2, <3>3, OneAdvances
  <2> QED
    BY <1>k, <2>5, <2>6 DEF Decided
<1>3. CASE executed' # executed
  <2>1. ServerRead
    BY <1>3 DEF Next, ProxyInput, ProxyOutput, Server, Lifecycle, vars, server, Start,
                CrashInStart, ExitWithServer, Crash, ClientSend, ClientClose, ForwardRaw,
                DenyBatch, DenyCall, ForwardCall, CrashInCall, Throw, EndOfInput, Relay,
                ReceiptReply, CrashInReply, ServerReply, ServerPush, ServerExit, ServerCrash
  <2>2. PICK c \in Tags : /\ c = childIn[1] /\ 1 \in DOMAIN childIn
                          /\ executed' = executed \cup {c}
                          /\ UNCHANGED <<msg, decision, xr>>
    <3>1. /\ childIn # <<>> /\ executed' = executed \cup {Head(childIn)}
          /\ UNCHANGED <<msg, decision, xr>>
      BY <2>1 DEF ServerRead, client, disk
    <3>2. Head(childIn) = childIn[1] /\ 1 \in DOMAIN childIn /\ childIn[1] \in Sent
      BY <1>0, <3>1
    <3>3. Sent \subseteq Tags
      BY ProxyConstants DEF Ledger, TypeOK, ClientTypes, Sent, Tags
    <3> QED
      BY <3>1, <3>2, <3>3
  <2>3. \A t \in Tags : Decided(t)' = Decided(t) /\ Receipted(t)' = Receipted(t)
    BY <2>2 DEF Decided, Receipted
  <2>4. \A t \in Tags \ {c} : StageOf(t)' = StageOf(t)
    BY <2>2, <2>3, StageKept
  <2>5. c \notin executed /\ c \in Reached
    BY <1>0, <2>2 DEF Ledger, WayInv, ReadInTurn, Reached
  <2>6. CASE IsCall(c)
    <3>1. Approved(c) /\ Decided(c)
      BY <2>5, <2>6 DEF Ledger, OnlyApprovedReach, ReachedIsRecorded, Decided
    <3>2. ~Receipted(c) /\ ~Receipted(c)'
      BY <2>3, <2>5, LedgerReads
    <3>3. StageOf(c) = "approved"
      BY <2>5, <3>1, <3>2, Stages
    <3>4. c \in executed' /\ IsCall(c)'
      BY <2>2, <2>6 DEF IsCall
    <3>5. StageOf(c)' = "executed"
      BY <3>2, <3>4 DEF StageOf
    <3> QED
      BY <2>4, <3>3, <3>5, OneAdvances
  <2>7. CASE ~IsCall(c)
    <3>1. ~Decided(c) /\ ~Receipted(c)
      BY <2>7, LedgerReads
    <3>2. ~IsCall(c)' /\ ~Decided(c)' /\ ~Receipted(c)'
      BY <2>2, <2>3, <2>7, <3>1 DEF IsCall
    <3>3. StageOf(c) = "open" /\ StageOf(c)' = "open"
      BY <2>7, <3>1, <3>2 DEF StageOf
    <3> QED
      BY <2>4, <3>3, OneAdvances
  <2> QED
    BY <2>6, <2>7
<1>4. CASE xr' # xr
  <2> DEFINE r == Head(childOut)
             k == KeyOf[r.id]
             s0 == pending[k].seq
             c == r.tag
  <2>1. ReceiptReply \/ CrashInReply
    BY <1>4, ReceiptFrame
  <2>2. /\ dir \in Dirs /\ Entry(k) /\ pending[k].tag = c /\ c \in executed
        /\ xr' = [xr EXCEPT ![dir][s0] = [tag |-> c, outcome |-> r.outcome]]
        /\ UNCHANGED <<msg, executed, decision>>
    BY <2>1, ReceiptGoes DEF Ledger, Books
  <2>3. c \in Tags /\ IsCall(c)
    <3>1. c \in Sent /\ IsCall(c)
      BY <2>2 DEF Entry
    <3>2. Sent \subseteq Tags
      BY ProxyConstants DEF Ledger, TypeOK, ClientTypes, Sent, Tags
    <3> QED
      BY <3>1, <3>2
  <2>4. \A d \in Dirs, s \in Seqs : xr'[d][s] = xr[d][s] \/ xr'[d][s].tag = c
    <3>1. PICK v : v.tag = c /\ xr' = [xr EXCEPT ![dir][s0] = v]
      BY <2>2
    <3> HIDE DEF s0, c
    <3> QED
      BY <1>0, <3>1, WriteElsewhere
  <2>5. ASSUME NEW t \in Tags \ {c}
        PROVE  StageOf(t)' = StageOf(t)
    <3> HIDE DEF c
    <3>1. Receipted(t)' = Receipted(t)
      BY <1>k, <2>4 DEF Receipted
    <3>2. Decided(t)' = Decided(t)
      BY <2>2 DEF Decided
    <3> QED
      BY <2>2, <3>1, <3>2, StageKept
  <2>6. PICK e \in Tags : e = c
    BY <2>3
  <2> HIDE DEF c
  <2>7. Decided(e)' = Decided(e) /\ (e \in executed' <=> e \in executed)
    BY <2>2 DEF Decided
  <2>8. CASE Receipted(e)
    <3>1. StageOf(e)' = StageOf(e)
      BY <1>k, <2>7, <2>8, StageKept
    <3> QED
      BY <2>5, <2>6, <3>1, OneAdvances
  <2>9. CASE ~Receipted(e)
    <3>1. StageOf(e) = "executed"
      BY <2>2, <2>3, <2>6, <2>9, Stages
    <3>2. CASE Receipted(e)'
      <4>1. StageOf(e)' = "receipted"
        BY <3>2 DEF StageOf
      <4> QED
        BY <2>5, <2>6, <3>1, <4>1, OneAdvances
    <3>3. CASE ~Receipted(e)'
      <4>1. Receipted(e)' = Receipted(e)
        BY <2>9, <3>3 DEF Receipted
      <4>2. StageOf(e)' = StageOf(e)
        BY <2>7, <4>1, StageKept
      <4> QED
        BY <2>5, <2>6, <4>2, OneAdvances
    <3> QED
      BY <3>2, <3>3
  <2> QED
    BY <2>8, <2>9
<1> QED
  BY <1>1, <1>2, <1>3, <1>4

\* The whole composition, with its pipes, crashes and restarts, implements the gate:
\* every tools/call is decided, executed and receipted in this order, each at most
\* once, only the approved are executed, and nothing of it is undone.
THEOREM GateImplemented ==
  ASSUME ~ReuseOut, KeysApart
  PROVE  Spec => GateRefined
<1>1. Init => Gate!GateInit
  <2> SUFFICES ASSUME Init, NEW t \in Tags PROVE StageOf(t) = "open"
    BY DEF Gate!GateInit
  <2>1. ~Decided(t) /\ ~Receipted(t) /\ t \notin executed
    BY DEF Init, Decided, Receipted, NoReceipt, Tags
  <2> QED
    BY <2>1, Stages
<1>2. Init => DecidedCalls
  BY DEF Init, DecidedCalls
<1>3. TypeOK /\ DecidedCalls /\ [Next]_vars => DecidedCalls'
  BY DecidedCallsStep
<1>4. Spec => []DecidedCalls
  BY <1>2, <1>3, TypeCorrect, PTL DEF Spec
<1>5. Spec => []Ledger
  BY <1>4, TypeCorrect, WayHolds, BooksHold, ApprovedOnly, OnTheRecord, PTL DEF Ledger
<1>6. Ledger /\ [Next]_vars => [Gate!GateNext]_[t \in Tags |-> StageOf(t)]
  BY GateStep
<1> QED
  BY <1>1, <1>5, <1>6, PTL DEF Spec, GateRefined, Gate!GateSpec
=============================================================================
