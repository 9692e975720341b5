------------------------------ MODULE AuditGate ------------------------------
(***************************************************************************)
(* What the audit proxy promises about each tool call, whatever the        *)
(* processes, pipes and files behind it do: the call is decided once, only *)
(* an approved call is executed, only an executed call gets a receipt, and *)
(* none of it is ever undone.  A call may stop at any stage (a crash, a    *)
(* server that never answers).                                             *)
(***************************************************************************)
CONSTANT Calls
VARIABLE stage

Stages == {"open", "refused", "approved", "executed", "receipted"}

GateInit == stage = [c \in Calls |-> "open"]

Advance(c, from, to) == stage[c] = from /\ stage' = [stage EXCEPT ![c] = to]

Refuse(c)  == Advance(c, "open", "refused")
Approve(c) == Advance(c, "open", "approved")
Execute(c) == Advance(c, "approved", "executed")
Issue(c)   == Advance(c, "executed", "receipted")

GateNext == \E c \in Calls : Refuse(c) \/ Approve(c) \/ Execute(c) \/ Issue(c)

GateSpec == GateInit /\ [][GateNext]_stage
=============================================================================
