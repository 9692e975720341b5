\* Every policy on every call.
SPECIFICATION GateSpec
CONSTANTS
  NaN = NaN
  None = None
  Star = 1
  Quoted = {4}
  Control = "control"
  Names <- MCNames
  Inherited <- MCInherited
  Verbs <- MCVerbs
  Registered <- MCVerbs
  Commitments <- MCCommitments
  Evidence <- MCEvidence
  Times <- MCTimes
  Policies <- MCPolicies
  Calls <- MCCalls
INVARIANTS
  GateTypeOK
  ApprovedIsPermitted
