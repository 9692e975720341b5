\* Decisions of the Kernel: every commitment on every sequence of receipts.
SPECIFICATION KernelSpec
CONSTANTS
  NaN = NaN
  None = None
  Names <- MCNames
  Inherited <- MCInherited
  Verbs <- MCVerbs
  Registered <- MCRegistered
  Commitments <- MCCommitments
  Evidence <- MCEvidence
  Times <- MCTimes
INVARIANTS
  KernelTypeOK
  DecidesItsMeaning
  OrderIndependent
  ReplaysFromInputs
  DecidedForGood
  ApprovedIsEarned
\* The machine stops when it has decided, or thrown.
CHECK_DEADLOCK FALSE
