\* An assertion over a symbol that every object inherits.
SPECIFICATION KernelSpec
CONSTANTS
  NaN = NaN
  None = None
  Names <- MCNames
  Inherited <- MCInherited
  Verbs <- MCVerbs
  Registered <- MCRegistered
  Commitments <- MCCommitments
  Evidence <- MCEvidence
  Times <- MCTimes
INVARIANT AbsentIsIndeterminate
\* The machine stops when it has decided, or thrown.
CHECK_DEADLOCK FALSE
