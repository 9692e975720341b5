SPECIFICATION SettlerSpec
CONSTANTS
  None = None
  Id1 = Id1
  Id2 = Id2
  GivenKey = GivenKey
  EmptyKey = EmptyKey
  NotNumber = NotNumber
  Cash = Cash
  Requests <- MCRequests
  Verbs <- MCVerbs
  RequiredArgs <- MCRequiredArgs
  UnknownRails <- MCUnknownRails
  Stores = {s1, s2}
  Times = {1, 2}
  MaxCalls = 3
SYMMETRY StoreSymmetry
INVARIANTS
  DedupedPerTuple
\* Callers may stop calling.
CHECK_DEADLOCK FALSE
