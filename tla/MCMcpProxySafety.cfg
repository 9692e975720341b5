\* Two runs in fresh directories, one crash at any point, three messages.
SPECIFICATION Spec
CONSTANTS
  i1 = i1
  i2 = i2
  k1 = k1
  k2 = k2
  allowed = allowed
  refused = refused
  NoId = NoId
  Ids = {i1, i2}
  Keys = {k1, k2}
  Loads = {allowed, refused}
  KeyOf <- MCDistinctKeys
  Verdict <- MCVerdict
  TimCount <- MCTimCount
  MaxTims = 2
  Kinds = {"call", "request", "fatal"}
  ReuseOut = FALSE
  ClientWaits = FALSE
  MaxMsgs = 3
  MaxRuns = 2
  MaxCrashes = 1
  MaxPushes = 0
INVARIANTS
  TypeOK
  OnlyApprovedReach
  ReachedIsRecorded
  ReceiptIsTrue
  AnswerHasReceipt
  PendingIsInFlight
  DenialIsFinal
  DamageIsLocal
PROPERTIES
  BundleAppendOnly
  GateRefined
CHECK_DEADLOCK FALSE
SYMMETRY MCSymmetry
