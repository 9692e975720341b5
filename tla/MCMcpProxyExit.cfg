\* An orderly end: the client closes stdin, the server answers all and exits.
SPECIFICATION Spec
CONSTANTS
  i1 = i1
  i2 = i2
  k1 = k1
  k2 = k2
  allowed = allowed
  refused = refused
  NoId = NoId
  Ids = {i1, i2}
  Keys = {k1, k2}
  Loads = {allowed, refused}
  KeyOf <- MCDistinctKeys
  Verdict <- MCVerdict
  TimCount <- MCTimCount
  MaxTims = 2
  Kinds = {"call"}
  ReuseOut = FALSE
  ClientWaits = FALSE
  MaxMsgs = 1
  MaxRuns = 1
  MaxCrashes = 0
  MaxPushes = 0
INVARIANTS
  ServedIsReceipted
CHECK_DEADLOCK FALSE
