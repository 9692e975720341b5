\* Two runs of the proxy, no crash, with the same --out directory.
SPECIFICATION Spec
CONSTANTS
  i1 = i1
  i2 = i2
  k1 = k1
  k2 = k2
  allowed = allowed
  refused = refused
  NoId = NoId
  Ids = {i1, i2}
  Keys = {k1, k2}
  Loads = {allowed, refused}
  KeyOf <- MCDistinctKeys
  Verdict <- MCVerdict
  TimCount <- MCTimCount
  MaxTims = 2
  Kinds = {"call"}
  ReuseOut = TRUE
  ClientWaits = FALSE
  MaxMsgs = 2
  MaxRuns = 2
  MaxCrashes = 0
  MaxPushes = 0
INVARIANTS
  ReachedIsRecorded
CHECK_DEADLOCK FALSE
