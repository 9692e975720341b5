\* Two ids that differ on the wire and not as strings.
SPECIFICATION Spec
CONSTANTS
  i1 = i1
  i2 = i2
  k1 = k1
  k2 = k2
  allowed = allowed
  refused = refused
  NoId = NoId
  Ids = {i1, i2}
  Keys = {k1, k2}
  Loads = {allowed, refused}
  KeyOf <- MCClashingKeys
  Verdict <- MCVerdict
  TimCount <- MCTimCount
  MaxTims = 2
  Kinds = {"call"}
  ReuseOut = FALSE
  ClientWaits = FALSE
  MaxMsgs = 2
  MaxRuns = 1
  MaxCrashes = 0
  MaxPushes = 0
INVARIANTS
  ReceiptIsTrue
CHECK_DEADLOCK FALSE
