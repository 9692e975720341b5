\* One run without crashes, a server that answers and a client that waits; every kind of line.
SPECIFICATION FairSpec
CONSTANTS
  i1 = i1
  i2 = i2
  k1 = k1
  k2 = k2
  allowed = allowed
  refused = refused
  NoId = NoId
  Ids = {i1, i2}
  Keys = {k1, k2}
  Loads = {allowed, refused}
  KeyOf <- MCDistinctKeys
  Verdict <- MCVerdict
  TimCount <- MCTimCount
  MaxTims = 2
  Kinds = {"call", "batch", "request", "opaque"}
  ReuseOut = FALSE
  ClientWaits = TRUE
  MaxMsgs = 3
  MaxRuns = 1
  MaxCrashes = 0
  MaxPushes = 1
INVARIANTS
  DenialIsFinal
  ReceiptIsTrue
PROPERTIES
  RequestsAnswered
CHECK_DEADLOCK FALSE
