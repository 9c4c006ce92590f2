\* Two watches among writes, expiry, compaction and close.
SPECIFICATION Spec
CONSTANTS
  w1 = w1
  w2 = w2
  Keys <- MCKeys
  Txns <- WatchTxns
  Watches <- TwoWatches
  WatchRanges <- SomeRanges
  TTLs <- OneTTL
  TimeSteps <- MCTimeSteps
  Ahead = 1
  MaxRevision = 2
  MaxLease = 1
  MaxClock = 1
SYMMETRY SwapWatches
INVARIANTS
  WatchComplete
  WatchOrdered
  WatchFromStart
CHECK_DEADLOCK FALSE
