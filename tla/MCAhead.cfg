\* A watch that starts beyond the next revision.
SPECIFICATION Spec
CONSTANTS
  w1 = w1
  w2 = w2
  Keys <- MCKeys
  Txns <- WatchTxns
  Watches <- OneWatch
  WatchRanges <- SomeRanges
  TTLs <- OneTTL
  TimeSteps <- MCTimeSteps
  Ahead = 2
  MaxRevision = 2
  MaxLease = 1
  MaxClock = 1
INVARIANTS
  WatchFromStart
CHECK_DEADLOCK FALSE
