\* One watch: it keeps the contract, what its consumer is owed arrives, and
\* closing ends it.
SPECIFICATION FairSpec
CONSTANTS
  w1 = w1
  w2 = w2
  Keys <- MCKeys
  Txns <- WatchTxns
  Watches <- OneWatch
  WatchRanges <- SomeRanges
  TTLs <- OneTTL
  TimeSteps <- MCTimeSteps
  Ahead = 1
  MaxRevision = 3
  MaxLease = 1
  MaxClock = 1
PROPERTIES
  CloseEndsWatches
  BatchesArrive
  Implements
CHECK_DEADLOCK FALSE
