\* Reads after a write in one branch, with compaction up to the present.
SPECIFICATION Spec
CONSTANTS
  Keys <- MCKeys
  Txns <- GhostTxns
  Watches <- NoWatches
  WatchRanges <- MCWatchRanges
  TTLs <- MCTTLs
  TimeSteps <- MCTimeSteps
  Ahead = 1
  MaxRevision = 3
  MaxLease = 0
  MaxClock = 0
INVARIANTS
  AllCommitted
CHECK_DEADLOCK FALSE
