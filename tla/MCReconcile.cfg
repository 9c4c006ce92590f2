\* A paging, watching, resuming reader among commits, expiry and compaction.
SPECIFICATION FairReaderSpec
CONSTANTS
  Keys <- MCKeys
  Txns <- MCTxns
  Watches <- MCWatches
  WatchRanges <- MCWatchRanges
  TTLs <- MCTTLs
  TimeSteps <- MCTimeSteps
  Ahead = 1
  MaxRevision = 2
  MaxLease = 1
  MaxClock = 1
  Followed <- MCFollowed
  Limit = 1
  MaxBreaks = 1
INVARIANTS
  MirrorExact
  CaughtUp
PROPERTIES
  ConvergesAbove
CHECK_DEADLOCK FALSE
