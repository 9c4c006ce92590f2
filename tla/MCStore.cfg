\* Transactions, compaction, leases and the clock; no watches.
SPECIFICATION Spec
CONSTANTS
  Keys <- MCKeys
  Txns <- StoreTxns
  Watches <- NoWatches
  WatchRanges <- MCWatchRanges
  TTLs <- MCTTLs
  TimeSteps <- MCTimeSteps
  Ahead = 1
  MaxRevision = 4
  MaxLease = 2
  MaxClock = 3
INVARIANTS
  TypeOK
  AllCommitted
  VersionsAscend
  LeaseIntegrity
  LogExplainsHistory
  WritesIdentified
  NoOverdueLease
PROPERTIES
  ReadsRepeat
  ClaimExclusive
CHECK_DEADLOCK FALSE
