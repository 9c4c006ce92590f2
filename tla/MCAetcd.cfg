\* Two calls, or three watches in a row, over a network that loses and delays.
SPECIFICATION ApartSpec
CONSTANTS
  c1 = c1
  c2 = c2
  Calls <- TwoCalls
  Requests <- AllRequests
  Watches <- ThreeWatches
  Keys <- MCKeys
  None = None
  MaxRevision = 3
  MaxLease = 1
INVARIANTS
  TransactionAccounted
  PagesDated
  ErrorsTrue
  ResumeComplete
PROPERTIES
  CallsReturn
CHECK_DEADLOCK FALSE
