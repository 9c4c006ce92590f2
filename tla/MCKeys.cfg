\* Keys 0..5, prefixes up to three bytes, keys of up to three segments.
SPECIFICATION Spec
CONSTANTS
  MaxKey = 5
  MaxByte = 2
  Segments <- MCSegments
  Empty = ""
  Dots <- MCDots
  Rpc = "rpc"
  WithNul <- MCWithNul
INVARIANTS
  AcceptedWritesDisjoint
  RefusedWritesMeet
  PrefixExact
  SubtreesApart
