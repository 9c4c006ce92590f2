\* Three references and one member of a collection, or fewer and more.
SPECIFICATION SmallSpec
CONSTANTS
  s1 = s1  s2 = s2  p1 = p1  p2 = p2  c1 = c1  c2 = c2
  Schemas = {s1, s2}
  Processors = {p1, p2}
  Collections = {c1, c2}
  Addresses = {a1, a2, a3}
  None = None
  References <- MCReferences
  MaxReferences = 3
  MaxMembers = 2
SYMMETRY Symmetry
INVARIANTS
  FoundExactly
  DrawnOnce
  NestingBounded
CHECK_DEADLOCK FALSE
