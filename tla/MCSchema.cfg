\* Up to three models for two members; three generations of generic classes.
SPECIFICATION MCSpec
CONSTANTS
  Values = {"a", "b"}
  Members <- MCMembers
  Candidates <- MCCandidates
  MaxModels = 3
  None = None
  Types = {int, str}
  Missing = Missing
  Diverges = Diverges
  MaxClasses = 4
  MaxBases <- MCBases
  MaxParameters <- MCParameters
INVARIANTS
  BuiltExactly
  ValidOwn
  SearchExact
CHECK_DEADLOCK FALSE
