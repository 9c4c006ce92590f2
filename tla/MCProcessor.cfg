\* Registration, finalization and composition of colliding functions.
SPECIFICATION MCSpec
CONSTANTS
  Processors <- MCProcessors
  NameOf <- MCNameOf
  SchemaOf <- MCSchemaOf
  States <- MCStates
  Results <- MCResults
  Subclasses <- MCSubclasses
  Bound <- MCBound
  Library <- MCLibrary
  Readings <- MCReadings
  Initially <- MCInitially
  Compositions <- MCCompositions
  Room <- MCRoom
INVARIANTS
  TypeOK
  SingleTransition
  SingleOwner
  Provenance
  GraphCurrent
PROPERTIES
  BrokenStaysBroken
