\* A decorator kept from before finalize.
SPECIFICATION MCSpec
CONSTANTS
  Processors <- MCProcessors
  NameOf <- MCNameOf
  SchemaOf <- MCSchemaOf
  States <- MCStates
  Results <- MCResults
  Subclasses <- MCSubclasses
  Bound <- MCBound
  Library <- MCLibrary
  Readings <- MCReadings
  Initially <- MCInitially
  Compositions <- MCCompositions
  Room <- MCRoom
INVARIANTS
  NoneRegisteredLate
