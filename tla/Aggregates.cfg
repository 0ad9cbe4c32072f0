SPECIFICATION Spec
CONSTANTS
  Structs <- MCStructs
  Programs <- MCPrograms
INVARIANTS
  SameData
  SlotsWrittenFirst
CHECK_DEADLOCK FALSE
