SPECIFICATION Spec
CONSTANT Families <- MCFamilies
INVARIANTS
  RoundTrip
  NothingDropped
  UnitMarks
PROPERTY ParserEnds
CHECK_DEADLOCK FALSE
