SPECIFICATION Spec
CONSTANTS
  Programs <- MCPrograms
  Asked <- MCAsked
INVARIANTS
  SizesAreLayouts
  RefusedExactly
  InProgressIsStack
PROPERTIES
  MeasuringEnds
CHECK_DEADLOCK FALSE
