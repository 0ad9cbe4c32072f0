SPECIFICATION Spec
CONSTANTS
  Width <- MCWidth
  Programs <- MCPrograms
INVARIANTS
  GlobalsHoldConstants
PROPERTIES
  ImplementsConstants
  EvaluationEnds
CHECK_DEADLOCK FALSE
