SPECIFICATION Spec
CONSTANTS
  Programs <- MCPrograms
  TreeOutcome <- MCTreeOutcome
  TreeRuns <- MCTreeRuns
  MaxNesting = 9
  DivergeMark = {}
INVARIANT NextSoundWhenAccepted
CHECK_DEADLOCK FALSE
