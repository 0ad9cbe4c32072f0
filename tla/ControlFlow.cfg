SPECIFICATION Spec
CONSTANTS
  Programs <- MCPrograms
  TreeOutcome <- MCTreeOutcome
  TreeRuns <- MCTreeRuns
  MaxNesting = 9
  DivergeMark = {}
INVARIANTS
  DepthCountsLoops
  NextSound
  StrayJumpsRefused
  OutcomesCompositional
CHECK_DEADLOCK FALSE
