SPECIFICATION Spec
CONSTANT
  Programs <- MCPrograms
INVARIANTS
  SymbolsUnique
  ScopesFollowText
  MethodTables
  CallsReachCallee
  StoredBeforeRead
  FailuresKnown
CHECK_DEADLOCK FALSE
