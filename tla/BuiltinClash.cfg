SPECIFICATION Spec
CONSTANT
  Programs <- MCClash
INVARIANT
  BuiltinsReachRuntime
CHECK_DEADLOCK FALSE
