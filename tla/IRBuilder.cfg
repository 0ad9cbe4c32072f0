SPECIFICATION Spec
CONSTANTS
  Functions = {f, g}
  f = f
  g = g
  Intrinsics = {"memcpy"}
  Labels = {"loop"}
  Hints = {"x.slot"}
  NoHint = NoHint
  Effects = {"effect", "br"}
  NoFunction = NoFunction
  MaxInstructions = 3
  MaxBlocks = 2
SYMMETRY Symmetry
INVARIANTS
  TypeOK
  TerminatorLast
  EmissionOrder
  UniqueRegisters
  UniqueLabels
  PointInFunction
  CallsDeclared
PROPERTIES
  StaysDefined
  NothingLost
CHECK_DEADLOCK FALSE
