SPECIFICATION Spec
CONSTANT Texts <- MCTexts
INVARIANTS
  TokensAreLexemes
  BufferOwned
PROPERTY ScanEnds
CHECK_DEADLOCK FALSE
