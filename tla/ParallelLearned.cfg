CONSTANTS
  Keys = {"a", "b"}
  MaxTokens = 8
  Queries <- LearnedQueries
  MaxChunks = 2
  MaxPieces = 2
  FinishFlags = {0}
  Literals = {FALSE}
  UnitStates = {"NEW", "MATCHED"}
  UnsetRoots <- ZeroRoot
SPECIFICATION Spec
INVARIANTS
  SplicesSyntaxStack
  SplicesQueryStacks
  TuplesAreSerial
PROPERTIES
  CombineEnds
CHECK_DEADLOCK FALSE
