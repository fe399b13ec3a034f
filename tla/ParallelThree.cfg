CONSTANTS
  Keys = {"a", "b"}
  MaxTokens = 11
  Queries <- NamedQueries
  MaxChunks = 3
  MaxPieces = 2
  FinishFlags = {0}
  Literals = {FALSE}
  UnitStates = {"NEW"}
  UnsetRoots <- ZeroRoot
SPECIFICATION Spec
CONSTRAINT ThreeChunks
INVARIANTS
  SplicesSyntaxStack
  SplicesQueryStacks
  OneRunPerRoot
  MatchesSurviveCuts
  TuplesAreSerial
CHECK_DEADLOCK FALSE
