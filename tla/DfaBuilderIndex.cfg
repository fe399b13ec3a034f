CONSTANTS
  Queries <- Indexed
  MaxDepth = 4
SPECIFICATION Spec
INVARIANT OutputsSelectedPaths
CHECK_DEADLOCK FALSE
