CONSTANTS
  Queries <- Compiled
  MaxDepth = 4
SPECIFICATION Spec
INVARIANTS
  OutputsSelectedPaths
  TableMeansSteps
  FiltersFindConditions
  TablesAreBuilt
CHECK_DEADLOCK FALSE
