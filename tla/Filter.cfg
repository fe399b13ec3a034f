CONSTANTS
  Queries <- FilterQueries
  FinishFlags = {0}
  MaxTuples = 7
SPECIFICATION Spec
INVARIANTS
  KeepsSatisfyingElements
  NothingLeftBehind
CHECK_DEADLOCK FALSE
