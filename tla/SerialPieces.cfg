CONSTANTS
  Keys = {"b", "c"}
  MaxTokens = 14
  Queries <- RunQueries
  MaxStack = 100
  DataConstraintFlag = FALSE
  FinishFlags = {0}
  SpanningAnswers = FALSE
  MaxPieces = 3
SPECIFICATION RunSpec
CONSTRAINT Explored
INVARIANT OutputIsAnswers
PROPERTY FeedsPredicateFilter
CHECK_DEADLOCK FALSE
