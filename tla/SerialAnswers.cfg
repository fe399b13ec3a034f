CONSTANTS
  Keys = {"a", "b", "c"}
  MaxTokens = 12
  Queries <- AnswerQueries
  MaxStack = 6
  DataConstraintFlag = TRUE
SPECIFICATION Spec
INVARIANTS
  TypeOK
  SyntaxMirrorsNesting
  RunFollowsPath
  MatchKeepsStart
  PredicateMarksBalance
  ConstraintsCoverRun
PROPERTIES
  ImplementsPathQuery
  LossNeedsDepth
CHECK_DEADLOCK FALSE
