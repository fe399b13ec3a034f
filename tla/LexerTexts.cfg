CONSTANTS
  Keys = {"k"}
  MaxTokens = 7
  Strings <- SomeStrings
  Literals <- Unsigned
  Layout <- Spaced
SPECIFICATION Spec
INVARIANT DeliversTokens
CHECK_DEADLOCK FALSE
