CONSTANTS
  Keys = {"", "a"}
  MaxState = 2
  UnsetNames = {"", "a", "?"}
SPECIFICATION Spec
INVARIANTS
  KeepsEveryState
  NoStrangeState
