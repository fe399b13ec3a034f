CONSTANTS
  Inputs <- Texts
SPECIFICATION Spec
INVARIANTS
  TreeReadsAsText
  MembersBecomeVariables
  NodesHaveOneOwner
CHECK_DEADLOCK FALSE
