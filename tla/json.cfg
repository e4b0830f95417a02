SPECIFICATION ConstraintSpec
CONSTANTS
  Lenient <- Extras
  MaxDepth = 5
  Cases <- MCCases
  Letters = {"a", "b"}
INVARIANTS
  AcceptsExactly
  NeverStranded
  CompleteIsMember
  MembersAreAccepted
  AcceptedCanComplete
CHECK_DEADLOCK FALSE
