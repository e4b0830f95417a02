SPECIFICATION GuidedSpec
CONSTANTS
  Tokens <- MCTokens
  Text <- MCText
  StopIds = {"im_end", "think"}
  AlwaysStop = {"think"}
  CloseIds <- Marker
  Nodes <- MCNodes
  Primes <- MCPrimes
  Budgets <- MCBudgets
  MaxTokens = 6
  MinTokens = 2
  MaskWidth = 22
INVARIANTS
  AnswerIsJson
PROPERTIES
  MaskHolds
CHECK_DEADLOCK FALSE
