SPECIFICATION Spec
CONSTANTS
  None = None
  Handlers = {h1, h2, h3, h4}
  Slots = {s1, s2}
  MaxQueueDepth = 1
  Prompts <- MCPrompts
  ChunkTokens = 2
  RowBytes = 1
  StateBytes = 1
  LogitBytes = 2
  Budget = 9
  MinCapture = 2
  MaxRequests = 3
SYMMETRY MCSymmetry
INVARIANTS
  CountIsExact
  AnswersStartFromOwnPrompt
  EntriesAreExact
  EveryEntryIsEvictable
  BudgetUpToLostRows
