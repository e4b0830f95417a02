SPECIFICATION Spec
CONSTANTS
  r1 = r1
  r2 = r2
  r3 = r3
  None = None
  Requests = {r1, r2}
  NSlots = 2
  NLayers = 1
  PageSize = 2
  NPages = 6
  MaxSeqLen = 6
  ChunkTokens = 4
  PromptLen <- MCPromptLen
  MaxTokens <- MCMaxTokens
INVARIANTS
  AppendsInHeldPages
