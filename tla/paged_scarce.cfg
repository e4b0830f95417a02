SPECIFICATION Spec
CONSTANTS
  r1 = r1
  r2 = r2
  r3 = r3
  None = None
  Requests = {r1, r2, r3}
  NSlots = 2
  NLayers = 2
  PageSize = 2
  NPages = 4
  MaxSeqLen = 6
  ChunkTokens = 4
  PromptLen <- MCPromptLen
  MaxTokens <- MCMaxTokens
INVARIANTS
  NoPageTwice
  NoPageLost
  FreeSlotsHoldNothing
  TableNamesHeldPages
  RowsAreOwn
  ExhaustedOnlyWhenNeeded
