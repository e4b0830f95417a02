SPECIFICATION FairSpec
CONSTANTS
  r1 = r1
  r2 = r2
  r3 = r3
  r4 = r4
  None = None
  Requests = {r1, r2, r3, r4}
  Direct = {r4}
  Slots = {s1, s2}
  ChunkTokens = 2
  PromptLen <- MCPromptLen
  MaxTokens <- MCMaxTokens
  CtxCap = 5
  MixedOn = FALSE
  Paged = TRUE
INVARIANTS
  TypeOK
  SlotsHaveOneOwner
  OneDispatcher
  PendingsAreCurrent
  QueueHasLeader
  ContextIsOwn
PROPERTIES
  ImplementsService
  EveryRequestEnds
