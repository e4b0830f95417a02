SPECIFICATION Spec
CONSTANTS
  r1 = r1
  r2 = r2
  r3 = r3
  r4 = r4
  None = None
  Requests = {r1, r2, r3}
  Direct = {}
  Slots = {s1, s2, s3}
  ChunkTokens = 2
  PromptLen <- MCPromptLen
  MaxTokens <- MCMaxTokens
  CtxCap = 5
  MixedOn = TRUE
  Paged = FALSE
SYMMETRY SlotSymmetry
INVARIANTS
  NoLostPending
  StepsRunOnce
  SnapshotsAreExact
CHECK_DEADLOCK FALSE
