SPECIFICATION Spec
CONSTANTS
  None = None
  Block = 2
  Checkpoints <- MCCheckpoints
  Worlds <- MCWorlds
INVARIANTS
  GdnHeadsPair
CHECK_DEADLOCK FALSE
