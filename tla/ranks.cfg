SPECIFICATION FairSpec
CONSTANTS
  Layouts <- MCLayouts
  NAr = 2
  Backends = {"bar", "bounce"}
  Small = 1
  Prealloc = 2
  Sizes = {1, 2}
  MaxCalls = 3
  MaxFailures = 1
  MayFail <- MCMayFail
INVARIANTS
  SumsAreWhole
  SlabIsInStep
  LogitsAreOwn
  RanksStayInStep
PROPERTIES
  EveryCallReturns
CHECK_DEADLOCK FALSE
