SPECIFICATION FairSpec
CONSTANTS
  Blocks = {e, a, b, c}
  Entry = e
  NULL = NULL
  CFGs <- AllCFGs
  MaxRuns = 2
CHECK_DEADLOCK FALSE
INVARIANTS
  TypeOK
  PostOrderNumbers
  DomsAscend
  IntersectStaysOnBlocks
  FrontierExact
PROPERTIES
  ImplementsDominanceSpec
  Termination
