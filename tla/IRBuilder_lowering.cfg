SPECIFICATION FairSpec
CONSTANTS
  x = x
  Names = {x}
  NULL = NULL
  Programs <- AllPrograms
  Stmts <- AllStmts
  LoopStmts <- AllLoopStmts
  Conds <- AllConds
  Chains <- AllChains
CHECK_DEADLOCK FALSE
INVARIANTS
  TypeOK
  DeclarationsInPlace
  WellFormedGraph
  SameEvents
PROPERTY KeepsUp
