SPECIFICATION FairSpec
CONSTANTS
  a = a
  b = b
  c = c
  d = d
  e = e
  Blocks = {a, b, c, d, e}
  NULL = NULL
  CFGs <- MCCFGs
  MaxFunctions = 2
INVARIANTS
  TypeOK
  PostdominatorsExact
  ReverseFrontierExact
PROPERTY
  RTermination
CHECK_DEADLOCK FALSE
