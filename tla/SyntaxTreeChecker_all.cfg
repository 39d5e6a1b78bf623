SPECIFICATION Spec
CONSTANTS
  x = x
  y = y
  z = z
  f = f
  g = g
  h = h
  u = u
  main = main
  NULL = NULL
  Units <- AllUnits
CHECK_DEADLOCK FALSE
INVARIANTS
  TypeOK
  VerdictRight
  ResolvesInnermost
