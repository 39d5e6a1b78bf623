SPECIFICATION FairCompileSpec
CONSTANTS
  a = a
  b = b
  c = c
  d = d
  x = x
  y = y
  g = g
  m = m
  Blocks = {e, a, b, c, d}
  Entry = e
  BlockList <- Order
  Locals = {x, y}
  Globals = {g}
  Programs <- AllPrograms
  Data = {0, 1}
  Arguments <- Parameters
  NULL = NULL
  Undef = Undef
CHECK_DEADLOCK FALSE
INVARIANTS
  TypeOK
  NeverFaults
  OperandsInPlace
  ProgramsAgree
  TextReadsBack
PROPERTY
  Prints
