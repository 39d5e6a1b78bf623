SPECIFICATION Spec
CONSTANTS
  Instructions = {i1, i2, i3}
  Constants = {k}
  MaxOperands = 2
SYMMETRY Interchangeable
CHECK_DEADLOCK FALSE
INVARIANTS
  UsesExact
  ReplacedIsUnused
  NoNullDeref
