SPECIFICATION Spec
CONSTANTS
  Width = 5
  NULL = NULL
  Units <- AllUnits
INVARIANTS
  TypeOK
  WellTyped
  ComputesSource
