SPECIFICATION Spec
CONSTANTS
  Width = 5
  NULL = NULL
  Units <- BlockUnits
INVARIANT GlobalNamesDistinct
