SPECIFICATION Spec
CONSTANTS
  x = x
  y = y
  z = z
  f = f
  g = g
  h = h
  u = u
  main = main
  NULL = NULL
  Units <- ReturnUnits
CHECK_DEADLOCK FALSE
INVARIANT ReturnChecked
