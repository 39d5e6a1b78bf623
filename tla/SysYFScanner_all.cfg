SPECIFICATION MCSpec
CONSTANTS
  Inputs <- MCInputs
  BufSizes <- MCBufSizes
  ReadSize = 4
  WordSize = 64
  LargestDouble <- MCLargestDouble
  SmallestDouble <- MCSmallestDouble
INVARIANTS
  TypeOK
  ScansText
  BufferHoldsText
  LocationsTrue
PROPERTIES
  ScanAdvances
