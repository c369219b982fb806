CONSTANTS
  m1 = m1
  m2 = m2
  i1 = i1
  Matrix <- MCMatrix
  NoMatrix = NoMatrix
  Image <- MCImage
  Dark = Dark
  numAddressLines = 2
  numPlanes = 2
  minPeriod = 1
  maxPeriod = 6
  Elapsed <- MCElapsed
SPECIFICATION Spec
INVARIANT DeinitSafe
CHECK_DEADLOCK FALSE
