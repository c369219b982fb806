SPECIFICATION HostsSpec
CONSTANTS
  VFront = 1
  VSync = 2
  VBack = 2
  VActive = 6
  HFront = 2
  HSync = 4
  HBack = 2
  HActive = 8
  VPolarity = FALSE
  HPolarity = FALSE
  Objects = {o1, o2}
  None = None
  Height = 3
  NBuf = 2
  QCap = 5
  MaxLate = 3
  TrailingWords = {"self", "other"}
  Pios <- MCPios
  Buses = {b1, b2}
  DsiBuses = {b1, b2}
  Blocks = {1, 2}
  Handles = {h1, h2}
  Channels = {1, 2}
  HstxClaimed <- MCClaimed
  HstxDepths = {1, 16}
  HstxFront = 1
  HstxSync = 1
  HstxBack = 1
  HstxActive = 4
  HstxWidth = 8
SYMMETRY Interchangeable
INVARIANTS
  TypeOK
  LineInPlace
  BuffersConserved
  IrqServes
  LanesInStep
  ScansAllocated
  ReleasedOnce
  ScanRight
  FrameListRight
