SPECIFICATION AdaptiveSpec
CONSTANTS
  HtSize = 2
  MemSize = 2
  CacheLine = 1
  HtSizes = {2, 3}
  MemSizes = {2, 4, 8, 16}
  FreshPending <- FreshValues
  Ranks = {0}
  Requests <- TwoRequests
  Bufs = {b1, b2}
  PendingStack = 2
  AddrRange = 16
  Modes = {"USER_DEFINED"}
  ModeBytes = {TRUE, FALSE}
  AnyTarget = FALSE
  MaxVersion = 1
  Junk = Junk
  None = None
SYMMETRY BufSymmetry
INVARIANTS
  SoundForSizes
  CopiesMatch
  BufferStopsGrowing
PROPERTIES
  AdaptiveImplementsRma
CHECK_DEADLOCK FALSE
