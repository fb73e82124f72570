SPECIFICATION Spec
CONSTANTS
  HtSize = 2
  MemSize = 3
  Ranks = {0, 1}
  Requests <- UnitRequests
  Bufs = {b1, b2}
  PendingStack = 2
  AddrRange = 16
  Modes = {"USER_DEFINED"}
  ModeBytes = {FALSE}
  AnyTarget = TRUE
  MaxVersion = 0
  FreshPending <- FreshValues
  Junk = Junk
  None = None
SYMMETRY BufSymmetry
INVARIANTS
  GetsReturnTargetData
CHECK_DEADLOCK FALSE
