SPECIFICATION Spec
CONSTANTS
  HtSize = 2
  MemSize = 3
  Ranks = {0}
  Requests <- FarRequests
  Bufs = {b1, b2}
  PendingStack = 2
  AddrRange = 2
  Modes = {"USER_DEFINED"}
  ModeBytes = {FALSE}
  AnyTarget = FALSE
  MaxVersion = 0
  FreshPending <- FreshValues
  Junk = Junk
  None = None
SYMMETRY BufSymmetry
INVARIANTS
  GetsReturnTargetData
CHECK_DEADLOCK FALSE
