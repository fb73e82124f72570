SPECIFICATION Spec
CONSTANTS
  HtSize = 2
  MemSize = 3
  Ranks = {0}
  Requests <- SmallRequests
  Bufs = {b1, b2}
  PendingStack = 2
  AddrRange = 16
  Modes = {"TRANSPARENT"}
  ModeBytes = {TRUE, FALSE}
  AnyTarget = FALSE
  MaxVersion = 1
  FreshPending <- FreshValues
  Junk = Junk
  None = None
SYMMETRY BufSymmetry
PROPERTIES
  TransparentFlushInvalidates
CHECK_DEADLOCK FALSE
