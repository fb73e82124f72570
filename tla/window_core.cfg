SPECIFICATION Spec
CONSTANTS
  HtSize = 2
  MemSize = 3
  Ranks = {0}
  Requests <- NestedRequests
  Bufs = {b1, b2, b3}
  PendingStack = 2
  AddrRange = 16
  Modes = {"USER_DEFINED"}
  ModeBytes = {TRUE, FALSE}
  AnyTarget = FALSE
  MaxVersion = 1
  FreshPending <- FreshValues
  Junk = Junk
  None = None
SYMMETRY BufSymmetry
INVARIANTS
  TypeOK
  PendingCopyMatches
  CachedDataRight
  GetsReturnTargetData
PROPERTIES
  ImplementsRma
CHECK_DEADLOCK FALSE
