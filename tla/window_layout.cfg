SPECIFICATION Spec
CONSTANTS
  HtSize = 3
  MemSize = 3
  Ranks = {0}
  Requests <- LayoutRequests
  Bufs = {b1}
  PendingStack = 2
  AddrRange = 16
  Modes = {"USER_DEFINED"}
  ModeBytes = {FALSE}
  AnyTarget = FALSE
  MaxVersion = 0
  FreshPending <- FreshValues
  Junk = Junk
  None = None
INVARIANTS
  RegionsTile
  HolesIndexed
  TableMatchesHeap
  WithinCapacity
  DescriptorsSuffice
  VictimExists
  PlacementPenaltiesRight
  EvictionPenaltiesRightWhen
  StatsOneTooMany
PROPERTIES
  FreeRegionIsUsed
CHECK_DEADLOCK FALSE
