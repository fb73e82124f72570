SPECIFICATION Spec
CONSTANTS
  HtSize = 15
  MemSize = 8
  CacheLine = 4
  MaxScan = 10
  IntRange = 256
  LongRange = 65536
  MaxAlloc = 32767
  MaxHt = 24
  MaxGets = 13
INVARIANTS
  HashHasSlots
  ScansFitTable
PROPERTIES
  ChangesForeseen
CHECK_DEADLOCK FALSE
