SPECIFICATION Spec
CONSTANTS
  Keys <- NumberKeys
  Entries = {e1, e2, e3, e4, e5}
  HtEntries = 8
  MaxInsert = 4
  Hash <- SkewHash
  Counts = {1}
  None = None
SYMMETRY EntrySymmetry
INVARIANTS
  EntriesInPlace
  SizeCountsSlots
  ConflictInAllTables
PROPERTIES
  ImplementsIndex
