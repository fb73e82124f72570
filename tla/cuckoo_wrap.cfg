SPECIFICATION Spec
CONSTANTS
  Keys <- SixKeys
  Entries = {e1, e2, e3, e4}
  HtEntries = 8
  MaxInsert = 10
  Hash <- CMPI_HASH
  Counts = {0, 1}
  None = None
SYMMETRY EntrySymmetry
INVARIANTS
  LasthitMarksEntries
