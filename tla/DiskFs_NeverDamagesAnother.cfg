SPECIFICATION Spec
CONSTANTS
  Paths = {a, b}
  NoPath = NoPath
  Versions = {v1, v2}
  DataStart = 1
  TotalBlocks = 4
  BitsPerByte = 2
  SectorBytes = 1
  SlotCount = 2
  EntriesPerSector = 2
  MaxLen = 2
  MaxSeq = 2
  MaxFaults = 2
  UseAfterCut = TRUE
  Faults = {"crash"}
  Junk <- AnyDirectory
SYMMETRY Symmetry
INVARIANT NeverDamagesAnother
CHECK_DEADLOCK FALSE
