SPECIFICATION Spec
CONSTANTS
  Paths = {a, b}
  NoPath = NoPath
  Versions = {v1, v2}
  DataStart = 1
  TotalBlocks = 4
  BitsPerByte = 2
  SectorBytes = 1
  SlotCount = 2
  EntriesPerSector = 2
  MaxLen = 2
  MaxSeq = 2
  MaxFaults = 2
  UseAfterCut = FALSE
  Faults = {"crash", "write error"}
  Junk <- AnyDirectory
SYMMETRY Symmetry
INVARIANTS TypeOK EntriesOwnTheirBlocks NothingLeaks DiskIsCurrent ListedInCreationOrder
PROPERTY ImplementsFileMap
CHECK_DEADLOCK FALSE
