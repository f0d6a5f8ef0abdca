SPECIFICATION FairSpec
CONSTANTS
  Contents <- MoreOrFewerSegments
  Vias = {"fp", "fd", "mem"}
  CAPN_MAX_SEGS = 5
  HdrCells = 4
  MemCells = 10
  MaxCells = 100
  MaxMessages = 3
CHECK_DEADLOCK FALSE
INVARIANTS
  StreamAligned
PROPERTIES
  ImplementsStream
