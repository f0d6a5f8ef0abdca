SPECIFICATION FairSpec
CONSTANTS
  Word = 2
  MaxCount = 1
  Messages <- AllMessages
  Caps = {4, 5, 100}
  ZBUF_SZ = 5
CHECK_DEADLOCK FALSE
INVARIANTS
  Lossless
  ReadsBack
  ChunkingInvisible
PROPERTIES
  Terminates
