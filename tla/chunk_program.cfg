SPECIFICATION Spec
CONSTANTS
  r1 = r1
  r2 = r2
  Rows <- TwoRows
  PageSize = 2
  ChunkSize = 4
  MaxKv = 5
INVARIANTS
  TypeOK
  StoreIsOverlay
  AttentionSeesPrefix
PROPERTIES
  ImplementsChunkCall
