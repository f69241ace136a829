SPECIFICATION Spec
CONSTANTS
  AreaSize = 4352
  Requests <- MCRequests
  IntRange = 8192
INVARIANTS TypeOK ChunksTile FullyConsolidated BinsHoldFreeChunks
PROPERTIES OneBlockPerCall AllocBestFit ImplementsAllocator
