CONSTANTS
  Texts <- AnyTexts
  Cores = {1, 2, 3}
  MEMORY_FOOTPRINT = 7
SPECIFICATION BothSpec
INVARIANTS
  ChunksMakeFile
  EveryChunkHasText
  ChunksAreFile
  BothCutAlike
PROPERTIES
  BothEnd
CHECK_DEADLOCK FALSE
