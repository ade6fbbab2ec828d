CONSTANTS
  NumThreads = 3
  NumColumns = 2
  ScaleGroups = 2
  Stages = 3
  KBlocks = 1
  Tiles = 3
  Packed = TRUE
  SplitGroups = FALSE
  TilesPerUnit = 2
  Provider = "twoPlaneChunk"
SPECIFICATION ChunkedSpec
INVARIANTS
  ChunkedTokenNamesTile
PROPERTIES
  ChunkedImplements
