CONSTANTS
  NumThreads = 2
  NumColumns = 2
  ScaleGroups = 4
  Stages = 3
  KBlocks = 2
  Tiles = 2
  Packed = TRUE
  SplitGroups = FALSE
  TilesPerUnit = 1
  Provider = "twoPlaneChunk"
SPECIFICATION Spec
INVARIANTS
  TokenNamesConsumedTile
