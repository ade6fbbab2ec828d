CONSTANTS
  NumThreads = 2
  NumColumns = 1
  ScaleGroups = 2
  Stages = 3
  KBlocks = 4
  Tiles = 4
  Packed = TRUE
  SplitGroups = TRUE
  TilesPerUnit = 1
  Provider = "eager"
SPECIFICATION FairSpec
INVARIANTS
  PipelineInv
  NoCopyIntoStageBeingRead
  StageHoldsItsTile
  NothingInFlightAtExit
PROPERTIES
  Implements
  Completes
