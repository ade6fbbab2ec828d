SPECIFICATION LayoutsSpec
CONSTANTS
  Kinds = {"Q2_K", "Q3_K", "Q4_K", "Q5_K", "Q6_K"}
  Ns = {128, 256}
  Ks = {256, 512, 768}
  MaxExperts = 2
  Columns = {7, 15}
  Shapes <- MCShapes
  Arches = {65, 70, 80, 90}
  AiuBuilds = {TRUE, FALSE}
  Watched = {0, 3, 62, 129}
  Extents <- MCExtents
  RowOffsets <- MCRowOffsets
  TileReqs <- MCTileReqs
  LaneRow = 5
INVARIANTS
  RecoverIsInverse
  StatementsAgree
  PlacedAsRead
  StoredAsNamed
  RestoreIsInverse
  EveryGroupSummedOnce
