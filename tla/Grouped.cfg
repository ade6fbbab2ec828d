CONSTANTS
  NumExperts = 3
  RowChoices <- MCRows
  MaxTotal = 6
  MaxBound = 3
  TileM = 2
  TileN = 2
  N = 2
  KTiles = 2
  MaxSplit = 3
  MaxResident = 1
SPECIFICATION FairSpec
INVARIANTS
  GroupInv
  NoOutputStoredTwice
  StoresOwnExpertRows
  EveryOutputComplete
  SlicesStayInK
  FlatGridHasNoIdleBlock
PROPERTIES
  CallEnds
