SPECIFICATION Spec
CONSTANTS
  Rows = {0, 1, 17, 40, 61441}
  Spreads = {"one", "even"}
  Measured = {2, 3}
  AllRows = {1, 2, 3, 4}
  TunedTypes = {10, 11, 12, 13, 14}
INVARIANTS
  QueryAndEntryAgree
  WorkspaceHolds
  CachedWinnersRun
CHECK_DEADLOCK FALSE
