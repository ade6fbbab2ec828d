SPECIFICATION Spec
CONSTANTS
  Packers = {p1, p2}
  Pids = {x1, x2}
  PidsAreUnique = TRUE
  NumTensors = 2
  Selected = {2}
  MaxVersion = 2
  NoFile = none
INVARIANTS
  PublishInv
  PublishedIsVerified
  PublishedIsOneVersion
  SuccessPublishes
PROPERTIES
  PublishedNeverChanges
CHECK_DEADLOCK FALSE
