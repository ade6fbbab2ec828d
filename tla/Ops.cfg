SPECIFICATION Spec
CONSTANTS
  Threads = {"t1", "t2"}
  AllFormats = {"default", "fmt12"}
  Default = "default"
  FormatEnv = {}
  Builds <- MCBuilds
  Disks <- MCDisks
  MaxInstalls = 1
  Work <- MCWork
  MaxJobs = 1
  RowLimit = 4096
  AllowCpu = FALSE
INVARIANTS
  RowsMeetTheirExpert
  WeightsAreTheExperts
  NoUnresolvedCall
PROPERTIES
  OneVerdict
  CallsReturn
CHECK_DEADLOCK FALSE
