SPECIFICATION Spec
CONSTANTS
  Threads = {"t1"}
  AllFormats = {"default"}
  Default = "default"
  FormatEnv = {}
  Builds <- MCBuilds
  Disks <- MCDisks
  MaxInstalls = 0
  Work <- MCTiled
  MaxJobs = 1
  RowLimit = 4096
  AllowCpu = FALSE
INVARIANTS
  DequantizeInvertsPrepare
CHECK_DEADLOCK FALSE
