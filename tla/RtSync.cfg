CONSTANTS
  Threads = {t1, t2}
  Entries = {"two", "plain", "checked", "lowbit", "grouped", "enqueue", "metadata"}
  SyncReadsLastError = TRUE
  MaxCalls = 2
SPECIFICATION Spec
INVARIANTS
  EntriesInv
  SuccessMeansResult
  FailuresCross
  ErrorLeavesOutputs
  LaunchesWithBuffers
  ZeroMeansEnqueued
