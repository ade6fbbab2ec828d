CONSTANTS
  Threads = {t1, t2}
  Entries = {"lowbit"}
  SyncReadsLastError = FALSE
  MaxCalls = 1
SPECIFICATION Spec
INVARIANTS
  RefusedMeansNotLaunched
