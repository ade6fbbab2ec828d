CONSTANTS
  Threads = {t1}
  Entries = {"plain", "enqueue"}
  SyncReadsLastError = TRUE
  MaxCalls = 2
SPECIFICATION Spec
INVARIANTS
  RuntimeErrorIsOwn
