\* An abandoned handler and the concurrency slots of one process.
SPECIFICATION Spec
CONSTANTS
  j1 = j1
  j2 = j2
  w1 = w1
  w2 = w2
  Jobs = {j1}
  Workers = {w1}
  Concurrency = 1
  Attempts = 2
  MaxStalledCount = 1
  Unknown = {}
  Invalid = {}
  HandlerErrors <- KitErrors
  WritesMayFail = TRUE
  MaxCrashes = 0
  MaxLockLosses = 0
  MaxOperatorRetries = 0
  NoJob = NoJob
  NoLock = NoLock
  Orphan = Orphan
CHECK_DEADLOCK FALSE
INVARIANTS
  HandlersWithinConcurrency
