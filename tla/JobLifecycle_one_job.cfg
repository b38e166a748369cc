\* One job contended for by two processes, with every fault.
SPECIFICATION Spec
CONSTANTS
  j1 = j1
  j2 = j2
  w1 = w1
  w2 = w2
  Jobs = {j1}
  Workers = {w1, w2}
  Concurrency = 1
  Attempts = 2
  MaxStalledCount = 1
  Unknown = {}
  Invalid = {}
  HandlerErrors <- KitErrors
  WritesMayFail = TRUE
  MaxCrashes = 1
  MaxLockLosses = 2
  MaxOperatorRetries = 1
  NoJob = NoJob
  NoLock = NoLock
  Orphan = Orphan
SYMMETRY Symmetric
CHECK_DEADLOCK FALSE
INVARIANTS
  TypeOK
  StartsBounded
  RecordsAreFailures
  NoFailureDropped
  RetryPredictionAgrees
  CountersCoverFailures
  LifecycleInv
PROPERTIES
  FreshFailureId
  ImplementsContract
