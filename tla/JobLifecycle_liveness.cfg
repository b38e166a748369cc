\* Two jobs, one with a payload that does not parse; handlers may hang.
SPECIFICATION FairSpec
CONSTANTS
  j1 = j1
  j2 = j2
  w1 = w1
  w2 = w2
  Jobs = {j1, j2}
  Workers = {w1, w2}
  Concurrency = 1
  Attempts = 2
  MaxStalledCount = 1
  Unknown = {}
  Invalid = {j2}
  HandlerErrors <- KitErrors
  WritesMayFail = TRUE
  MaxCrashes = 1
  MaxLockLosses = 0
  MaxOperatorRetries = 0
  NoJob = NoJob
  NoLock = NoLock
  Orphan = Orphan
CHECK_DEADLOCK FALSE
PROPERTIES
  JobSettles
  FailureRecorded
