CONSTANTS
  j1 = j1
  j2 = j2
  j3 = j3
  Jobs = {j1, j2, j3}
  Concurrency = 2
  MetricsServer = TRUE
  QueueEvents = TRUE
  Schedulers = TRUE
  RedisUpAtBoot = TRUE
  RedisRecovers = TRUE
  MaxOutages = 1
  BootMayFail = TRUE
  StepsMayFail = TRUE
  MaxRequests = 2
SPECIFICATION FairSpec
INVARIANTS
  TypeOK
  ConnectionOutlivesWork
  LossesHaveReasons
PROPERTY GracefulShutdownFinishes
\* the process exits
CHECK_DEADLOCK FALSE
