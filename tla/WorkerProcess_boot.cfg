CONSTANTS
  j1 = j1
  j2 = j2
  j3 = j3
  Jobs = {j1, j2}
  Concurrency = 2
  MetricsServer = TRUE
  QueueEvents = TRUE
  Schedulers = TRUE
  RedisUpAtBoot = FALSE
  RedisRecovers = FALSE
  MaxOutages = 0
  BootMayFail = FALSE
  StepsMayFail = FALSE
  MaxRequests = 2
SPECIFICATION FairSpec
PROPERTY BootsWithoutRedis
CHECK_DEADLOCK FALSE
