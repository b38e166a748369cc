CONSTANTS
  Steps <- ApiSteps
  Holders = {"http-server", "redis"}
  MaxRequests = 3
  Thrown <- MCThrown
  Errors <- MCErrors
  Cause <- MCCause
  Undefined = Undefined
  Unreadable = Unreadable
  ErrorCauseMaxDepth = 3
  StackDepth = 8
SPECIFICATION HandlersSpec
INVARIANTS
  TypeOK
  StepsOnceInOrder
  ExitsAfterAllSteps
  ReportsFollowCauses
PROPERTY ShutdownEnds
\* the process exits
CHECK_DEADLOCK FALSE
