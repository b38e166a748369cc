CONSTANTS
  p1 = p1
  p2 = p2
  q1 = q1
  q2 = q2
  Posts = {p1, p2}
  Probes = {q1, q2}
  Drain = Drain
  BootMayFail = TRUE
  StepsMayFail = TRUE
  MaxOutages = 1
  MaxRequests = 2
SPECIFICATION FairSpec
INVARIANTS
  TypeOK
  AcceptedFinishes
  ProbesSettleBeforeClose
  OnlyDeadlineCuts
PROPERTY ProbeAnswered
\* the process exits
CHECK_DEADLOCK FALSE
