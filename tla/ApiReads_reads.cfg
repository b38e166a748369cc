CONSTANTS
  g1 = g1
  s1 = s1
  s2 = s2
  Requests = {g1}
  MaxRuns = 3
  MaxDrops = 1
  Scrapes = {s1, s2}
  Queues <- TwoQueues
  Unset = Unset
SPECIFICATION ReadsSpec
SYMMETRY Symmetric
INVARIANTS
  ReadsTypeOK
  SettledRepliesAgree
  SamplesAccountedFor
\* the requests end
CHECK_DEADLOCK FALSE
