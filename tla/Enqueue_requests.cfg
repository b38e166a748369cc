CONSTANTS
  r1 = r1
  r2 = r2
  r3 = r3
  r4 = r4
  r5 = r5
  r6 = r6
  k1 = k1
  Requests = {r1, r2, r3, r4, r5, r6}
  Keys = {k1}
  NoKey = NoKey
  Key <- MCKey
  Defects <- MCDefects
  NoJob = NoJob
  MaxDrops = 2
  MaxExpiries = 1
SPECIFICATION FairSpec
INVARIANTS
  TypeOK
  KeyCollapses
  AcceptedIsQueued
  DuplicatesBounded
  RefusedNotQueued
  BlameIsStable
PROPERTY RequestAnswered
\* the requests end
CHECK_DEADLOCK FALSE
