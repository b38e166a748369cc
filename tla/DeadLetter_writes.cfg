CONSTANTS
  f1 = f1
  f2 = f2
  f3 = f3
  p1 = p1
  p2 = p2
  Failures = {f1, f2, f3}
  Processes = {p1, p2}
  Owner <- Owners3
  MaxEntries = 1
  MayRefuse = TRUE
  MaxCrashes = 1
  MaxResends = 1
SPECIFICATION FairSpec
INVARIANTS
  TypeOK
  BoundedAtRest
  NeverSilent
PROPERTIES
  ImplementsContract
  RecordSettles
\* the calls end
CHECK_DEADLOCK FALSE
