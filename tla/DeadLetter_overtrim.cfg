CONSTANTS
  f1 = f1
  f2 = f2
  f3 = f3
  p1 = p1
  p2 = p2
  Failures = {f1, f2, f3}
  Processes = {p1, p2}
  Owner <- Owners3
  MaxEntries = 1
  MayRefuse = FALSE
  MaxCrashes = 0
  MaxResends = 0
SPECIFICATION Spec
PROPERTY EvictsOnlyPastLimit
\* the calls end
CHECK_DEADLOCK FALSE
