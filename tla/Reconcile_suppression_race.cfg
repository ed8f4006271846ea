SPECIFICATION Spec
CONSTANTS
  f1 = f1  f2 = f2  t1 = t1
  Fingerprints = {f1}
  Targets = {t1}
  TargetOf <- OneFinding
  Scanners = {s1}
  Handlers = {h1}
  ResolveAfter = 1
  Overlap = TRUE
  MaybeMalformed = FALSE
  MaxScans = 3
  MaxFaults = 0
  MaxCrashes = 0
INVARIANTS
  SuppressionStands
CHECK_DEADLOCK FALSE
