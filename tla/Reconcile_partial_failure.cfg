SPECIFICATION Spec
CONSTANTS
  f1 = f1  f2 = f2  t1 = t1
  Fingerprints = {f1, f2}
  Targets = {t1}
  TargetOf <- OneTarget
  Scanners = {s1}
  Handlers = {h1}
  ResolveAfter = 1
  Overlap = FALSE
  MaybeMalformed = FALSE
  MaxScans = 3
  MaxFaults = 1
  MaxCrashes = 0
INVARIANTS
  EveryRecordAnnounced
CHECK_DEADLOCK FALSE
