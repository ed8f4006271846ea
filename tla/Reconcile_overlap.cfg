SPECIFICATION Spec
CONSTANTS
  f1 = f1  f2 = f2  t1 = t1
  Fingerprints = {f1, f2}
  Targets = {t1}
  TargetOf <- OneTarget
  Scanners = {s1, s2}
  Handlers = {h1}
  ResolveAfter = 1
  Overlap = TRUE
  MaybeMalformed = TRUE
  MaxScans = 2
  MaxFaults = 1
  MaxCrashes = 1
INVARIANTS
  TypeOK
  ResolvedIsStamped
  AnnouncedIfUndisturbed
PROPERTIES
  IdentityStable
CHECK_DEADLOCK FALSE
