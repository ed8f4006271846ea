SPECIFICATION Spec
CONSTANTS
  f1 = f1  f2 = f2  t1 = t1
  Fingerprints = {f1, f2}
  Targets = {t1}
  TargetOf <- OneTarget
  Scanners = {s1}
  Handlers = {h1}
  ResolveAfter = 2
  Overlap = FALSE
  MaybeMalformed = TRUE
  MaxScans = 4
  MaxFaults = 1
  MaxCrashes = 1
INVARIANTS
  SuppressionStands
  AnnouncementsMatch
PROPERTIES
  OpenedOncePerEpisode
  ResolvedOnlyAfterMisses
  ImplementsLifecycle
CHECK_DEADLOCK FALSE
