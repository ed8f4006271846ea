SPECIFICATION PFairSpec
CONSTANTS
  f1 = f1  f2 = f2  m1 = m1  g1 = g1
  Fingerprints = {f1, f2}
  Modules = {m1}
  ModuleOf <- OneModule
  Severities = {1}
  MinSeverity = 0
  Channels = {webhook}
  Confirming = {webhook}
  Scans = {g1}
  MaxBatch = 2
  Retries = 2
  MaxEvents = 3
INVARIANTS
  PTypeOK
  NothingLost
  WindowSound
  LastWordStands
PROPERTIES
  ImplementsOutbox
  EveryEventSettled
  ExitsOnSignal
CHECK_DEADLOCK FALSE
