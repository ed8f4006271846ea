SPECIFICATION CallsSpec
CONSTANTS
  Modules = {m1}
  Targets = {t1}
  Adders = {a1}
  Callers = {c1}
  Scans = {g1, g2}
  Workers = 1
  MaxFailures = 1
INVARIANTS
  TypeOK
  SlotsAccounted
  WaitGroupAccounted
  StoppedMeansStopped
PROPERTIES
  
  RemovedRunsOut
  ScanNowTerminates
  StopTerminates
CHECK_DEADLOCK FALSE
