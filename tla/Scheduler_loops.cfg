SPECIFICATION SweepSpec
CONSTANTS
  Modules = {m1}
  Targets = {t1, t2}
  Adders = {}
  Callers = {}
  Scans = {g1, g2}
  Workers = 1
  MaxFailures = 1
PROPERTIES
  TargetsScanned
CHECK_DEADLOCK FALSE
