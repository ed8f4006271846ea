SPECIFICATION Spec
CONSTANTS
  host = host  host443 = host443  other = other  third = third
  cHost = cHost  cOther = cOther  cThird = cThird
  pro = pro  bad = bad
  MaxTargetsOf <- SmallLimits
  KeyTier <- Signed
  Raws = {host, host443, other}
  Canonicals = {cHost, cOther}
  CanonicalOf <- Aliases
  Handlers = {h1, h2}
  Keys = {pro, bad}
  IssuerKey = FALSE
  MaxFaults = 0
  MaxRestarts = 0
INVARIANTS
  RestartRestoresTargets
CHECK_DEADLOCK FALSE
