SPECIFICATION Spec
CONSTANTS
  host = host  host443 = host443  other = other  third = third
  cHost = cHost  cOther = cOther  cThird = cThird
  pro = pro  bad = bad
  MaxTargetsOf <- SmallLimits
  KeyTier <- Signed
  Raws = {host, host443, other, third}
  Canonicals = {cHost, cOther, cThird}
  CanonicalOf <- Three
  Handlers = {h1, h2}
  Keys = {pro, bad}
  IssuerKey = TRUE
  MaxFaults = 1
  MaxRestarts = 1
SYMMETRY Symmetric
INVARIANTS
  TypeOK
  RestartExactUnlessRaced
  ActivationPersisted
  OvershootBounded
PROPERTIES
  RestartDropsNothing
CHECK_DEADLOCK FALSE
