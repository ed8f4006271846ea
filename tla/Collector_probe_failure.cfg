SPECIFICATION Spec
CONSTANTS
  old = old  wrong = wrong  bare = bare
  None = None  strong = strong  weak = weak  sha256 = sha256  sha1 = sha1
  Certs = {old, wrong, bare}
  About <- SomeCerts
  Servers <- SomeServers
  Ciphers = {strong, weak}
  InsecureCiphers = {weak}
  Algorithms = {sha256, sha1}
  ObsoleteAlgorithms = {sha1}
  HostIsIP = FALSE
  Day = 2
  MaxGap = 3
  MaxTime = 7
  MaxDeploys = 0
PROPERTIES
  ResolvedMeansFixed
CHECK_DEADLOCK FALSE
