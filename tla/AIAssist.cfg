SPECIFICATION FairSpec
CONSTANTS
  high = high  medium = medium  moderate = moderate
  None = None
  Severities = {high, medium}
  Words = {high, medium, moderate}
  Meaning <- SomeMeaning
  Sentences <- SomeSentences
  Narrations <- SomeNarrations
  Minimum = 2
  MaxRetries = 1
  Evidences <- SomeEvidences
  SecretKeys = {2}
  MaxKeys = 2
  MaxList = 2
  MaxDepth = 2
INVARIANTS
  TypeOK
  NarrationGuarded
  EvidenceMinimised
PROPERTIES
  SidecarSpared
  RequestsAnswered
