CONSTANTS
  Targets <- MCTargets
  Profile <- MCProfile
  FQDN <- MCFQDN
  MagicName <- MCMagicName
  Canonical <- MCCanonical
  Inventories <- MCInventories
  EndsWith <- MCEndsWith
  Questions <- MCQuestions
  Queries = {q1, q2}
  NoName = NoName
  NoZone = NoZone
  NoProfile = NoProfile
SPECIFICATION FairSpec
CHECK_DEADLOCK TRUE
INVARIANTS
  TablesCurrent
PROPERTIES
  NeverCanonical
  ForwardedByCurrentTables
  QueriesAnswered
