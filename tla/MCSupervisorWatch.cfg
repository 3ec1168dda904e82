CONSTANTS
  Profiles = {p}
  Handlers = {}
  Ops = {}
  Faults = {"watch", "routes"}
  Targets = {a}
  Suffix <- OwnSuffix
  MaxBus = 2
  MaxFaults = 2
SPECIFICATION FairSpec
CHECK_DEADLOCK TRUE
INVARIANTS
  TypeOK
PROPERTIES
  FollowsEngine
