CONSTANTS
  Profiles = {p}
  Handlers = {h}
  Ops = {"login", "logout"}
  Faults = {"watch", "message", "refresh"}
  Targets = {a}
  Suffix <- OwnSuffix
  MaxBus = 2
  MaxFaults = 2
SPECIFICATION Spec
CHECK_DEADLOCK TRUE
INVARIANTS
  NoChangeIsLost
  OfferedUnlessRaced
  BoundIsRouted
