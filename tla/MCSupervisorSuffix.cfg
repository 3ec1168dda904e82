CONSTANTS
  Profiles = {p, q}
  Handlers = {h}
  Ops = {"logout"}
  Faults = {"leases"}
  Targets = {}
  Suffix <- SameSuffix
  MaxBus = 1
  MaxFaults = 1
SPECIFICATION FairSpec
CHECK_DEADLOCK TRUE
PROPERTIES
  AmbiguityIsFatal
