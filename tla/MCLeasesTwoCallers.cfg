CONSTANTS
  Keys = {1, 2}
  Cidrs <- CidrsMixed
  AddressSpace = 16
  Hash <- HashColliding
  Callers = {main, status}
  Main = main
  Writers = {w}
  DbFaults = TRUE
  StartFaults = TRUE
  NoIP = NoIP
  NoCidr = NoCidr
SPECIFICATION Spec
CHECK_DEADLOCK TRUE
INVARIANTS
  PlanCollisionFree
