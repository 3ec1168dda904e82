CONSTANTS
  Keys = {1, 2}
  Cidrs <- CidrsAmple
  AddressSpace = 16
  Hash <- HashColliding
  Callers = {main, status}
  Main = main
  Writers = {w}
  DbFaults = FALSE
  StartFaults = FALSE
  NoIP = NoIP
  NoCidr = NoCidr
SPECIFICATION Spec
CHECK_DEADLOCK TRUE
INVARIANTS
  StoreCollisionFree
