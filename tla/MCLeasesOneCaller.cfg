CONSTANTS
  Keys = {1, 2, 3}
  Cidrs <- CidrsTight
  AddressSpace = 16
  Hash <- HashColliding
  Callers = {main}
  Main = main
  Writers = {w}
  DbFaults = FALSE
  StartFaults = FALSE
  NoIP = NoIP
  NoCidr = NoCidr
SPECIFICATION FairSpec
CHECK_DEADLOCK TRUE
INVARIANTS
  TypeOK
  StoreCollisionFree
  StoreInPool
  PlanIsPersisted
  FullyOperating
PROPERTIES
  LeaseNeverMoves
  ImplementsLeaseMap
  EventuallyReconciled
