CONSTANTS
  Profiles = {1, 2}
  Canonicals = {x}
  Lease <- LeaseOf
  Convs = {c}
  Headers = {c, NoConv}
  NoConv = NoConv
  FragIds = {i}
  MaxFlows = 1
  MaxFrags = 1
  NoAddr = NoAddr
SPECIFICATION Spec
CHECK_DEADLOCK TRUE
INVARIANTS
  TypeOK
  SourceIsSender
  CanonicalOnlyIfOpened
  PurgedUnlessInFlight
  TablesBounded
PROPERTIES
  ActiveNeverEvicted
