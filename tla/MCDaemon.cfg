CONSTANTS
  Dests = {"c", "e", "f"}
  Plans <- PlansShared
  MaxFaults = 1
  Clients = {c1, c2}
  Limit = 1
SPECIFICATION FairSpec
CHECK_DEADLOCK TRUE
INVARIANTS
  NothingLeftAtExit
  HandlersFinishFirst
  RoutesFollowTargets
  ResolvedInStep
PROPERTIES
  ShutdownEnds
  RestartComesBack
