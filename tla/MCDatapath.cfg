CONSTANTS
  Devices = {a, b}
  QueueDepth = 1
  Lively = {a}
  Batch = 2
  MaxArrived = 2
  MaxSent <- SentByA
  a = a
  b = b
SPECIFICATION FairSpec
CHECK_DEADLOCK FALSE
INVARIANTS
  PacketsAccounted
PROPERTIES
  StalledDelaysNobody
  LoopsEnd
