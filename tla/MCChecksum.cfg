CONSTANTS
  Base = 4
  Addrs = {0, 1, 7, 14, 15}
  MaxData = 3
SPECIFICATION Spec
CHECK_DEADLOCK FALSE
INVARIANTS
  StaysVerified
