SPECIFICATION LoopsSpec
CONSTANTS
  N = 2
  M = 10
  MaxRing = 1024
INVARIANT MIsLogN
CHECK_DEADLOCK FALSE
