SPECIFICATION LoopsSpec
CONSTANTS
  N = 2
  M = 10
  MaxRing = 1100
INVARIANTS LoopsChooseM
CHECK_DEADLOCK FALSE
