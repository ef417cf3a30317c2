\* Five requests, one more than a burst at a boundary lets through.
CONSTANTS
  Request = {r1, r2, r3, r4, r5}
  Limit = 2
  Minute = 3
  Lag = 1
  Horizon = 7
SYMMETRY Alike
SPECIFICATION Spec
INVARIANTS
  RateTypeOK
  RefusalIsFair
  
  BurstIsBounded
CHECK_DEADLOCK FALSE
