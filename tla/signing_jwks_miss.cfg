SPECIFICATION Spec
CONSTANTS
  Node = {n1, n2}
  Signing = {n1}
  Key = {k1, k2, k3, k4}
  None = None
  Period = 2
  Grace = 2
  CacheTTL = 1
  TokenLife = 1
  MaxAge = 1
  Lag = 0
  MaxTime = 5
  MaxCrashes = 0
SYMMETRY Symmetry
CHECK_DEADLOCK FALSE
INVARIANT KidNeverMissed
