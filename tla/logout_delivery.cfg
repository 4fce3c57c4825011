SPECIFICATION FairSpec
CONSTANTS
  Node = {n1, n2}
  Admin = {a1}
  Delivery = {d1, d2}
  None = None
  MaxAttempts = 2
  Limit = 1
  MaxFaults = 1
CHECK_DEADLOCK FALSE
INVARIANT TypeOK
INVARIANT NotGivenUpEarly
INVARIANT AcceptedOnce
PROPERTY SettledIsFinal
PROPERTY LogoutsAreSettled
