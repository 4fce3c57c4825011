SPECIFICATION Spec
CONSTANTS
  Req = {r1, r2, r3}
  Browser = {b1}
  Client = {c1}
  BcClient = {c1}
  Kinds = {"authorize", "redeem", "api"}
  None = None
SYMMETRY Symmetry
CHECK_DEADLOCK FALSE
INVARIANT SessionLinkSurvivesRotation
