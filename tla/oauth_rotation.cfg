SPECIFICATION Spec
CONSTANTS
  Req = {r1, r2, r3, r4, r5, r6}
  Browser = {b1}
  Client = {c1}
  BcClient = {c1}
  Kinds = {"authorize", "redeem", "refresh", "api"}
  None = None
SYMMETRY Symmetry
CHECK_DEADLOCK FALSE
INVARIANT TypeOK
INVARIANT RotationIsLinear
PROPERTY CodeIsSingleUse
PROPERTY RefreshIsSingleUse
PROPERTY DeadFamilyStaysDead
