SPECIFICATION Spec
CONSTANTS
  Req = {r1, r2, r3, r4}
  Browser = {b1}
  Client = {c1, c2}
  BcClient = {c1}
  Kinds = {"authorize", "redeem", "refresh", "revoke", "logout", "device", "ban", "risk", "api", "crash", "expiry"}
  None = None
SYMMETRY Symmetry
CHECK_DEADLOCK FALSE
INVARIANT TokensStayInSession
INVARIANT LogoutIsAnnounced
PROPERTY ClosedSessionStaysClosed
PROPERTY DeviceIsSingleUse
PROPERTY BanHolds
