SPECIFICATION ServicesSpec
CONSTANTS
  c1 = c1
  c2 = c2
  c3 = c3
  c4 = c4
  n1 = n1
  n2 = n2
  Call = {c1, c2, c3}
  Password = {n1, n2}
  NoPassword = NoPassword
  MaxFailed = 2
  HistoryCount = 1
  AccountCases <- AccountBehaviours
  MaxDead = 1
  Job = {c1, c2, c3, c4}
  Factor = {f1}
  RecoveryCode = {k1, k2, k3}
  MaxAttempts = 2
  BatchSize = 1
  MaxSent = 2
  FactorCases = {{"otp"}, {"webauthn"}, {"totp"}, {"otp", "recovery"}}
  Caller = {c1, c2, c3}
  Puzzle = {p1, p2}
  Identity = {i1, i2}
  Threshold = 1
  MaxSolves = 1
  PuzzleLimit = 1
  MaxWindows = 1
  Visit = {n1, n2}
  Foreign = {i1, i2}
  Attempt = {s1}
  Email = {e1}
  NoEmail = NoEmail
  Local = Local
  Redirect = {i1}
  GitHub = {i1}
  Leaver = {Local}
  Elsewhere = Elsewhere
  MaxElsewhere = 1
  Node = {n1, n2}
  Event = {"e1"}
  Rules <- RuleOrder
  Tick = {"t1", "t2"}
  Scheduled = {"t1"}
  Degrading = {"t1"}
  Cooldown = 1
  Window = 1
  MaxExecutions = 1
  AlertLimit = 2
  MaxClock = 2
  OpsCases = {{"event"}, {"heal"}}
  Authn = {c1, c2, c3}
  Assertion = {"a1"}
  Dpop = {"d1"}
  Pushed = {"q1"}
  Life = 2
  Second = 2
  MaxSecret = 1
  LastTime = 3
  ClientCases = {{"secret"}, {"proof"}, {"pushed"}}
  Op = {n1, n2}
  User = {n1, n2}
  Tenant = {t1, t2}
  Group = {g1}
  DefaultTenant = t1
  NoTenant = t0
  Unknown = Unknown
  AccessCases = {{"boot", "admin", "remove"}, {"boot", "create"}, {"admin", "remove", "create", "move"}, {"group"}}
  Request = {c1, c2, c3}
  Console = {n1, n2}
  Example = {x1, x2}
  TabCases = {{n1, n2}, {x1}}
  Crowd = 2
  MaxMinted = 3
  MaxLost = 1
  Scored = {n1, n2}
  Device = {c1, c2, c3}
  ListCap = 2
  MaxEvents = 3
SYMMETRY Symmetry
CHECK_DEADLOCK FALSE
INVARIANT ServicesTypeOK
INVARIANT AccountHolds
INVARIANT FactorHolds
INVARIANT CaptchaHolds
INVARIANT FederationHolds
INVARIANT AlertsBounded
INVARIANT ClientAuthHolds
INVARIANT AccessHolds
INVARIANT BrowserKeepsTokens
INVARIANT BaselineHolds
PROPERTY DisabledStaysDisabled
