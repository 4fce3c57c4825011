SPECIFICATION ConsoleSpec
CONSTANTS
  n1 = n1
  n2 = n2
  Alert = {n1, n2}
  Conn = {"k1", "k2"}
  Load = {"l1"}
  MaxRetries = 1
  HeardCap = 2
  Try = {1, 2}
  AlertCases = {{"press", "away"}, {"press", "filter"}, {"press", "others", "twice", "lost", "away", "abroad"}, {"others"}, {"stream"}}
  Fetch = {n1, n2}
  PageCases = {"users", "clients", "tenants", "idps", "flags", "rules", "risk", "stats", "audit"}
  MaxForeign = 2
  Item = {n1, n2}
  Answering = {n1, n2}
  Screen = {n1, n2}
  Topics <- TopicSet
  MaxElsewhere = 2
  MaxBatches = 2
  Name = {n1, n2}
  Sending = {"r1", "r2"}
  NoName = NoName
  Method = {"email", "sms"}
  Scenes <- SceneSet
  Entry = {n1, n2}
  NoEntry = NoEntry
  EntryKinds = {{"form"}, {"sso"}, {"device"}, {"form", "sso"}, {"form", "device"}, {"sso", "device"}}
  Thing = {n1, n2}
  NoThing = NoThing
  Lookup = {"l1", "l2"}
  Subjects <- SubjectSet
SYMMETRY Symmetry
CHECK_DEADLOCK FALSE
INVARIANT ConsoleTypeOK
INVARIANT ConsoleHolds
INVARIANT BrowserHolds
