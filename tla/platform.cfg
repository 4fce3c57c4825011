SPECIFICATION PlatformSpec
CONSTANTS
  Node = {n1, n2}
  Flag = {"f1", "f2"}
  TriState = {}
  DependsOn <- Dependencies
  Unmet = {"f2"}
  EnvDefault <- Environment
  Edit = {r1, r2}
  Slot = {s1}
  MaxCrashes = 1
  Call = {"c1", "c2", "c3", "c4"}
  NodeOf <- Homes
  Job = {"j1", "j2"}
  PoolMax = 3
  MaxQueries = 2
  MaxRestarts = 1
CHECK_DEADLOCK FALSE
INVARIANT PlatformHolds
PROPERTY FlagsConverge
PROPERTY JobsFinish
