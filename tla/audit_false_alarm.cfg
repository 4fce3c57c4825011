SPECIFICATION Spec
CONSTANTS
  Writer = {w1}
  Tenant = {t1}
  MaxSeq = 3
  MaxEdits = 1
  Faults = {"rollback", "purge"}
CHECK_DEADLOCK FALSE
INVARIANT OnlyTamperedContentReported
