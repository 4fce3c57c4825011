SPECIFICATION Spec
CONSTANTS
  Writer = {w1, w2}
  Tenant = {t1}
  MaxSeq = 4
  MaxEdits = 1
  Faults = {"rollback", "purge", "tamper"}
SYMMETRY Symmetry
CHECK_DEADLOCK FALSE
INVARIANT TypeOK
INVARIANT ChainDoesNotFork
INVARIANT UndisturbedVerifies
INVARIANT TamperingShows
