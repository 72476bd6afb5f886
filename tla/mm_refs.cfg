SPECIFICATION FairSpec
CONSTANTS
  User = {u1, u2}
  Kthread = {k1, k2}
  Init1 = u1
  Mm = {m1, m2}
  NULL = NULL
INVARIANTS RefsExact LookupSafe
PROPERTIES TornIsFreed
CHECK_DEADLOCK FALSE
