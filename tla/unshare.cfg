SPECIFICATION Spec
CONSTANTS
  Task = {t1, t2, t3}
  Init1 = t1
  Obj = {o1, o2, o3}
  NULL = NULL
  MaxBusy = 2
  Calls <- SomeCalls
  Clones <- SomeClones
INVARIANTS SharersExact UnsharedIsPrivate
SYMMETRY Symmetry
CHECK_DEADLOCK FALSE
