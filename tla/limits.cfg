CONSTANTS
  Task = {root, a, b, c, d}
  Root = root
  NULL = NULL
  MaxThreads = 3
  NProc = 5
  Privileged = {}
  Allocator = {}
  CloneFlags <- ThreadOnly
  WIDTH = 8
  PAGE_SIZE = 4
  THREAD_SIZE = 1
  MIN_THREADS = 2
  MAX_THREADS = 16
SPECIFICATION Spec
INVARIANTS ThreadsBounded ThreadsFitMemory
SYMMETRY Symmetry
CHECK_DEADLOCK FALSE
