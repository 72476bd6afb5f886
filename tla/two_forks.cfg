CONSTANTS
  Task = {root, a, b, c}
  Root = root
  NULL = NULL
  MaxThreads = 3
  NProc = 4
  Privileged = {}
  Allocator = {}
  CloneFlags <- ForkAndThread
SPECIFICATION Spec
INVARIANTS BooksExact NoEscape
SYMMETRY Symmetry
CHECK_DEADLOCK FALSE
