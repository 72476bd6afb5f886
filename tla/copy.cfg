CONSTANTS
  Task = {root, a, b}
  Root = root
  NULL = NULL
  MaxThreads = 2
  NProc = 2
  Privileged = {root}
  Allocator = {root, a}
  CloneFlags <- AllCalls
SPECIFICATION FairSpec
INVARIANTS TypeOK BooksExact SharingSound TsoMmPrivate
PROPERTIES ImplementsAtomicFork KilledGroupEnds
CHECK_DEADLOCK FALSE
