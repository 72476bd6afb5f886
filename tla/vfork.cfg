CONSTANTS
  Task = {root, a, b}
  Root = root
  NULL = NULL
SPECIFICATION FairSpec
INVARIANTS TypeOK NoStaleCompletion RefsExact
PROPERTIES FreedOnlyDead ImplementsVfork VforkReturns
