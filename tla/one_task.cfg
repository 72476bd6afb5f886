SPECIFICATION FairSpec
CONSTANTS
  t1 = t1
  t2 = t2
  a = a
  b = b
  c = c
  NULL = NULL
  Task = {t1}
  Slot = {a, b, c}
  Size = {0, 1, 3, 61}
  Strategy = {0, 1, 2}
  HDR = 2
  INITIAL_SIZE = 14
  Base = 3
  WORD = 64
CHECK_DEADLOCK FALSE
INVARIANTS
  TypeOK
  HeldBlocksDisjoint
  ListComplete
  RegionsAreHeld
  FreeIsExact
  PlacementFollowsStrategy
PROPERTIES
  RefusedOnlyWithoutRoom
  FreeFindsHeldBlock
  ImplementsArena
  CallsReturn
