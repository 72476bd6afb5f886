SPECIFICATION SafeSpec
CONSTANTS
  t1 = t1
  t2 = t2
  a = a
  b = b
  c = c
  NULL = NULL
  Task = {t1, t2}
  Slot = {a, b, c}
  Size = {1}
  Strategy = {0, 1, 2}
  HDR = 2
  INITIAL_SIZE = 10
  Base = 3
  WORD = 64
CHECK_DEADLOCK FALSE
INVARIANTS
  IInv
PROPERTIES
  ImplementsArena
SYMMETRY Symmetry
