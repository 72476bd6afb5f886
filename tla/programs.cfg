SPECIFICATION ProgramsSpec
CONSTANTS
  t1 = t1
  NULL = NULL
  Task = {t1}
  Slot = {0, 1, 2, 3, 4, 5, 6, 7, 8, 9}
  Size <- AllSizes
  Strategy = {0, 1, 2}
  HDR = 8
  INITIAL_SIZE = 1000
  Base = 8
  WORD = 2048
  MAX_TOTAL_ALLOCS = 10
  max_allocs = 3
  Means <- MediumChunks
  rand <- Draws
INVARIANTS TestsHold BooksBalance
PROPERTIES BenchmarksEnd
