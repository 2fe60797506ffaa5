SPECIFICATION ConsoleSpec
CONSTANTS
  NumTty = 2
  TERMINAL_BUFFER_MAX_SIZE = 2
  WORD = 8
  Keys <- LineKeys
  ReadSizes <- WholeRows
  MaxTears = 0
  Readers = {0}
  NUM_COLS = 2
  NUM_ROWS = 2
  RowsLost = 0
  MaxRaces = 1
INVARIANTS
  NothingBelowScreen
  OutputFollowsLine
PROPERTY
  CursorAtOutput
