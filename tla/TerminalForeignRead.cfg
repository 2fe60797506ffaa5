SPECIFICATION Spec
CONSTANTS
  NumTty = 2
  TERMINAL_BUFFER_MAX_SIZE = 3
  WORD = 8
  Keys <- RaceKeys
  ReadSizes <- WholeRows
  MaxTears = 1
PROPERTY
  ReaderIsActive
CHECK_DEADLOCK FALSE
