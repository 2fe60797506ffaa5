SPECIFICATION Spec
CONSTANTS
  NumTty = 1
  TERMINAL_BUFFER_MAX_SIZE = 3
  WORD = 8
  Keys <- RaceKeysAlone
  ReadSizes <- WholeRows
  MaxTears = 1
INVARIANT
  LengthFitsBuffer
CHECK_DEADLOCK FALSE
