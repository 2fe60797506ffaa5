SPECIFICATION Spec
CONSTANTS
  NumTty = 2
  TERMINAL_BUFFER_MAX_SIZE = 3
  WORD = 8
  Keys <- RaceKeys
  ReadSizes <- OddSizes
  MaxTears = 0
INVARIANTS
  LinesWellFormed
  WholeLineRead
  NoPhantomAlt
PROPERTY
  OnlyActiveLineChanges
CHECK_DEADLOCK FALSE
