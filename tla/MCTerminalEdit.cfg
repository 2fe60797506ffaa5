SPECIFICATION FairSpec
CONSTANTS
  NumTty = 1
  TERMINAL_BUFFER_MAX_SIZE = 3
  WORD = 8
  Keys <- EditKeys
  ReadSizes <- AllSizes
  MaxTears = 1
PROPERTIES
  ImplementsLineEditor
  ReadCompletes
CHECK_DEADLOCK FALSE
