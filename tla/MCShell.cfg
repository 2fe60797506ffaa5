SPECIFICATION ShellSpec
CONSTANTS
  Letters = {"x"}
  MaxCommand = 5
  FNAME_SIZE = 2
  BufferSizes = {0, 2, 3, 4}
  Exit <- MCExit
  Results <- MCResults
INVARIANTS
  NameIsFirstWord
  EmulationAgrees
PROPERTIES
  ArgumentsArrive
  ShellReports
