SPECIFICATION FairSpec
CONSTANTS
  MAX_NUM_OF_PROCESSES = 7
  NumShells = 3
  RamHasChild <- ZeroedRam
  FaultySyscalls = TRUE
INVARIANTS
  CurrentEverywhere
  SavedContexts
  FamilyTree
  OneLeafPerTty
  ImagesIntact
PROPERTIES
  ImplementsTtyStacks
  EveryTtyRuns
CHECK_DEADLOCK FALSE
