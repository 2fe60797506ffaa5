SPECIFICATION FishSpec
CONSTANTS
  NUM_FDS = 5
  Disks <- MCDisks
  RunsOn <- MCRunsOn
  AnyFds <- MCAnyFds
  Names = {"text", "broken", ".", "rtc", "missing", "empty", "stdin", "stdout"}
  InNames = {"stdin"}
  OutNames = {"stdout"}
  MAX_NUM_FS_DENTRIES = 4
  Sizes = {2}
  NameLength = 4
  POS = 8
  BUFSIZE = 3
  Patterns <- MCPatterns
  MaxText = 6
  MaxFrame = 3
  COLS = 3
  ROWS = 3
  SHORT = 10
  OFFSET = 4
  WAIT = 5
  FrameLength = 3
  ExtraAt = 8
  ExtraOn = 2
  ExtraOff = 1
INVARIANTS
  ReadsAreSequential
  OwnOperations
  CatCopiesFile
  LsListsDirectory
  GrepPrintsMatchingLines
  FishAnimates
  BlinksListed
