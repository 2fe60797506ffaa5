SPECIFICATION FairSpec
CONSTANTS
  FS_PAGE_SIZE = 2
  MAX_NUM_FS_DENTRIES = 4
  MAX_FILENAME_LENGTH = 2
  NUM_BLOCKS = 2
  Images <- AllImages
  Names <- AllNames
  Offsets = {0, 1, 2, 3, 4}
  Lengths = {0, 1, 2, 3, 5}
  NULL = NULL
INVARIANTS
  BufferIsFile
  ReadExact
  LookupExact
PROPERTY
  ReadTerminates
