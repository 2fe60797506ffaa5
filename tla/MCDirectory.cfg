SPECIFICATION DirectorySpec
CONSTANTS
  Lister = {p, q}
  num_dentries = 3
  MaxCursor = 5
INVARIANT
  EntriesExist
PROPERTY
  ListingComplete
