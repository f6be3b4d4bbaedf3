\* Texts of up to five delimiters and names on images of three inodes.
CONSTANTS
  Names = {"a", "b"}
  LongNames = {}
  ENTRIES_PER_BLOCK = 2
  MAX_INODE_COUNT = 3
  DATA_BLOCKS = 5
  MaxFileBlocks = 0
  MaxDepth = 2
  MaxEntries = 4
  MaxText = 5
SPECIFICATION FairWalkSpec
INVARIANTS
  LookupIsResolve
  ParentHoldsChild
  WalkInDirs
PROPERTY LookupReturns
