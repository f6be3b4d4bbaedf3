\* The assertion of inode_exists.
CONSTANTS
  Names = {"a", "b", "too long"}
  LongNames = {"too long"}
  ENTRIES_PER_BLOCK = 2
  MAX_INODE_COUNT = 4
  DATA_BLOCKS = 5
  MaxFileBlocks = 2
  MaxDepth = 3
  MaxEntries = 4
SPECIFICATION Spec
INVARIANT NoAbort
\* The daemon stops when it aborts.
CHECK_DEADLOCK FALSE
