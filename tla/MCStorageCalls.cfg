\* The effect of every handler on every path, from every image, those after an
\* assertion and a mount included.  Three names, so that a directory can be
\* renamed twice, which stops the daemon; never killed.
CONSTANTS
  Names = {"a", "b", "c", "too long"}
  LongNames = {"too long"}
  ENTRIES_PER_BLOCK = 2
  MAX_INODE_COUNT = 3
  DATA_BLOCKS = 5
  MaxFileBlocks = 0
  MaxDepth = 2
  MaxEntries = 4
  MaxKills = 0
  MaxAborts = 1
SPECIFICATION CrashSpec
INVARIANTS
  Effects
  RefsCoverNames
  DotsAreRight
\* The daemon stops when it aborts once more.
CHECK_DEADLOCK FALSE
VIEW View
