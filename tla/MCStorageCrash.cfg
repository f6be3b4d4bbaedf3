\* Three inodes, three names, a disk that fills up, killed once.
CONSTANTS
  Names = {a, b, c}
  LongNames = {}
  ENTRIES_PER_BLOCK = 2
  MAX_INODE_COUNT = 3
  DATA_BLOCKS = 3
  MaxFileBlocks = 1
  MaxDepth = 2
  MaxEntries = 4
  MaxKills = 1
  MaxAborts = 1
SPECIFICATION CrashSpec
INVARIANTS
  
  
  CrashOwesLittle
\* A dangling name ends the model.
CHECK_DEADLOCK FALSE
VIEW View
SYMMETRY NameSymmetry
