\* Blocks of 2 bytes, 1 slot to an inode, three data blocks; two crashes.
CONSTANTS
  BLOCK_SIZE = 2
  BLOCK_COUNT = 4
  RESERVED_BLOCKS = 1
  MAX_INODE_COUNT = 3
  INODE_LOCAL_BLOCK_CAP = 1
  INT_RANGE = 32
  MaxFileSize = 5
  MaxCrashes = 2
SPECIFICATION CrashSpec
INVARIANT CrashKeepsFiles
 
\* ShrinkUndefined ends the daemon, and a damaged file the model.
CHECK_DEADLOCK FALSE
