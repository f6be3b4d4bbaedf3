\* An int has eight values, -4 to 3, where it has 2^32: two data blocks of one
\* byte are as far below its limit as the disk is, and a size of 5 is beyond it.
CONSTANTS
  BLOCK_SIZE = 1
  BLOCK_COUNT = 3
  RESERVED_BLOCKS = 1
  MAX_INODE_COUNT = 3
  INODE_LOCAL_BLOCK_CAP = 2
  INT_RANGE = 8
  MaxFileSize = 8
SPECIFICATION Spec
PROPERTY TruncateReaches
CHECK_DEADLOCK FALSE
