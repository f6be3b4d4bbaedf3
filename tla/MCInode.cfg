\* Blocks of 2 bytes, 1 slot to an inode: a file of 5 bytes is a chain of three.
\* Both the three data blocks and the inodes run out.
CONSTANTS
  BLOCK_SIZE = 2
  BLOCK_COUNT = 4
  RESERVED_BLOCKS = 1
  MAX_INODE_COUNT = 4
  INODE_LOCAL_BLOCK_CAP = 1
  INT_RANGE = 32
  MaxFileSize = 5
SPECIFICATION Spec
INVARIANTS
  TypeOK
  Structure
  
  Exact
  ChainsPartition
PROPERTY StoreSpec
\* ShrinkUndefined ends the daemon.
CHECK_DEADLOCK FALSE
