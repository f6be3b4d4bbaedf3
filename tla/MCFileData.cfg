\* Blocks of 2 bytes, 2 slots to an inode, three data blocks, and two files
\* beside the root: unaligned writes, gaps, stale bytes, a file whose last byte
\* is in a chained inode, and running out of space.
CONSTANTS
  BLOCK_SIZE = 2
  BLOCK_COUNT = 4
  RESERVED_BLOCKS = 1
  MAX_INODE_COUNT = 3
  INODE_LOCAL_BLOCK_CAP = 2
  INT_RANGE = 32
  MaxFileSize = 5
  Bytes = {0, 1}
  PAGE_SIZE = 2
  Buffers <- OneOrTwo
  Offsets <- FirstBlocks
  Lengths <- UpToThreeBlocks
  MaxRead = 2
SPECIFICATION FairDataSpec
INVARIANTS
  DataTypeOK
  TurnInFile
PROPERTIES
  FileSpec
  CallsAnswered
CHECK_DEADLOCK FALSE
