\* Three inodes over bytes of two bits: the last has its bit in the root's
\* inode, and the table ends with the last reserved block but one byte.  A
\* slot is a word like the next inode, so there are none.
CONSTANTS
  BYTE = 2
  INT_BYTES = 1
  BLOCK_SIZE = 8
  BLOCK_COUNT = 4
  RESERVED_BLOCKS = 2
  MAX_INODE_COUNT = 3
  INODE_LOCAL_BLOCK_CAP = 0
  RegularMode = 1
  Written = {2}
  MaxRefs = 1
SPECIFICATION Spec
INVARIANT TableFits
PROPERTY PoolSpec
