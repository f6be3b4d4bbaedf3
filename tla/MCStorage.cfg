\* The tree of the image, and what the handlers promise of it.
CONSTANTS
  Names = {"a", "b", "too long"}
  LongNames = {"too long"}
  ENTRIES_PER_BLOCK = 2
  MAX_INODE_COUNT = 4
  DATA_BLOCKS = 5
  MaxFileBlocks = 2
  MaxDepth = 3
  MaxEntries = 4
SPECIFICATION Spec
INVARIANTS
  TypeOK
  RefsCountLinks
  NoDanglingEntry
  DotsAreRight
  NoOrphan
  OnePlace
  ReaddirShowsLookups
PROPERTIES
  
  RemountKeeps
  TreeSpec
\* The daemon stops when it aborts.
CHECK_DEADLOCK FALSE
VIEW View
