\* Two names to hide each other, a third to fill holes, one too long.
CONSTANTS
  Names = {"a", "b", "c", "too long"}
  LongNames = {"too long"}
  ENTRIES_PER_BLOCK = 2
  Self = 1
  Parents = {0, 2}
  Children = {3, 4}
  MaxEntries = 6
SPECIFICATION Spec
INVARIANTS
  TypeOK
  UniqueNames
  NoHiddenEntry
  NoTrailingHole
PROPERTIES
  DeleteSucceeds
  MapSpec
\* The daemon stops when it aborts.
CHECK_DEADLOCK FALSE
