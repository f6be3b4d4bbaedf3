# Verification of nufs

nufs is a small FUSE file system in C.  A single-threaded daemon (`make mount`
runs it with `-s`) keeps everything in an image of 256 blocks of 4 KB that is
mapped into memory.  This directory holds TLA+ models of it, the configurations
TLC checks them with, and proofs that TLAPS checks.

## The system

| part | source | state it keeps | operations |
| --- | --- | --- | --- |
| block allocator | block.c, bitmap.c, specs.h | the block bitmap | alloc, free, init |
| inode layer | inode.c | inode bitmap, inode table (refs, mode, size, four block numbers, next) | alloc, free, grow, shrink, walk the chain, iterate over blocks |
| directory | directory.c | the content of a directory's blocks: 64-byte entries, inum -1 if unused | lookup, add, rename an entry, remove, prune, list, is-empty |
| path | path.c, slist.c | none | split a path, resolve it, split off the last component |
| storage | storage.c | none of its own | mknod, link, unlink, rename, rmdir, truncate, read, write, stat, list, access |
| FUSE dispatch | nufs.c | none | one handler per call of the kernel; null checks, logging |

The kernel calls one handler of nufs.c at a time.  It calls storage.c, which
resolves paths (path.c), edits directories (directory.c) and changes sizes
(inode.c), which takes and gives back blocks (block.c).  All calls are direct;
what the parts share is the image.

Since handlers never overlap, what is hard here is not concurrency.  It is

- **failure half way**: `inode_grow` changes one block per recursion level and
  undoes nothing when the disk fills up; `storage_mknod` and `storage_rename`
  do several steps, each of which can fail, and undo the earlier ones;
- **state left behind**: an unused directory entry keeps its name, a new one
  has whatever its block held, an inode keeps the fields of its last owner;
- **long sequences of legal calls**: holes in directories, chains of inodes
  that grow and shrink while other files compete for the last block, renames
  of directories that change the `..` inside them;
- **boundaries**: multiples of the block size, a full inode, the last inode,
  an `int` that holds 64 bits, empty components of a path;
- **crashes**: the image is all there is, the daemon writes it in place, and
  the next one mounts whatever the last one left.

What makes each part correct:

- inode layer: no block belongs to two files, every byte is backed by a block,
  bitmap and inode table agree, chains are disjoint lists, a call changes only
  its own file and comes to an end;
- reads and writes: a file is a sequence of bytes, whatever its blocks held
  before and whichever inodes of its chain they are in;
- directory: names are unique, a lookup and a removal find the same entry, the
  table is a map from names to inums;
- storage: reference counts are numbers of names, no entry stands for a free
  inode, the directories form a tree whose `..` entries agree with it, an error
  leaves everything as it was;
- path: what is found is what the names lead to, and the parent split off is the
  directory that holds the child;
- block allocator: bitmaps and inode table do not disturb each other;
- after a crash: files that were not being changed are whole, counts are never too
  low but for a name just added.

## The modules

| module | what it is |
| --- | --- |
| `Inode` | inode.c over the block allocator, one level of recursion per action |
| `ByteStore` | what it promises: files with lengths, one call at a time |
| `InodeProofs` | theorems about `Inode`: single inodes and blocks, then whole files, and that it implements `ByteStore` |
| `FileData` | read, write and truncate over `Inode`: the bytes, one block per action |
| `ByteArray` | what they promise: files that are sequences of bytes |
| `FileDataProofs` | theorems about `FileData`: that it implements `Inode` and `ByteArray`, and the loop over the blocks of a file |
| `InodeCrash` | `Inode` with a daemon that is killed between two stores |
| `InodeCrashProofs` | the theorems about `InodeCrash`: what a kill leaves whole and what it loses |
| `Directory` | the algorithms of directory.c as operators on a table |
| `OneDirectory` | one directory under the calls storage.c makes on it |
| `NameMap` | what a directory promises: a map from names to inums |
| `DirectoryLemmas` | what the operators of `Directory` do to a table |
| `DirectoryProofs` | theorems about `OneDirectory` |
| `Storage` | the handlers of storage.c on a whole image; uses `Directory` |
| `FileTree` | what they promise: a tree of objects and links |
| `StorageProofs` | images, blocks, paths and links; `AddEntry` and `RemoveEntry` on an image; the four changes of the links a handler can make; that every handler makes one of them, undoes it or kills the daemon; the theorems about `Storage` |
| `StorageCrash` | `Storage` with a daemon that is killed or stopped, and mounted again |
| `StorageCrashProofs` | theorems about `StorageCrash`: what a crash leaves counted, and how much it leaves owed |
| `PathWalk` | path.c and slist.c on the images of `Storage`, one hop per action |
| `PathWalkProofs` | theorems about `PathWalk` |
| `Layout` | the bytes of the reserved blocks: both bitmaps and the inode table |
| `Pools` | what they promise: a pool of blocks and a pool of inodes |
| `MC...` | the roots of the TLC runs |

How they compose: `FileData` and `InodeCrash` extend `Inode` and take its
actions as their steps; `StorageCrash` and `PathWalk` extend `Storage` in the
same way; `OneDirectory` and `Storage` share the operators of `Directory`.
`ByteStore`, `ByteArray`, `NameMap`, `FileTree` and `Pools` are abstract, and the
detailed modules are checked to implement them.

### Inode

`inode_grow` and `inode_shrink` call themselves once per block.  Each level of
that recursion, and each hop of the walks along the `next` fields, is an action:
`Walk` is a hop of `inode_last_child`, `GrowBlock` a level that takes a block,
`GrowChild` a level that links a new inode, `GrowNoBlock` and `GrowNoInode` the
error returns, `ShrinkBlock` and `ShrinkChild` levels that give back a block
and perhaps its inode.  `pc`, `op`, `top`, `cur`, `arg` and `left` stand for
the frames of the call; the other variables are the image.  The caller is
reduced to what reaches this layer: allocate, set a size (`storage_truncate`),
reach at least a size (`storage_write`, `directory_add_entry`), free.  The
difference to the size asked for is stored in an `int`; `INT_RANGE` is the number
of its values and `ToInt` what the store keeps.  A shrink
of a chain whose last inode is empty reads `blocks[-1]`; that is undefined
behaviour, and the model stops in `ShrinkUndefined`.  `torn` is a history
variable: it records that a grow failed just after it linked a child.

`ByteStore` is the abstract specification: a file has a length, a call moves it
monotonically towards its target, success means the target is reached exactly,
failure leaves it on the way.  `Store` in `Inode` is the refinement mapping: a
file's length is the sum over its chain.

### FileData

A call of the storage layer has three phases.  In `resize` it takes the steps of
`Inode`; in `iter` it is in the loop of `inode_block_iter`, where `BlockIter` is
one turn and `FillIter`, `WriteIter`, `ReadIter` are the three iterators; in
`reply` it has its answer.  `it` holds the loop's variables, `data` the bytes of
all blocks, which nobody clears when a block is freed or allocated.

`storage_write_iter` ignores the offset it is given, and the model's `WriteIter`
does too.  What makes writes right nevertheless is that the kernel splits them at
pages, which are as large as blocks (`OnePage`); with `big_writes` or
`direct_io`, which nothing here turns on, the second block of a write would get
the first bytes of the buffer.  Likewise the kernel does not read beyond the end
of a file.  `ByteArray` allows a write beyond the end to leave anything in the
gap, since `storage_write` does not zero it; everything else is determined.

### InodeCrash, StorageCrash

The image is mapped with `MAP_SHARED`, so when the daemon dies what it has
stored is in the file, in the order of the stores, and the next daemon mounts
that.  `GrowImages`, `ShrinkImages`, `MknodImages`, `UnlinkImages` and so on are
the images a handler passes through between its first and its last store; a
crash takes any of them.  There is no recovery code, so what a crash leaves goes
on being used.  `StorageCrash` also has `Restart`, the mount after the assertion
that two renames of a directory can trip.

Some images are not followed: in `InodeCrash` one in which a file was being
shrunk (`victim`: its own tail is damaged and the next grow can give away a
block it still holds); in `StorageCrash` one with an entry for a free inode,
with two names for a directory, or with a hole in front of a `..` (which a
directory made on a full disk can get; see *What the runs found*).  Using these
is what the code has no answer to.  `owed` is a history variable:
the names crashes have left uncounted, for every inode.  After an abort a
reference count can be one too high, and then the inode is never freed, which is
why `NoOrphan` is not claimed there.

### Directory, OneDirectory

A table is a sequence of entries.  Entry numbers start at 1, so 0 is a search
without a result.  The outcome of an add is a set, because the disk may be full
and a new entry comes with a stale name, which is any name at all.
`OneDirectory` puts one table under the calls storage.c can make: a name is
added only after a lookup did not find it (`Create`), removed only after one did
(`Delete`), and when the directory is itself renamed (`Moved`) `..` is added and
removed with no lookup.  The directory starts with `.` and `..`, or, if the disk
was full when it was made, with neither.  `NameMap` is the abstract map;
`MapSpec` says that every `Create` is a `Bind` of that very name or a refusal,
and every `Delete` an `Unbind`.

### Storage

The image is a record: mode, refs, directory table and number of data blocks of
every inode.  Handlers call each other, so each is an operator from an image to
the set of its outcomes (answer and image), and the action takes one of them.
`Resolve` is the path walk; `AddEntry` and `RemoveEntry` are directory.c with
the back entries (`..` in a child that is a directory); free blocks are counted
exactly, so every step can be the one that finds the disk full.  Two things
that are chosen rather than computed: the stale name of a new entry, and what
`inode_free` returns, since it ends without a return.  The guards `ParentIsDir`,
`NotDir` and `MayRename` are what the kernel checks before it calls the daemon.
`Remount` is `storage_init` on an existing image.

`Stat` and `Readdir` are what getattr and readdir answer.  `FileTree` is the
abstract specification: objects and links, where every call makes one change to
the links or none.

### PathWalk

`Explode`, `Copy` and `Pop` are the list functions; `Hop` is one level of
`inum_for_path_comps_in`, with an action for each of its cases.  A text is a
sequence of names and delimiters, so that doubled and trailing delimiters, which
make empty components, occur.  No name is empty or holds a delimiter
(`TextAssumption`).  A call starts only while the daemon runs.  `Storage` takes a lookup to be `Resolve` on the
names of the path and the parent to be `Parent`; that path.c comes to the same is
what this module shows.

### Layout

The image is a function from addresses to bytes.  `BitmapPut`, `PutWord` and
`InodeReset` write into it at the addresses specs.h and block.c compute.
`INODE_BITMAP_SIZE` divides without rounding up, so the bits of inodes 248 to 253
are in the first byte of the inode table, the root's reference count.  The
model's `BYTE` is the number of bits to a byte, so that this happens with three
inodes.  `Pools` is what `Inode` assumes of all this: a set of blocks and a set
of inodes whose words stay as they were written.  The refinement holds with the
root's reference count left out, the one word that shares its byte.

## The runs

| run | configuration | checks | result |
| --- | --- | --- | --- |
| inode | MCInode.cfg | TypeOK, Structure, CallInChain, Exact, ChainsPartition, StoreSpec | holds |
| inode_truncate_width | MCInodeTruncateWidth.cfg | TruncateReaches | violated |
| inode_crash | MCInodeCrash.cfg | CrashKeepsFiles, LeakIsSmall | holds |
| file_data | MCFileData.cfg | DataTypeOK, TurnInFile, FileSpec, CallsAnswered | holds |
| directory | MCOneDirectory.cfg | TypeOK, UniqueNames, NoHiddenEntry, NoTrailingHole, DeleteSucceeds, MapSpec | holds |
| directory_exists | MCOneDirectoryExists.cfg | ExistsMeansExists | violated |
| storage | MCStorage.cfg | TypeOK, RefsCountLinks, NoDanglingEntry, DotsAreRight, NoOrphan, OnePlace, ReaddirShowsLookups, ErrorChangesNothing, RemountKeeps, TreeSpec | holds |
| storage_calls | MCStorageCalls.cfg | Effects, RefsCoverNames, DotsAreRight | holds |
| storage_abort | MCStorageAbort.cfg | NoAbort | violated |
| storage_crash | MCStorageCrash.cfg | RefsCoverNames, DanglingIsOwed, CrashOwesLittle | holds |
| path_walk | MCPathWalk.cfg | LookupIsResolve, ParentHoldsChild, WalkInDirs, LookupReturns | holds |
| layout | MCLayout.cfg | TableFits, PoolSpec | holds |

What the runs with faults show:

- `inode_crash`: killed twice, anywhere, every file that was not being shrunk is
  whole, and stays whole through all later calls; a kill costs at most one block
  or inode, unless it interrupts the freeing of a file.
- `storage_crash`: killed anywhere in a handler, `refs` covers all names but those
  the handler had added and not yet counted, at most one for a file and two for a
  directory; only such a name can later stand for a free inode.  A kill inside
  unlink or rmdir never owes a name.
- `storage_calls`: mounted again after the assertion, no name is uncounted and
  every call that answers success does what it should, and `..` is right.

### Bounds

- `MCInode`: blocks of 2 bytes and one slot to an inode; 4 inodes, 3 data blocks,
  sizes up to 5.  Chains have up to three inodes, and a fourth when a grow fails
  right after linking it, so that cutting off the last inode means finding the
  one before it in the middle; blocks run out with long files, inodes with
  several short ones.  Inodes of several slots are in `MCFileData`, and in the
  proofs, which are for any.
- `MCInodeTruncateWidth`: an `int` of eight values, so that a size of 5 is as far
  beyond it as 2 GB is.
- `MCInodeCrash`: blocks of 2 bytes, 3 inodes of one slot, 3 data blocks, 2 kills:
  the second meets what the first has leaked.
- `MCFileData`: blocks of 2 bytes, 2 slots to an inode, 3 data blocks, two files
  beside the root.  Offsets are aligned, unaligned and in the second block; a
  length of 5 takes a second inode.  Any block is handed from file to file, and
  two files compete for the last.  Two values of a byte are enough: nothing in
  the code looks at one.
- `MCOneDirectory`: three names and one that is too long, six entries at two per
  block, so holes of every position, reuse of a hole by another name and stale
  names equal to any live one all occur.
- `MCStorage`: four inodes, so a directory can hold a directory that holds
  another object; two names and one too long; paths of up to three components;
  five blocks at two entries per block, so directories and files compete for
  the last block and directories without `.` or `..` occur.  `MaxEntries` and
  `MaxFileBlocks` are the bounds; no file needs a second inode.
- `MCStorageCalls`: looks at every handler on every path from every image, and
  has three names, with which a directory can be renamed twice, on three inodes.
- `MCStorageCrash`: three names on three inodes, three blocks at two entries per
  block and a file of one block, one kill, one mount after an assertion.  A
  directory is made while the disk is full, loses the name in front of its `..`
  and is renamed again, all around the crash.  The names are model values that a
  permutation may exchange (`NameSymmetry`): no operator and no property singles one
  out.  (With two names, six blocks and
  two kills the same properties held when it was tried: 113,184 states.)
- `MCPathWalk`: texts of up to five delimiters and names, which have two
  components with a doubled delimiter before, between or after them, on every
  image of three inodes and two names.
- `MCLayout`: bytes of two bits, three inodes without block slots (a slot is a
  word like `next`), a table that ends one byte before the data blocks, as the
  real one does.
- The answer of a handler does not influence the next one unless the daemon
  stopped, so `MCStorage` and `MCStorageCrash` identify images that differ only
  in it (`View`).
- Deadlock is not checked where the daemon can really stop: at an assertion, or
  after the undefined read.

### Fairness

`FairDataSpec` of `FileData` has weak fairness of `Handler`, the steps of a call in
progress in all its phases, those of the inode layer included; `FairWalkSpec` of
`PathWalk` has weak fairness of `Hop`, the recursion over the components.
The daemon is one thread that runs ordinary code; nothing it does in a call waits
for anything else.  The caller has no fairness: it may never call again.
`CallsAnswered` and `LookupReturns` are what needs it: recursions and loops end.

### Slips

Every property is also checked against a version of the code with a slip in it
(an operator such as `PruneOne` in front of `Prune`) that it must notice.
PROJECT.json lists which slip goes with which property.

## What the runs found

1. **EEXIST for a name that does not exist** (`ExistsMeansExists`).  Create a and
   b, delete a, create a: the unused entry still has the name and
   directory.c:184 does not look whether it is in use.
2. **Renaming a directory twice can stop the daemon** (`NoAbort`).  storage.c:255
   and 297 say the last argument, FALSE, does not matter; it is TRUE.  So the
   first rename takes the `..` away from the directory it moves: a second `..` is
   refused because there is one, which is then removed.  If an entry follows `..`
   in the table an unused `..` stays; the next rename finds it and
   `inode_get(-1)` fails the assertion at inode.c:14.
3. **truncate to a far size** (`TruncateReaches`).  The difference of the sizes is
   computed in 64 bits and kept in an `int` (storage.c:403): 2 GB or more away it
   has another sign or value, and the call shrinks the file or does nothing and
   answers success.  The growth of a write (storage.c:502) is kept in the same
   way.

The models of the passing runs have further behaviour of the code that its
comments do not lead one to expect; the properties allow for it:

- When `inode_grow` has linked a child and `block_alloc` then fails, the child
  stays, empty, although inode.c:245-247 says only the outermost inode can have
  size 0.  The next shrink of that file reads `blocks[-1]` (`ShrinkUndefined`,
  which the run inode reaches).  This is why `Exact` is conditional on `torn`.
- truncate answers the number of bytes by which the size changed, where
  storage.c:417 promises 0; mknod answers `EEXIST` without a minus sign
  (storage.c:152); `inode_free` ends without a return, so unlink may report an
  error for what it has done (`FreeAnswers`).
- rename does not replace an existing file: it starts with a link, which is
  refused (storage.c:230).
- readdir gives every entry the attributes of the directory (nufs.c:224).
- Allocating one of the last inodes sets bits in the reference count of the root,
  which getattr then shows; nothing else reads it.

- A directory made while the disk is full gets no `.` (storage.c:165 calls
  `directory_init`, which ignores what the add answers), so that a name can be its
  first entry.  If a crash in a rename then leaves a `..` behind that name and the
  name is removed, the next rename stores the number of the parent in the hole
  before it finds that there is a `..` already: the stale name is now a link of the
  parent that nothing counts, without another crash.  The attempt to prove
  `RefsCoverNames` found this; the bounds checked before had no full disk, and
  an image with a hole in front of a `..` is now not followed.

Everything else the properties say holds: in particular a stale name never
makes two live entries equal, lookups, listings and removals agree, reference
counts and tables stay in step through every failure, and no handler but an
abort leaves an inode without a name.

## The proofs

The first part of `InodeProofs` proves for every block size, number of blocks, reserved blocks,
inodes, slots and `MaxFileSize`, from `SizesAssumption` alone (sizes are
natural numbers, blocks and inodes have at least one byte and one slot):

| theorem | statement |
| --- | --- |
| `InodeInvariant` | `Spec => []IInv` |
| `TypeCorrect` | `Spec => []TypeOK` |
| `StructureSafe` | `Spec => []Structure` |
| `CallStaysInChain` | `Spec => []CallInChain` |
| `ExactUnlessTorn` | `Spec => []Exact` |

`IInv` is `TypeOK /\ Structure /\ CallInChain /\ Exact`.  None of the four is
inductive alone.  That a freed block takes nothing from another file needs
`NoSharedBlock`; that the slot `inode_grow` fills is unused, and that
`inode_shrink` frees the last one in use, needs that an inode holds exactly the
blocks its size needs, which is the arithmetic of `bytes_to_blocks` (lemmas
`BlocksUnique`, `GrowByBlock`, `GrowBeyondFull`); that cutting off a child
leaves the other chains whole needs `ChainsLinked` and that the call is in its
own chain.  `Structure` must hold without `Exact`, because after a torn grow
sizes can even be negative: there the proof uses only that the number of used
blocks stays between 0 and the number of slots (`BlocksNearZero`).  There is
one lemma per action, with one step per conjunct.

The second part goes on from there to whole files, for the same constants:

| theorem | statement | hypothesis |
| --- | --- | --- |
| `FilesPartitionInodes` | `Spec => []ChainsPartition` | none |
| `InodeImplementsStore` | `Spec => StoreSpec` | `NoOverflow` |
| `TruncateIsExact` | `Spec => TruncateReaches` | `NoOverflow` |

`IInv` speaks of one inode at a time, and an inode on a circle off every file
satisfies it.  `ChainInv` adds that every allocated inode is on the chain of a
file (`Covered`) and that the call is on the chain of its own file and has counted
what lies before it (`CallOnChain`).  `Chain` and `TotalSize` are recursive
functions of the state; the lemmas prove that they exist, that a chain without
repetition is the only one (`ChainUnique`), and what a step does to them: nothing
(`Untouched`), a block more or less at the end (`ResizeLast`), a child more or
less (`Lengthen`, `Shorten`), a new file (`NewChain`).

For the refinement `OnCourse` says that what is left of the call and the size of
its file add up to the size asked for.  `NoOverflow` is `2 * MaxFileSize <
INT_RANGE`: the difference of two sizes fits the `int` the code keeps it in.  It
holds of the program while no size reaches 2 GB, which 256 blocks of 4 KB do not
come near but a truncate can ask for.  Without it the theorems are false, which
is what the run inode_truncate_width shows, for the same property.

`InodeCrashProofs` proves of `InodeCrash`, for the same constants and any number
of kills:

| theorem | statement |
| --- | --- |
| `CrashesKeepFiles` | `CrashSpec => []CrashKeepsFiles` |
| `KillsLoseLittle` | `CrashSpec => LeakIsSmall` |

A kill leaves blocks and inodes that are marked and belong to nobody, so `IInv`,
which speaks of every marked inode, does not survive one.  The invariant is about
the inodes the files reach, `On(next, files)`: `Healthy` says of an image and a set
of files that the files are disjoint lists of marked inodes, that what they hold is
marked and held once, and that each inode holds at least what its size needs.
`CrashIInv` is `Healthy` of all files, with what the call in progress knows
(`CallType`), and once a shrink was interrupted `Healthy` of the files without
that one.  TLC finds it in every state of MCInodeCrash, and it is inductive.

`Healthy` takes the image as arguments and knows nothing of the call, so it can
be asserted between any two stores, and there is one lemma for each kind of store:
`MarkBlock`, `UnmarkBlock`, `MarkInode`, `UnmarkInode`, `SetSize`, `EmptySlot`,
`FillSlot`, `ResetInode`, `LinkChild`, `CutChild`, and `NewFile` and `Forget` for
the names.  A step of the daemon and the images of a crash within it are sequences
of these.  `inode_shrink` frees a block before it clears the slot that holds it, and
there the image is not healthy: a whole shrink is proved with the stores in another
order, which makes no difference at its end, and of a crash in one nothing is
claimed for its file, which is forgotten first.  `inode_grow` fills its slot
before it raises the size: a crash between the two leaves a slot the size does not
need, and `Healthy` allows one.

`KillsLoseLittle` follows from the same invariant, since `Healthy` says which
blocks are needed and which inodes are in a chain.  `LittleLost` has the two
conditions under which an image is at most one block or inode poorer: one more
mark is set than before the call, and the blocks the files need that stay marked
are where they were.  There is one lemma for each operation whose images meet
them (`BetweenLoses`, `GrowLoses`, `AllocLoses`, `ShrinkLoses`).  A kill in the
freeing of a file loses all that is left of it, since `storage_unlink` takes its
name away first.

`DirectoryProofs` proves about `OneDirectory`, for every set of names, every
parent, child and size of the table, from `NamesAssumption` and
`InumsAssumption` (inums are natural numbers, `.` and `..` are not names of
files):

| theorem | statement |
| --- | --- |
| `DirectoryInvariant` | `Spec => []IInv` |
| `TableTyped` | `Spec => []TypeOK` |
| `NamesAreUnique` | `Spec => []UniqueNames` |
| `NothingHidden` | `Spec => []NoHiddenEntry` |
| `TableIsPruned` | `Spec => []NoTrailingHole` |
| `FoundIsRemoved` | `Spec => DeleteSucceeds` |
| `DirectoryImplementsMap` | `Spec => MapSpec` |

An add stops at the first hole, so it keeps names unique only because a hole
it fills never stands before an entry of the name it is given.  Between the
steps of a rename even that is not enough: `..` is added and removed unseen, and
if it could fill a hole in front of a `..` in use there would be two.  The
invariant therefore has `DotsFirst`: in front of a `..` in use stand only
entries in use, with the name `.`.  `ReuseIs` and `ExtendIs` say what
`directory_rename_entry`, which looks the new name up first, makes of a hole and
of a new entry with a stale name; `RemoveStopFacts` says that a removal stops at
the entry in use; `PruneSound` is about `directory_prune`.  These lemmas are in
`DirectoryLemmas`, for `Storage` too.  `Bound`, the set of pairs of a name and an
inum that a table has in use, is what the later proofs know of a table: an add
puts in one pair, a removal takes out one, a prune none.  From that follows that
the directory implements `NameMap`.

`StorageProofs` proves about `Storage`, for every number of inodes and blocks,
every entry size, set of names and depth of paths, from `StorageAssumption` and
`NamesAssumption`:

| theorem | statement |
| --- | --- |
| `StorageInvariant` | `Spec => []IInv` |
| `ImageTyped` | `Spec => []TypeOK` |
| `RefsCount` | `Spec => []RefsCountLinks` |
| `NothingDangles` | `Spec => []NoDanglingEntry` |
| `DotsHold` | `Spec => []DotsAreRight` |
| `NothingIsLost` | `Spec => []NoOrphan` |
| `DirectoriesHaveOnePlace` | `Spec => []OnePlace` |
| `SuccessTakesEffect` | `Spec => []Effects` |
| `FailedCallsUndone` | `Spec => ErrorChangesNothing` |
| `RemountIsSafe` | `Spec => RemountKeeps` |
| `ListingsAgree` | `Spec => []ReaddirShowsLookups` |
| `StorageImplementsTree` | `Spec => TreeSpec` |

One assumption is about the program: `storage_init` puts two entries in the root
of a new image, so the disk has room for two entries (`ENTRIES_PER_BLOCK >= 2 \/
DATA_BLOCKS >= 2`; the real numbers are 64 and more than 200).

`IInv` says that the image is typed and within the disk (`Roomy`) and, unless the
daemon was killed, `Sane`.  The parts of `Sane` need one another.  That an unlink
frees the inode of the last name and no other needs `Counted`; that the freed
inode is then named nowhere, `..` included, needs that too, `Placed` (a directory
has one link) and `DotsRight`; that a free inode has no count and no blocks
(`Clean`) is what makes giving back the inode of a failed mknod an undo.  The
heart is rename.  It links the new name and then walks the old path again to
unlink it; that this second walk meets the same directories needs that adding a
name takes no path away (`ResolveKept`).  That the moved directory is not cut
off needs that the new parent is not below it, which the kernel's guard says of
paths only: `OneWay` proves that a directory has exactly one path, by induction
along the path, from `Placed` and `Reached`.  `Reached` (every set that has the
root and is closed under links has all inodes) says without recursion that
nothing is an orphan; that a move keeps it is `WayRound`.

The proofs are in three layers.  The first says what `AddEntry` and `RemoveEntry`
do to an image, their failures included.  The second has `MakeStep`, `LinkStep`,
`UnlinkStep` and `MoveStep`, one for each change of the links, and proves that each
keeps `Sane`.  The third proves of every handler
that each of its outcomes is one of these, a change of a file's size, an abort,
or nothing (`HandlerDoes`), from which the theorems follow.  `ListingsAgree` needs
what `directory_list` makes of a table: `ListFacts` (in `DirectoryLemmas`) says that
its elements are the entries in use, each once and in order, so that where names
are unique a listing and a lookup of each of its names agree.

`StorageCrashProofs` proves about `StorageCrash`, under the same assumptions, for
any number of crashes:

| theorem | statement |
| --- | --- |
| `ImagesStaySafe` | `CrashSpec => []Safe(fs, owed)` |
| `CrashesKeepNamesCounted` | `CrashSpec => []RefsCoverNames` |
| `CrashesOweDangling` | `CrashSpec => []DanglingIsOwed` |
| `CrashesOweLittle` | `CrashSpec => []CrashOwesLittle` |

Nothing of `Sane` survives a crash: there may be entries with any name and inum,
directories without `.` or `..`, names no path leads to.  `Safe` is what does: the
root is a directory with its two entries in front, a free inode counts nothing
(`Formed`), and every name is counted or owed (`Covered`).  `Formed` is needed
because a handler resolves paths from the root and `storage_init` looks for its
`..`.  For each handler the proof counts the names it makes and takes away, in
tables of any content (`OneMore`, `OneLess`, `NoMore`), next to what it does to
`refs`.  An add makes no name but the one it is given only if the `..` it adds to
a moved directory does not land on an old entry; that is where `Followed` comes
in, whose conditions give `Calm`: no name of a free inode or the root, no hole in
front of a `..`.  A crash may stop a handler anywhere, so of its images
`Formed` is proved, and `Within(m, owed, n)`, that the image m leaves no more than n
names uncounted beyond those owed before: n counts the entries written so far,
one for the name and one for the `..` of a directory, whatever was in its place.
An unlink adds none, wherever it is stopped.
`MountSafe` says that the names an image does not count are those `owed` is raised
by, and that `storage_init` adds none.  `Sum` adds up what all inodes are owed; it
is a fold, which the proof shows to be a sum by induction over the number of inodes
(`SumsFewExist`) and to grow by one at most where one inode's value does
(`SumOneMore`).

`FileDataProofs` proves, for every disk, every set of requests and every order
of calls, from `FileDataAssumption` (requests fit `MaxFileSize`) and
`SizesAssumption`:

| theorem | statement | hypothesis |
| --- | --- | --- |
| `FileDataImplementsInode` | `DataSpec => Spec` of `Inode` | none |
| `FileDataStructure` | `DataSpec => []Structure` | none |
| `DataTypeCorrect` | `DataSpec => []DataTypeOK` | `NoOverflow` |
| `TurnsStayInFile` | `DataSpec => []TurnInFile` | `NoOverflow` |
| `FileDataImplementsBytes` | `DataSpec => FileSpec`, of `ByteArray` | `NoOverflow`, `PagesFit` |

`PagesFit` says that the kernel's pages are parts of blocks.  Both have 4096 bytes
(specs.h:8).  Without it a write that is within a page could touch two blocks, and
`storage_write_iter`, which leaves out the offset it is given, would put the first
bytes of its buffer into both: the code relies on it.

Each step of `FileData` is one of `Inode`'s (a call begins, or `Resize`) or
changes none of its variables (the loop over the blocks).  So the calls that
reach the inode layer from reads and writes are ones `Inode` has, and its theorems
hold under them.  `DInv` says what the request and the loop know of the size of
the file: while the loop has bytes left, they lie below it.  `BlockNumFacts` says
where `inode_get_bnum` ends up, in slot `r` of inode `q` of the chain for block
`CAP * q + r`, and `InsideOwned` that below the size of the file this slot holds a
block, since all inodes of a chain but the last are full (`FullChain`).

The proof for `ByteArray` follows single bytes.  `Spot` is the place of byte `n` of
a file: a slot of one inode of its chain.  Two bytes of two files, or of one, are
never in the same place (`SpotsApart`), and a step of the inode layer moves no byte
that is in its file before and after it (`SpotsKept`), though it may move the end.
How the end moves is taken from the refinement of `ByteStore` (`CallSizes`).  A turn
of the loop is about the bytes of the request it is to be about and no other
(`TurnPlaces`).  With these, `BytesInv` is inductive.  It compares the bytes of
every file with those when the call began: other files are as they were; in its
own, while the size changes, what is below both sizes is as it was; in the loop,
the bytes before the turn are what they are to be, and those outside the request
as they were.  Then each call takes effect, for `ByteArray`, in the one step in
which the daemon has its answer.

`PathWalkProofs` proves, for texts of every length on the images of every number
of inodes and blocks, from the assumptions of `Storage` and `TextAssumption`:

| theorem | statement |
| --- | --- |
| `WalkInvariant` | `WalkSpec => []WalkInv` |
| `WalksStayInDirs` | `WalkSpec => []WalkInDirs` |
| `LookupsResolve` | `WalkSpec => []LookupIsResolve` |
| `ParentsHoldChildren` | `WalkSpec => []ParentHoldsChild` |

`ExplodeFacts` says what `slist_explode` makes of a text: the list's elements that
are not empty are the names of the text in order, and it ends in an empty one
exactly when two delimiters end the text.  `Led` is where the first `k` elements
lead, empty ones skipped, and `Ended` what a walk of them must answer.  `WalkInv`
says of a call in progress that it is at the directory the elements behind it lead
to and has exactly the others left.  An error is final (`ErrorStays`) and so is a
file (`FileStays`), so that the early returns of the recursion answer what the
whole path would; `PopFacts` is about the last element with a name, which is
split off with all empty ones after it.

A word on inductions.  The library's induction theorems take an operator, which
the provers cannot instantiate.  Where these proofs need one they take the set of
numbers up to a bound for which a claim holds and its least exception (`MinFacts`,
`UpTo`, `ShortestPath`).  A recursive function is first shown to exist by such an
induction (`ChainFcnExists`, `WalkExists`, `RestFcnExists` and so on) and then
used through its defining equation.

Only model-checked:

- `Layout`: `TableFits` and `PoolSpec`.  Bits are taken out of bytes with powers of
  two, and for the provers `^` is a symbol they know nothing about: what they would
  need is an induction over the exponent.
- `CallsAnswered` and `LookupReturns`, which are liveness and out of the
  prover's reach.

## Not modelled

- A crash of the host: the pages of the map may then be on disk in any order, and
  since the code never calls `msync` there is nothing to rely on.
- What a crash in the middle of a shrink does to the file itself, and the images
  named under StorageCrash.
- access and open, which answer 0 whatever they are asked (the mask at
  storage.c:76 contains `F_OK`, which is 0); chmod, utimens and ioctl, which do
  nothing; block_clear, storage_clear, inode_end and slist_size, which nothing
  calls.
- Null checks, memory of lists, printing and logging, except that printing can
  fail where that decides what `inode_free` returns.
- Device nodes: a mode of `mknod` with the directory bit among its type bits.
- Reads and writes with offsets whose low 32 bits are a negative `int`: they end at
  an assertion or outside the image.
- util.c, the test scripts and the programs under helpers/.

## Plan

Done: every module above.  Left is what the section on proofs lists under *Only
model-checked*, with the reasons.
