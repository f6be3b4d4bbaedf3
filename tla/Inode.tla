------------------------------- MODULE Inode -------------------------------
(***************************************************************************)
(* The inode layer of nufs: inode.c over the block allocator of block.c.   *)
(*                                                                         *)
(* A file is a chain of inodes.  Each inode of the chain holds up to       *)
(* INODE_LOCAL_BLOCK_CAP block numbers and its own share of the file's     *)
(* bytes; `next' is the inum of the following inode or -1.  inode_grow and *)
(* inode_shrink are recursive and change one block per level, so one level *)
(* of the recursion is one action here, and so is every hop of the walks   *)
(* along the chain (inode_last_child, inode_total_size).  The daemon is    *)
(* single threaded (`make mount' passes -s): one call runs at a time.      *)
(*                                                                         *)
(* The caller is the storage layer, reduced to what reaches this layer: it *)
(* allocates an inode, sets a file's size (storage_truncate), makes a file *)
(* reach at least some size (storage_write, directory_add_entry) and frees *)
(* a file (storage_unlink).  Bytes of data are not modelled here.          *)
(*                                                                         *)
(* An operator that stands just before one with a similar name (say        *)
(* FirstInum before FirstFreeInum) is a slip the code could have made: the *)
(* runs are repeated with it, to see the property in question fail.        *)
(***************************************************************************)
EXTENDS Integers, Sequences

CONSTANTS
  BLOCK_SIZE,             \* bytes of a block
  BLOCK_COUNT,            \* blocks of the disk image
  RESERVED_BLOCKS,        \* leading blocks kept for the bitmaps and the inodes
  MAX_INODE_COUNT,        \* inodes of the inode table
  INODE_LOCAL_BLOCK_CAP,  \* block slots of one inode
  INT_RANGE,              \* values of a C int: 2^32
  MaxFileSize             \* bound: the largest size a caller asks for

ASSUME SizesAssumption ==
  /\ BLOCK_SIZE \in Nat \ {0}
  /\ INODE_LOCAL_BLOCK_CAP \in Nat \ {0}
  /\ BLOCK_COUNT \in Nat
  /\ RESERVED_BLOCKS \in Nat
  /\ RESERVED_BLOCKS <= BLOCK_COUNT
  /\ MAX_INODE_COUNT \in Nat
  /\ INT_RANGE \in Nat \ {0}
  /\ MaxFileSize \in Nat

Inums == 0 .. MAX_INODE_COUNT - 1
Slots == 0 .. INODE_LOCAL_BLOCK_CAP - 1
DataBlocks == RESERVED_BLOCKS .. BLOCK_COUNT - 1
Bnums == 0 .. BLOCK_COUNT - 1
None == -1

(* ROOT_INUM: the root directory's inode is never freed. *)
ROOT_INUM == 0

(* INODE_MAX_LOCAL_SIZE *)
MaxLocalSize == BLOCK_SIZE * INODE_LOCAL_BLOCK_CAP

MIN(a, b) == IF a < b THEN a ELSE b
MAX(a, b) == IF a > b THEN a ELSE b

VARIABLES
  \* on the disk image
  blockMap,   \* block numbers whose bit is set in the block bitmap
  inodeMap,   \* inums whose bit is set in the inode bitmap
  size,       \* inode_t.size of every inode
  blocks,     \* inode_t.blocks of every inode
  next,       \* inode_t.next of every inode
  \* held by the storage layer
  files,      \* inums the storage layer allocated: the heads of the chains
  \* the call in progress
  pc,         \* where the call is
  op,         \* which call it is
  top,        \* the file it is about (the outermost nodep)
  cur,        \* the inode the recursion has reached
  arg,        \* the size the caller asked for
  left,       \* bytes counted so far, then bytes still to grow or shrink
  rv,         \* what the last call returned
  \* history
  torn        \* a call has failed between linking a child and giving it a block

disk == <<blockMap, inodeMap, size, blocks, next>>
call == <<pc, op, top, cur, arg, left>>
vars == <<disk, files, call, rv, torn>>

(***************************************************************************)
(* Blocks.                                                                 *)
(***************************************************************************)

(* Integer division of C truncates toward zero. *)
CDiv(a, b) == IF a >= 0 THEN a \div b ELSE -((-a) \div b)

(* A number of more bits stored in an int. *)
ToInt(x) == LET low == x % INT_RANGE IN IF 2 * low >= INT_RANGE THEN low - INT_RANGE ELSE low

(* bytes_to_blocks *)
BytesToBlocks(bytes) == CDiv(bytes + BLOCK_SIZE - 1, BLOCK_SIZE)

UsedBlocks(i) == BytesToBlocks(size[i])

(* block_alloc: b is the first clear bit after the reserved blocks. *)
BlockAllocUnmarked(b) ==
  b \in DataBlocks \ blockMap /\ (\A c \in DataBlocks \ blockMap : b <= c) /\ UNCHANGED blockMap
BlockAlloc(b) ==
  /\ b \in DataBlocks \ blockMap
  /\ \A c \in DataBlocks \ blockMap : b <= c
  /\ blockMap' = blockMap \cup {b}

NoFreeBlock == DataBlocks \subseteq blockMap

(* block_free *)
BlockFreeNext(b) == blockMap' = blockMap \ {b + 1}
BlockFree(b) == blockMap' = blockMap \ {b}

(***************************************************************************)
(* Inodes.                                                                 *)
(***************************************************************************)

(* inode_alloc's search: i is the first clear bit of the inode bitmap. *)
FirstInum(i) == \A j \in Inums \ inodeMap : i <= j
FirstFreeInum(i) ==
  /\ i \in Inums \ inodeMap
  /\ \A j \in Inums \ inodeMap : i <= j

NoFreeInode == Inums \subseteq inodeMap

(* What inode_reset leaves in the slots. *)
EmptySlots == [k \in Slots |-> None]

(* A call returns to the storage layer. *)
Return(v) ==
  /\ pc' = "idle"
  /\ op' = "none"
  /\ top' = None
  /\ cur' = None
  /\ arg' = 0
  /\ left' = 0
  /\ rv' = v

(* block_init on a new image: everything zero, the reserved blocks taken. *)
Init ==
  /\ blockMap = 0 .. RESERVED_BLOCKS - 1
  /\ inodeMap = {}
  /\ size = [i \in Inums |-> 0]
  /\ blocks = [i \in Inums |-> [k \in Slots |-> 0]]
  /\ next = [i \in Inums |-> 0]
  /\ files = {}
  /\ pc = "idle"
  /\ op = "none"
  /\ top = None
  /\ cur = None
  /\ arg = 0
  /\ left = 0
  /\ rv = "ok"
  /\ torn = FALSE

(* storage_init and storage_mknod: inode_alloc for a new file. *)
AllocNoReset ==
  /\ pc = "idle"
  /\ \E i \in Inums :
       FirstFreeInum(i) /\ inodeMap' = inodeMap \cup {i} /\ files' = files \cup {i}
  /\ rv' = "ok"
  /\ UNCHANGED <<blockMap, size, blocks, next, call, torn>>
Alloc ==
  /\ pc = "idle"
  /\ \E i \in Inums :
       /\ FirstFreeInum(i)
       /\ inodeMap' = inodeMap \cup {i}
       /\ size' = [size EXCEPT ![i] = 0]
       /\ blocks' = [blocks EXCEPT ![i] = EmptySlots]
       /\ next' = [next EXCEPT ![i] = None]
       /\ files' = files \cup {i}
  /\ rv' = "ok"
  /\ UNCHANGED <<blockMap, call, torn>>

(* The same with no inode left: inode_alloc returns -ENOSPC. *)
AllocNoInode ==
  /\ pc = "idle"
  /\ NoFreeInode
  /\ rv' = "ENOSPC"
  /\ UNCHANGED <<disk, files, call, torn>>

(***************************************************************************)
(* A call on a file starts by adding up its size (inode_total_size).       *)
(***************************************************************************)
Begin(o, f, n) ==
  /\ pc = "idle"
  /\ pc' = "total"
  /\ op' = o
  /\ top' = f
  /\ cur' = f
  /\ arg' = n
  /\ left' = 0
  /\ UNCHANGED <<disk, files, rv, torn>>

(* storage_truncate to n bytes. *)
Truncate(f, n) == Begin("truncate", f, n)

(* storage_write ending at byte n, directory_add_entry of an entry ending  *)
(* at byte n: both grow the file if it is shorter.                         *)
Write(f, n) == Begin("write", f, n)

(* storage_unlink of the last name: inode_free. *)
Free(f) == f # ROOT_INUM /\ Begin("free", f, 0)

(* inode_total_size adds an inode and recurs into the next one. *)
AddSize ==
  /\ pc = "total"
  /\ next[cur] >= 0
  /\ left' = left + size[cur]
  /\ cur' = next[cur]
  /\ UNCHANGED <<disk, files, pc, op, top, arg, rv, torn>>

(* The total is known: what each caller then asks of inode.c. *)
StartGrow(n) == pc' = "grow" /\ left' = n
StartShrink(n) == pc' = "shrink" /\ left' = n

(* storage_write's MAX(0, ...) compares unsigned numbers, so it is the      *)
(* conversion to int that makes a needless growth negative.                *)
SizeKnown ==
  /\ pc = "total"
  /\ next[cur] < 0
  /\ LET total == left + size[cur]
         delta == ToInt(arg - total) IN
       \/ op = "write" /\ StartGrow(delta)
       \/ op = "truncate" /\ delta >= 0 /\ StartGrow(delta)
       \/ op = "truncate" /\ delta < 0 /\ StartShrink(ToInt(-delta))
       \/ op = "free" /\ StartShrink(total)
  /\ cur' = top
  /\ UNCHANGED <<disk, files, op, top, arg, rv, torn>>

(***************************************************************************)
(* inode_grow.                                                             *)
(***************************************************************************)

(* inode_last_child: one hop. Growing and shrinking both work at the end of *)
(* the chain; their base cases come before the walk.                       *)
Shrinkable == left >= 1 /\ size[top] # 0

Walk ==
  /\ \/ pc = "grow" /\ left >= 1
     \/ pc = "shrink" /\ Shrinkable
  /\ next[cur] >= 0
  /\ cur' = next[cur]
  /\ UNCHANGED <<disk, files, pc, op, top, arg, left, rv, torn>>

GrowDone ==
  /\ pc = "grow"
  /\ left < 1
  /\ Return("ok")
  /\ UNCHANGED <<disk, files, torn>>

AtLastToGrow == pc = "grow" /\ left >= 1 /\ next[cur] < 0

FitsInUsedBlocks == BytesToBlocks(size[cur] + left) = UsedBlocks(cur)

(* The bytes fit in the last block the file has. *)
GrowInPlace ==
  /\ AtLastToGrow
  /\ FitsInUsedBlocks
  /\ size' = [size EXCEPT ![cur] = @ + left]
  /\ Return("ok")
  /\ UNCHANGED <<blockMap, inodeMap, blocks, next, files, torn>>

(* The last inode has a free slot: allocate a block for it and recur. *)
GrowBlock ==
  /\ AtLastToGrow
  /\ ~FitsInUsedBlocks
  /\ UsedBlocks(cur) < INODE_LOCAL_BLOCK_CAP
  /\ \E b \in Bnums :
       /\ BlockAlloc(b)
       /\ blocks' = [blocks EXCEPT ![cur][UsedBlocks(cur)] = b]
  /\ size' = [size EXCEPT ![cur] = @ + MIN(BLOCK_SIZE, left)]
  /\ left' = left - BLOCK_SIZE
  /\ UNCHANGED <<inodeMap, next, files, pc, op, top, cur, arg, rv, torn>>

(* The same with the disk full: what was grown so far stays. *)
GrowNoBlock ==
  /\ AtLastToGrow
  /\ ~FitsInUsedBlocks
  /\ UsedBlocks(cur) < INODE_LOCAL_BLOCK_CAP
  /\ NoFreeBlock
  /\ torn' = (torn \/ (cur \notin files /\ size[cur] = 0))
  /\ Return("ENOSPC")
  /\ UNCHANGED <<disk, files>>

(* Every slot is used: fill the inode up, chain a new one and recur. *)
GrowChild ==
  /\ AtLastToGrow
  /\ ~FitsInUsedBlocks
  /\ UsedBlocks(cur) >= INODE_LOCAL_BLOCK_CAP
  /\ \E i \in Inums :
       /\ FirstFreeInum(i)
       /\ inodeMap' = inodeMap \cup {i}
       /\ size' = [size EXCEPT ![cur] = MaxLocalSize, ![i] = 0]
       /\ blocks' = [blocks EXCEPT ![i] = EmptySlots]
       /\ next' = [next EXCEPT ![cur] = i, ![i] = None]
       /\ cur' = i
  /\ left' = left - (MaxLocalSize - size[cur])
  /\ UNCHANGED <<blockMap, files, pc, op, top, arg, rv, torn>>

(* The same with no inode left: the inode has been filled up already. *)
GrowNoInode ==
  /\ AtLastToGrow
  /\ ~FitsInUsedBlocks
  /\ UsedBlocks(cur) >= INODE_LOCAL_BLOCK_CAP
  /\ NoFreeInode
  /\ size' = [size EXCEPT ![cur] = MaxLocalSize]
  /\ Return("ENOSPC")
  /\ UNCHANGED <<blockMap, inodeMap, blocks, next, files, torn>>

(***************************************************************************)
(* inode_shrink.  It starts again at the head after every freed block.     *)
(***************************************************************************)

(* Back to storage_truncate, or to inode_clear for inode_free. *)
ShrinkReturnClears == pc' = "clear" /\ UNCHANGED <<op, top, cur, arg, left, rv>>
ShrinkReturn ==
  \/ op = "truncate" /\ Return("ok")
  \/ op = "free" /\ pc' = "clear" /\ UNCHANGED <<op, top, cur, arg, left, rv>>

ShrinkDone ==
  /\ pc = "shrink"
  /\ ~Shrinkable
  /\ ShrinkReturn
  /\ UNCHANGED <<disk, files, torn>>

AtLastToShrink == pc = "shrink" /\ Shrinkable /\ next[cur] < 0

KeepsUsedBlocks == BytesToBlocks(size[cur] - left) = UsedBlocks(cur)

(* No block becomes free. *)
ShrinkInPlace ==
  /\ AtLastToShrink
  /\ KeepsUsedBlocks
  /\ size' = [size EXCEPT ![cur] = @ - left]
  /\ ShrinkReturn
  /\ UNCHANGED <<blockMap, inodeMap, blocks, next, files, torn>>

(* The last block of the last inode goes, with the bytes in it. *)
LastSlot == UsedBlocks(cur) - 1
DecreaseSize == size[cur] - BLOCK_SIZE * LastSlot

DropLastBlock ==
  /\ AtLastToShrink
  /\ ~KeepsUsedBlocks
  /\ LastSlot \in Slots
  /\ BlockFree(blocks[cur][LastSlot])
  /\ blocks' = [blocks EXCEPT ![cur][LastSlot] = None]
  /\ size' = [size EXCEPT ![cur] = @ - DecreaseSize]
  /\ left' = left - DecreaseSize
  /\ cur' = top
  /\ UNCHANGED <<files, pc, op, top, arg, rv, torn>>

DropsWholeChild == next[top] >= 0 /\ size[cur] = DecreaseSize

ShrinkBlock ==
  /\ DropLastBlock
  /\ ~DropsWholeChild
  /\ UNCHANGED <<inodeMap, next>>

(* It was the last block of a chained inode: inode_free that inode, whose  *)
(* size is 0 by now, and cut it off its predecessor                        *)
(* (inode_second_to_last_child).                                           *)
ShrinkChild ==
  /\ DropLastBlock
  /\ DropsWholeChild
  /\ \E p \in inodeMap :
       /\ next[p] = cur
       /\ next' = [next EXCEPT ![p] = None]
  /\ inodeMap' = inodeMap \ {cur}

(* The last inode has no block, so the code reads blocks[-1]: undefined    *)
(* behaviour, after which nothing is known of the image.                   *)
ShrinkUndefined ==
  /\ AtLastToShrink
  /\ ~KeepsUsedBlocks
  /\ LastSlot < 0
  /\ pc' = "fault"
  /\ UNCHANGED <<disk, files, op, top, cur, arg, left, rv, torn>>

(* inode_clear asserts that nothing is left; inode_free clears the bit. *)
Release ==
  /\ pc = "clear"
  /\ IF size[top] = 0
       THEN /\ inodeMap' = inodeMap \ {top}
            /\ files' = files \ {top}
            /\ Return("ok")
       ELSE /\ pc' = "abort"
            /\ UNCHANGED <<inodeMap, files, op, top, cur, arg, left, rv>>
  /\ UNCHANGED <<blockMap, size, blocks, next, torn>>

(***************************************************************************)
(* The specification.                                                      *)
(***************************************************************************)
Caller ==
  \/ Alloc
  \/ AllocNoInode
  \/ \E f \in files, n \in 0 .. MaxFileSize : Truncate(f, n)
  \/ \E f \in files, n \in 1 .. MaxFileSize : Write(f, n)
  \/ \E f \in files : Free(f)

Daemon ==
  \/ AddSize
  \/ SizeKnown
  \/ Walk
  \/ GrowDone
  \/ GrowInPlace
  \/ GrowBlock
  \/ GrowNoBlock
  \/ GrowChild
  \/ GrowNoInode
  \/ ShrinkDone
  \/ ShrinkInPlace
  \/ ShrinkBlock
  \/ ShrinkChild
  \/ ShrinkUndefined
  \/ Release

Next == Caller \/ Daemon

Spec == Init /\ [][Next]_vars

(***************************************************************************)
(* Properties.                                                             *)
(***************************************************************************)

(* Every variable has its type, and the fields of the call in progress     *)
(* agree with where it is (the frames of the recursion in inode.c).        *)
TypeOK ==
  /\ blockMap \subseteq Bnums
  /\ inodeMap \subseteq Inums
  /\ size \in [Inums -> Int]
  /\ blocks \in [Inums -> [Slots -> Int]]
  /\ next \in [Inums -> Int]
  /\ files \subseteq inodeMap
  /\ pc \in {"idle", "total", "grow", "shrink", "clear", "fault", "abort"}
  /\ op \in {"none", "truncate", "write", "free"}
  /\ pc # "idle" => op # "none" /\ top \in files /\ cur \in inodeMap
  /\ pc = "shrink" => op \in {"truncate", "free"}
  /\ pc = "clear" => op = "free"
  /\ arg \in Int
  /\ left \in Int
  /\ rv \in {"ok", "ENOSPC"}
  /\ torn \in BOOLEAN

Owns(i, k) == i \in inodeMap /\ blocks[i][k] # None

(* Two slots of the inode table never hold the same block, so writing to   *)
(* one file never changes another: block_alloc, inode_grow and             *)
(* inode_shrink keep the block bitmap and the slots in step.               *)
NoSharedBlock ==
  \A i, j \in Inums : \A k, l \in Slots :
    Owns(i, k) /\ Owns(j, l) /\ blocks[i][k] = blocks[j][l] => i = j /\ k = l

(* A block some file holds is marked in the block bitmap and is not one of *)
(* the reserved blocks, so block_alloc cannot hand it out again and the    *)
(* bitmaps and the inode table are never overwritten with file data.       *)
OwnedIsAllocated ==
  \A i \in Inums : \A k \in Slots : Owns(i, k) => blocks[i][k] \in blockMap \cap DataBlocks

ReservedKept == 0 .. RESERVED_BLOCKS - 1 \subseteq blockMap

(* Every byte below an inode's size lies in a block it holds: what         *)
(* inode_get_bnum returns inside a file is never -1.                       *)
SizeIsBacked ==
  \A i \in inodeMap : UsedBlocks(i) \in 0 .. INODE_LOCAL_BLOCK_CAP
                     /\ \A k \in Slots : k < UsedBlocks(i) => Owns(i, k)

(* The next fields form disjoint chains that start at the files: a next is *)
(* an allocated inode that is no file and is nobody else's next, only full *)
(* inodes have one, and every other inode is somebody's next (inode_get's  *)
(* assertions hold on every walk, and no inode is lost).                   *)
ChainsLinked ==
  /\ \A i \in inodeMap : next[i] # None =>
       next[i] \in inodeMap \ files /\ size[i] = MaxLocalSize
  /\ \A i, j \in inodeMap : next[i] = next[j] /\ next[i] # None => i = j
  /\ \A i \in inodeMap \ files : \E p \in inodeMap : next[p] = i

(* The call in progress is inside the chain of its own file.               *)
CallInChain ==
  pc # "idle" => cur = top \/ (cur \notin files /\ next[top] # None)

(* What holds whatever the calls did, the torn ones included.              *)
Structure ==
  /\ NoSharedBlock
  /\ OwnedIsAllocated
  /\ ReservedKept
  /\ SizeIsBacked
  /\ ChainsLinked

(* The child inode_grow has just linked, whose first block it is about to  *)
(* allocate: the one empty inode a chain has below its head, and so the    *)
(* exception to the comment of inode_shrink (inode.c:246).                 *)
GrowingChild(i) == pc = "grow" /\ cur = i /\ size[i] = 0 /\ left >= 1

(* An inode holds exactly the blocks its size needs, and no size is below 0. *)
ExactSlots ==
  \A i \in inodeMap :
    size[i] >= 0 /\ \A k \in Slots : Owns(i, k) => k < UsedBlocks(i)

ChildrenNotEmpty == \A i \in inodeMap \ files : size[i] > 0 \/ GrowingChild(i)

(* Every data block marked in the bitmap belongs to a file.                *)
NoLeakedBlock ==
  \A b \in blockMap \cap DataBlocks : \E i \in inodeMap : \E k \in Slots : blocks[i][k] = b

(* As long as no call failed between linking a child and giving it a       *)
(* block: what inode_grow and inode_shrink add and take back adds up, no   *)
(* block is lost, and inode_shrink stays inside its arrays.                *)
Exact == ~torn => ExactSlots /\ ChildrenNotEmpty /\ NoLeakedBlock /\ pc # "fault"

(* The strengthening that is inductive.                                    *)
IInv == TypeOK /\ Structure /\ CallInChain /\ Exact

(***************************************************************************)
(* Chains as sequences, for the properties about whole files.              *)
(***************************************************************************)
Chain(f) ==
  LET from[n \in 0 .. MAX_INODE_COUNT] ==
        [i \in Inums |-> IF n = 0 \/ next[i] \notin Inums THEN <<i>>
                        ELSE <<i>> \o from[n - 1][next[i]]]
  IN from[MAX_INODE_COUNT][f]

(* inode_total_size *)
TotalSize(f) ==
  LET sum[n \in 0 .. Len(Chain(f))] ==
        IF n = 0 THEN 0 ELSE sum[n - 1] + size[Chain(f)[n]]
  IN sum[Len(Chain(f))]

(* The chains of two files never meet and together they are all the        *)
(* allocated inodes: inode_free reaches everything a file ever took, and   *)
(* no walk along next goes round in a circle.                              *)
ChainsPartition ==
  /\ \A i \in inodeMap : \E f \in files : \E n \in DOMAIN Chain(f) : Chain(f)[n] = i
  /\ \A f, g \in files : \A n \in DOMAIN Chain(f), m \in DOMAIN Chain(g) :
       Chain(f)[n] = Chain(g)[m] => f = g /\ n = m

(* storage_truncate: "Grow the inode if the delta > 0" (storage.c:405), so  *)
(* a truncate that succeeds leaves the size it was asked for.              *)
TruncateReaches ==
  [][\A f \in files : op = "truncate" /\ f = top /\ pc' = "idle" /\ rv' = "ok" =>
       TotalSize(f)' = arg]_vars

(* The inode layer implements a store of file sizes.                       *)
Store == INSTANCE ByteStore WITH
  Files <- Inums,
  Targets <- 0 .. MaxFileSize,
  length <- [f \in files |-> TotalSize(f)],
  target <- IF pc = "idle" THEN None
            ELSE IF op = "write" THEN MAX(arg, TotalSize(top)) ELSE arg,
  file <- top,
  what <- IF pc \in {"fault", "abort"} THEN "dead" ELSE op,
  answer <- rv
StoreSpec == Store!Spec
=============================================================================
