------------------------------- MODULE Layout -------------------------------
(***************************************************************************)
(* The bytes of the reserved blocks: the block bitmap, the inode bitmap    *)
(* right behind it and the table of inodes right behind that, each at the  *)
(* address block.c computes for it.                                        *)
(*                                                                         *)
(* INODE_BITMAP_SIZE divides without rounding up, so the last inodes have  *)
(* their bits in the first byte of the table: in the reference count of    *)
(* the root's inode.  A byte has BYTE bits here, so that this happens with *)
(* three inodes as it does with 254 of eight bits.                         *)
(***************************************************************************)
EXTENDS Integers, TLC

CONSTANTS
  BYTE,                   \* bits of a byte: 8
  INT_BYTES,              \* bytes of an int: 4
  BLOCK_SIZE,             \* bytes of a block
  BLOCK_COUNT,            \* blocks of the disk image
  RESERVED_BLOCKS,        \* the reserved ones
  MAX_INODE_COUNT,        \* inodes of the table
  INODE_LOCAL_BLOCK_CAP,  \* block slots of an inode
  RegularMode,            \* the mode inode_reset gives, 0100644
  Written,                \* what else is written to a word of an inode
  MaxRefs                 \* bound: the highest reference count

ASSUME LayoutAssumption ==
  /\ {BYTE, INT_BYTES, BLOCK_SIZE, BLOCK_COUNT, MAX_INODE_COUNT} \subseteq Nat \ {0}
  /\ {RESERVED_BLOCKS, INODE_LOCAL_BLOCK_CAP, RegularMode, MaxRefs} \subseteq Nat
  /\ Written \subseteq Nat
  /\ BLOCK_COUNT % BYTE = 0

ROOT_INUM == 0
Inums == 0 .. MAX_INODE_COUNT - 1
DataBlocks == RESERVED_BLOCKS .. BLOCK_COUNT - 1

(***************************************************************************)
(* specs.h and the addresses of block.c, in bytes from the image's start.  *)
(***************************************************************************)
RESERVED_SIZE == BLOCK_SIZE * RESERVED_BLOCKS
BLOCK_BITMAP_SIZE == BLOCK_COUNT \div BYTE
INODE_BITMAP_SIZE == MAX_INODE_COUNT \div BYTE

BlockBitmapStart == 0
InodeBitmapStart == BlockBitmapStart + BLOCK_BITMAP_SIZE
InodeStartPerInode == InodeBitmapStart + MAX_INODE_COUNT
InodeStart == InodeBitmapStart + INODE_BITMAP_SIZE

(* inode_t: the words of an inode.                                         *)
Refs == 0
Mode == 1
Size == 2
Slot(k) == 3 + k
NextWord == 3 + INODE_LOCAL_BLOCK_CAP
Words == 0 .. NextWord

InodeAddress(i) == InodeStart + i * (NextWord + 1) * INT_BYTES
WordAddress(i, w) == InodeAddress(i) + w * INT_BYTES

VARIABLE image   \* the bytes of the reserved blocks, and any other written

(***************************************************************************)
(* Bits and words of an image m.                                           *)
(***************************************************************************)
BASE == 2 ^ BYTE

(* bitmap_get *)
BitmapGet(m, bm, i) == (m[bm + i \div BYTE] \div 2 ^ (i % BYTE)) % 2

(* bitmap_put *)
BitmapPutAlone(m, bm, i, v) == (bm + i \div BYTE :> v * 2 ^ (i % BYTE)) @@ m
BitmapPut(m, bm, i, v) ==
  LET a == bm + i \div BYTE
  IN (a :> m[a] + (v - BitmapGet(m, bm, i)) * 2 ^ (i % BYTE)) @@ m

(* An int is its bytes, the low one first.                                 *)
Ones == BASE ^ INT_BYTES - 1
GetWord(m, a) ==
  LET sum[k \in 0 .. INT_BYTES] == IF k = 0 THEN 0 ELSE sum[k - 1] + m[a + k - 1] * BASE ^ (k - 1)
  IN sum[INT_BYTES]
PutWord(m, a, v) == [b \in a .. a + INT_BYTES - 1 |-> (v \div BASE ^ (b - a)) % BASE] @@ m

(* inode_reset: -1 has all its bits set.                                   *)
ResetWord(w) ==
  CASE w \in {Refs, Size} -> 0 [] w = Mode -> RegularMode [] w \notin {Refs, Mode, Size} -> Ones
InodeReset(m, i) ==
  [a \in InodeAddress(i) .. InodeAddress(i + 1) - 1 |->
     LET at == a - InodeAddress(i)
     IN (ResetWord(at \div INT_BYTES) \div BASE ^ (at % INT_BYTES)) % BASE] @@ m

BlockBit(m, b) == BitmapGet(m, BlockBitmapStart, b)
InodeExists(m, i) == BitmapGet(m, InodeBitmapStart, i) = 1
FirstClear(S, i) == i \in S /\ \A j \in S : i <= j

(***************************************************************************)
(* What changes the reserved blocks.                                       *)
(***************************************************************************)

(* block_init *)
BlockInit(m) == BitmapPut(BitmapPut(m, BlockBitmapStart, 0, 1), BlockBitmapStart, 1, 1)

BlockAlloc ==
  \E b \in DataBlocks :
    /\ FirstClear({c \in DataBlocks : BlockBit(image, c) = 0}, b)
    /\ image' = BitmapPut(image, BlockBitmapStart, b, 1)

BlockFree ==
  \E b \in DataBlocks :
    /\ BlockBit(image, b) = 1
    /\ image' = BitmapPut(image, BlockBitmapStart, b, 0)

(* inode_alloc of inum i *)
Allocated(m, i) == BitmapPut(InodeReset(m, i), InodeBitmapStart, i, 1)
InodeAlloc ==
  \E i \in Inums :
    /\ FirstClear({j \in Inums : ~InodeExists(image, j)}, i)
    /\ image' = Allocated(image, i)

(* The bit inode_free clears, once inode_clear has taken size and blocks.  *)
(* The root is never freed.                                                *)
Cleared(i) == \A w \in Words \ {Mode} : GetWord(image, WordAddress(i, w)) = ResetWord(w)
InodeFree ==
  \E i \in Inums \ {ROOT_INUM} :
    /\ InodeExists(image, i)
    /\ Cleared(i)
    /\ image' = BitmapPut(image, InodeBitmapStart, i, 0)

(* storage_mknod, storage_link and storage_unlink count a name; none of    *)
(* them is for the root.                                                   *)
CountName ==
  \E i \in Inums \ {ROOT_INUM}, n \in {1, -1} :
    LET refs == GetWord(image, WordAddress(i, Refs)) + n IN
    /\ InodeExists(image, i)
    /\ refs \in 0 .. MaxRefs
    /\ image' = PutWord(image, WordAddress(i, Refs), refs)

(* The mode, the size, a slot or the next inode of an inode in use.        *)
PutField ==
  \E i \in Inums, w \in Words \ {Refs} : \E v \in Written \cup {ResetWord(w)} :
    InodeExists(image, i) /\ image' = PutWord(image, WordAddress(i, w), v)

(* The image is mounted again: storage_init finds the root.                *)
Remount == InodeExists(image, ROOT_INUM) /\ image' = BlockInit(image)

(* A new image is full of zeros; storage_init allocates the root.          *)
Init == image = Allocated(BlockInit([a \in 0 .. RESERVED_SIZE - 1 |-> 0]), ROOT_INUM)

Next ==
  \/ BlockAlloc
  \/ BlockFree
  \/ InodeAlloc
  \/ InodeFree
  \/ CountName
  \/ PutField
  \/ Remount

Spec == Init /\ [][Next]_image

(***************************************************************************)
(* Properties.                                                             *)
(***************************************************************************)

(* "Maximum of 254 inodes allowed because this is all that will fit":      *)
(* nothing written to the bitmaps or the table lies in a data block, and a *)
(* byte holds what a byte can.                                             *)
TableFits == image \in [0 .. RESERVED_SIZE - 1 -> 0 .. BASE - 1]

(* The two bitmaps and the table are pools of blocks and of inodes that do *)
(* not disturb each other, although they share a byte: all but the root's  *)
(* reference count, which nothing else writes or relies on, is kept.       *)
InUse == {i \in Inums : InodeExists(image, i)}
Shown(i) ==
  [w \in Words |->
     IF i = ROOT_INUM /\ w = Refs THEN 0 ELSE GetWord(image, WordAddress(i, w))]
Pool == INSTANCE Pools WITH
  AllBlocks <- DataBlocks,
  AllNodes <- Inums,
  AllWords <- Words,
  Fresh <- [w \in Words |-> ResetWord(w)],
  blocks <- {b \in DataBlocks : BlockBit(image, b) = 1},
  nodes <- [i \in InUse |-> Shown(i)]
PoolSpec == Pool!Spec
=============================================================================
