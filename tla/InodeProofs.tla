---------------------------- MODULE InodeProofs ----------------------------
(***************************************************************************)
(* Proofs about Inode for every disk layout.                               *)
(*                                                                         *)
(* The first part is about single inodes and blocks.  The invariants of    *)
(* Inode are not inductive one by one: that a freed block leaves no other  *)
(* inode without it needs NoSharedBlock, that the slot inode_grow fills is *)
(* the right one needs the arithmetic of bytes_to_blocks and SizeIsBacked, *)
(* that cutting off a child leaves the other chains whole needs            *)
(* ChainsLinked and CallInChain.  IInv joins them.  There is one lemma per *)
(* action, with one step per conjunct.                                     *)
(*                                                                         *)
(* The second part is about whole files: the chains of inodes and the      *)
(* sizes of files.  IInv speaks of one inode at a time, and that is not    *)
(* enough: an inode of a circle off every file satisfies it.  What a whole *)
(* file is, Chain and TotalSize of Inode say by recursive functions.  Here *)
(* ChainOf(nx, f) and TotalOf(nx, sz, f) are the same for any next fields  *)
(* and sizes, so that they can be compared before and after a step, and    *)
(* lemmas say what each kind of change does to them: Untouched, ResizeLast *)
(* (a block more or less), Lengthen and Shorten (a child more or less) and *)
(* NewChain.  Facts about all elements of a chain are proved by taking the *)
(* first one that fails (UpTo), not by the library's induction theorems.   *)
(*                                                                         *)
(* The invariant is then                                                   *)
(*   IInv         every single inode and block is in order,                *)
(*   ChainInv     every allocated inode is on the chain of a file, and the *)
(*                call is on the chain of its own file and has counted     *)
(*                what lies before it,                                     *)
(*   OnCourse     what is left of the call and the size of its file add up *)
(*                to the size asked for, and every size is in bounds.      *)
(* The first two give ChainsPartition.  All three give every step of       *)
(* Inode as a step of ByteStore: InodeImplementsStore.                     *)
(***************************************************************************)
EXTENDS Inode, TLAPS, FiniteSetTheorems, SequenceTheorems, WellFoundedInduction

(***************************************************************************)
(* Arithmetic of bytes_to_blocks.                                          *)
(***************************************************************************)

LEMMA DivFacts ==
  ASSUME NEW a \in Nat, NEW b \in Nat \ {0}
  PROVE  /\ a \div b \in Nat
         /\ b * (a \div b) <= a
         /\ a < b * (a \div b) + b
  OBVIOUS

(* bytes_to_blocks rounds up: u blocks are needed exactly for the sizes    *)
(* above u - 1 blocks and up to u blocks.                                  *)
LEMMA BlocksOfNat ==
  ASSUME NEW s \in Nat
  PROVE  /\ BytesToBlocks(s) \in Nat
         /\ BLOCK_SIZE * (BytesToBlocks(s) - 1) < s
         /\ s <= BLOCK_SIZE * BytesToBlocks(s)
<1> DEFINE a == s + BLOCK_SIZE - 1
<1>1. a \in Nat
  BY SizesAssumption
<1>2. BytesToBlocks(s) = a \div BLOCK_SIZE
  BY <1>1, SizesAssumption DEF BytesToBlocks, CDiv
<1>3. /\ a \div BLOCK_SIZE \in Nat
      /\ BLOCK_SIZE * (a \div BLOCK_SIZE) <= a
      /\ a < BLOCK_SIZE * (a \div BLOCK_SIZE) + BLOCK_SIZE
  BY <1>1, DivFacts, SizesAssumption
<1> QED
  BY <1>2, <1>3, SizesAssumption

LEMMA BlocksOfNegative ==
  ASSUME NEW s \in Int, s < 0
  PROVE  BytesToBlocks(s) \in Int /\ BytesToBlocks(s) <= 0
  BY SizesAssumption, DivFacts DEF BytesToBlocks, CDiv

LEMMA BlocksUnique ==
  ASSUME NEW s \in Nat, NEW u \in Int,
         BLOCK_SIZE * (u - 1) < s, s <= BLOCK_SIZE * u
  PROVE  BytesToBlocks(s) = u
<1> DEFINE v == BytesToBlocks(s)
<1>1. v \in Nat /\ BLOCK_SIZE * (v - 1) < s /\ s <= BLOCK_SIZE * v
  BY BlocksOfNat
<1>2. BLOCK_SIZE * (v - 1) < BLOCK_SIZE * u /\ BLOCK_SIZE * (u - 1) < BLOCK_SIZE * v
  BY <1>1, SizesAssumption
<1>3. v - 1 < u /\ u - 1 < v
  BY <1>1, <1>2, SizesAssumption
<1> QED
  BY <1>1, <1>3

(* Moving to another block moves the count by one.                         *)
LEMMA BlocksOfMultiple ==
  ASSUME NEW u \in Nat
  PROVE  BLOCK_SIZE * u \in Nat /\ BytesToBlocks(BLOCK_SIZE * u) = u
<1>1. BLOCK_SIZE * u \in Nat /\ BLOCK_SIZE * (u - 1) < BLOCK_SIZE * u
  BY SizesAssumption
<1> QED
  BY <1>1, BlocksUnique

LEMMA BlocksInt ==
  ASSUME NEW s \in Int
  PROVE  BytesToBlocks(s) \in Int
<1>1. CASE s >= 0
  BY <1>1, BlocksOfNat
<1>2. CASE s < 0
  BY <1>2, BlocksOfNegative
<1> QED
  BY <1>1, <1>2

LEMMA BlocksSign ==
  ASSUME NEW s \in Int
  PROVE  BytesToBlocks(s) >= 1 <=> s >= 1
<1>1. CASE s >= 1
  BY <1>1, BlocksOfNat, SizesAssumption
<1>2. CASE s = 0
  <2>1. BytesToBlocks(0) = 0
    BY BlocksOfMultiple, SizesAssumption
  <2> QED
    BY <1>2, <2>1
<1>3. CASE s < 0
  BY <1>3, BlocksOfNegative
<1> QED
  BY <1>1, <1>2, <1>3

(* The sizes below 0 that still count as no block: C rounds toward zero.   *)
LEMMA BlocksNearZero ==
  ASSUME NEW s \in Int, s < 0
  PROVE  BytesToBlocks(s) = 0 <=> s + BLOCK_SIZE - 1 > -BLOCK_SIZE
<1> DEFINE a == s + BLOCK_SIZE - 1
<1>0. a \in Int /\ a < BLOCK_SIZE
  BY SizesAssumption
<1>1. CASE a >= 0
  <2>1. a \in Nat
    BY <1>0, <1>1
  <2>2. a \div BLOCK_SIZE \in Nat /\ BLOCK_SIZE * (a \div BLOCK_SIZE) <= a
    BY <2>1, DivFacts, SizesAssumption
  <2>3. a \div BLOCK_SIZE < 1
    BY <1>0, <2>2, SizesAssumption
  <2>4. BytesToBlocks(s) = a \div BLOCK_SIZE
    BY <1>1 DEF BytesToBlocks, CDiv
  <2> QED
    BY <1>1, <2>2, <2>3, <2>4, SizesAssumption
<1>2. CASE a < 0
  <2> DEFINE d == (-a) \div BLOCK_SIZE
  <2>1. -a \in Nat
    BY <1>0, <1>2
  <2>2. /\ d \in Nat
        /\ BLOCK_SIZE * d <= -a
        /\ -a < BLOCK_SIZE * d + BLOCK_SIZE
    BY <2>1, DivFacts, SizesAssumption
  <2>3. BytesToBlocks(s) = -d
    BY <1>0, <1>2 DEF BytesToBlocks, CDiv
  <2>4. d = 0 <=> -a < BLOCK_SIZE
    <3>1. d = 0 => -a < BLOCK_SIZE
      BY <2>2, SizesAssumption
    <3>2. d >= 1 => BLOCK_SIZE * d >= BLOCK_SIZE
      BY <2>2, SizesAssumption
    <3> QED
      BY <1>0, <2>2, <3>1, <3>2, SizesAssumption
  <2> HIDE DEF d
  <2> QED
    BY <1>0, <2>2, <2>3, <2>4, SizesAssumption
<1> QED
  BY <1>0, <1>1, <1>2

(* One level of inode_grow that needs a block raises the count by one.     *)
LEMMA GrowByBlock ==
  ASSUME NEW s \in Int, NEW n \in Int, n >= 1,
         BytesToBlocks(s) >= 0,
         BytesToBlocks(s + n) # BytesToBlocks(s)
  PROVE  LET t == s + MIN(BLOCK_SIZE, n) IN
           /\ t \in Int
           /\ BytesToBlocks(t) \in {BytesToBlocks(s), BytesToBlocks(s) + 1}
           /\ s >= 0 => BytesToBlocks(t) = BytesToBlocks(s) + 1
<1> DEFINE t == s + MIN(BLOCK_SIZE, n)
           u == BytesToBlocks(s)
<1>0. /\ t \in Int /\ u \in Int /\ t > s /\ t <= s + BLOCK_SIZE /\ t <= s + n
      /\ t = s + BLOCK_SIZE \/ t = s + n
  BY BlocksInt, SizesAssumption DEF MIN
<1>1. CASE s >= 0
  <2>1. u \in Nat /\ BLOCK_SIZE * (u - 1) < s /\ s <= BLOCK_SIZE * u
    BY <1>1, BlocksOfNat
  <2>2. BLOCK_SIZE * ((u + 1) - 1) = BLOCK_SIZE * u /\ BLOCK_SIZE * (u + 1) = BLOCK_SIZE * u + BLOCK_SIZE
        /\ BLOCK_SIZE * (u - 1) = BLOCK_SIZE * u - BLOCK_SIZE /\ BLOCK_SIZE * u \in Int
    BY <1>0, SizesAssumption
  <2>3. ~(s + n <= BLOCK_SIZE * u)
    <3>1. SUFFICES ASSUME s + n <= BLOCK_SIZE * u
                   PROVE  FALSE
      OBVIOUS
    <3>2. s + n \in Nat /\ BLOCK_SIZE * (u - 1) < s + n
      BY <1>1, <2>1, <2>2, <1>0, SizesAssumption
    <3> HIDE DEF u
    <3>3. BytesToBlocks(s + n) = u
      BY <3>1, <3>2, <2>1, BlocksUnique
    <3> QED
      BY <3>3 DEF u
  <2>4. BLOCK_SIZE * ((u + 1) - 1) < t /\ t <= BLOCK_SIZE * (u + 1)
    BY <1>0, <1>1, <2>1, <2>2, <2>3, SizesAssumption
  <2>5. BytesToBlocks(t) = u + 1
    BY <1>0, <1>1, <2>4, BlocksUnique
  <2> QED
    BY <1>0, <2>5
<1>2. CASE s < 0
  <2>1. u = 0
    BY <1>0, <1>2, BlocksOfNegative
  <2>2. CASE t < 0
    <3>1. BytesToBlocks(t) = 0
      BY <1>0, <1>2, <2>1, <2>2, BlocksNearZero, SizesAssumption
    <3> QED
      BY <1>0, <1>2, <2>1, <3>1
  <2>3. CASE t >= 0
    <3>1. BytesToBlocks(t) \in Nat /\ BLOCK_SIZE * (BytesToBlocks(t) - 1) < t
      BY <1>0, <2>3, BlocksOfNat
    <3>2. BytesToBlocks(t) < 2
      BY <1>0, <1>2, <3>1, SizesAssumption
    <3> QED
      BY <1>0, <1>2, <2>1, <3>1, <3>2
  <2> QED
    BY <1>0, <2>2, <2>3
<1> QED
  BY <1>1, <1>2, <1>0

LEMMA BlocksOfMaxLocalSize == MaxLocalSize \in Nat \ {0} /\ BytesToBlocks(MaxLocalSize) = INODE_LOCAL_BLOCK_CAP
  BY BlocksOfMultiple, SizesAssumption DEF MaxLocalSize

(* If a full inode needs another block, what is left to grow does not fit  *)
(* in it.                                                                  *)
LEMMA GrowBeyondFull ==
  ASSUME NEW s \in Nat, NEW n \in Nat, n >= 1,
         BytesToBlocks(s) = INODE_LOCAL_BLOCK_CAP,
         BytesToBlocks(s + n) # BytesToBlocks(s)
  PROVE  n - (MaxLocalSize - s) >= 1
<1>1. SUFFICES ASSUME s + n <= BLOCK_SIZE * INODE_LOCAL_BLOCK_CAP
               PROVE  FALSE
  BY SizesAssumption DEF MaxLocalSize
<1>2. BLOCK_SIZE * (INODE_LOCAL_BLOCK_CAP - 1) < s + n
  BY BlocksOfNat, SizesAssumption
<1> QED
  BY <1>1, <1>2, BlocksUnique, SizesAssumption

(***************************************************************************)
(* What the invariant says about chains and slots.                         *)
(***************************************************************************)

LEMMA NextFacts ==
  ASSUME TypeOK, ChainsLinked
  PROVE  /\ \A i \in inodeMap : next[i] \in Int
         /\ \A i \in inodeMap : next[i] >= 0 => next[i] \in inodeMap \ files /\ size[i] = MaxLocalSize
         /\ \A i \in inodeMap : next[i] < 0 => next[i] = None
<1>1. \A i \in inodeMap : i \in Inums /\ next[i] \in Int
  BY DEF TypeOK
<1>2. \A i \in inodeMap : next[i] # None => next[i] >= 0
  BY <1>1, SizesAssumption DEF ChainsLinked, Inums
<1> QED
  BY <1>1, <1>2 DEF ChainsLinked, None

LEMMA InodeTypes ==
  ASSUME TypeOK
  PROVE  /\ \A i \in inodeMap : i \in Inums /\ i \in Nat /\ size[i] \in Int /\ blocks[i] \in [Slots -> Int]
         /\ files \subseteq inodeMap
         /\ \A k \in Slots : k \in Nat /\ k < INODE_LOCAL_BLOCK_CAP
  BY SizesAssumption DEF TypeOK, Inums, Slots

(***************************************************************************)
(* Steps that only move the call along.                                    *)
(***************************************************************************)

LEMMA StructureKept ==
  ASSUME Structure, UNCHANGED <<disk, files>>
  PROVE  Structure'
  BY DEF Structure, disk, NoSharedBlock, OwnedIsAllocated, ReservedKept, SizeIsBacked,
         ChainsLinked, Owns, UsedBlocks

(* If in addition no child is waiting for its first block before the step, *)
(* the exact part carries over.                                            *)
LEMMA ExactKept ==
  ASSUME Exact, UNCHANGED <<disk, files, torn>>, pc' # "fault",
         ~torn => \A i \in inodeMap \ files : ~GrowingChild(i)
  PROVE  Exact'
<1> SUFFICES ASSUME ~torn'
             PROVE  ExactSlots' /\ ChildrenNotEmpty' /\ NoLeakedBlock'
  BY DEF Exact
<1>1. ~torn /\ ExactSlots /\ ChildrenNotEmpty /\ NoLeakedBlock
  BY DEF Exact
<1>2. ExactSlots'
  BY <1>1 DEF ExactSlots, disk, Owns, UsedBlocks
<1>3. ChildrenNotEmpty'
  BY <1>1 DEF ChildrenNotEmpty, disk
<1>4. NoLeakedBlock'
  BY <1>1 DEF NoLeakedBlock, disk
<1> QED
  BY <1>2, <1>3, <1>4

LEMMA BeginStep ==
  ASSUME IInv, NEW o \in {"truncate", "write", "free"}, NEW f \in files, NEW n \in Int,
         Begin(o, f, n)
  PROVE  IInv'
<1>1. TypeOK'
  BY DEF IInv, TypeOK, Begin, disk
<1>2. Structure'
  BY StructureKept DEF IInv, Begin
<1>3. CallInChain'
  BY DEF CallInChain, Begin
<1>4. Exact'
  BY ExactKept DEF IInv, Begin, GrowingChild
<1> QED
  BY <1>1, <1>2, <1>3, <1>4 DEF IInv

LEMMA AddSizeStep ==
  ASSUME IInv, AddSize
  PROVE  IInv'
<1>0. next[cur] \in inodeMap \ files /\ next[cur] # None
  BY NextFacts DEF IInv, TypeOK, Structure, AddSize, None
<1>1. TypeOK'
  BY <1>0 DEF IInv, TypeOK, AddSize, disk
<1>2. Structure'
  BY StructureKept DEF IInv, AddSize
<1>3. CallInChain'
  BY <1>0 DEF IInv, CallInChain, AddSize, disk
<1>4. Exact'
  BY ExactKept DEF IInv, AddSize, GrowingChild
<1> QED
  BY <1>1, <1>2, <1>3, <1>4 DEF IInv

(* Cutting a number to an int gives a number.                              *)
LEMMA ToIntInt ==
  ASSUME NEW x \in Int
  PROVE  ToInt(x) \in Int
<1> DEFINE low == x % INT_RANGE
<1>1. low \in Int
  BY SizesAssumption
<1> QED
  BY <1>1, SizesAssumption DEF ToInt

LEMMA SizeKnownStep ==
  ASSUME IInv, SizeKnown
  PROVE  IInv'
<1> DEFINE delta == ToInt(arg - (left + size[cur]))
<1>1. TypeOK'
  <2>1. delta \in Int /\ ToInt(-delta) \in Int
    <3>1. arg - (left + size[cur]) \in Int
      BY DEF IInv, TypeOK, SizeKnown
    <3>2. delta \in Int
      BY <3>1, ToIntInt
    <3>3. -delta \in Int
      BY <3>2
    <3> QED
      BY <3>2, <3>3, ToIntInt
  <2>2. size[cur] \in Int
    BY DEF IInv, TypeOK, SizeKnown
  <2> HIDE DEF delta
  <2> QED
    BY <2>1, <2>2 DEF IInv, TypeOK, SizeKnown, StartGrow, StartShrink, disk, delta
<1>2. Structure'
  BY StructureKept DEF IInv, SizeKnown
<1>3. CallInChain'
  BY DEF CallInChain, SizeKnown
<1>4. Exact'
  BY ExactKept DEF IInv, SizeKnown, StartGrow, StartShrink, GrowingChild
<1> QED
  BY <1>1, <1>2, <1>3, <1>4 DEF IInv

LEMMA WalkStep ==
  ASSUME IInv, Walk
  PROVE  IInv'
<1>0. next[cur] \in inodeMap \ files /\ next[cur] # None /\ size[cur] = MaxLocalSize
  BY NextFacts DEF IInv, TypeOK, Structure, Walk, None
<1>1. TypeOK'
  BY <1>0 DEF IInv, TypeOK, Walk, disk
<1>2. Structure'
  BY StructureKept DEF IInv, Walk
<1>3. CallInChain'
  BY <1>0 DEF IInv, CallInChain, Walk, disk
<1>4. Exact'
  BY <1>0, ExactKept, BlocksOfMaxLocalSize DEF IInv, Walk, GrowingChild
<1> QED
  BY <1>1, <1>2, <1>3, <1>4 DEF IInv

LEMMA GrowDoneStep ==
  ASSUME IInv, GrowDone
  PROVE  IInv'
<1>1. TypeOK'
  BY DEF IInv, TypeOK, GrowDone, Return, disk
<1>2. Structure'
  BY StructureKept DEF IInv, GrowDone
<1>3. CallInChain'
  BY DEF CallInChain, GrowDone, Return
<1>4. Exact'
  BY ExactKept DEF IInv, TypeOK, GrowDone, Return, GrowingChild
<1> QED
  BY <1>1, <1>2, <1>3, <1>4 DEF IInv

(* The call that fails here is torn exactly if it leaves an empty child.   *)
LEMMA GrowNoBlockStep ==
  ASSUME IInv, GrowNoBlock
  PROVE  IInv'
<1>1. TypeOK'
  BY DEF IInv, TypeOK, GrowNoBlock, Return, disk
<1>2. Structure'
  BY StructureKept DEF IInv, GrowNoBlock
<1>3. CallInChain'
  BY DEF CallInChain, GrowNoBlock, Return
<1>4. Exact'
  <2>1. CASE torn'
    BY <2>1 DEF Exact
  <2>2. CASE ~torn'
    <3>1. UNCHANGED torn
      BY <2>2 DEF IInv, TypeOK, GrowNoBlock
    <3>2. \A i \in inodeMap \ files : ~GrowingChild(i)
      BY <2>2 DEF IInv, GrowNoBlock, GrowingChild
    <3> QED
      BY <3>1, <3>2, ExactKept DEF IInv, GrowNoBlock, Return
  <2> QED
    BY <2>1, <2>2
<1> QED
  BY <1>1, <1>2, <1>3, <1>4 DEF IInv

LEMMA ShrinkDoneStep ==
  ASSUME IInv, ShrinkDone
  PROVE  IInv'
<1>1. TypeOK'
  BY DEF IInv, TypeOK, ShrinkDone, ShrinkReturn, Return, disk
<1>2. Structure'
  BY StructureKept DEF IInv, ShrinkDone
<1>3. CallInChain'
  BY DEF IInv, CallInChain, ShrinkDone, ShrinkReturn, Return, disk
<1>4. Exact'
  BY ExactKept DEF IInv, ShrinkDone, ShrinkReturn, Return, GrowingChild
<1> QED
  BY <1>1, <1>2, <1>3, <1>4 DEF IInv

(* inode_shrink reads blocks[-1] only in the chain of a torn file.         *)
LEMMA ShrinkUndefinedStep ==
  ASSUME IInv, ShrinkUndefined
  PROVE  IInv'
<1>1. TypeOK'
  BY DEF IInv, TypeOK, ShrinkUndefined, AtLastToShrink, disk
<1>2. Structure'
  BY StructureKept DEF IInv, ShrinkUndefined
<1>3. CallInChain'
  BY DEF IInv, CallInChain, ShrinkUndefined, AtLastToShrink, disk
<1>4. Exact'
  <2>1. torn
    <3> SUFFICES ASSUME ~torn
                 PROVE  FALSE
      OBVIOUS
    <3>1. cur \in inodeMap /\ size[cur] \in Int
      BY InodeTypes DEF IInv, TypeOK, ShrinkUndefined, AtLastToShrink
    <3>2. size[cur] >= 1
      BY <3>1 DEF IInv, TypeOK, CallInChain, Exact, ExactSlots, ChildrenNotEmpty, GrowingChild,
                  ShrinkUndefined, AtLastToShrink, Shrinkable
    <3>3. UsedBlocks(cur) >= 1
      BY <3>1, <3>2, BlocksSign DEF UsedBlocks
    <3>4. UsedBlocks(cur) \in Int
      BY <3>1, BlocksInt DEF UsedBlocks
    <3> QED
      BY <3>3, <3>4 DEF ShrinkUndefined, LastSlot
  <2> QED
    BY <2>1 DEF Exact, ShrinkUndefined
<1> QED
  BY <1>1, <1>2, <1>3, <1>4 DEF IInv

(***************************************************************************)
(* Steps that grow.                                                        *)
(***************************************************************************)

(* A new inode, for a file or for a chain: nobody points at it and it owns *)
(* no block.                                                               *)
LEMMA FreshInode ==
  ASSUME TypeOK, NEW i \in Inums, FirstFreeInum(i)
  PROVE  i \notin inodeMap /\ i \notin files /\ i # None /\ i >= 0 /\ i \in Int
  BY SizesAssumption DEF TypeOK, FirstFreeInum, Inums, None

LEMMA AllocStep ==
  ASSUME IInv, Alloc
  PROVE  IInv'
<1>0. PICK i \in Inums :
        /\ FirstFreeInum(i)
        /\ inodeMap' = inodeMap \cup {i}
        /\ size' = [size EXCEPT ![i] = 0]
        /\ blocks' = [blocks EXCEPT ![i] = EmptySlots]
        /\ next' = [next EXCEPT ![i] = None]
        /\ files' = files \cup {i}
  BY DEF Alloc
<1>a. i \notin inodeMap /\ i \notin files /\ i # None /\ i >= 0 /\ i \in Int
  BY <1>0, FreshInode DEF IInv
<1>b. /\ pc = "idle" /\ rv' = "ok"
      /\ UNCHANGED <<blockMap, pc, op, top, cur, arg, left, torn>>
  BY DEF Alloc, call
<1>1. TypeOK'
  BY <1>0, <1>b DEF IInv, TypeOK, EmptySlots, None
<1>2. \A j \in Inums : j # i => /\ size'[j] = size[j] /\ blocks'[j] = blocks[j]
                                /\ next'[j] = next[j] /\ UsedBlocks(j)' = UsedBlocks(j)
  BY <1>0 DEF IInv, TypeOK, UsedBlocks
<1>3. size'[i] = 0 /\ next'[i] = None /\ UsedBlocks(i)' = 0 /\ \A k \in Slots : blocks'[i][k] = None
  BY <1>0, BlocksOfMultiple, SizesAssumption DEF IInv, TypeOK, UsedBlocks, EmptySlots
<1>4. \A j \in Inums : \A k \in Slots : Owns(j, k)' <=> j # i /\ Owns(j, k)
  BY <1>0, <1>a, <1>2, <1>3 DEF Owns
<1>5. inodeMap \subseteq Inums /\ \A j \in inodeMap : j # i
  BY <1>a DEF IInv, TypeOK
<1>6. Structure'
  <2>1. NoSharedBlock'
    BY <1>2, <1>4 DEF IInv, Structure, NoSharedBlock
  <2>2. OwnedIsAllocated'
    BY <1>2, <1>4, <1>b DEF IInv, Structure, OwnedIsAllocated
  <2>3. ReservedKept'
    BY <1>b DEF IInv, Structure, ReservedKept
  <2>4. SizeIsBacked'
    BY <1>0, <1>2, <1>3, <1>4, <1>5, SizesAssumption DEF IInv, Structure, SizeIsBacked, Slots
  <2>5. ChainsLinked'
    BY <1>0, <1>a, <1>2, <1>3, <1>5 DEF IInv, Structure, ChainsLinked
  <2> QED
    BY <2>1, <2>2, <2>3, <2>4, <2>5 DEF Structure
<1>7. CallInChain'
  BY <1>b DEF CallInChain
<1>8. Exact'
  <2> SUFFICES ASSUME ~torn
               PROVE  ExactSlots' /\ ChildrenNotEmpty' /\ NoLeakedBlock'
    BY <1>b DEF Exact
  <2>0. ExactSlots /\ ChildrenNotEmpty /\ NoLeakedBlock
    BY DEF IInv, Exact
  <2>1. ExactSlots'
    BY <1>0, <1>2, <1>3, <1>4, <1>5, <2>0 DEF ExactSlots
  <2>2. ChildrenNotEmpty'
    BY <1>0, <1>b, <1>2, <1>5, <2>0 DEF ChildrenNotEmpty, GrowingChild
  <2>3. NoLeakedBlock'
    BY <1>0, <1>b, <1>2, <1>5, <2>0 DEF NoLeakedBlock
  <2> QED
    BY <2>1, <2>2, <2>3
<1> QED
  BY <1>1, <1>6, <1>7, <1>8 DEF IInv

(* Steps that change nothing but the size of the last inode, keeping the   *)
(* number of blocks it needs.                                              *)
LEMMA SizeOnly ==
  ASSUME IInv, cur \in inodeMap, next[cur] = None,
         \A i \in Inums : i # cur => size'[i] = size[i],
         BytesToBlocks(size'[cur]) = UsedBlocks(cur),
         UNCHANGED <<blockMap, inodeMap, blocks, next, files>>
  PROVE  /\ Structure'
         /\ ExactSlots /\ size'[cur] >= 0 => ExactSlots'
         /\ NoLeakedBlock => NoLeakedBlock'
<1>0. /\ cur \in Inums /\ inodeMap \subseteq Inums
      /\ \A i \in Inums : UsedBlocks(i)' = UsedBlocks(i)
      /\ \A i \in Inums : \A k \in Slots : Owns(i, k)' <=> Owns(i, k)
  BY DEF IInv, TypeOK, UsedBlocks, Owns
<1>1. NoSharedBlock'
  BY <1>0 DEF IInv, Structure, NoSharedBlock
<1>2. OwnedIsAllocated'
  BY <1>0 DEF IInv, Structure, OwnedIsAllocated
<1>3. ReservedKept'
  BY DEF IInv, Structure, ReservedKept
<1>4. SizeIsBacked'
  BY <1>0 DEF IInv, Structure, SizeIsBacked
<1>5. ChainsLinked'
  BY <1>0 DEF IInv, Structure, ChainsLinked
<1>6. ExactSlots /\ size'[cur] >= 0 => ExactSlots'
  BY <1>0 DEF ExactSlots
<1>7. NoLeakedBlock => NoLeakedBlock'
  BY DEF NoLeakedBlock
<1> QED
  BY <1>1, <1>2, <1>3, <1>4, <1>5, <1>6, <1>7 DEF Structure

LEMMA AtLastFacts ==
  ASSUME IInv, AtLastToGrow \/ AtLastToShrink
  PROVE  /\ cur \in inodeMap /\ cur \in Inums /\ size[cur] \in Int /\ next[cur] = None
         /\ UsedBlocks(cur) \in 0 .. INODE_LOCAL_BLOCK_CAP
         /\ left \in Int /\ left >= 1
  BY InodeTypes, NextFacts DEF IInv, TypeOK, Structure, SizeIsBacked, AtLastToGrow, AtLastToShrink, Shrinkable

LEMMA GrowInPlaceStep ==
  ASSUME IInv, GrowInPlace
  PROVE  IInv'
<1>0. /\ cur \in inodeMap /\ cur \in Inums /\ size[cur] \in Int /\ next[cur] = None
      /\ left \in Int /\ left >= 1 /\ pc = "grow"
      /\ BytesToBlocks(size[cur] + left) = UsedBlocks(cur)
      /\ size' = [size EXCEPT ![cur] = size[cur] + left]
      /\ UNCHANGED <<blockMap, inodeMap, blocks, next, files, torn>>
  BY AtLastFacts DEF GrowInPlace, AtLastToGrow, FitsInUsedBlocks
<1>1. TypeOK'
  BY <1>0 DEF IInv, TypeOK, GrowInPlace, Return
<1>a. /\ size'[cur] = size[cur] + left
      /\ \A i \in Inums : i # cur => size'[i] = size[i]
      /\ BytesToBlocks(size'[cur]) = UsedBlocks(cur)
  BY <1>0 DEF IInv, TypeOK, UsedBlocks
<1>2. /\ Structure'
      /\ ExactSlots /\ size'[cur] >= 0 => ExactSlots'
      /\ NoLeakedBlock => NoLeakedBlock'
  BY <1>0, <1>a, SizeOnly
<1>3. CallInChain'
  BY DEF CallInChain, GrowInPlace, Return
<1>4. Exact'
  <2> SUFFICES ASSUME ~torn
               PROVE  ExactSlots' /\ ChildrenNotEmpty' /\ NoLeakedBlock'
    BY <1>0 DEF Exact, GrowInPlace, Return
  <2>0. ExactSlots /\ ChildrenNotEmpty /\ NoLeakedBlock /\ size[cur] >= 0
    BY <1>0 DEF IInv, Exact, ExactSlots
  <2>1. ChildrenNotEmpty'
    BY <1>0, <1>a, <2>0 DEF IInv, TypeOK, ChildrenNotEmpty, GrowingChild
  <2> QED
    BY <1>0, <1>a, <1>2, <2>0, <2>1
<1> QED
  BY <1>1, <1>2, <1>3, <1>4 DEF IInv

LEMMA GrowNoInodeStep ==
  ASSUME IInv, GrowNoInode
  PROVE  IInv'
<1>0. /\ cur \in inodeMap /\ cur \in Inums /\ next[cur] = None
      /\ left \in Int /\ left >= 1 /\ pc = "grow"
      /\ UsedBlocks(cur) = INODE_LOCAL_BLOCK_CAP
      /\ size' = [size EXCEPT ![cur] = MaxLocalSize]
      /\ UNCHANGED <<blockMap, inodeMap, blocks, next, files, torn>>
  BY AtLastFacts, SizesAssumption DEF GrowNoInode, AtLastToGrow
<1>1. TypeOK'
  BY <1>0, BlocksOfMaxLocalSize DEF IInv, TypeOK, GrowNoInode, Return
<1>a. /\ size'[cur] = MaxLocalSize
      /\ \A i \in Inums : i # cur => size'[i] = size[i]
      /\ BytesToBlocks(size'[cur]) = UsedBlocks(cur)
  BY <1>0, BlocksOfMaxLocalSize DEF IInv, TypeOK, UsedBlocks
<1>2. /\ Structure'
      /\ ExactSlots => ExactSlots'
      /\ NoLeakedBlock => NoLeakedBlock'
  BY <1>0, <1>a, SizeOnly, BlocksOfMaxLocalSize
<1>3. CallInChain'
  BY DEF CallInChain, GrowNoInode, Return
<1>4. Exact'
  <2> SUFFICES ASSUME ~torn
               PROVE  ExactSlots' /\ ChildrenNotEmpty' /\ NoLeakedBlock'
    BY <1>0 DEF Exact, GrowNoInode, Return
  <2>0. ExactSlots /\ ChildrenNotEmpty /\ NoLeakedBlock
    BY DEF IInv, Exact
  <2>1. ChildrenNotEmpty'
    BY <1>0, <1>a, <2>0, BlocksOfMaxLocalSize DEF IInv, TypeOK, ChildrenNotEmpty, GrowingChild
  <2> QED
    BY <1>2, <2>0, <2>1
<1> QED
  BY <1>1, <1>2, <1>3, <1>4 DEF IInv

LEMMA GrowBlockStep ==
  ASSUME IInv, GrowBlock
  PROVE  IInv'
<1> DEFINE u == UsedBlocks(cur)
<1>0. PICK b \in Bnums : BlockAlloc(b) /\ blocks' = [blocks EXCEPT ![cur][u] = b]
  BY DEF GrowBlock
<1>d. /\ cur \in inodeMap /\ cur \in Inums /\ size[cur] \in Int /\ next[cur] = None
      /\ left \in Int /\ left >= 1
      /\ u \in Slots
  BY AtLastFacts, SizesAssumption DEF GrowBlock, AtLastToGrow, Slots
<1>a. /\ cur \in inodeMap /\ cur \in Inums /\ size[cur] \in Int /\ next[cur] = None
      /\ left \in Int /\ left >= 1 /\ pc = "grow" /\ pc' = "grow"
      /\ u \in Slots
      /\ BytesToBlocks(size[cur] + left) # BytesToBlocks(size[cur])
      /\ size' = [size EXCEPT ![cur] = size[cur] + MIN(BLOCK_SIZE, left)]
      /\ left' = left - BLOCK_SIZE
      /\ UNCHANGED <<inodeMap, next, files, pc, op, top, cur, arg, rv, torn>>
  BY <1>d DEF GrowBlock, AtLastToGrow, FitsInUsedBlocks, UsedBlocks
<1>b. /\ b \in DataBlocks /\ b \notin blockMap /\ b \in Int /\ b >= 0 /\ b # None
      /\ blockMap' = blockMap \cup {b}
  BY <1>0, SizesAssumption DEF BlockAlloc, DataBlocks, None
<1>c. /\ size'[cur] \in Int /\ size'[cur] > size[cur]
      /\ UsedBlocks(cur)' \in {u, u + 1}
      /\ size[cur] >= 0 => UsedBlocks(cur)' = u + 1
  <2>1. size'[cur] = size[cur] + MIN(BLOCK_SIZE, left)
    BY <1>a DEF IInv, TypeOK
  <2>2. BytesToBlocks(size[cur]) >= 0
    BY <1>a, SizesAssumption DEF UsedBlocks, Slots
  <2>3. /\ size'[cur] \in Int
        /\ BytesToBlocks(size'[cur]) \in {BytesToBlocks(size[cur]), BytesToBlocks(size[cur]) + 1}
        /\ size[cur] >= 0 => BytesToBlocks(size'[cur]) = BytesToBlocks(size[cur]) + 1
    BY <1>a, <2>1, <2>2, GrowByBlock
  <2>4. size'[cur] > size[cur]
    BY <1>a, <2>1, SizesAssumption DEF MIN
  <2> QED
    BY <1>a, <2>3, <2>4 DEF UsedBlocks
<1> HIDE DEF u
<1>1. \A i \in Inums : \A k \in Slots :
        blocks'[i][k] = IF i = cur /\ k = u THEN b ELSE blocks[i][k]
  BY <1>0, <1>a DEF IInv, TypeOK
<1>2. \A i \in Inums : i # cur => size'[i] = size[i] /\ UsedBlocks(i)' = UsedBlocks(i)
  BY <1>a DEF IInv, TypeOK, UsedBlocks
<1>3. \A i \in Inums : \A k \in Slots : Owns(i, k)' <=> (Owns(i, k) \/ (i = cur /\ k = u))
  BY <1>1, <1>a, <1>b DEF Owns
<1>4. \A i \in Inums : \A k \in Slots : Owns(i, k) => blocks[i][k] # b
  BY <1>b DEF IInv, Structure, OwnedIsAllocated
<1>5. inodeMap \subseteq Inums /\ u \in Nat /\ u < INODE_LOCAL_BLOCK_CAP /\ \A k \in Slots : k \in Nat
  BY <1>a, InodeTypes DEF IInv, TypeOK
<1>6. TypeOK'
  <2>1. blockMap' \subseteq Bnums
    BY <1>0, <1>b DEF IInv, TypeOK
  <2>2. blocks' \in [Inums -> [Slots -> Int]]
    BY <1>0, <1>a, <1>b DEF IInv, TypeOK
  <2>3. size' \in [Inums -> Int] /\ left' \in Int
    BY <1>a, <1>c, SizesAssumption DEF IInv, TypeOK, MIN
  <2> QED
    BY <1>a, <2>1, <2>2, <2>3 DEF IInv, TypeOK
<1>7. Structure'
  <2>1. NoSharedBlock'
    BY <1>1, <1>3, <1>4 DEF IInv, Structure, NoSharedBlock
  <2>2. OwnedIsAllocated'
    BY <1>1, <1>3, <1>b DEF IInv, Structure, OwnedIsAllocated
  <2>3. ReservedKept'
    BY <1>b DEF IInv, Structure, ReservedKept
  <2>4. SizeIsBacked'
    <3> SUFFICES ASSUME NEW i \in inodeMap
                 PROVE  /\ UsedBlocks(i)' \in 0 .. INODE_LOCAL_BLOCK_CAP
                        /\ \A k \in Slots : k < UsedBlocks(i)' => Owns(i, k)'
      BY <1>a DEF SizeIsBacked
    <3>1. CASE i = cur
      BY <3>1, <1>a, <1>c, <1>3, <1>5, SizesAssumption DEF IInv, Structure, SizeIsBacked, u
    <3>2. CASE i # cur
      BY <3>2, <1>2, <1>3, <1>5 DEF IInv, Structure, SizeIsBacked
    <3> QED
      BY <3>1, <3>2
  <2>5. ChainsLinked'
    BY <1>a, <1>2, <1>5 DEF IInv, Structure, ChainsLinked
  <2> QED
    BY <2>1, <2>2, <2>3, <2>4, <2>5 DEF Structure
<1>8. CallInChain'
  BY <1>a DEF IInv, CallInChain
<1>9. Exact'
  <2> SUFFICES ASSUME ~torn
               PROVE  ExactSlots' /\ ChildrenNotEmpty' /\ NoLeakedBlock'
    BY <1>a DEF Exact
  <2>0. ExactSlots /\ ChildrenNotEmpty /\ NoLeakedBlock /\ size[cur] >= 0
    BY <1>a DEF IInv, Exact, ExactSlots
  <2>1. ExactSlots'
    <3> SUFFICES ASSUME NEW i \in inodeMap
                 PROVE  size'[i] >= 0 /\ \A k \in Slots : Owns(i, k)' => k < UsedBlocks(i)'
      BY <1>a DEF ExactSlots
    <3>1. CASE i = cur
      BY <3>1, <1>a, <1>c, <1>3, <1>5, <2>0 DEF ExactSlots, u
    <3>2. CASE i # cur
      BY <3>2, <1>2, <1>3, <1>5, <2>0 DEF ExactSlots
    <3> QED
      BY <3>1, <3>2
  <2>2. ChildrenNotEmpty'
    BY <1>a, <1>c, <1>2, <1>5, <2>0 DEF ChildrenNotEmpty, GrowingChild
  <2>3. NoLeakedBlock'
    <3> SUFFICES ASSUME NEW c \in blockMap' \cap DataBlocks
                 PROVE  \E i \in inodeMap : \E k \in Slots : blocks'[i][k] = c
      BY <1>a DEF NoLeakedBlock
    <3>1. CASE c = b
      BY <3>1, <1>1, <1>a
    <3>2. CASE c # b
      <4>1. PICK i \in inodeMap, k \in Slots : blocks[i][k] = c
        BY <3>2, <1>b, <2>0 DEF NoLeakedBlock
      <4>2. Owns(i, k)
        BY <4>1, SizesAssumption DEF Owns, DataBlocks, None
      <4>3. ~(i = cur /\ k = u)
        BY <4>2, <1>5, <2>0, <1>a DEF ExactSlots, u
      <4> QED
        BY <4>1, <4>3, <1>1, <1>5
    <3> QED
      BY <3>1, <3>2
  <2> QED
    BY <2>1, <2>2, <2>3
<1> QED
  BY <1>6, <1>7, <1>8, <1>9 DEF IInv

LEMMA GrowChildStep ==
  ASSUME IInv, GrowChild
  PROVE  IInv'
<1>0. PICK i \in Inums :
        /\ FirstFreeInum(i)
        /\ inodeMap' = inodeMap \cup {i}
        /\ size' = [size EXCEPT ![cur] = MaxLocalSize, ![i] = 0]
        /\ blocks' = [blocks EXCEPT ![i] = EmptySlots]
        /\ next' = [next EXCEPT ![cur] = i, ![i] = None]
        /\ cur' = i
  BY DEF GrowChild
<1>a. i \notin inodeMap /\ i \notin files /\ i # None /\ i >= 0 /\ i \in Int
  BY <1>0, FreshInode DEF IInv
<1>b. /\ cur \in inodeMap /\ cur \in Inums /\ size[cur] \in Int /\ next[cur] = None
      /\ left \in Int /\ left >= 1
      /\ UsedBlocks(cur) = INODE_LOCAL_BLOCK_CAP
  BY AtLastFacts, SizesAssumption DEF GrowChild, AtLastToGrow
<1>c. /\ pc = "grow" /\ pc' = "grow"
      /\ BytesToBlocks(size[cur] + left) # BytesToBlocks(size[cur])
      /\ left' = left - (MaxLocalSize - size[cur])
      /\ UNCHANGED <<blockMap, files, pc, op, top, arg, rv, torn>>
  BY DEF GrowChild, AtLastToGrow, FitsInUsedBlocks, UsedBlocks
<1>d. cur # i /\ inodeMap \subseteq Inums
  BY <1>a, <1>b DEF IInv, TypeOK
<1>1. TypeOK'
  <2>1. size' \in [Inums -> Int] /\ left' \in Int
    BY <1>0, <1>b, <1>c, BlocksOfMaxLocalSize DEF IInv, TypeOK
  <2>2. blocks' \in [Inums -> [Slots -> Int]] /\ next' \in [Inums -> Int]
    BY <1>0, <1>a, <1>b DEF IInv, TypeOK, EmptySlots, None
  <2> QED
    BY <1>0, <1>c, <2>1, <2>2 DEF IInv, TypeOK
<1>2. \A j \in Inums : j # i /\ j # cur =>
        size'[j] = size[j] /\ next'[j] = next[j] /\ UsedBlocks(j)' = UsedBlocks(j)
  BY <1>0 DEF IInv, TypeOK, UsedBlocks
<1>3. /\ size'[i] = 0 /\ next'[i] = None /\ UsedBlocks(i)' = 0
      /\ size'[cur] = MaxLocalSize /\ next'[cur] = i
      /\ BytesToBlocks(size'[cur]) = INODE_LOCAL_BLOCK_CAP
      /\ \A j \in Inums : \A k \in Slots : blocks'[j][k] = IF j = i THEN None ELSE blocks[j][k]
  BY <1>0, <1>b, <1>d, BlocksOfMultiple, BlocksOfMaxLocalSize, SizesAssumption
  DEF IInv, TypeOK, UsedBlocks, EmptySlots
<1>4. \A j \in Inums : \A k \in Slots : Owns(j, k)' <=> j # i /\ Owns(j, k)
  BY <1>0, <1>a, <1>3 DEF Owns
<1>5. \A j \in inodeMap : UsedBlocks(j)' = UsedBlocks(j) /\ (j # cur => size'[j] = size[j])
  BY <1>a, <1>b, <1>d, <1>2, <1>3 DEF UsedBlocks
<1>6. Structure'
  <2>1. NoSharedBlock'
    BY <1>3, <1>4 DEF IInv, Structure, NoSharedBlock
  <2>2. OwnedIsAllocated'
    BY <1>3, <1>4, <1>c DEF IInv, Structure, OwnedIsAllocated
  <2>3. ReservedKept'
    BY <1>c DEF IInv, Structure, ReservedKept
  <2>4. SizeIsBacked'
    <3> SUFFICES ASSUME NEW j \in inodeMap \cup {i}
                 PROVE  /\ UsedBlocks(j)' \in 0 .. INODE_LOCAL_BLOCK_CAP
                        /\ \A k \in Slots : k < UsedBlocks(j)' => Owns(j, k)'
      BY <1>0 DEF SizeIsBacked
    <3>1. CASE j = i
      BY <3>1, <1>3, SizesAssumption DEF Slots
    <3>2. CASE j \in inodeMap
      BY <3>2, <1>a, <1>4, <1>5, <1>d DEF IInv, Structure, SizeIsBacked
    <3> QED
      BY <3>1, <3>2
  <2>5. ChainsLinked'
    <3>0. /\ \A j \in inodeMap : next[j] # i
          /\ \A j \in inodeMap : j # cur => next'[j] = next[j] /\ size'[j] = size[j]
      BY <1>a, <1>d, <1>2 DEF IInv, Structure, ChainsLinked
    <3>1. \A j \in inodeMap' : next'[j] # None =>
            next'[j] \in inodeMap' \ files' /\ size'[j] = MaxLocalSize
      <4> SUFFICES ASSUME NEW j \in inodeMap \cup {i}, next'[j] # None
                   PROVE  next'[j] \in (inodeMap \cup {i}) \ files /\ size'[j] = MaxLocalSize
        BY <1>0, <1>c
      <4>1. CASE j = i
        BY <4>1, <1>3
      <4>2. CASE j = cur
        BY <4>2, <1>3, <1>a
      <4>3. CASE j \in inodeMap /\ j # cur
        BY <4>3, <3>0 DEF IInv, Structure, ChainsLinked
      <4> QED
        BY <4>1, <4>2, <4>3
    <3>2. \A j, l \in inodeMap' : next'[j] = next'[l] /\ next'[j] # None => j = l
      BY <3>0, <1>0, <1>a, <1>3 DEF IInv, Structure, ChainsLinked
    <3>3. \A j \in inodeMap' \ files' : \E q \in inodeMap' : next'[q] = j
      <4> SUFFICES ASSUME NEW j \in inodeMap' \ files'
                   PROVE  \E q \in inodeMap' : next'[q] = j
        OBVIOUS
      <4>1. CASE j = i
        BY <4>1, <1>0, <1>b, <1>3
      <4>2. CASE j # i
        <5>1. PICK q \in inodeMap : next[q] = j
          BY <4>2, <1>0, <1>c DEF IInv, Structure, ChainsLinked
        <5>2. q # cur
          BY <5>1, <4>2, <1>0, <1>b, <1>d, SizesAssumption DEF Inums, None
        <5> QED
          BY <5>1, <5>2, <3>0, <1>0
      <4> QED
        BY <4>1, <4>2
    <3> QED
      BY <3>1, <3>2, <3>3 DEF ChainsLinked
  <2> QED
    BY <2>1, <2>2, <2>3, <2>4, <2>5 DEF Structure
<1>7. CallInChain'
  <2>1. next'[top] # None
    BY <1>a, <1>b, <1>c, <1>d, <1>2, <1>3 DEF IInv, TypeOK, CallInChain
  <2> QED
    BY <2>1, <1>0, <1>a, <1>c DEF CallInChain
<1>8. Exact'
  <2> SUFFICES ASSUME ~torn
               PROVE  ExactSlots' /\ ChildrenNotEmpty' /\ NoLeakedBlock'
    BY <1>c DEF Exact
  <2>0. ExactSlots /\ ChildrenNotEmpty /\ NoLeakedBlock /\ size[cur] >= 0
    BY <1>b DEF IInv, Exact, ExactSlots
  <2>1. left' >= 1
    BY <1>b, <1>c, <2>0, GrowBeyondFull DEF UsedBlocks
  <2>2. ExactSlots'
    <3> SUFFICES ASSUME NEW j \in inodeMap \cup {i}
                 PROVE  size'[j] >= 0 /\ \A k \in Slots : Owns(j, k)' => k < UsedBlocks(j)'
      BY <1>0 DEF ExactSlots
    <3>1. CASE j = i
      BY <3>1, <1>3, <1>4
    <3>2. CASE j \in inodeMap
      BY <3>2, <1>3, <1>4, <1>5, <1>d, <2>0, BlocksOfMaxLocalSize DEF ExactSlots
    <3> QED
      BY <3>1, <3>2
  <2>3. ChildrenNotEmpty'
    <3> SUFFICES ASSUME NEW j \in inodeMap \cup {i}, j \notin files
                 PROVE  size'[j] > 0 \/ GrowingChild(j)'
      BY <1>0, <1>c DEF ChildrenNotEmpty
    <3>1. CASE j = i
      BY <3>1, <1>0, <1>c, <1>3, <2>1 DEF GrowingChild
    <3>2. CASE j = cur
      BY <3>2, <1>3, BlocksOfMaxLocalSize
    <3>3. CASE j # i /\ j # cur
      BY <3>3, <1>5, <2>0 DEF ChildrenNotEmpty, GrowingChild
    <3> QED
      BY <3>1, <3>2, <3>3
  <2>4. NoLeakedBlock'
    BY <1>0, <1>a, <1>c, <1>d, <1>3, <2>0 DEF NoLeakedBlock
  <2> QED
    BY <2>2, <2>3, <2>4
<1> QED
  BY <1>1, <1>6, <1>7, <1>8 DEF IInv

(***************************************************************************)
(* Steps that shrink.                                                      *)
(***************************************************************************)

LEMMA ShrinkInPlaceStep ==
  ASSUME IInv, ShrinkInPlace
  PROVE  IInv'
<1>0. /\ cur \in inodeMap /\ cur \in Inums /\ size[cur] \in Int /\ next[cur] = None
      /\ left \in Int /\ left >= 1 /\ pc = "shrink" /\ pc' # "fault" /\ size[top] # 0
      /\ BytesToBlocks(size[cur] - left) = UsedBlocks(cur)
      /\ size' = [size EXCEPT ![cur] = size[cur] - left]
      /\ UNCHANGED <<blockMap, inodeMap, blocks, next, files, torn>>
  BY AtLastFacts
  DEF ShrinkInPlace, AtLastToShrink, Shrinkable, KeepsUsedBlocks, ShrinkReturn, Return
<1>a. /\ size'[cur] = size[cur] - left
      /\ \A i \in Inums : i # cur => size'[i] = size[i]
      /\ BytesToBlocks(size'[cur]) = UsedBlocks(cur)
  BY <1>0 DEF IInv, TypeOK, UsedBlocks
<1>1. TypeOK'
  BY <1>0 DEF IInv, TypeOK, ShrinkInPlace, ShrinkReturn, Return
<1>2. /\ Structure'
      /\ ExactSlots /\ size'[cur] >= 0 => ExactSlots'
      /\ NoLeakedBlock => NoLeakedBlock'
  BY <1>0, <1>a, SizeOnly
<1>3. CallInChain'
  BY <1>0 DEF IInv, CallInChain, ShrinkInPlace, ShrinkReturn, Return
<1>4. Exact'
  <2> SUFFICES ASSUME ~torn
               PROVE  ExactSlots' /\ ChildrenNotEmpty' /\ NoLeakedBlock'
    BY <1>0 DEF Exact
  <2>0. ExactSlots /\ ChildrenNotEmpty /\ NoLeakedBlock
    BY DEF IInv, Exact
  <2>1. size[cur] >= 1
    BY <1>0, <2>0 DEF IInv, TypeOK, CallInChain, ExactSlots, ChildrenNotEmpty, GrowingChild
  <2>2. size'[cur] >= 1
    BY <1>0, <1>a, <2>1, BlocksSign DEF UsedBlocks
  <2>3. ChildrenNotEmpty'
    BY <1>0, <1>a, <2>0, <2>2 DEF IInv, TypeOK, ChildrenNotEmpty, GrowingChild
  <2> QED
    BY <1>0, <1>a, <1>2, <2>0, <2>2, <2>3
<1> QED
  BY <1>1, <1>2, <1>3, <1>4 DEF IInv

(* What the two ways of freeing the last block have in common.  ShrinkChild *)
(* and ShrinkBlock differ in inodeMap and next only.                       *)
LEMMA DropLastBlockFacts ==
  ASSUME IInv, DropLastBlock
  PROVE  /\ LastSlot \in Slots /\ LastSlot = UsedBlocks(cur) - 1
         /\ Owns(cur, LastSlot)
         /\ blockMap' = blockMap \ {blocks[cur][LastSlot]}
         /\ \A i \in Inums : \A k \in Slots :
              blocks'[i][k] = IF i = cur /\ k = LastSlot THEN None ELSE blocks[i][k]
         /\ \A i \in Inums : i # cur => size'[i] = size[i]
         /\ size'[cur] = BLOCK_SIZE * LastSlot
         /\ size'[cur] \in Nat /\ BytesToBlocks(size'[cur]) = LastSlot
         /\ size' \in [Inums -> Int]
         /\ blocks' \in [Inums -> [Slots -> Int]]
         /\ left' \in Int
<1>0. /\ cur \in inodeMap /\ cur \in Inums /\ size[cur] \in Int
      /\ UsedBlocks(cur) \in 0 .. INODE_LOCAL_BLOCK_CAP
      /\ left \in Int
  BY AtLastFacts DEF DropLastBlock
<1>1. LastSlot \in Slots /\ LastSlot = UsedBlocks(cur) - 1 /\ LastSlot \in Nat
  BY InodeTypes DEF IInv, DropLastBlock, LastSlot
<1>2. Owns(cur, LastSlot)
  BY <1>0, <1>1, SizesAssumption DEF IInv, Structure, SizeIsBacked
<1>3. BLOCK_SIZE * LastSlot \in Nat /\ BytesToBlocks(BLOCK_SIZE * LastSlot) = LastSlot
  BY <1>1, BlocksOfMultiple
<1>4. size' = [size EXCEPT ![cur] = BLOCK_SIZE * LastSlot]
  <2>1. size[cur] - DecreaseSize = BLOCK_SIZE * LastSlot
    BY <1>0, <1>3 DEF DecreaseSize
  <2> QED
    BY <2>1 DEF DropLastBlock
<1>5. blocks' = [blocks EXCEPT ![cur][LastSlot] = None]
  BY DEF DropLastBlock
<1>6. left' \in Int
  BY <1>0, <1>3 DEF DropLastBlock, DecreaseSize
<1>7. blockMap' = blockMap \ {blocks[cur][LastSlot]}
  BY DEF DropLastBlock, BlockFree
<1> HIDE DEF LastSlot
<1>8. \A i \in Inums : \A k \in Slots :
        blocks'[i][k] = IF i = cur /\ k = LastSlot THEN None ELSE blocks[i][k]
  BY <1>0, <1>1, <1>5 DEF IInv, TypeOK
<1>9. blocks' \in [Inums -> [Slots -> Int]]
  BY <1>0, <1>1, <1>5 DEF IInv, TypeOK, None
<1>10. /\ size' \in [Inums -> Int]
       /\ size'[cur] = BLOCK_SIZE * LastSlot
       /\ \A i \in Inums : i # cur => size'[i] = size[i]
  BY <1>0, <1>3, <1>4 DEF IInv, TypeOK
<1> QED
  BY <1>1, <1>2, <1>3, <1>6, <1>7, <1>8, <1>9, <1>10

(* What both leave true of the blocks, for any set of inodes that keeps    *)
(* the ones it needs.                                                      *)
LEMMA DropLastBlockSlots ==
  ASSUME IInv, DropLastBlock, inodeMap' \subseteq inodeMap, files' = files, torn' = torn,
         inodeMap \ {cur} \subseteq inodeMap',
         cur \in inodeMap' \/ LastSlot = 0
  PROVE  /\ NoSharedBlock' /\ OwnedIsAllocated' /\ ReservedKept' /\ SizeIsBacked'
         /\ ~torn => ExactSlots' /\ NoLeakedBlock'
<1> DEFINE u == LastSlot
           b == blocks[cur][u]
<1>0. /\ u \in Slots /\ u \in Nat /\ u = UsedBlocks(cur) - 1 /\ Owns(cur, u)
      /\ blockMap' = blockMap \ {b}
      /\ \A i \in Inums : \A k \in Slots :
           blocks'[i][k] = IF i = cur /\ k = u THEN None ELSE blocks[i][k]
      /\ \A i \in Inums : i # cur => size'[i] = size[i]
      /\ size'[cur] \in Nat /\ BytesToBlocks(size'[cur]) = u
      /\ cur \in inodeMap /\ cur \in Inums
      /\ UsedBlocks(cur) \in 0 .. INODE_LOCAL_BLOCK_CAP
      /\ \A k \in Slots : k \in Nat /\ k < INODE_LOCAL_BLOCK_CAP
  BY DropLastBlockFacts, AtLastFacts, InodeTypes DEF IInv, DropLastBlock
<1>a. /\ inodeMap \subseteq Inums /\ inodeMap' \subseteq inodeMap
      /\ cur \in inodeMap' \/ u = 0
      /\ \A i \in inodeMap : i # cur => i \in inodeMap'
  BY DEF IInv, TypeOK
<1>b. b \in blockMap \cap DataBlocks
  BY <1>0 DEF IInv, Structure, OwnedIsAllocated
<1> HIDE DEF u, b
<1>1. \A i \in inodeMap : i # cur => UsedBlocks(i)' = UsedBlocks(i)
  BY <1>0, <1>a DEF UsedBlocks
<1>2. BytesToBlocks(size[cur]) = u + 1
  BY <1>0, SizesAssumption DEF UsedBlocks
<1>c. \A k \in Slots : /\ k < u => k < UsedBlocks(cur)
                       /\ k < UsedBlocks(cur) /\ k # u => k < u
  BY <1>0, <1>2 DEF UsedBlocks
<1>3. \A i \in Inums : \A k \in Slots :
        Owns(i, k)' <=> i \in inodeMap' /\ Owns(i, k) /\ ~(i = cur /\ k = u)
  BY <1>0, <1>a DEF Owns
<1>4. \A i \in Inums : \A k \in Slots : Owns(i, k) /\ blocks[i][k] = b => i = cur /\ k = u
  BY <1>0 DEF IInv, Structure, NoSharedBlock, b
<1>5. NoSharedBlock'
  BY <1>0, <1>3 DEF IInv, Structure, NoSharedBlock
<1>6. OwnedIsAllocated'
  <2> SUFFICES ASSUME NEW i \in Inums, NEW k \in Slots, Owns(i, k)'
               PROVE  (blocks[i][k] \in blockMap \cap DataBlocks)'
    BY DEF OwnedIsAllocated
  <2>1. Owns(i, k) /\ ~(i = cur /\ k = u)
    BY <1>3
  <2>2. blocks[i][k] \in blockMap \cap DataBlocks
    BY <2>1 DEF IInv, Structure, OwnedIsAllocated
  <2>3. blocks[i][k] # b
    BY <1>4, <2>1
  <2>4. blocks'[i][k] = blocks[i][k]
    BY <1>0, <2>1
  <2>5. blockMap' = blockMap \ {b} /\ DataBlocks' = DataBlocks
    BY <1>0 DEF DataBlocks
  <2> QED
    BY <2>2, <2>3, <2>4, <2>5
<1>7. ReservedKept'
  BY <1>0, <1>b, SizesAssumption DEF IInv, Structure, ReservedKept, DataBlocks
<1>8. SizeIsBacked'
  <2> SUFFICES ASSUME NEW i \in inodeMap'
               PROVE  /\ BytesToBlocks(size'[i]) \in 0 .. INODE_LOCAL_BLOCK_CAP
                      /\ \A k \in Slots : k < BytesToBlocks(size'[i]) => Owns(i, k)'
    BY DEF SizeIsBacked, UsedBlocks
  <2>1. CASE i = cur
    <3>1. u \in 0 .. INODE_LOCAL_BLOCK_CAP
      BY <1>0, SizesAssumption
    <3>2. \A k \in Slots : k < u => Owns(cur, k)
      BY <1>0, <1>c DEF IInv, Structure, SizeIsBacked
    <3> QED
      BY <2>1, <3>1, <3>2, <1>0, <1>3
  <2>2. CASE i # cur
    BY <2>2, <1>0, <1>a, <1>3 DEF IInv, Structure, SizeIsBacked, UsedBlocks
  <2> QED
    BY <2>1, <2>2
<1>9. ASSUME ~torn
      PROVE  ExactSlots' /\ NoLeakedBlock'
  <2>0. ExactSlots /\ NoLeakedBlock
    BY <1>9 DEF IInv, Exact
  <2>1. ExactSlots'
    <3> SUFFICES ASSUME NEW i \in inodeMap'
                 PROVE  size'[i] >= 0 /\ \A k \in Slots : Owns(i, k)' => k < BytesToBlocks(size'[i])
      BY DEF ExactSlots, UsedBlocks
    <3>1. CASE i = cur
      <4>1. \A k \in Slots : Owns(i, k)' => k < UsedBlocks(cur) /\ k # u
        BY <3>1, <1>0, <1>3, <2>0 DEF ExactSlots
      <4> QED
        BY <3>1, <4>1, <1>0, <1>c
    <3>2. CASE i # cur
      BY <3>2, <1>0, <1>a, <1>3, <2>0 DEF ExactSlots, UsedBlocks
    <3> QED
      BY <3>1, <3>2
  <2>2. NoLeakedBlock'
    <3> SUFFICES ASSUME NEW c \in blockMap' \cap DataBlocks
                 PROVE  \E i \in inodeMap' : \E k \in Slots : blocks'[i][k] = c
      BY DEF NoLeakedBlock
    <3>1. PICK i \in inodeMap, k \in Slots : blocks[i][k] = c
      BY <1>0, <2>0 DEF NoLeakedBlock
    <3>2. c # b /\ c # None
      BY <1>0, SizesAssumption DEF DataBlocks, None
    <3>3. ~(i = cur /\ k = u)
      BY <3>1, <3>2 DEF b
    <3>4. i \in inodeMap'
      <4>1. CASE i # cur
        BY <4>1, <1>a
      <4>2. CASE i = cur
        <5>1. k < u + 1
          BY <4>2, <3>1, <3>2, <1>2, <2>0 DEF ExactSlots, UsedBlocks, Owns
        <5>2. u # 0
          BY <5>1, <4>2, <3>3, <1>0
        <5> QED
          BY <4>2, <5>2, <1>a
      <4> QED
        BY <4>1, <4>2
    <3> QED
      BY <3>1, <3>3, <3>4, <1>0, <1>a
  <2> QED
    BY <2>1, <2>2
<1> QED
  BY <1>5, <1>6, <1>7, <1>8, <1>9

LEMMA ShrinkBlockStep ==
  ASSUME IInv, ShrinkBlock
  PROVE  IInv'
<1>0. /\ DropLastBlock /\ ~DropsWholeChild
      /\ pc = "shrink" /\ next[cur] = None /\ cur \in inodeMap /\ cur' = top
      /\ UNCHANGED <<inodeMap, next, files, pc, op, top, arg, rv, torn>>
      /\ LastSlot \in Slots
  BY AtLastFacts DEF ShrinkBlock, DropLastBlock, AtLastToShrink
<1>1. /\ NoSharedBlock' /\ OwnedIsAllocated' /\ ReservedKept' /\ SizeIsBacked'
      /\ ~torn => ExactSlots' /\ NoLeakedBlock'
  BY <1>0, DropLastBlockSlots
<1>2. /\ blockMap' \subseteq blockMap /\ size' \in [Inums -> Int]
      /\ blocks' \in [Inums -> [Slots -> Int]] /\ left' \in Int
      /\ \A i \in Inums : i # cur => size'[i] = size[i]
      /\ size'[cur] = BLOCK_SIZE * LastSlot /\ size'[cur] \in Nat
  BY <1>0, DropLastBlockFacts
<1>3. TypeOK'
  BY <1>0, <1>2 DEF IInv, TypeOK
<1>4. ChainsLinked'
  BY <1>0, <1>2 DEF IInv, TypeOK, Structure, ChainsLinked
<1>5. CallInChain'
  BY <1>0 DEF CallInChain
<1>6. ~torn => ChildrenNotEmpty'
  <2> SUFFICES ASSUME ~torn, NEW i \in inodeMap \ files
               PROVE  size'[i] > 0
    BY <1>0 DEF ChildrenNotEmpty
  <2>1. CASE i # cur
    BY <2>1, <1>0, <1>2 DEF IInv, TypeOK, Exact, ChildrenNotEmpty, GrowingChild
  <2>2. CASE i = cur
    <3>1. next[top] >= 0
      BY <2>2, <1>0, NextFacts DEF IInv, TypeOK, Structure, CallInChain
    <3>2. size[cur] # DecreaseSize /\ size[cur] \in Int
      BY <3>1, <1>0 DEF IInv, TypeOK, DropsWholeChild
    <3>3. size'[cur] # 0
      BY <3>2, <1>2 DEF DecreaseSize
    <3> QED
      BY <2>2, <3>3, <1>2
  <2> QED
    BY <2>1, <2>2
<1> QED
  BY <1>0, <1>1, <1>3, <1>4, <1>5, <1>6 DEF IInv, Structure, Exact

LEMMA ShrinkChildStep ==
  ASSUME IInv, ShrinkChild
  PROVE  IInv'
<1>0. /\ DropLastBlock /\ DropsWholeChild
      /\ pc = "shrink" /\ next[cur] = None /\ cur \in inodeMap /\ cur' = top
      /\ inodeMap' = inodeMap \ {cur}
      /\ UNCHANGED <<files, pc, op, top, arg, rv, torn>>
      /\ LastSlot \in Slots /\ size[cur] \in Int
  BY AtLastFacts DEF ShrinkChild, DropLastBlock, AtLastToShrink
<1>a. PICK p \in inodeMap : next[p] = cur /\ next' = [next EXCEPT ![p] = None]
  BY DEF ShrinkChild
<1>b. cur # top /\ cur \notin files
  BY <1>0 DEF IInv, TypeOK, CallInChain, DropsWholeChild, None
<1>c. /\ blockMap' \subseteq blockMap /\ size' \in [Inums -> Int]
      /\ blocks' \in [Inums -> [Slots -> Int]] /\ left' \in Int
      /\ \A i \in Inums : i # cur => size'[i] = size[i]
      /\ LastSlot \in Nat
      /\ BLOCK_SIZE * LastSlot \in Nat /\ BytesToBlocks(BLOCK_SIZE * LastSlot) = LastSlot
  BY <1>0, DropLastBlockFacts, BlocksOfMultiple, InodeTypes DEF IInv
<1>d. LastSlot = 0
  <2>1. BLOCK_SIZE * LastSlot = 0
    BY <1>0, <1>c DEF DropsWholeChild, DecreaseSize
  <2>2. BytesToBlocks(0) = 0
    BY BlocksOfMultiple, SizesAssumption
  <2> QED
    BY <2>1, <2>2, <1>c
<1>1. /\ NoSharedBlock' /\ OwnedIsAllocated' /\ ReservedKept' /\ SizeIsBacked'
      /\ ~torn => ExactSlots' /\ NoLeakedBlock'
  BY <1>0, <1>d, DropLastBlockSlots
<1>2. TypeOK'
  BY <1>0, <1>a, <1>b, <1>c DEF IInv, TypeOK, None
<1>3. /\ inodeMap \subseteq Inums /\ p # cur /\ cur # None /\ next'[p] = None
      /\ \A i \in inodeMap : i # p => next'[i] = next[i]
      /\ \A i \in inodeMap : i # p => next[i] # cur
  <2>1. inodeMap \subseteq Inums /\ cur # None
    BY <1>0, SizesAssumption DEF IInv, TypeOK, Inums, None
  <2>2. p # cur
    BY <1>0, <1>a, <2>1
  <2>3. \A i \in inodeMap : i # p => next[i] # cur
    BY <1>a, <2>1 DEF IInv, Structure, ChainsLinked
  <2> QED
    BY <1>a, <2>1, <2>2, <2>3 DEF IInv, TypeOK
<1>4. ChainsLinked'
  <2>1. \A i \in inodeMap' : next'[i] # None => next'[i] \in inodeMap' \ files' /\ size'[i] = MaxLocalSize
    BY <1>0, <1>3, <1>c DEF IInv, Structure, ChainsLinked
  <2>2. \A i, j \in inodeMap' : next'[i] = next'[j] /\ next'[i] # None => i = j
    BY <1>0, <1>3 DEF IInv, Structure, ChainsLinked
  <2>3. \A i \in inodeMap' \ files' : \E q \in inodeMap' : next'[q] = i
    <3> SUFFICES ASSUME NEW i \in inodeMap, i # cur, i \notin files
                 PROVE  \E q \in inodeMap \ {cur} : next'[q] = i
      BY <1>0
    <3>1. PICK q \in inodeMap : next[q] = i
      BY DEF IInv, Structure, ChainsLinked
    <3>2. q # cur /\ q # p
      BY <3>1, <1>0, <1>a, <1>3, SizesAssumption DEF Inums, None
    <3> QED
      BY <3>1, <3>2, <1>3
  <2> QED
    BY <2>1, <2>2, <2>3 DEF ChainsLinked
<1>5. CallInChain'
  BY <1>0 DEF CallInChain
<1>6. ~torn => ChildrenNotEmpty'
  BY <1>0, <1>3, <1>c DEF IInv, Exact, ChildrenNotEmpty, GrowingChild
<1> QED
  BY <1>0, <1>1, <1>2, <1>4, <1>5, <1>6 DEF IInv, Structure, Exact

(* inode_free: by now the file is one inode of size 0, which owns nothing. *)
LEMMA ReleaseStep ==
  ASSUME IInv, Release
  PROVE  IInv'
<1>0. /\ pc = "clear" /\ top \in files /\ top \in inodeMap /\ cur \in inodeMap
      /\ UNCHANGED <<blockMap, size, blocks, next, torn>>
  BY DEF IInv, TypeOK, Release
<1>1. CASE size[top] # 0
  <2>0. pc' = "abort" /\ UNCHANGED <<inodeMap, files, op, top, cur, arg, left, rv>>
    BY <1>1 DEF Release
  <2>1. TypeOK'
    BY <1>0, <2>0 DEF IInv, TypeOK
  <2>2. Structure'
    BY <1>0, <2>0, StructureKept DEF IInv, disk
  <2>3. CallInChain'
    BY <1>0, <2>0 DEF IInv, CallInChain
  <2>4. Exact'
    BY <1>0, <2>0, ExactKept DEF IInv, disk, GrowingChild
  <2> QED
    BY <2>1, <2>2, <2>3, <2>4 DEF IInv
<1>2. CASE size[top] = 0
  <2>0. inodeMap' = inodeMap \ {top} /\ files' = files \ {top} /\ Return("ok")
    BY <1>2 DEF Release
  <2>a. /\ next[top] = None /\ UsedBlocks(top) = 0 /\ inodeMap \subseteq Inums
    BY <1>0, <1>2, BlocksOfMultiple, BlocksOfMaxLocalSize, SizesAssumption
    DEF IInv, TypeOK, Structure, ChainsLinked, UsedBlocks
  <2>b. \A i \in Inums : \A k \in Slots : Owns(i, k)' <=> i # top /\ Owns(i, k)
    BY <1>0, <2>0 DEF Owns
  <2>1. TypeOK'
    BY <1>0, <2>0 DEF IInv, TypeOK, Return
  <2>2. Structure'
    <3>1. NoSharedBlock'
      BY <1>0, <2>b DEF IInv, Structure, NoSharedBlock
    <3>2. OwnedIsAllocated'
      BY <1>0, <2>b DEF IInv, Structure, OwnedIsAllocated
    <3>3. ReservedKept'
      BY <1>0 DEF IInv, Structure, ReservedKept
    <3>4. SizeIsBacked'
      BY <1>0, <2>0, <2>a, <2>b DEF IInv, Structure, SizeIsBacked, UsedBlocks
    <3>5. ChainsLinked'
      <4>1. \A i \in inodeMap' \ files' : \E q \in inodeMap' : next'[q] = i
        <5> SUFFICES ASSUME NEW i \in inodeMap, i # top, i \notin files
                     PROVE  \E q \in inodeMap \ {top} : next[q] = i
          BY <1>0, <2>0
        <5>1. PICK q \in inodeMap : next[q] = i
          BY DEF IInv, Structure, ChainsLinked
        <5>2. q # top
          BY <5>1, <2>a, SizesAssumption DEF Inums, None
        <5> QED
          BY <5>1, <5>2
      <4> QED
        BY <4>1, <1>0, <2>0 DEF IInv, Structure, ChainsLinked
    <3> QED
      BY <3>1, <3>2, <3>3, <3>4, <3>5 DEF Structure
  <2>3. CallInChain'
    BY <2>0 DEF CallInChain, Return
  <2>4. Exact'
    <3> SUFFICES ASSUME ~torn
                 PROVE  ExactSlots' /\ ChildrenNotEmpty' /\ NoLeakedBlock'
      BY <1>0, <2>0 DEF Exact, Return
    <3>0. ExactSlots /\ ChildrenNotEmpty /\ NoLeakedBlock
      BY DEF IInv, Exact
    <3>1. ExactSlots'
      BY <1>0, <2>0, <2>a, <2>b, <3>0 DEF ExactSlots, UsedBlocks
    <3>2. ChildrenNotEmpty'
      BY <1>0, <2>0, <3>0 DEF ChildrenNotEmpty, GrowingChild
    <3>3. NoLeakedBlock'
      <4> SUFFICES ASSUME NEW c \in blockMap \cap DataBlocks
                   PROVE  \E i \in inodeMap \ {top} : \E k \in Slots : blocks[i][k] = c
        BY <1>0, <2>0 DEF NoLeakedBlock
      <4>1. PICK i \in inodeMap, k \in Slots : blocks[i][k] = c
        BY <3>0 DEF NoLeakedBlock
      <4>2. Owns(i, k)
        BY <4>1, SizesAssumption DEF Owns, DataBlocks, None
      <4>3. i # top
        BY <4>2, <2>a, <1>0, <3>0, InodeTypes DEF IInv, ExactSlots
      <4> QED
        BY <4>1, <4>3
    <3> QED
      BY <3>1, <3>2, <3>3
  <2> QED
    BY <2>1, <2>2, <2>3, <2>4 DEF IInv
<1> QED
  BY <1>1, <1>2

(***************************************************************************)
(* The theorems.                                                           *)
(***************************************************************************)

LEMMA InitIInv ==
  ASSUME Init
  PROVE  IInv
<1>0. 0 .. RESERVED_BLOCKS - 1 \subseteq Bnums /\ (0 .. RESERVED_BLOCKS - 1) \cap DataBlocks = {}
  BY SizesAssumption DEF Bnums, DataBlocks
<1>1. TypeOK
  <2>1. blockMap \subseteq Bnums
    BY <1>0 DEF Init
  <2>2. blocks \in [Inums -> [Slots -> Int]]
    BY DEF Init
  <2>3. size \in [Inums -> Int] /\ next \in [Inums -> Int]
    BY DEF Init
  <2>4. /\ inodeMap = {} /\ files = {} /\ pc = "idle" /\ op = "none" /\ rv = "ok"
        /\ arg = 0 /\ left = 0 /\ torn = FALSE
    BY DEF Init
  <2>5. torn \in BOOLEAN
    BY <2>4
  <2> QED
    BY <2>1, <2>2, <2>3, <2>4, <2>5 DEF TypeOK
<1>2. Structure
  BY <1>0 DEF Init, Structure, NoSharedBlock, OwnedIsAllocated, ReservedKept, SizeIsBacked,
              ChainsLinked, Owns
<1>3. CallInChain
  BY DEF Init, CallInChain
<1>4. Exact
  BY <1>0 DEF Init, Exact, ExactSlots, ChildrenNotEmpty, NoLeakedBlock
<1> QED
  BY <1>1, <1>2, <1>3, <1>4 DEF IInv

LEMMA NextIInv ==
  ASSUME IInv, [Next]_vars
  PROVE  IInv'
<1>1. CASE Alloc
  BY <1>1, AllocStep
<1>2. CASE AllocNoInode
  <2>1. TypeOK'
    BY <1>2 DEF IInv, TypeOK, AllocNoInode, disk, call
  <2>2. Structure'
    BY <1>2, StructureKept DEF IInv, AllocNoInode
  <2>3. CallInChain'
    BY <1>2 DEF IInv, CallInChain, AllocNoInode, disk, call
  <2>4. Exact'
    BY <1>2, ExactKept DEF IInv, Exact, AllocNoInode, GrowingChild, call
  <2> QED
    BY <2>1, <2>2, <2>3, <2>4 DEF IInv
<1>3. CASE \E f \in files, n \in 0 .. MaxFileSize : Truncate(f, n)
  BY <1>3, BeginStep DEF Truncate
<1>4. CASE \E f \in files, n \in 1 .. MaxFileSize : Write(f, n)
  BY <1>4, BeginStep DEF Write
<1>5. CASE \E f \in files : Free(f)
  BY <1>5, BeginStep DEF Free
<1>6. CASE Daemon
  BY <1>6, AddSizeStep, SizeKnownStep, WalkStep, GrowDoneStep, GrowInPlaceStep, GrowBlockStep,
     GrowNoBlockStep, GrowChildStep, GrowNoInodeStep, ShrinkDoneStep, ShrinkInPlaceStep,
     ShrinkBlockStep, ShrinkChildStep, ShrinkUndefinedStep, ReleaseStep
  DEF Daemon
<1>7. CASE UNCHANGED vars
  BY <1>7 DEF vars, disk, call, IInv, TypeOK, Structure, CallInChain, Exact, NoSharedBlock,
              OwnedIsAllocated, ReservedKept, SizeIsBacked, ChainsLinked, Owns, UsedBlocks,
              ExactSlots, ChildrenNotEmpty, NoLeakedBlock, GrowingChild
<1> QED
  BY <1>1, <1>2, <1>3, <1>4, <1>5, <1>6, <1>7 DEF Next, Caller

(* The strengthened invariant holds for every disk layout: whatever the    *)
(* sequence of calls on inode.c and wherever they fail.                    *)
THEOREM InodeInvariant == Spec => []IInv
  BY InitIInv, NextIInv, PTL DEF Spec

(* Every field of the image and every frame of a call has its type.        *)
THEOREM TypeCorrect == Spec => []TypeOK
<1>1. IInv => TypeOK
  BY DEF IInv
<1> QED
  BY <1>1, InodeInvariant, PTL

(* No block is ever held twice, no held block is free or reserved, every   *)
(* byte of a file is backed by a block, and the chains of inode_t.next are *)
(* sound, also after calls that ran out of space.                          *)
THEOREM StructureSafe == Spec => []Structure
<1>1. IInv => Structure
  BY DEF IInv
<1> QED
  BY <1>1, InodeInvariant, PTL

(* The recursions of inode.c never leave the chain of their own file.      *)
THEOREM CallStaysInChain == Spec => []CallInChain
<1>1. IInv => CallInChain
  BY DEF IInv
<1> QED
  BY <1>1, InodeInvariant, PTL

(* Unless inode_grow has left an empty child behind, no block is lost, no  *)
(* inode holds a block it does not need, and inode_shrink never reads      *)
(* outside its array of blocks.                                            *)
THEOREM ExactUnlessTorn == Spec => []Exact
<1>1. IInv => Exact
  BY DEF IInv
<1> QED
  BY <1>1, InodeInvariant, PTL

-----------------------------------------------------------------------------

(***************************************************************************)
(* Induction up to a bound.                                                *)
(***************************************************************************)

LEMMA LeastOf ==
  ASSUME NEW S, S \subseteq Nat, S # {}
  PROVE  \E n \in S : \A m \in S : n <= m
<1> DEFINE R == {s \in Nat \X Nat : s[1] < s[2]}
<1>1. IsWellFoundedOn(R, Nat)
  BY NatLessThanWellFounded DEF OpToRel
<1>2. PICK n \in S : \A m \in S : ~ (<<m, n>> \in R)
  <2> HIDE DEF R
  <2> QED
    BY <1>1, WFMin
<1>3. ASSUME NEW m \in S PROVE n <= m
  <2>1. n \in Nat /\ m \in Nat /\ <<m, n>> \notin R
    BY <1>2
  <2>2. m < n => <<m, n>> \in R
    BY <2>1
  <2> QED
    BY <2>1, <2>2
<1> QED
  BY <1>3

LEMMA UpTo ==
  ASSUME NEW N \in Nat, NEW S, 0 \in S, \A n \in 0 .. N - 1 : n \in S => n + 1 \in S
  PROVE  0 .. N \subseteq S
<1> DEFINE T == (0 .. N) \ S
<1> SUFFICES ASSUME T # {} PROVE FALSE
  OBVIOUS
<1>0. T \subseteq Nat
  OBVIOUS
<1>1. PICK n \in T : \A m \in T : n <= m
  <2> HIDE DEF T
  <2> QED
    BY <1>0, LeastOf
<1>2. n \in Nat /\ n <= N /\ n # 0
  OBVIOUS
<1>3. n - 1 \in 0 .. N - 1 /\ n - 1 \in 0 .. N /\ (n - 1) + 1 = n /\ ~ (n <= n - 1)
  BY <1>2
<1> QED
  BY <1>1, <1>3

(***************************************************************************)
(* Chain(f), for any next fields nx.                                       *)
(***************************************************************************)

\* one unfolding of the recursion in Chain
ChainBody(nx, n, i, h) ==
  IF n = 0 \/ nx[i] \notin Inums THEN <<i>> ELSE <<i>> \o h[n - 1][nx[i]]
ChainFcn(nx) ==
  CHOOSE h : h = [n \in 0 .. MAX_INODE_COUNT |->
                    [i \in Inums |-> IF n = 0 \/ nx[i] \notin Inums THEN <<i>>
                                     ELSE <<i>> \o h[n - 1][nx[i]]]]
ChainOf(nx, f) == ChainFcn(nx)[MAX_INODE_COUNT][f]

LEMMA ChainIs == \A f : Chain(f) = ChainOf(next, f)
  BY DEF Chain, ChainOf, ChainFcn

LEMMA ChainIsPrimed == \A f : Chain(f)' = ChainOf(next', f)
  BY DEF Chain, ChainOf, ChainFcn

\* c follows nx from inode i to the end, or for n hops
IsChain(nx, n, i, c) ==
  /\ c \in Seq(Inums)
  /\ Len(c) \in 1 .. n + 1
  /\ c[1] = i
  /\ \A k \in 1 .. Len(c) - 1 : c[k + 1] = nx[c[k]]
  /\ nx[c[Len(c)]] \in Inums => Len(c) = n + 1

LEMMA ChainFcnExists ==
  ASSUME NEW nx
  PROVE  \E h : h = [n \in 0 .. MAX_INODE_COUNT |-> [i \in Inums |-> ChainBody(nx, n, i, h)]]
<1> DEFINE Solves(m, h) == h = [n \in 0 .. m |-> [i \in Inums |-> ChainBody(nx, n, i, h)]]
           S == {m \in 0 .. MAX_INODE_COUNT : \E h : Solves(m, h)}
<1>0. MAX_INODE_COUNT \in Nat
  BY SizesAssumption
<1>1. 0 \in S
  <2> DEFINE h == [n \in 0 .. 0 |-> [i \in Inums |-> <<i>>]]
  <2>1. Solves(0, h)
    BY DEF ChainBody
  <2>2. 0 \in 0 .. MAX_INODE_COUNT
    BY <1>0
  <2> HIDE DEF Solves, h
  <2> QED
    BY <2>1, <2>2
<1>2. ASSUME NEW m \in 0 .. MAX_INODE_COUNT - 1, m \in S PROVE m + 1 \in S
  <2>1. PICK g : Solves(m, g)
    BY <1>2
  <2> DEFINE h == [n \in 0 .. m + 1 |-> IF n = m + 1 THEN [i \in Inums |-> ChainBody(nx, m + 1, i, g)] ELSE g[n]]
             e == [n \in 0 .. m + 1 |-> [i \in Inums |-> ChainBody(nx, n, i, h)]]
  <2>2. ASSUME NEW n \in 0 .. m + 1 PROVE h[n] = e[n]
    <3>1. n # 0 => n - 1 \in 0 .. m /\ h[n - 1] = g[n - 1]
      OBVIOUS
    <3>2. \A i \in Inums : ChainBody(nx, n, i, h) = ChainBody(nx, n, i, g)
      BY <3>1 DEF ChainBody
    <3>3. e[n] = [i \in Inums |-> ChainBody(nx, n, i, g)]
      BY <3>2
    <3>4. h[n] = [i \in Inums |-> ChainBody(nx, n, i, g)]
      <4>1. CASE n = m + 1
        BY <4>1
      <4>2. CASE n # m + 1
        <5>1. n \in 0 .. m
          BY <4>2
        <5> QED
          BY <4>2, <5>1, <2>1
      <4> QED
        BY <4>1, <4>2
    <3> QED
      BY <3>3, <3>4
  <2>3. h = e
    BY <2>2
  <2>4. Solves(m + 1, h)
    BY <2>3
  <2>5. m + 1 \in 0 .. MAX_INODE_COUNT
    BY <1>0
  <2> QED
    BY <2>4, <2>5
<1>3. MAX_INODE_COUNT \in S
  <2> HIDE DEF S
  <2> QED
    BY <1>0, <1>1, <1>2, UpTo
<1> QED
  BY <1>3

LEMMA ChainOfIsChain ==
  ASSUME NEW nx, NEW f \in Inums
  PROVE  IsChain(nx, MAX_INODE_COUNT, f, ChainOf(nx, f))
<1> DEFINE h == ChainFcn(nx)
           S == {n \in 0 .. MAX_INODE_COUNT : \A i \in Inums : IsChain(nx, n, i, h[n][i])}
<1>0. MAX_INODE_COUNT \in Nat
  BY SizesAssumption
<1>1. h = [n \in 0 .. MAX_INODE_COUNT |-> [i \in Inums |-> ChainBody(nx, n, i, h)]]
  BY ChainFcnExists DEF ChainFcn, ChainBody
<1> HIDE DEF h
<1>2. ASSUME NEW n \in 0 .. MAX_INODE_COUNT, NEW i \in Inums
      PROVE  h[n][i] = ChainBody(nx, n, i, h)
  <2>1. h[n] = [j \in Inums |-> ChainBody(nx, n, j, h)]
    BY <1>1
  <2> QED
    BY <2>1
<1>3. ASSUME NEW n \in Nat, NEW i \in Inums, nx[i] \notin Inums \/ n = 0
      PROVE  IsChain(nx, n, i, <<i>>)
  <2>1. <<i>> \in Seq(Inums) /\ Len(<<i>>) = 1 /\ <<i>>[1] = i
    OBVIOUS
  <2> QED
    BY <2>1, <1>3 DEF IsChain
<1>4. 0 \in S
  <2>1. \A i \in Inums : h[0][i] = <<i>>
    <3>1. 0 \in 0 .. MAX_INODE_COUNT
      BY <1>0
    <3>2. \A i \in Inums : h[0][i] = ChainBody(nx, 0, i, h)
      BY <3>1, <1>2
    <3>3. \A i \in Inums : ChainBody(nx, 0, i, h) = <<i>>
      BY DEF ChainBody
    <3> QED
      BY <3>2, <3>3
  <2>2. \A i \in Inums : IsChain(nx, 0, i, h[0][i])
    BY <2>1, <1>3
  <2> QED
    BY <2>2, <1>0
<1>5. ASSUME NEW n \in 0 .. MAX_INODE_COUNT - 1, n \in S PROVE n + 1 \in S
  <2>1. n + 1 \in 0 .. MAX_INODE_COUNT /\ n + 1 \in Nat /\ n + 1 # 0 /\ (n + 1) - 1 = n /\ n \in Nat
    BY <1>0
  <2>2. ASSUME NEW i \in Inums PROVE IsChain(nx, n + 1, i, h[n + 1][i])
    <3>1. h[n + 1][i] = IF nx[i] \notin Inums THEN <<i>> ELSE <<i>> \o h[n][nx[i]]
      BY <2>1, <1>2 DEF ChainBody
    <3>2. CASE nx[i] \notin Inums
      BY <3>1, <3>2, <2>1, <1>3
    <3>3. CASE nx[i] \in Inums
      <4> DEFINE s == h[n][nx[i]]
                 c == <<i>> \o s
      <4>1. IsChain(nx, n, nx[i], s)
        BY <3>3, <1>5
      <4>2. s \in Seq(Inums) /\ Len(s) \in 1 .. n + 1 /\ s[1] = nx[i]
        BY <4>1 DEF IsChain
      <4> HIDE DEF s
      <4>3. /\ c \in Seq(Inums) /\ Len(c) = Len(s) + 1 /\ c[1] = i
            /\ \A k \in 1 .. Len(s) : c[k + 1] = s[k]
        <5>1. <<i>> \in Seq(Inums) /\ Len(<<i>>) = 1 /\ <<i>>[1] = i
          OBVIOUS
        <5>2. /\ c \in Seq(Inums) /\ Len(c) = 1 + Len(s)
              /\ \A k \in 1 .. 1 + Len(s) : c[k] = IF k <= 1 THEN <<i>>[k] ELSE s[k - 1]
          BY <5>1, <4>2, ConcatProperties
        <5> QED
          BY <5>1, <5>2, <4>2
      <4> HIDE DEF c
      <4>4. ASSUME NEW k \in 1 .. Len(c) - 1 PROVE c[k + 1] = nx[c[k]]
        <5>1. CASE k = 1
          BY <5>1, <4>2, <4>3
        <5>2. CASE k # 1
          <6>1. k - 1 \in 1 .. Len(s) - 1 /\ k - 1 \in 1 .. Len(s) /\ (k - 1) + 1 = k
                /\ k \in 1 .. Len(s)
            BY <5>2, <4>2, <4>3
          <6>2. c[k] = s[k - 1] /\ c[k + 1] = s[k] /\ s[(k - 1) + 1] = nx[s[k - 1]]
            BY <6>1, <4>3, <4>1 DEF IsChain
          <6> QED
            BY <6>1, <6>2
        <5> QED
          BY <5>1, <5>2
      <4>5. nx[c[Len(c)]] \in Inums => Len(c) = (n + 1) + 1
        <5>1. c[Len(c)] = s[Len(s)]
          BY <4>2, <4>3
        <5> QED
          BY <5>1, <4>1, <4>2, <4>3, <2>1 DEF IsChain
      <4>6. Len(c) \in 1 .. (n + 1) + 1
        BY <4>2, <4>3, <2>1
      <4> QED
        BY <3>1, <3>3, <4>3, <4>4, <4>5, <4>6 DEF IsChain, c, s
    <3> QED
      BY <3>2, <3>3
  <2> QED
    BY <2>1, <2>2
<1>6. MAX_INODE_COUNT \in S
  <2> HIDE DEF S
  <2> QED
    BY <1>0, <1>4, <1>5, UpTo
<1> QED
  BY <1>6 DEF ChainOf, h

StartOf(c, d) == Len(c) <= Len(d) /\ \A k \in 1 .. Len(c) : c[k] = d[k]

LEMMA ChainBelow ==
  ASSUME NEW nx, NEW N \in Nat, NEW f, NEW c, NEW d, IsChain(nx, N, f, c), IsChain(nx, N, f, d)
  PROVE  StartOf(c, d)
<1> DEFINE S == {k \in 0 .. Len(c) : k >= 1 => k <= Len(d) /\ c[k] = d[k]}
<1>0. /\ Len(c) \in 1 .. N + 1 /\ Len(d) \in 1 .. N + 1 /\ Len(c) \in Nat
      /\ c[1] = f /\ d[1] = f /\ c \in Seq(Inums)
      /\ \A k \in 1 .. Len(c) - 1 : c[k + 1] = nx[c[k]]
      /\ \A k \in 1 .. Len(d) - 1 : d[k + 1] = nx[d[k]]
      /\ nx[d[Len(d)]] \in Inums => Len(d) = N + 1
  BY DEF IsChain
<1>1. 0 \in S
  BY <1>0
<1>2. ASSUME NEW k \in 0 .. Len(c) - 1, k \in S PROVE k + 1 \in S
  <2>1. CASE k = 0
    BY <2>1, <1>0
  <2>2. CASE k # 0
    <3>1. /\ k \in 1 .. Len(c) - 1 /\ k + 1 \in 1 .. Len(c) /\ k + 1 \in 0 .. Len(c)
          /\ k <= Len(d) /\ c[k] = d[k]
      BY <2>2, <1>2, <1>0
    <3>2. c[k + 1] = nx[d[k]] /\ c[k + 1] \in Inums
      BY <3>1, <1>0
    <3>3. k # Len(d)
      BY <3>1, <3>2, <1>0
    <3>4. k \in 1 .. Len(d) - 1 /\ k + 1 <= Len(d)
      BY <3>1, <3>3, <1>0
    <3> QED
      BY <3>1, <3>2, <3>4, <1>0
  <2> QED
    BY <2>1, <2>2
<1>3. 0 .. Len(c) \subseteq S
  <2> HIDE DEF S
  <2> QED
    BY <1>0, <1>1, <1>2, UpTo
<1>4. ASSUME NEW k \in 1 .. Len(c) PROVE k <= Len(d) /\ c[k] = d[k]
  <2>1. k \in 0 .. Len(c) /\ k >= 1
    BY <1>0
  <2>2. k \in S
    BY <1>3, <2>1
  <2> QED
    BY <2>1, <2>2
<1> QED
  BY <1>4, <1>0 DEF StartOf

LEMMA ChainUnique ==
  ASSUME NEW nx, NEW f \in Inums, NEW c, IsChain(nx, MAX_INODE_COUNT, f, c)
  PROVE  ChainOf(nx, f) = c
<1> DEFINE d == ChainOf(nx, f)
<1>0. MAX_INODE_COUNT \in Nat
  BY SizesAssumption
<1>1. IsChain(nx, MAX_INODE_COUNT, f, d)
  BY ChainOfIsChain
<1> HIDE DEF d
<1>2. /\ Len(c) <= Len(d) /\ \A k \in 1 .. Len(c) : c[k] = d[k]
      /\ Len(d) <= Len(c)
  <2> DEFINE N == MAX_INODE_COUNT
  <2>1. N \in Nat /\ IsChain(nx, N, f, c) /\ IsChain(nx, N, f, d)
    BY <1>0, <1>1
  <2> HIDE DEF N
  <2>2. StartOf(c, d)
    BY <2>1, ChainBelow
  <2>3. StartOf(d, c)
    BY <2>1, ChainBelow
  <2> QED
    BY <2>2, <2>3 DEF StartOf
<1>3. c \in Seq(Inums) /\ d \in Seq(Inums) /\ Len(c) \in Nat /\ Len(d) \in Nat
  BY <1>1 DEF IsChain
<1>4. Len(c) = Len(d)
  BY <1>2, <1>3
<1>5. c = d
  BY <1>2, <1>3, <1>4, SeqEqual
<1> QED
  BY <1>5 DEF d

(***************************************************************************)
(* The chain of a file.                                                    *)
(***************************************************************************)

\* what ChainsLinked says of the next fields
Linked(nx, im, fs) ==
  /\ nx \in [Inums -> Int] /\ fs \subseteq im /\ im \subseteq Inums
  /\ \A i \in im : nx[i] # None => nx[i] \in im \ fs
  /\ \A i, j \in im : nx[i] = nx[j] /\ nx[i] # None => i = j

\* c is the chain of file f: the inodes on it are allocated, no other file is
\* on it, it ends, and it never comes back to an inode
FileChain(nx, im, fs, f, c) ==
  /\ c \in Seq(im) /\ c \in Seq(Inums) /\ f \in Inums
  /\ Len(c) \in Nat /\ Len(c) >= 1 /\ Len(c) <= MAX_INODE_COUNT /\ c[1] = f
  /\ \A k \in 1 .. Len(c) : c[k] \in im
  /\ \A k \in 1 .. Len(c) - 1 : c[k + 1] = nx[c[k]]
  /\ \A k \in 2 .. Len(c) : c[k] \notin fs
  /\ nx[c[Len(c)]] = None
  /\ \A k, l \in 1 .. Len(c) : c[k] = c[l] => k = l

\* the elements of a chain, one by one
Along(nx, im, fs, f, c) ==
  /\ c \in Seq(im)
  /\ Len(c) \in 1 .. MAX_INODE_COUNT + 1
  /\ c[1] = f
  /\ \A k \in 1 .. Len(c) - 1 : c[k + 1] = nx[c[k]] /\ nx[c[k]] # None
  /\ \A k \in 2 .. Len(c) : c[k] \notin fs

LEMMA AlongFacts ==
  ASSUME NEW nx, NEW im, NEW fs, Linked(nx, im, fs), NEW f \in fs
  PROVE  Along(nx, im, fs, f, ChainOf(nx, f))
<1> DEFINE c == ChainOf(nx, f)
           S == {k \in 0 .. Len(c) - 1 : c[k + 1] \in im /\ (k >= 1 => c[k + 1] \notin fs)}
<1>0. MAX_INODE_COUNT \in Nat /\ f \in Inums /\ f \in im /\ None \notin Inums
  BY SizesAssumption DEF Linked, Inums, None
<1>1. IsChain(nx, MAX_INODE_COUNT, f, c)
  BY <1>0, ChainOfIsChain
<1> HIDE DEF c
<1>2. /\ c \in Seq(Inums) /\ Len(c) \in 1 .. MAX_INODE_COUNT + 1 /\ c[1] = f
      /\ \A k \in 1 .. Len(c) - 1 : c[k + 1] = nx[c[k]]
  BY <1>1 DEF IsChain
<1>3. 0 \in S
  BY <1>0, <1>2
<1>4. Len(c) - 1 \in Nat
  BY <1>0, <1>2
<1>5. ASSUME NEW k \in 0 .. (Len(c) - 1) - 1, k \in S PROVE k + 1 \in S
  <2>1. k + 1 \in 1 .. Len(c) - 1 /\ k + 1 \in 0 .. Len(c) - 1 /\ (k + 1) + 1 \in 1 .. Len(c)
    BY <1>4
  <2>2. c[(k + 1) + 1] = nx[c[k + 1]] /\ c[k + 1] \in im /\ c[(k + 1) + 1] \in Inums
    BY <1>2, <1>5, <2>1
  <2>3. c[(k + 1) + 1] \in im \ fs
    BY <2>2, <1>0 DEF Linked
  <2> QED
    BY <2>1, <2>3
<1>6. 0 .. Len(c) - 1 \subseteq S
  <2> HIDE DEF S
  <2> QED
    BY <1>3, <1>4, <1>5, UpTo
<1>7. ASSUME NEW k \in 1 .. Len(c) PROVE c[k] \in im /\ (k >= 2 => c[k] \notin fs)
  <2>1. k - 1 \in 0 .. Len(c) - 1 /\ (k - 1) + 1 = k /\ k \in Int
    BY <1>4
  <2>2. k - 1 \in S
    BY <2>1, <1>6
  <2>3. c[(k - 1) + 1] \in im /\ (k - 1 >= 1 => c[(k - 1) + 1] \notin fs)
    BY <2>2
  <2> QED
    BY <2>1, <2>3
<1>8. c \in Seq(im)
  <2>1. c \in [1 .. Len(c) -> Inums] /\ Len(c) \in Nat
    BY <1>2, LenProperties
  <2>2. c \in [1 .. Len(c) -> im]
    BY <2>1, <1>7
  <2> QED
    BY <2>1, <2>2
<1>9. ASSUME NEW k \in 1 .. Len(c) - 1 PROVE nx[c[k]] # None
  <2>1. k + 1 \in 1 .. Len(c)
    BY <1>4
  <2> QED
    BY <2>1, <1>0, <1>2
<1> QED
  BY <1>2, <1>4, <1>7, <1>8, <1>9 DEF Along, c

LEMMA ChainsApart ==
  ASSUME NEW nx, NEW im, NEW fs, Linked(nx, im, fs), NEW f \in fs, NEW g \in fs,
         NEW n \in 1 .. Len(ChainOf(nx, f)), NEW m \in 1 .. Len(ChainOf(nx, g)),
         ChainOf(nx, f)[n] = ChainOf(nx, g)[m]
  PROVE  f = g /\ n = m
<1> DEFINE c == ChainOf(nx, f)
           d == ChainOf(nx, g)
           S == {k \in 0 .. MAX_INODE_COUNT : \A l \in 1 .. Len(d) :
                   k + 1 <= Len(c) /\ c[k + 1] = d[l] => f = g /\ k + 1 = l}
<1>1. Along(nx, im, fs, f, c) /\ Along(nx, im, fs, g, d)
  BY AlongFacts
<1> HIDE DEF c, d
<1>2. /\ Len(c) \in 1 .. MAX_INODE_COUNT + 1 /\ Len(d) \in 1 .. MAX_INODE_COUNT + 1
      /\ MAX_INODE_COUNT \in Nat
      /\ c \in Seq(im) /\ d \in Seq(im) /\ c[1] = f /\ d[1] = g
      /\ \A k \in 2 .. Len(c) : c[k] \notin fs
      /\ \A k \in 2 .. Len(d) : d[k] \notin fs
      /\ \A k \in 1 .. Len(c) - 1 : c[k + 1] = nx[c[k]] /\ nx[c[k]] # None
      /\ \A k \in 1 .. Len(d) - 1 : d[k + 1] = nx[d[k]]
  BY <1>1, SizesAssumption DEF Along
<1>3. 0 \in S
  <2>1. ASSUME NEW l \in 1 .. Len(d), c[1] = d[l] PROVE f = g /\ 1 = l
    <3>1. l \notin 2 .. Len(d)
      BY <2>1, <1>2
    <3>2. l = 1
      BY <3>1, <1>2
    <3> QED
      BY <3>2, <2>1, <1>2
  <2> QED
    BY <2>1, <1>2
<1>4. ASSUME NEW k \in 0 .. MAX_INODE_COUNT - 1, k \in S PROVE k + 1 \in S
  <2>1. ASSUME NEW l \in 1 .. Len(d), (k + 1) + 1 <= Len(c), c[(k + 1) + 1] = d[l]
        PROVE  f = g /\ (k + 1) + 1 = l
    <3>1. k + 1 \in 1 .. Len(c) - 1 /\ k + 1 \in 1 .. Len(c) /\ (k + 1) + 1 \in 2 .. Len(c)
      BY <2>1, <1>2
    <3>2. l # 1
      BY <2>1, <3>1, <1>2
    <3>3. l - 1 \in 1 .. Len(d) - 1 /\ l - 1 \in 1 .. Len(d) /\ (l - 1) + 1 = l
      BY <3>2, <1>2
    <3>4. c[(k + 1) + 1] = nx[c[k + 1]] /\ nx[c[k + 1]] # None /\ d[l] = nx[d[l - 1]]
      BY <3>1, <3>3, <1>2
    <3>5. c[k + 1] \in im /\ d[l - 1] \in im
      BY <3>1, <3>3, <1>2, ElementOfSeq
    <3>6. c[k + 1] = d[l - 1]
      BY <2>1, <3>4, <3>5 DEF Linked
    <3>7. f = g /\ k + 1 = l - 1
      BY <3>1, <3>3, <3>6, <1>4
    <3> QED
      BY <3>7, <3>3
  <2>2. k + 1 \in 0 .. MAX_INODE_COUNT
    BY <1>2
  <2> QED
    BY <2>1, <2>2
<1>5. 0 .. MAX_INODE_COUNT \subseteq S
  <2> HIDE DEF S
  <2> QED
    BY <1>2, <1>3, <1>4, UpTo
<1>6. n - 1 \in 0 .. MAX_INODE_COUNT /\ (n - 1) + 1 = n /\ n <= Len(c) /\ m \in 1 .. Len(d)
  BY <1>2 DEF c, d
<1>7. c[n] = d[m]
  BY DEF c, d
<1>8. n - 1 \in S
  BY <1>5, <1>6
<1> QED
  BY <1>6, <1>7, <1>8

LEMMA FileChainFacts ==
  ASSUME NEW nx, NEW im, NEW fs, Linked(nx, im, fs), NEW f \in fs
  PROVE  FileChain(nx, im, fs, f, ChainOf(nx, f))
<1> DEFINE c == ChainOf(nx, f)
<1>0. MAX_INODE_COUNT \in Nat /\ f \in Inums /\ None \notin Inums /\ im \subseteq Inums
  BY SizesAssumption DEF Linked, Inums, None
<1>1. Along(nx, im, fs, f, c)
  BY AlongFacts
<1>2. \A k, l \in 1 .. Len(c) : c[k] = c[l] => k = l
  BY ChainsApart
<1>3. IsChain(nx, MAX_INODE_COUNT, f, c)
  BY <1>0, ChainOfIsChain
<1> HIDE DEF c
<1>4. c \in [1 .. Len(c) -> Inums] /\ Len(c) \in Nat /\ Len(c) \in 1 .. MAX_INODE_COUNT + 1
  BY <1>0, <1>1, <1>3, LenProperties DEF Along, IsChain
<1>5. Len(c) <= MAX_INODE_COUNT
  <2>1. c \in Injection(1 .. Len(c), Inums)
    BY <1>2, <1>4 DEF Injection, IsInjective
  <2>2. IsFiniteSet(Inums) /\ Cardinality(Inums) = MAX_INODE_COUNT
    BY <1>0, FS_Interval DEF Inums
  <2>3. Cardinality(1 .. Len(c)) = Len(c)
    BY <1>4, FS_Interval
  <2> QED
    BY <2>1, <2>2, <2>3, FS_Injection
<1>6. nx[c[Len(c)]] = None
  <2>1. nx[c[Len(c)]] \notin Inums
    BY <1>3, <1>4, <1>5, <1>0 DEF IsChain
  <2>2. Len(c) \in 1 .. Len(c) /\ c[Len(c)] \in im
    BY <1>1, <1>4 DEF Along
  <2> QED
    BY <1>0, <2>1, <2>2 DEF Linked
<1>7. c \in Seq(im) /\ \A k \in 1 .. Len(c) : c[k] \in im
  BY <1>1, ElementOfSeq DEF Along
<1>8. c \in Seq(Inums) /\ Len(c) >= 1
  BY <1>3, <1>4 DEF IsChain
<1> QED
  BY <1>0, <1>1, <1>2, <1>4, <1>5, <1>6, <1>7, <1>8 DEF Along, FileChain, c

(***************************************************************************)
(* TotalSize(f), for any sizes sz.                                         *)
(***************************************************************************)
SumBody(sz, c, n, h) == IF n = 0 THEN 0 ELSE h[n - 1] + sz[c[n]]
SumFcn(sz, c) ==
  CHOOSE h : h = [n \in 0 .. Len(c) |-> IF n = 0 THEN 0 ELSE h[n - 1] + sz[c[n]]]
SumTo(sz, c, n) == SumFcn(sz, c)[n]
TotalOf(nx, sz, f) == SumTo(sz, ChainOf(nx, f), Len(ChainOf(nx, f)))

LEMMA TotalIs == \A f : TotalSize(f) = TotalOf(next, size, f)
  BY DEF Chain, ChainOf, ChainFcn, TotalSize, TotalOf, SumTo, SumFcn

LEMMA TotalIsPrimed == \A f : TotalSize(f)' = TotalOf(next', size', f)
  BY DEF Chain, ChainOf, ChainFcn, TotalSize, TotalOf, SumTo, SumFcn

IsSum(sz, c, h) == h = [n \in 0 .. Len(c) |-> SumBody(sz, c, n, h)]

LEMMA SumFcnExists ==
  ASSUME NEW sz, NEW c, Len(c) \in Nat
  PROVE  \E h : IsSum(sz, c, h)
<1> DEFINE Solves(m, h) == h = [n \in 0 .. m |-> SumBody(sz, c, n, h)]
           S == {m \in 0 .. Len(c) : \E h : Solves(m, h)}
<1>1. 0 \in S
  <2> DEFINE h == [n \in 0 .. 0 |-> 0]
  <2>1. Solves(0, h)
    BY DEF SumBody
  <2>2. 0 \in 0 .. Len(c)
    OBVIOUS
  <2> HIDE DEF Solves, h
  <2> QED
    BY <2>1, <2>2
<1>2. ASSUME NEW m \in 0 .. Len(c) - 1, m \in S PROVE m + 1 \in S
  <2>1. PICK g : Solves(m, g)
    BY <1>2
  <2> DEFINE h == [n \in 0 .. m + 1 |-> IF n = m + 1 THEN SumBody(sz, c, m + 1, g) ELSE g[n]]
             e == [n \in 0 .. m + 1 |-> SumBody(sz, c, n, h)]
  <2>2. ASSUME NEW n \in 0 .. m + 1 PROVE h[n] = e[n]
    <3>1. n # 0 => n - 1 \in 0 .. m /\ h[n - 1] = g[n - 1]
      OBVIOUS
    <3>2. e[n] = SumBody(sz, c, n, g)
      BY <3>1 DEF SumBody
    <3>3. h[n] = SumBody(sz, c, n, g)
      <4>1. CASE n = m + 1
        BY <4>1
      <4>2. CASE n # m + 1
        <5>1. n \in 0 .. m
          BY <4>2
        <5> QED
          BY <4>2, <5>1, <2>1
      <4> QED
        BY <4>1, <4>2
    <3> QED
      BY <3>2, <3>3
  <2>3. h = e
    BY <2>2
  <2>4. Solves(m + 1, h)
    BY <2>3
  <2>5. m + 1 \in 0 .. Len(c)
    OBVIOUS
  <2> HIDE DEF Solves, h
  <2> QED
    BY <2>4, <2>5
<1>3. Len(c) \in S
  <2>1. Len(c) \in 0 .. Len(c)
    OBVIOUS
  <2> HIDE DEF S
  <2>2. 0 .. Len(c) \subseteq S
    BY <1>1, <1>2, UpTo
  <2> QED
    BY <2>1, <2>2
<1> QED
  BY <1>3 DEF IsSum

LEMMA SumFacts ==
  ASSUME NEW sz \in [Inums -> Int], NEW c \in Seq(Inums)
  PROVE  /\ SumTo(sz, c, 0) = 0
         /\ \A n \in 1 .. Len(c) : SumTo(sz, c, n) = SumTo(sz, c, n - 1) + sz[c[n]]
         /\ \A n \in 0 .. Len(c) : SumTo(sz, c, n) \in Int
<1> DEFINE h == SumFcn(sz, c)
           S == {n \in 0 .. Len(c) : h[n] \in Int}
<1>0. Len(c) \in Nat
  OBVIOUS
<1>1. h = [n \in 0 .. Len(c) |-> SumBody(sz, c, n, h)]
  <2>1. \E g : IsSum(sz, c, g)
    BY <1>0, SumFcnExists
  <2>2. h = CHOOSE g : IsSum(sz, c, g)
    BY DEF SumFcn, SumBody, IsSum
  <2> HIDE DEF h
  <2>3. IsSum(sz, c, h)
    BY <2>1, <2>2
  <2> QED
    BY <2>3 DEF IsSum
<1> HIDE DEF h
<1>2. \A n \in 0 .. Len(c) : h[n] = SumBody(sz, c, n, h)
  BY <1>1
<1>3. h[0] = 0
  <2>1. h[0] = SumBody(sz, c, 0, h)
    BY <1>0, <1>2
  <2> QED
    BY <2>1 DEF SumBody
<1>4. \A n \in 1 .. Len(c) : h[n] = h[n - 1] + sz[c[n]]
  <2> SUFFICES ASSUME NEW n \in 1 .. Len(c) PROVE h[n] = h[n - 1] + sz[c[n]]
    OBVIOUS
  <2>1. n \in 0 .. Len(c) /\ n # 0
    OBVIOUS
  <2> QED
    BY <2>1, <1>2 DEF SumBody
<1>5. 0 \in S
  BY <1>0, <1>3
<1>6. ASSUME NEW n \in 0 .. Len(c) - 1, n \in S PROVE n + 1 \in S
  <2>1. n + 1 \in 1 .. Len(c) /\ n + 1 \in 0 .. Len(c) /\ (n + 1) - 1 = n /\ h[n] \in Int
    BY <1>6, <1>0
  <2>2. sz[c[n + 1]] \in Int
    BY <2>1
  <2>3. h[n + 1] = h[(n + 1) - 1] + sz[c[n + 1]]
    BY <2>1, <1>4
  <2>4. h[n + 1] \in Int
    BY <2>1, <2>2, <2>3
  <2> QED
    BY <2>1, <2>4
<1>7. 0 .. Len(c) \subseteq S
  <2> HIDE DEF S
  <2> QED
    BY <1>0, <1>5, <1>6, UpTo
<1> QED
  BY <1>3, <1>4, <1>7 DEF SumTo, h

\* the first n inodes of c and d and their sizes are the same
SameUpTo(n, sz, c, sy, d) == \A k \in 1 .. n : c[k] = d[k] /\ sz[c[k]] = sy[c[k]]

Comparable(n, sz, c, sy, d) ==
  /\ sz \in [Inums -> Int] /\ sy \in [Inums -> Int]
  /\ c \in Seq(Inums) /\ d \in Seq(Inums)
  /\ n \in Nat /\ n <= Len(c) /\ n <= Len(d)
  /\ SameUpTo(n, sz, c, sy, d)

LEMMA SumSame ==
  ASSUME NEW sz \in [Inums -> Int], NEW sy \in [Inums -> Int],
         NEW c \in Seq(Inums), NEW d \in Seq(Inums), NEW n \in Nat, n <= Len(c), n <= Len(d),
         SameUpTo(n, sz, c, sy, d)
  PROVE  SumTo(sz, c, n) = SumTo(sy, d, n)
<1> DEFINE S == {k \in 0 .. n : SumTo(sz, c, k) = SumTo(sy, d, k)}
<1>0. Len(c) \in Nat /\ Len(d) \in Nat
  OBVIOUS
<1>1. 0 \in S
  <2>1. SumTo(sz, c, 0) = 0 /\ SumTo(sy, d, 0) = 0
    BY SumFacts
  <2> QED
    BY <2>1
<1>2. ASSUME NEW k \in 0 .. n - 1, k \in S PROVE k + 1 \in S
  <2>1. k + 1 \in 1 .. n /\ k + 1 \in 1 .. Len(c) /\ k + 1 \in 1 .. Len(d) /\ (k + 1) - 1 = k
        /\ k + 1 \in 0 .. n
    BY <1>0
  <2>2. SumTo(sz, c, k + 1) = SumTo(sz, c, k) + sz[c[k + 1]]
    BY <2>1, SumFacts
  <2>3. SumTo(sy, d, k + 1) = SumTo(sy, d, k) + sy[d[k + 1]]
    BY <2>1, SumFacts
  <2>4. SumTo(sz, c, k) = SumTo(sy, d, k)
    BY <1>2
  <2>5. sz[c[k + 1]] = sy[d[k + 1]]
    BY <2>1 DEF SameUpTo
  <2> QED
    BY <2>1, <2>2, <2>3, <2>4, <2>5
<1>3. 0 .. n \subseteq S
  <2> HIDE DEF S
  <2> QED
    BY <1>1, <1>2, UpTo
<1> QED
  BY <1>3

LEMMA SumsAgree ==
  ASSUME NEW n, NEW sz, NEW c, NEW sy, NEW d, Comparable(n, sz, c, sy, d)
  PROVE  SumTo(sz, c, n) = SumTo(sy, d, n)
  BY SumSame DEF Comparable

(***************************************************************************)
(* What the changes of inode.c do to the chains and the sizes of files.    *)
(***************************************************************************)

LEMMA EndOfChain ==
  ASSUME NEW nx, NEW im, NEW fs, Linked(nx, im, fs), NEW f \in fs,
         NEW n \in 1 .. Len(ChainOf(nx, f)), nx[ChainOf(nx, f)[n]] = None
  PROVE  n = Len(ChainOf(nx, f))
<1> DEFINE c == ChainOf(nx, f)
<1>1. /\ c \in Seq(Inums) /\ Len(c) \in Nat
      /\ \A k \in 1 .. Len(c) - 1 : c[k + 1] = nx[c[k]]
  BY FileChainFacts DEF FileChain
<1> HIDE DEF c
<1>2. None \notin Inums
  BY SizesAssumption DEF Inums, None
<1>3. n \in 1 .. Len(c) /\ nx[c[n]] = None
  BY DEF c
<1>4. ASSUME n # Len(c) PROVE FALSE
  <2>1. n \in 1 .. Len(c) - 1 /\ n + 1 \in 1 .. Len(c)
    BY <1>1, <1>3, <1>4
  <2> QED
    BY <1>1, <1>2, <1>3, <2>1, ElementOfSeq
<1> QED
  BY <1>4 DEF c

\* nothing about the inodes of c changes
Frozen(nx, sz, ny, sy, c) == \A k \in 1 .. Len(c) : ny[c[k]] = nx[c[k]] /\ sy[c[k]] = sz[c[k]]

\* a file none of whose inodes changes keeps its chain and its size
LEMMA Untouched ==
  ASSUME NEW nx, NEW ny, NEW sz \in [Inums -> Int], NEW sy \in [Inums -> Int],
         NEW im, NEW fs, Linked(nx, im, fs), NEW f \in fs,
         Frozen(nx, sz, ny, sy, ChainOf(nx, f))
  PROVE  ChainOf(ny, f) = ChainOf(nx, f) /\ TotalOf(ny, sy, f) = TotalOf(nx, sz, f)
<1> DEFINE c == ChainOf(nx, f)
<1>1. /\ c \in Seq(Inums) /\ f \in Inums
      /\ Len(c) \in Nat /\ Len(c) >= 1 /\ Len(c) <= MAX_INODE_COUNT /\ c[1] = f
      /\ \A k \in 1 .. Len(c) - 1 : c[k + 1] = nx[c[k]]
      /\ nx[c[Len(c)]] = None
  BY FileChainFacts DEF FileChain
<1>2. \A k \in 1 .. Len(c) : ny[c[k]] = nx[c[k]] /\ sy[c[k]] = sz[c[k]]
  BY DEF Frozen
<1> HIDE DEF c
<1>3. Len(c) \in 1 .. MAX_INODE_COUNT /\ Len(c) \in 1 .. Len(c)
      /\ \A k \in 1 .. Len(c) - 1 : k \in 1 .. Len(c)
  BY <1>1, SizesAssumption
<1>4. ChainOf(ny, f) = c
  <2>1. \A k \in 1 .. Len(c) - 1 : c[k + 1] = ny[c[k]]
    BY <1>1, <1>2, <1>3
  <2>2. ny[c[Len(c)]] \notin Inums
    <3>1. ny[c[Len(c)]] = None
      BY <1>1, <1>2, <1>3
    <3> QED
      BY <3>1, SizesAssumption DEF Inums, None
  <2>3. IsChain(ny, MAX_INODE_COUNT, f, c)
    BY <1>1, <1>3, <2>1, <2>2, SizesAssumption DEF IsChain
  <2> QED
    BY <1>1, <2>3, ChainUnique
<1>5. SumTo(sy, c, Len(c)) = SumTo(sz, c, Len(c))
  <2>1. SameUpTo(Len(c), sy, c, sz, c)
    BY <1>2 DEF SameUpTo
  <2>2. c \in Seq(Inums) /\ Len(c) \in Nat /\ Len(c) <= Len(c)
    BY <1>1
  <2> QED
    BY <2>1, <2>2, SumSame
<1> QED
  BY <1>4, <1>5 DEF TotalOf, c

LEMMA ResizeLast ==
  ASSUME NEW nx, NEW sz \in [Inums -> Int], NEW sy \in [Inums -> Int],
         NEW im, NEW fs, Linked(nx, im, fs), NEW f \in fs, NEW l,
         l = ChainOf(nx, f)[Len(ChainOf(nx, f))],
         \A i \in Inums : i # l => sy[i] = sz[i]
  PROVE  /\ TotalOf(nx, sz, f) \in Int
         /\ TotalOf(nx, sy, f) = TotalOf(nx, sz, f) - sz[l] + sy[l]
         /\ \A g \in fs : g # f => TotalOf(nx, sy, g) = TotalOf(nx, sz, g)
<1> DEFINE c == ChainOf(nx, f)
<1>1. /\ c \in Seq(Inums) /\ Len(c) \in Nat /\ Len(c) >= 1
      /\ \A k, m \in 1 .. Len(c) : c[k] = c[m] => k = m
  <2>1. FileChain(nx, im, fs, f, c)
    BY FileChainFacts
  <2> QED
    BY <2>1 DEF FileChain
<1>2. l = c[Len(c)]
  OBVIOUS
<1>3. ASSUME NEW g \in fs, g # f PROVE TotalOf(nx, sy, g) = TotalOf(nx, sz, g)
  <2> DEFINE d == ChainOf(nx, g)
  <2>1. d \in Seq(Inums) /\ Len(c) \in 1 .. Len(c)
    BY FileChainFacts, <1>1 DEF FileChain
  <2>2. \A k \in 1 .. Len(d) : d[k] # l
    BY <1>3, <2>1, ChainsApart
  <2>3. Frozen(nx, sz, nx, sy, d)
    <3> HIDE DEF d
    <3> QED
      BY <2>1, <2>2, ElementOfSeq DEF Frozen
  <2> QED
    BY <2>3, Untouched
<1> HIDE DEF c
<1>4. Len(c) \in 1 .. Len(c) /\ Len(c) \in 0 .. Len(c) /\ Len(c) - 1 \in Nat
      /\ Len(c) - 1 <= Len(c) /\ Len(c) - 1 \in 0 .. Len(c)
  BY <1>1
<1>5. ASSUME NEW k \in 1 .. Len(c) - 1 PROVE sz[c[k]] = sy[c[k]]
  <2>1. k \in 1 .. Len(c) /\ k # Len(c)
    BY <1>1
  <2>2. c[k] # c[Len(c)] /\ c[k] \in Inums
    BY <1>1, <1>4, <2>1, ElementOfSeq
  <2> QED
    BY <1>2, <2>2
<1>6. SumTo(sz, c, Len(c) - 1) = SumTo(sy, c, Len(c) - 1)
  <2>1. SameUpTo(Len(c) - 1, sz, c, sy, c)
    BY <1>5 DEF SameUpTo
  <2> QED
    BY <1>1, <1>4, <2>1, SumSame
<1>7. /\ SumTo(sz, c, Len(c)) = SumTo(sz, c, Len(c) - 1) + sz[l] /\ SumTo(sz, c, Len(c)) \in Int
      /\ SumTo(sz, c, Len(c) - 1) \in Int
  <2>1. c \in Seq(Inums)
    BY <1>1
  <2>2. /\ \A n \in 1 .. Len(c) : SumTo(sz, c, n) = SumTo(sz, c, n - 1) + sz[c[n]]
        /\ \A n \in 0 .. Len(c) : SumTo(sz, c, n) \in Int
    BY <2>1, SumFacts
  <2> QED
    BY <2>2, <1>2, <1>4
<1>8. SumTo(sy, c, Len(c)) = SumTo(sy, c, Len(c) - 1) + sy[l]
  <2>1. \A n \in 1 .. Len(c) : SumTo(sy, c, n) = SumTo(sy, c, n - 1) + sy[c[n]]
    BY <1>1, SumFacts
  <2> QED
    BY <2>1, <1>2, <1>4
<1>9. sz[l] \in Int /\ sy[l] \in Int
  BY <1>1, <1>2, <1>4, ElementOfSeq
<1>10. /\ SumTo(sz, c, Len(c)) \in Int
       /\ SumTo(sy, c, Len(c)) = SumTo(sz, c, Len(c)) - sz[l] + sy[l]
  BY <1>6, <1>7, <1>8, <1>9
<1> QED
  BY <1>3, <1>10 DEF TotalOf, c

\* inode i is appended to the chain that ends in l, no other inode changes
Appended(nx, sz, l, i, ny, sy) ==
  /\ ny = [nx EXCEPT ![l] = i, ![i] = None]
  /\ \A j \in Inums : j # l /\ j # i => sy[j] = sz[j]

\* what it makes of the file f whose chain it is, and of the others
LongerBy(nx, sz, fs, f, l, i, ny, sy) ==
  /\ TotalOf(nx, sz, f) \in Int
  /\ ChainOf(ny, f) = Append(ChainOf(nx, f), i)
  /\ TotalOf(ny, sy, f) = TotalOf(nx, sz, f) - sz[l] + sy[l] + sy[i]
  /\ \A g \in fs : g # f => /\ ChainOf(ny, g) = ChainOf(nx, g)
                            /\ TotalOf(ny, sy, g) = TotalOf(nx, sz, g)

LEMMA Lengthen ==
  ASSUME NEW nx, NEW ny, NEW sz \in [Inums -> Int], NEW sy \in [Inums -> Int],
         NEW im, NEW fs, Linked(nx, im, fs), NEW f \in fs, NEW l,
         l = ChainOf(nx, f)[Len(ChainOf(nx, f))],
         NEW i \in Inums \ im, Appended(nx, sz, l, i, ny, sy)
  PROVE  LongerBy(nx, sz, fs, f, l, i, ny, sy)
<1> DEFINE c == ChainOf(nx, f)
           d == Append(c, i)
<1>1. /\ c \in Seq(Inums) /\ Len(c) \in Nat /\ Len(c) >= 1 /\ Len(c) <= MAX_INODE_COUNT
      /\ c[1] = f /\ f \in Inums
      /\ \A k \in 1 .. Len(c) : c[k] \in im
      /\ \A k \in 1 .. Len(c) - 1 : c[k + 1] = nx[c[k]]
      /\ \A k, m \in 1 .. Len(c) : c[k] = c[m] => k = m
  <2>1. FileChain(nx, im, fs, f, c)
    BY FileChainFacts
  <2> QED
    BY <2>1 DEF FileChain
<1>2. l = c[Len(c)]
  OBVIOUS
<1>3. ASSUME NEW g \in fs, g # f
      PROVE  ChainOf(ny, g) = ChainOf(nx, g) /\ TotalOf(ny, sy, g) = TotalOf(nx, sz, g)
  <2> DEFINE e == ChainOf(nx, g)
  <2>1. e \in Seq(Inums) /\ Len(c) \in 1 .. Len(c) /\ \A k \in 1 .. Len(e) : e[k] \in im
    BY FileChainFacts, <1>1 DEF FileChain
  <2>2. \A k \in 1 .. Len(e) : e[k] # l
    BY <1>3, <2>1, ChainsApart
  <2>3. Frozen(nx, sz, ny, sy, e)
    <3> HIDE DEF e
    <3>1. \A k \in 1 .. Len(e) : e[k] \in Inums /\ e[k] # i
      BY <2>1, ElementOfSeq
    <3> QED
      BY <2>1, <2>2, <3>1 DEF Frozen, Appended, Linked
  <2> QED
    BY <2>3, Untouched
<1> HIDE DEF c
<1>4. /\ d \in Seq(Inums) /\ Len(d) = Len(c) + 1 /\ d[Len(c) + 1] = i
      /\ \A k \in 1 .. Len(c) : d[k] = c[k]
  BY <1>1, AppendProperties
<1> HIDE DEF d
<1>5. l \in im /\ l \in Inums /\ i \in Inums /\ l # i /\ ny[l] = i /\ ny[i] = None
  <2>1. Len(c) \in 1 .. Len(c)
    BY <1>1
  <2>2. l \in im /\ l \in Inums
    BY <1>1, <1>2, <2>1, ElementOfSeq
  <2> QED
    BY <2>2 DEF Appended, Linked
<1>6. ChainOf(ny, f) = d
  <2>1. ASSUME NEW k \in 1 .. Len(d) - 1 PROVE d[k + 1] = ny[d[k]]
    <3>1. CASE k = Len(c)
      BY <3>1, <1>1, <1>2, <1>4, <1>5
    <3>2. CASE k # Len(c)
      <4>1. k \in 1 .. Len(c) - 1 /\ k \in 1 .. Len(c) /\ k + 1 \in 1 .. Len(c)
            /\ Len(c) \in 1 .. Len(c)
        <5>1. Len(c) \in Nat /\ Len(c) >= 1 /\ Len(d) = Len(c) + 1
          BY <1>1, <1>4
        <5> QED
          BY <3>2, <5>1
      <4>2. c[k] # l /\ c[k] # i /\ c[k] \in Inums
        <5>1. c[k] # c[Len(c)]
          BY <4>1, <3>2, <1>1
        <5>2. c[k] \in im /\ c[k] \in Inums
          BY <4>1, <1>1, ElementOfSeq
        <5> QED
          BY <5>1, <5>2, <1>2
      <4>3. ny[c[k]] = nx[c[k]]
        BY <4>2 DEF Appended, Linked
      <4> QED
        BY <4>1, <4>3, <1>1, <1>4
    <3> QED
      BY <3>1, <3>2
  <2>2. Len(d) \in 1 .. MAX_INODE_COUNT + 1 /\ 1 \in 1 .. Len(c)
    BY <1>1, <1>4, SizesAssumption
  <2>3. d[1] = f
    BY <2>2, <1>1, <1>4
  <2>4. ny[d[Len(d)]] \notin Inums
    BY <1>1, <1>4, <1>5, SizesAssumption DEF Inums, None
  <2>5. IsChain(ny, MAX_INODE_COUNT, f, d)
    BY <1>4, <2>1, <2>2, <2>3, <2>4 DEF IsChain
  <2> QED
    BY <1>1, <2>5, ChainUnique
<1>7. Len(c) \in 1 .. Len(c) /\ Len(c) - 1 \in Nat /\ Len(c) - 1 \in 0 .. Len(c)
      /\ Len(c) - 1 \in 0 .. Len(d)
      /\ Len(c) \in 1 .. Len(d) /\ Len(c) + 1 \in 1 .. Len(d) /\ Len(c) - 1 <= Len(c)
      /\ Len(c) - 1 <= Len(d)
  BY <1>1, <1>4
<1>8. ASSUME NEW k \in 1 .. Len(c) - 1 PROVE c[k] = d[k] /\ sz[c[k]] = sy[c[k]]
  <2>1. k \in 1 .. Len(c) /\ k # Len(c)
    BY <1>1
  <2>2. c[k] # l
    BY <1>1, <1>2, <1>7, <2>1
  <2>3. c[k] \in Inums /\ c[k] \in im
    BY <1>1, <2>1, ElementOfSeq
  <2>4. c[k] # i
    BY <1>2, <2>3
  <2> QED
    BY <1>4, <2>1, <2>2, <2>3, <2>4 DEF Appended
<1>9. SumTo(sz, c, Len(c) - 1) = SumTo(sy, d, Len(c) - 1)
  <2>1. SameUpTo(Len(c) - 1, sz, c, sy, d)
    BY <1>8 DEF SameUpTo
  <2> QED
    <3> DEFINE n == Len(c) - 1
    <3>1. c \in Seq(Inums) /\ d \in Seq(Inums) /\ n \in Nat
      BY <1>1, <1>4, <1>7
    <3>2. n <= Len(c) /\ n <= Len(d) /\ SameUpTo(n, sz, c, sy, d)
      BY <1>7, <2>1
    <3> HIDE DEF n
    <3>3. SumTo(sz, c, n) = SumTo(sy, d, n)
      <4>1. /\ sz \in [Inums -> Int] /\ sy \in [Inums -> Int] /\ n <= Len(c) /\ n <= Len(d)
            /\ SameUpTo(n, sz, c, sy, d)
        BY <3>2
      <4>2. Comparable(n, sz, c, sy, d)
        BY <4>1, <3>1 DEF Comparable
      <4> QED
        BY <4>2, SumsAgree
    <3> QED
      BY <3>3 DEF n
<1>10. /\ SumTo(sz, c, Len(c)) = SumTo(sz, c, Len(c) - 1) + sz[l]
       /\ SumTo(sz, c, Len(c) - 1) \in Int
  <2>1. c \in Seq(Inums)
    BY <1>1
  <2>2. /\ \A n \in 1 .. Len(c) : SumTo(sz, c, n) = SumTo(sz, c, n - 1) + sz[c[n]]
        /\ \A n \in 0 .. Len(c) : SumTo(sz, c, n) \in Int
    BY <2>1, SumFacts
  <2> QED
    BY <2>2, <1>2, <1>7
<1>11. SumTo(sy, d, Len(c)) = SumTo(sy, d, Len(c) - 1) + sy[l]
  <2>1. d[Len(c)] = l
    BY <1>2, <1>4, <1>7
  <2>2. \A n \in 1 .. Len(d) : SumTo(sy, d, n) = SumTo(sy, d, n - 1) + sy[d[n]]
    BY <1>4, SumFacts
  <2> QED
    BY <2>1, <2>2, <1>7
<1>12. SumTo(sy, d, Len(d)) = SumTo(sy, d, Len(c)) + sy[i]
  <2>1. Len(d) \in 1 .. Len(d) /\ Len(d) - 1 = Len(c) /\ d[Len(d)] = i
    BY <1>1, <1>4
  <2> QED
    BY <2>1, <1>4, SumFacts
<1>13. sz[l] \in Int /\ sy[l] \in Int /\ sy[i] \in Int
  BY <1>5
<1>14. /\ SumTo(sz, c, Len(c)) \in Int
       /\ SumTo(sy, d, Len(d)) = SumTo(sz, c, Len(c)) - sz[l] + sy[l] + sy[i]
  BY <1>9, <1>10, <1>11, <1>12, <1>13
<1> QED
  BY <1>3, <1>6, <1>14 DEF TotalOf, LongerBy, c, d

LEMMA Prefix ==
  ASSUME NEW S, NEW c \in Seq(S), NEW m \in Nat, m <= Len(c)
  PROVE  /\ SubSeq(c, 1, m) \in Seq(S) /\ Len(SubSeq(c, 1, m)) = m
         /\ \A k \in 1 .. m : SubSeq(c, 1, m)[k] = c[k]
<1>1. \A k \in 1 .. m : k \in 1 .. Len(c) /\ c[k] \in S
  BY ElementOfSeq
<1>2. SubSeq(c, 1, m) = [k \in 1 .. m |-> c[k]]
  OBVIOUS
<1> QED
  BY <1>1, <1>2

LEMMA Places ==
  ASSUME NEW m \in Nat, m # 0, m # 1
  PROVE  /\ m >= 2 /\ m - 1 \in Nat /\ m - 1 >= 1 /\ m - 1 <= m
         /\ m \in 1 .. m /\ m - 1 \in 1 .. m /\ m - 1 \in 0 .. m
         /\ m \in 0 .. m /\ m - 1 \in 1 .. m - 1 /\ (m - 1) + 1 = m
         /\ \A k \in 1 .. m - 1 : k \in 1 .. m /\ k # m
         /\ \A k \in 1 .. (m - 1) - 1 :
              k \in 1 .. m - 1 /\ k + 1 \in 1 .. m - 1 /\ k # m - 1 /\ k \in 1 .. m
  OBVIOUS

\* the last inode of the chain that ends in l is cut off, its size is 0
CutOff(nx, sz, im, l, ny, sy) ==
  /\ \E p \in im : nx[p] = l /\ ny = [nx EXCEPT ![p] = None]
  /\ \A j \in Inums : j # l => sy[j] = sz[j]

\* what it makes of the file f whose chain it is, and of the others
ShorterBy(nx, sz, fs, f, l, ny, sy) ==
  /\ TotalOf(nx, sz, f) \in Int
  /\ Len(ChainOf(nx, f)) >= 2
  /\ ChainOf(ny, f) = SubSeq(ChainOf(nx, f), 1, Len(ChainOf(nx, f)) - 1)
  /\ TotalOf(ny, sy, f) = TotalOf(nx, sz, f) - sz[l]
  /\ \A g \in fs : g # f => /\ ChainOf(ny, g) = ChainOf(nx, g)
                            /\ TotalOf(ny, sy, g) = TotalOf(nx, sz, g)

LEMMA Shorten ==
  ASSUME NEW nx, NEW ny, NEW sz \in [Inums -> Int], NEW sy \in [Inums -> Int],
         NEW im, NEW fs, Linked(nx, im, fs), NEW f \in fs, NEW l, l # f,
         l = ChainOf(nx, f)[Len(ChainOf(nx, f))],
         CutOff(nx, sz, im, l, ny, sy)
  PROVE  ShorterBy(nx, sz, fs, f, l, ny, sy)
<1> DEFINE c == ChainOf(nx, f)
           d == SubSeq(c, 1, Len(c) - 1)
<1> HIDE DEF d
<1>1. /\ c \in Seq(Inums) /\ Len(c) \in Nat /\ Len(c) >= 1 /\ Len(c) <= MAX_INODE_COUNT
      /\ c[1] = f /\ f \in Inums
      /\ \A k \in 1 .. Len(c) : c[k] \in im
      /\ \A k \in 1 .. Len(c) - 1 : c[k + 1] = nx[c[k]]
      /\ \A k, m \in 1 .. Len(c) : c[k] = c[m] => k = m
  <2>1. FileChain(nx, im, fs, f, c)
    BY FileChainFacts
  <2> QED
    BY <2>1 DEF FileChain
<1>2. l = c[Len(c)]
  OBVIOUS
<1>p. PICK p \in im : nx[p] = l /\ ny = [nx EXCEPT ![p] = None]
  BY DEF CutOff
<1>a. /\ None \notin Inums /\ l \in Inums /\ l # None /\ p \in Inums /\ ny[p] = None
      /\ \A j \in Inums : j # p => ny[j] = nx[j]
      /\ \A j \in im : nx[j] = l => j = p
  <2>1. None \notin Inums
    BY SizesAssumption DEF Inums, None
  <2> HIDE DEF c
  <2>2. Len(c) \in 1 .. Len(c)
    BY <1>1
  <2>3. l \in Inums
    BY <2>2, <1>1, <1>2, ElementOfSeq
  <2>4. p \in Inums /\ nx \in [Inums -> Int]
    BY DEF Linked
  <2>5. \A j \in im : nx[j] = l => j = p
    BY <2>1, <2>3, <1>p DEF Linked
  <2> QED
    BY <2>1, <2>3, <2>4, <2>5, <1>p
<1>3. ASSUME NEW g \in fs, g # f
      PROVE  ChainOf(ny, g) = ChainOf(nx, g) /\ TotalOf(ny, sy, g) = TotalOf(nx, sz, g)
  <2> DEFINE e == ChainOf(nx, g)
  <2>1. /\ e \in Seq(Inums) /\ Len(c) \in 1 .. Len(c) /\ \A k \in 1 .. Len(e) : e[k] \in im
        /\ Len(e) \in Nat /\ nx[e[Len(e)]] = None
        /\ \A k \in 1 .. Len(e) - 1 : e[k + 1] = nx[e[k]]
    BY FileChainFacts, <1>1 DEF FileChain
  <2>2. \A k \in 1 .. Len(e) : e[k] # l
    BY <1>3, <2>1, ChainsApart
  <2>3. Frozen(nx, sz, ny, sy, e)
    <3> HIDE DEF e, c
    <3> SUFFICES ASSUME NEW k \in 1 .. Len(e)
                 PROVE  ny[e[k]] = nx[e[k]] /\ sy[e[k]] = sz[e[k]]
      BY DEF Frozen
    <3>1. e[k] \in Inums /\ e[k] # l
      BY <2>1, <2>2, ElementOfSeq
    <3>2. nx[e[k]] # l
      <4>1. CASE k = Len(e)
        BY <4>1, <2>1, <1>a
      <4>2. CASE k # Len(e)
        <5>1. k \in 1 .. Len(e) - 1 /\ k + 1 \in 1 .. Len(e)
          BY <4>2, <2>1
        <5> QED
          BY <5>1, <2>1, <2>2
      <4> QED
        BY <4>1, <4>2
    <3>3. e[k] # p
      BY <3>2, <1>p
    <3> QED
      BY <3>1, <3>3, <1>a DEF CutOff
  <2> QED
    BY <2>3, Untouched
<1> HIDE DEF c
<1>4. Len(c) # 1
  BY <1>1, <1>2
<1>5. /\ Len(c) >= 2 /\ Len(c) - 1 \in Nat /\ Len(c) - 1 >= 1 /\ Len(c) - 1 <= Len(c)
      /\ Len(c) \in 1 .. Len(c) /\ Len(c) - 1 \in 1 .. Len(c) /\ Len(c) - 1 \in 0 .. Len(c)
      /\ Len(c) \in 0 .. Len(c) /\ Len(c) - 1 \in 1 .. Len(c) - 1 /\ (Len(c) - 1) + 1 = Len(c)
      /\ \A k \in 1 .. Len(c) - 1 : k \in 1 .. Len(c) /\ k # Len(c)
      /\ \A k \in 1 .. (Len(c) - 1) - 1 :
           k \in 1 .. Len(c) - 1 /\ k + 1 \in 1 .. Len(c) - 1 /\ k # Len(c) - 1 /\ k \in 1 .. Len(c)
  <2>1. Len(c) \in Nat /\ Len(c) # 0 /\ Len(c) # 1
    BY <1>1, <1>4
  <2> QED
    BY <2>1, Places
<1>6. /\ d \in Seq(Inums) /\ Len(d) = Len(c) - 1
      /\ \A k \in 1 .. Len(c) - 1 : d[k] = c[k]
  <2>1. \A i \in 1 .. Len(c) - 1 : c[i] \in Inums
    <3>1. \A i \in 1 .. Len(c) - 1 : i \in 1 .. Len(c)
      BY <1>5
    <3> QED
      BY <1>1, <3>1, ElementOfSeq
  <2> DEFINE m == Len(c) - 1
  <2>2. c \in Seq(Inums) /\ m \in Nat /\ m <= Len(c)
    BY <1>1, <1>5
  <2> HIDE DEF m
  <2>3. /\ SubSeq(c, 1, m) \in Seq(Inums)
        /\ Len(SubSeq(c, 1, m)) = m
        /\ \A k \in 1 .. m : SubSeq(c, 1, m)[k] = c[k]
    BY <2>2, Prefix
  <2> QED
    BY <2>3 DEF d, m
<1>7. c[Len(c) - 1] = p
  <2>1. nx[c[Len(c) - 1]] = c[Len(c)]
    BY <1>1, <1>5
  <2>2. c[Len(c) - 1] \in im
    BY <1>1, <1>5
  <2> QED
    BY <2>1, <2>2, <1>2, <1>a
<1>8. ChainOf(ny, f) = d
  <2>1. ASSUME NEW k \in 1 .. Len(d) - 1 PROVE d[k + 1] = ny[d[k]]
    <3>1. /\ k \in 1 .. Len(c) - 1 /\ k + 1 \in 1 .. Len(c) - 1 /\ k # Len(c) - 1
          /\ k \in 1 .. Len(c)
      BY <1>5, <1>6
    <3>2. c[k] # p /\ c[k] \in Inums
      <4>1. c[k] # c[Len(c) - 1]
        BY <3>1, <1>1, <1>5
      <4>2. c[k] \in Inums
        BY <3>1, <1>1, ElementOfSeq
      <4> QED
        BY <4>1, <4>2, <1>7
    <3>3. ny[c[k]] = nx[c[k]]
      BY <3>2, <1>a
    <3> QED
      BY <3>1, <3>3, <1>1, <1>6
  <2>2. Len(d) \in 1 .. MAX_INODE_COUNT + 1 /\ 1 \in 1 .. Len(c) - 1
    <3>1. /\ Len(c) \in Nat /\ Len(c) >= 2 /\ Len(c) <= MAX_INODE_COUNT /\ MAX_INODE_COUNT \in Nat
          /\ Len(d) = Len(c) - 1
      BY <1>1, <1>5, <1>6, SizesAssumption
    <3> QED
      BY <3>1
  <2>3. d[1] = f
    BY <2>2, <1>1, <1>6
  <2>4. ny[d[Len(d)]] \notin Inums
    BY <1>5, <1>6, <1>7, <1>a
  <2>5. IsChain(ny, MAX_INODE_COUNT, f, d)
    BY <1>6, <2>1, <2>2, <2>3, <2>4 DEF IsChain
  <2> QED
    BY <1>1, <2>5, ChainUnique
<1>9. SameUpTo(Len(d), sz, c, sy, d)
  <2> SUFFICES ASSUME NEW k \in 1 .. Len(c) - 1 PROVE c[k] = d[k] /\ sz[c[k]] = sy[c[k]]
    BY <1>6 DEF SameUpTo
  <2>1. k \in 1 .. Len(c) /\ k # Len(c)
    BY <1>5
  <2>2. c[k] # l /\ c[k] \in Inums
    <3>1. c[k] # c[Len(c)]
      BY <1>1, <1>5, <2>1
    <3>2. c[k] \in Inums
      BY <1>1, <2>1, ElementOfSeq
    <3> QED
      BY <1>2, <3>1, <3>2
  <2> QED
    BY <1>6, <2>2 DEF CutOff
<1>10. SumTo(sz, c, Len(d)) = SumTo(sy, d, Len(d))
  <2>1. Len(d) \in Nat /\ Len(d) <= Len(c) /\ Len(d) <= Len(d) /\ c \in Seq(Inums) /\ d \in Seq(Inums)
    <3>1. Len(c) - 1 \in Nat /\ Len(c) - 1 <= Len(c) /\ Len(d) = Len(c) - 1
      BY <1>5, <1>6
    <3> QED
      BY <1>1, <1>6, <3>1
  <2> QED
    BY <2>1, <1>9, SumSame
<1>11. /\ SumTo(sz, c, Len(c)) = SumTo(sz, c, Len(c) - 1) + sz[l]
       /\ SumTo(sz, c, Len(c) - 1) \in Int
       /\ SumTo(sz, c, Len(c)) \in Int
  <2>1. c \in Seq(Inums)
    BY <1>1
  <2>2. /\ \A n \in 1 .. Len(c) : SumTo(sz, c, n) = SumTo(sz, c, n - 1) + sz[c[n]]
        /\ \A n \in 0 .. Len(c) : SumTo(sz, c, n) \in Int
    BY <2>1, SumFacts
  <2> QED
    BY <2>2, <1>2, <1>5
<1>12. sz[l] \in Int
  BY <1>a
<1>13. SumTo(sy, d, Len(d)) = SumTo(sz, c, Len(c)) - sz[l]
  BY <1>6, <1>10, <1>11, <1>12
<1> QED
  BY <1>3, <1>5, <1>8, <1>11, <1>13 DEF TotalOf, ShorterBy, c, d

\* inode i becomes a file of one empty inode
Created(nx, sz, i, ny, sy) ==
  ny = [nx EXCEPT ![i] = None] /\ sy = [sz EXCEPT ![i] = 0]

LEMMA NewChain ==
  ASSUME NEW nx, NEW ny, NEW sz \in [Inums -> Int], NEW sy \in [Inums -> Int],
         NEW im, NEW fs, Linked(nx, im, fs), NEW i \in Inums \ im,
         Created(nx, sz, i, ny, sy)
  PROVE  /\ ChainOf(ny, i) = <<i>> /\ TotalOf(ny, sy, i) = 0
         /\ \A g \in fs : /\ ChainOf(ny, g) = ChainOf(nx, g)
                          /\ TotalOf(ny, sy, g) = TotalOf(nx, sz, g)
<1>1. /\ ny[i] = None /\ sy[i] = 0 /\ None \notin Inums
      /\ \A j \in im : ny[j] = nx[j] /\ sy[j] = sz[j]
  BY SizesAssumption DEF Linked, Inums, None, Created
<1>2. ChainOf(ny, i) = <<i>>
  <2>1. <<i>> \in Seq(Inums) /\ Len(<<i>>) = 1 /\ <<i>>[1] = i
    OBVIOUS
  <2>2. IsChain(ny, MAX_INODE_COUNT, i, <<i>>)
    BY <1>1, <2>1, SizesAssumption DEF IsChain
  <2> QED
    BY <2>2, ChainUnique
<1>3. SumTo(sy, <<i>>, 1) = 0
  <2> DEFINE c == <<i>>
  <2>1. c \in Seq(Inums) /\ Len(c) = 1 /\ c[1] = i
    OBVIOUS
  <2> HIDE DEF c
  <2>2. 1 \in 1 .. Len(c) /\ 1 - 1 = 0
    BY <2>1
  <2>3. SumTo(sy, c, 0) = 0 /\ SumTo(sy, c, 1) = SumTo(sy, c, 1 - 1) + sy[c[1]]
    BY <2>1, <2>2, SumFacts
  <2>4. SumTo(sy, c, 1) = 0
    BY <2>1, <2>2, <2>3, <1>1
  <2> QED
    BY <2>4 DEF c
<1>4. ASSUME NEW g \in fs
      PROVE  ChainOf(ny, g) = ChainOf(nx, g) /\ TotalOf(ny, sy, g) = TotalOf(nx, sz, g)
  <2>1. \A k \in 1 .. Len(ChainOf(nx, g)) : ChainOf(nx, g)[k] \in im
    BY FileChainFacts DEF FileChain
  <2>2. Frozen(nx, sz, ny, sy, ChainOf(nx, g))
    BY <2>1, <1>1 DEF Frozen
  <2> QED
    BY <2>2, Untouched
<1>5. Len(<<i>>) = 1
  OBVIOUS
<1> QED
  BY <1>2, <1>3, <1>4, <1>5 DEF TotalOf

(***************************************************************************)
(* Every allocated inode is on the chain of a file, and a call is on the   *)
(* chain of its own file.  Adding up the size, it has counted what lies    *)
(* before the inode it has reached.                                        *)
(***************************************************************************)
OnChain(nx, fs, i) ==
  \E f \in fs : \E n \in 1 .. Len(ChainOf(nx, f)) : ChainOf(nx, f)[n] = i

Covered == \A i \in inodeMap : OnChain(next, files, i)

\* inode i is the n-th of chain c, and l bytes lie before it
At(sz, c, i, l, counting) ==
  \E n \in 1 .. Len(c) : c[n] = i /\ (counting => l = SumTo(sz, c, n - 1))

CallOnChain == pc # "idle" => At(size, ChainOf(next, top), cur, left, pc = "total")

ChainInv == Covered /\ CallOnChain

LEMMA LinkedNow ==
  ASSUME IInv
  PROVE  Linked(next, inodeMap, files) /\ size \in [Inums -> Int]
  BY DEF IInv, TypeOK, Structure, ChainsLinked, Linked

LEMMA LinkedThen ==
  ASSUME IInv'
  PROVE  Linked(next', inodeMap', files') /\ size' \in [Inums -> Int]
  BY DEF IInv, TypeOK, Structure, ChainsLinked, Linked

LEMMA CurIsLast ==
  ASSUME IInv, CallOnChain, AtLastToGrow \/ AtLastToShrink
  PROVE  /\ top \in files /\ cur \in Inums /\ size[cur] \in Int /\ next[cur] = None
         /\ cur = ChainOf(next, top)[Len(ChainOf(next, top))]
<1>1. cur \in Inums /\ size[cur] \in Int /\ next[cur] = None
  BY AtLastFacts
<1>2. pc # "idle" /\ top \in files
  BY DEF IInv, TypeOK, AtLastToGrow, AtLastToShrink
<1>3. PICK n \in 1 .. Len(ChainOf(next, top)) : ChainOf(next, top)[n] = cur
  BY <1>2 DEF CallOnChain, At
<1>4. n = Len(ChainOf(next, top))
  BY <1>1, <1>2, <1>3, LinkedNow, EndOfChain
<1> QED
  BY <1>1, <1>2, <1>3, <1>4

\* a step that changes at most the size of the inode the call has reached
OnlyCur == /\ UNCHANGED <<inodeMap, next, files>>
           /\ \A i \in Inums : i # cur => size'[i] = size[i]

LEMMA OnlyCurTotals ==
  ASSUME IInv, IInv', CallOnChain, AtLastToGrow \/ AtLastToShrink, OnlyCur
  PROVE  /\ TotalOf(next, size, top) \in Int
         /\ TotalOf(next', size', top) = TotalOf(next, size, top) - size[cur] + size'[cur]
         /\ \A g \in files : g # top => TotalOf(next', size', g) = TotalOf(next, size, g)
<1>1. Linked(next, inodeMap, files) /\ size \in [Inums -> Int] /\ size' \in [Inums -> Int]
  BY LinkedNow, LinkedThen
<1>2. top \in files /\ cur = ChainOf(next, top)[Len(ChainOf(next, top))]
  BY CurIsLast
<1>3. \A i \in Inums : i # cur => size'[i] = size[i]
  BY DEF OnlyCur
<1>4. next' = next
  BY DEF OnlyCur
<1>5. /\ TotalOf(next, size, top) \in Int
      /\ TotalOf(next, size', top) = TotalOf(next, size, top) - size[cur] + size'[cur]
      /\ \A g \in files : g # top => TotalOf(next, size', g) = TotalOf(next, size, g)
  BY <1>1, <1>2, <1>3, ResizeLast
<1> QED
  BY <1>4, <1>5

\* the chains do not change: only where the call is can have
LEMMA SameChains ==
  ASSUME ChainInv, UNCHANGED <<inodeMap, next, files>>,
         pc' # "idle" => At(size', ChainOf(next, top'), cur', left', pc' = "total")
  PROVE  ChainInv'
<1>1. Covered'
  BY DEF ChainInv, Covered
<1>2. CallOnChain'
  BY DEF CallOnChain
<1> QED
  BY <1>1, <1>2 DEF ChainInv

LEMMA AtHead ==
  ASSUME NEW nx, NEW im, NEW fs, Linked(nx, im, fs), NEW f \in fs,
         NEW sz, sz \in [Inums -> Int], NEW l, NEW counting, counting => l = 0
  PROVE  At(sz, ChainOf(nx, f), f, l, counting)
<1> DEFINE c == ChainOf(nx, f)
<1>1. c \in Seq(Inums) /\ Len(c) \in Nat /\ Len(c) >= 1 /\ c[1] = f
  BY FileChainFacts DEF FileChain
<1> HIDE DEF c
<1>2. SumTo(sz, c, 0) = 0
  BY <1>1, SumFacts
<1>3. 1 \in 1 .. Len(c) /\ 1 - 1 = 0
  BY <1>1
<1>4. c[1] = f /\ (counting => l = SumTo(sz, c, 1 - 1))
  BY <1>1, <1>2, <1>3
<1> QED
  BY <1>3, <1>4 DEF At, c

LEMMA BeginChains ==
  ASSUME IInv, ChainInv, NEW o, NEW f \in files, NEW n, Begin(o, f, n)
  PROVE  ChainInv'
<1>1. /\ UNCHANGED <<inodeMap, next, files, size>>
      /\ top' = f /\ cur' = f /\ left' = 0
  BY DEF Begin, disk
<1>2. At(size, ChainOf(next, f), f, 0, pc' = "total")
  BY LinkedNow, AtHead
<1> QED
  BY <1>1, <1>2, SameChains

\* one hop along the chain
LEMMA NextAt ==
  ASSUME IInv, CallOnChain, pc # "idle", next[cur] >= 0
  PROVE  /\ At(size, ChainOf(next, top), next[cur], left, FALSE)
         /\ pc = "total" => At(size, ChainOf(next, top), next[cur], left + size[cur], TRUE)
<1> DEFINE c == ChainOf(next, top)
<1>1. top \in files
  BY DEF IInv, TypeOK
<1>2. /\ c \in Seq(Inums) /\ Len(c) \in Nat /\ Len(c) >= 1
      /\ \A k \in 1 .. Len(c) - 1 : c[k + 1] = next[c[k]]
      /\ next[c[Len(c)]] = None
  <2>1. FileChain(next, inodeMap, files, top, c)
    BY <1>1, LinkedNow, FileChainFacts
  <2> QED
    BY <2>1 DEF FileChain
<1>3. size \in [Inums -> Int]
  BY LinkedNow
<1>4. PICK n \in 1 .. Len(c) : c[n] = cur /\ (pc = "total" => left = SumTo(size, c, n - 1))
  BY DEF CallOnChain, At
<1> HIDE DEF c
<1>5. n # Len(c)
  BY <1>2, <1>4 DEF None
<1>6. n \in 1 .. Len(c) - 1 /\ n + 1 \in 1 .. Len(c) /\ (n + 1) - 1 = n
  BY <1>2, <1>5
<1>7. c[n + 1] = next[cur]
  BY <1>2, <1>4, <1>6
<1>8. SumTo(size, c, n) = SumTo(size, c, n - 1) + size[c[n]]
  BY <1>2, <1>3, SumFacts
<1>9. pc = "total" => left + size[cur] = SumTo(size, c, (n + 1) - 1)
  BY <1>4, <1>6, <1>8
<1> QED
  BY <1>6, <1>7, <1>9 DEF At, c

LEMMA MoveChains ==
  ASSUME IInv, ChainInv, AddSize \/ Walk
  PROVE  ChainInv'
<1>1. CallOnChain /\ pc # "idle" /\ next[cur] >= 0
  BY DEF ChainInv, AddSize, Walk
<1>2. /\ UNCHANGED <<inodeMap, next, files, size, pc, top>> /\ cur' = next[cur]
      /\ pc = "total" => left' = left + size[cur]
  BY DEF AddSize, Walk, disk
<1>3. At(size', ChainOf(next, top'), cur', left', pc' = "total")
  <2>1. CASE pc = "total"
    <3>1. (pc' = "total") = TRUE
      BY <1>2, <2>1
    <3> QED
      BY <1>1, <1>2, <2>1, <3>1, NextAt
  <2>2. CASE pc # "total"
    <3>1. At(size, ChainOf(next, top), next[cur], left, FALSE)
      BY <1>1, NextAt
    <3> QED
      BY <3>1, <1>2, <2>2 DEF At
  <2> QED
    BY <2>1, <2>2
<1> QED
  BY <1>2, <1>3, SameChains

LEMMA SizeKnownChains ==
  ASSUME IInv, ChainInv, SizeKnown
  PROVE  ChainInv'
<1>1. /\ UNCHANGED <<inodeMap, next, files, size, top>> /\ cur' = top /\ pc' # "total"
      /\ top \in files
  BY DEF SizeKnown, disk, StartGrow, StartShrink, IInv, TypeOK
<1>2. At(size, ChainOf(next, top), top, left', pc' = "total")
  BY <1>1, LinkedNow, AtHead
<1> QED
  BY <1>1, <1>2, SameChains

\* the call stays where it is or returns, and the chains stay
LEMMA StayChains ==
  ASSUME IInv, ChainInv, UNCHANGED <<inodeMap, next, files>>, pc # "idle",
         pc' # "idle" => UNCHANGED <<top, cur>> /\ pc' # "total"
  PROVE  ChainInv'
<1>1. At(size, ChainOf(next, top), cur, left, pc = "total")
  BY DEF ChainInv, CallOnChain
<1>2. ASSUME pc' # "idle" PROVE At(size', ChainOf(next, top'), cur', left', pc' = "total")
  BY <1>1, <1>2 DEF At
<1> QED
  BY <1>2, SameChains

LEMMA DaemonStayChains ==
  ASSUME IInv, ChainInv,
         \/ GrowDone \/ GrowInPlace \/ GrowBlock \/ GrowNoBlock \/ GrowNoInode
         \/ ShrinkDone \/ ShrinkInPlace \/ ShrinkUndefined
         \/ (Release /\ pc' = "abort")
  PROVE  ChainInv'
<1>1. UNCHANGED <<inodeMap, next, files>> /\ pc # "idle"
  BY DEF GrowDone, GrowInPlace, GrowBlock, GrowNoBlock, GrowNoInode, ShrinkDone, ShrinkInPlace,
         ShrinkUndefined, Release, AtLastToGrow, AtLastToShrink, disk, Return
<1>2. pc' # "idle" => UNCHANGED <<top, cur>> /\ pc' # "total"
  BY DEF GrowDone, GrowInPlace, GrowBlock, GrowNoBlock, GrowNoInode, ShrinkDone, ShrinkInPlace,
         ShrinkUndefined, Release, AtLastToGrow, AtLastToShrink, Return, ShrinkReturn
<1> QED
  BY <1>1, <1>2, StayChains

LEMMA ShrinkBlockChains ==
  ASSUME IInv, ChainInv, ShrinkBlock
  PROVE  ChainInv'
<1>1. /\ UNCHANGED <<inodeMap, next, files, top>> /\ cur' = top /\ pc' # "total"
      /\ top \in files
  BY DEF ShrinkBlock, DropLastBlock, AtLastToShrink, IInv, TypeOK
<1>2. size' \in [Inums -> Int]
  BY DropLastBlockFacts DEF ShrinkBlock
<1>3. At(size', ChainOf(next, top), top, left', pc' = "total")
  BY <1>1, <1>2, LinkedNow, AtHead
<1> QED
  BY <1>1, <1>3, SameChains

(***************************************************************************)
(* The steps that change the chains.                                       *)
(***************************************************************************)

LEMMA AllocFacts ==
  ASSUME IInv, Alloc, IInv'
  PROVE  \E i \in Inums \ inodeMap :
           /\ inodeMap' = inodeMap \cup {i} /\ files' = files \cup {i}
           /\ ChainOf(next', i) = <<i>> /\ TotalOf(next', size', i) = 0
           /\ \A g \in files : /\ ChainOf(next', g) = ChainOf(next, g)
                               /\ TotalOf(next', size', g) = TotalOf(next, size, g)
<1>1. PICK i \in Inums :
        /\ FirstFreeInum(i)
        /\ inodeMap' = inodeMap \cup {i} /\ files' = files \cup {i}
        /\ size' = [size EXCEPT ![i] = 0]
        /\ next' = [next EXCEPT ![i] = None]
  BY DEF Alloc
<1>2. i \in Inums \ inodeMap
  BY <1>1 DEF FirstFreeInum
<1>3. Created(next, size, i, next', size')
  BY <1>1 DEF Created
<1>4. Linked(next, inodeMap, files) /\ size \in [Inums -> Int] /\ size' \in [Inums -> Int]
  BY LinkedNow, LinkedThen
<1>5. /\ ChainOf(next', i) = <<i>> /\ TotalOf(next', size', i) = 0
      /\ \A g \in files : /\ ChainOf(next', g) = ChainOf(next, g)
                          /\ TotalOf(next', size', g) = TotalOf(next, size, g)
  BY <1>2, <1>3, <1>4, NewChain
<1> QED
  BY <1>1, <1>2, <1>5

LEMMA AllocChains ==
  ASSUME IInv, ChainInv, Alloc, IInv'
  PROVE  ChainInv'
<1>1. PICK i \in Inums \ inodeMap :
        /\ inodeMap' = inodeMap \cup {i} /\ files' = files \cup {i}
        /\ ChainOf(next', i) = <<i>>
        /\ \A g \in files : ChainOf(next', g) = ChainOf(next, g)
  BY AllocFacts
<1>2. OnChain(next', files', i)
  <2>1. Len(<<i>>) = 1 /\ <<i>>[1] = i
    OBVIOUS
  <2> QED
    BY <1>1, <2>1 DEF OnChain
<1>3. ASSUME NEW j \in inodeMap PROVE OnChain(next', files', j)
  BY <1>1 DEF ChainInv, Covered, OnChain
<1>4. Covered'
  BY <1>1, <1>2, <1>3 DEF Covered
<1>5. CallOnChain'
  BY DEF CallOnChain, Alloc, call
<1> QED
  BY <1>4, <1>5 DEF ChainInv

LEMMA GrowChildFacts ==
  ASSUME IInv, CallOnChain, GrowChild, IInv'
  PROVE  /\ \E i \in Inums \ inodeMap :
              /\ inodeMap' = inodeMap \cup {i} /\ cur' = i
              /\ ChainOf(next', top) = Append(ChainOf(next, top), i)
         /\ TotalOf(next, size, top) \in Int /\ size[cur] \in Int
         /\ TotalOf(next', size', top) = TotalOf(next, size, top) + (MaxLocalSize - size[cur])
         /\ \A g \in files : g # top => /\ ChainOf(next', g) = ChainOf(next, g)
                                        /\ TotalOf(next', size', g) = TotalOf(next, size, g)
<1>1. PICK i \in Inums :
        /\ FirstFreeInum(i)
        /\ inodeMap' = inodeMap \cup {i} /\ cur' = i
        /\ size' = [size EXCEPT ![cur] = MaxLocalSize, ![i] = 0]
        /\ next' = [next EXCEPT ![cur] = i, ![i] = None]
  BY DEF GrowChild
<1>2. i \in Inums \ inodeMap
  BY <1>1 DEF FirstFreeInum
<1>3. /\ top \in files /\ cur \in Inums /\ size[cur] \in Int
      /\ cur = ChainOf(next, top)[Len(ChainOf(next, top))]
  BY CurIsLast DEF GrowChild
<1>4. cur # i
  BY <1>2, AtLastFacts DEF GrowChild
<1>5. Linked(next, inodeMap, files) /\ size \in [Inums -> Int] /\ size' \in [Inums -> Int]
  BY LinkedNow, LinkedThen
<1>6. /\ \A j \in Inums : j # cur /\ j # i => size'[j] = size[j]
      /\ size'[cur] = MaxLocalSize /\ size'[i] = 0
  BY <1>1, <1>3, <1>4, <1>5
<1>7. Appended(next, size, cur, i, next', size')
  BY <1>1, <1>6 DEF Appended
<1>8. /\ TotalOf(next, size, top) \in Int
      /\ ChainOf(next', top) = Append(ChainOf(next, top), i)
      /\ TotalOf(next', size', top) = TotalOf(next, size, top) - size[cur] + size'[cur] + size'[i]
      /\ \A g \in files : g # top => /\ ChainOf(next', g) = ChainOf(next, g)
                                     /\ TotalOf(next', size', g) = TotalOf(next, size, g)
  <2>1. /\ i \in Inums \ inodeMap /\ top \in files
        /\ cur = ChainOf(next, top)[Len(ChainOf(next, top))]
        /\ Appended(next, size, cur, i, next', size')
        /\ Linked(next, inodeMap, files) /\ size \in [Inums -> Int] /\ size' \in [Inums -> Int]
    BY <1>2, <1>3, <1>5, <1>7
  <2>2. LongerBy(next, size, files, top, cur, i, next', size')
    BY <2>1, Lengthen
  <2> QED
    BY <2>2 DEF LongerBy
<1>9. TotalOf(next', size', top) = TotalOf(next, size, top) + (MaxLocalSize - size[cur])
  BY <1>3, <1>6, <1>8, BlocksOfMaxLocalSize
<1> QED
  BY <1>1, <1>2, <1>3, <1>8, <1>9

LEMMA GrowChildChains ==
  ASSUME IInv, ChainInv, GrowChild, IInv'
  PROVE  ChainInv'
<1>1. PICK i \in Inums \ inodeMap :
        /\ inodeMap' = inodeMap \cup {i} /\ cur' = i
        /\ ChainOf(next', top) = Append(ChainOf(next, top), i)
  BY GrowChildFacts DEF ChainInv
<1>2. \A g \in files : g # top => ChainOf(next', g) = ChainOf(next, g)
  BY GrowChildFacts DEF ChainInv
<1>3. /\ top \in files /\ files' = files /\ top' = top /\ pc' = "grow"
  BY CurIsLast DEF ChainInv, GrowChild, AtLastToGrow
<1> DEFINE c == ChainOf(next, top)
           d == ChainOf(next', top)
<1>4. c \in Seq(Inums) /\ Len(c) \in Nat
  <2>1. FileChain(next, inodeMap, files, top, c)
    BY <1>3, LinkedNow, FileChainFacts
  <2> QED
    BY <2>1 DEF FileChain
<1>5. /\ Len(d) = Len(c) + 1 /\ d[Len(c) + 1] = i
      /\ \A k \in 1 .. Len(c) : d[k] = c[k]
  <2> HIDE DEF c
  <2>1. d = Append(c, i)
    BY <1>1 DEF c
  <2> HIDE DEF d
  <2> QED
    BY <1>4, <2>1, AppendProperties
<1>6. Len(c) + 1 \in 1 .. Len(d) /\ \A k \in 1 .. Len(c) : k \in 1 .. Len(d)
  <2> HIDE DEF c, d
  <2> QED
    BY <1>4, <1>5
<1> HIDE DEF c, d
<1>7. OnChain(next', files', i)
  BY <1>3, <1>5, <1>6 DEF OnChain, d
<1>8. ASSUME NEW j \in inodeMap PROVE OnChain(next', files', j)
  <2>a. PICK f \in files : \E n \in 1 .. Len(ChainOf(next, f)) : ChainOf(next, f)[n] = j
    BY DEF ChainInv, Covered, OnChain
  <2>1. PICK n \in 1 .. Len(ChainOf(next, f)) : ChainOf(next, f)[n] = j
    BY <2>a
  <2>2. CASE f = top
    <3>1. n \in 1 .. Len(d) /\ d[n] = j
      BY <2>1, <2>2, <1>5, <1>6 DEF c
    <3> QED
      BY <3>1, <1>3 DEF OnChain, d
  <2>3. CASE f # top
    BY <2>1, <2>3, <1>2, <1>3 DEF OnChain
  <2> QED
    BY <2>2, <2>3
<1>9. Covered'
  BY <1>1, <1>7, <1>8 DEF Covered
<1>10. At(size', d, i, left', FALSE)
  BY <1>5, <1>6 DEF At
<1>11. CallOnChain'
  BY <1>1, <1>3, <1>10 DEF CallOnChain, d, At
<1> QED
  BY <1>9, <1>11 DEF ChainInv

LEMMA ShrinkChildFacts ==
  ASSUME IInv, CallOnChain, ShrinkChild, IInv'
  PROVE  /\ inodeMap' = inodeMap \ {cur} /\ files' = files /\ cur' = top /\ top' = top
         /\ top \in files /\ size'[cur] = 0 /\ size[cur] = DecreaseSize
         /\ ShorterBy(next, size, files, top, cur, next', size')
         /\ cur = ChainOf(next, top)[Len(ChainOf(next, top))]
<1>1. /\ DropLastBlock /\ DropsWholeChild /\ AtLastToShrink
      /\ inodeMap' = inodeMap \ {cur} /\ files' = files /\ cur' = top /\ top' = top
      /\ \E p \in inodeMap : next[p] = cur /\ next' = [next EXCEPT ![p] = None]
  BY DEF ShrinkChild, DropLastBlock
<1>2. /\ top \in files /\ cur \in Inums /\ size[cur] \in Int /\ next[cur] = None
      /\ cur = ChainOf(next, top)[Len(ChainOf(next, top))]
  BY <1>1, CurIsLast
<1>3. cur # top
  BY <1>1, <1>2 DEF DropsWholeChild, None
<1>4. /\ \A i \in Inums : i # cur => size'[i] = size[i]
      /\ size'[cur] = BLOCK_SIZE * LastSlot
  BY <1>1, DropLastBlockFacts
<1>5. CutOff(next, size, inodeMap, cur, next', size')
  BY <1>1, <1>4 DEF CutOff
<1>6. Linked(next, inodeMap, files) /\ size \in [Inums -> Int] /\ size' \in [Inums -> Int]
  BY LinkedNow, LinkedThen
<1>7. ShorterBy(next, size, files, top, cur, next', size')
  BY <1>2, <1>3, <1>5, <1>6, Shorten
<1>8. size[cur] = DecreaseSize
  BY <1>1 DEF DropsWholeChild
<1>9. size'[cur] = 0
  <2>1. LastSlot \in Int
    BY <1>1, DropLastBlockFacts DEF Slots
  <2>2. BLOCK_SIZE * LastSlot \in Int
    BY <2>1, SizesAssumption
  <2> QED
    BY <1>2, <1>4, <1>8, <2>2 DEF DecreaseSize
<1> QED
  BY <1>1, <1>2, <1>7, <1>8, <1>9

LEMMA ShrinkChildChains ==
  ASSUME IInv, ChainInv, ShrinkChild, IInv'
  PROVE  ChainInv'
<1> DEFINE c == ChainOf(next, top)
           d == ChainOf(next', top)
<1>1. /\ inodeMap' = inodeMap \ {cur} /\ files' = files /\ cur' = top /\ top' = top
      /\ top \in files /\ cur = c[Len(c)]
      /\ ShorterBy(next, size, files, top, cur, next', size')
  BY ShrinkChildFacts DEF ChainInv
<1>2. /\ Len(c) >= 2 /\ d = SubSeq(c, 1, Len(c) - 1)
      /\ \A g \in files : g # top => ChainOf(next', g) = ChainOf(next, g)
  BY <1>1 DEF ShorterBy
<1>3. c \in Seq(Inums) /\ Len(c) \in Nat
  <2>1. FileChain(next, inodeMap, files, top, c)
    BY <1>1, LinkedNow, FileChainFacts
  <2> QED
    BY <2>1 DEF FileChain
<1> HIDE DEF c, d
<1>4. Len(d) = Len(c) - 1 /\ \A k \in 1 .. Len(c) - 1 : d[k] = c[k]
  <2>1. Len(c) - 1 \in Nat /\ Len(c) - 1 <= Len(c)
    BY <1>2, <1>3
  <2> QED
    BY <2>1, <1>2, <1>3, Prefix
<1>5. ASSUME NEW j \in inodeMap' PROVE OnChain(next', files', j)
  <2>a. PICK f \in files : \E n \in 1 .. Len(ChainOf(next, f)) : ChainOf(next, f)[n] = j
    BY <1>1 DEF ChainInv, Covered, OnChain
  <2>1. PICK n \in 1 .. Len(ChainOf(next, f)) : ChainOf(next, f)[n] = j
    BY <2>a
  <2>2. CASE f = top
    <3>1. n \in 1 .. Len(c) /\ c[n] = j /\ n # Len(c)
      BY <2>1, <2>2, <1>1 DEF c
    <3>2. n \in 1 .. Len(c) - 1
      BY <3>1, <1>3
    <3>3. n \in 1 .. Len(d) /\ d[n] = j
      BY <3>1, <3>2, <1>4
    <3> QED
      BY <3>3, <1>1 DEF OnChain, d
  <2>3. CASE f # top
    BY <2>1, <2>3, <1>1, <1>2 DEF OnChain
  <2> QED
    BY <2>2, <2>3
<1>6. Covered'
  BY <1>5 DEF Covered
<1>7. pc' # "total" /\ size' \in [Inums -> Int]
  BY LinkedThen DEF ShrinkChild, DropLastBlock, AtLastToShrink
<1>8. At(size', d, top, left', pc' = "total")
  <2>1. Linked(next', inodeMap', files') /\ top \in files'
    BY <1>1, LinkedThen
  <2> QED
    BY <2>1, <1>7, AtHead DEF d
<1>9. CallOnChain'
  BY <1>1, <1>8 DEF CallOnChain, d
<1> QED
  BY <1>6, <1>9 DEF ChainInv

\* a file whose head has no child is that one inode
LEMMA OneInode ==
  ASSUME NEW nx, NEW im, NEW fs, Linked(nx, im, fs), NEW f \in fs, nx[f] = None,
         NEW sz, sz \in [Inums -> Int]
  PROVE  Len(ChainOf(nx, f)) = 1 /\ ChainOf(nx, f)[1] = f /\ TotalOf(nx, sz, f) = sz[f]
<1> DEFINE c == ChainOf(nx, f)
<1>1. FileChain(nx, im, fs, f, c)
  BY FileChainFacts
<1>2. c \in Seq(Inums) /\ Len(c) \in Nat /\ Len(c) >= 1 /\ c[1] = f /\ f \in Inums
  BY <1>1 DEF FileChain
<1>3. 1 \in 1 .. Len(c)
  <2> HIDE DEF c
  <2> QED
    BY <1>2
<1>4. Len(c) = 1
  BY <1>2, <1>3, EndOfChain
<1> HIDE DEF c
<1>5. SumTo(sz, c, 1 - 1) = 0 /\ SumTo(sz, c, 1) = SumTo(sz, c, 1 - 1) + sz[f]
  <2>1. 1 - 1 = 0
    OBVIOUS
  <2> QED
    BY <2>1, <1>2, <1>3, SumFacts
<1>6. SumTo(sz, c, 1) = sz[f]
  BY <1>2, <1>5
<1> QED
  BY <1>2, <1>4, <1>6 DEF TotalOf, c

LEMMA ReleaseFacts ==
  ASSUME IInv, Release, pc' # "abort"
  PROVE  /\ top \in files /\ size[top] = 0
         /\ inodeMap' = inodeMap \ {top} /\ files' = files \ {top} /\ Return("ok")
         /\ UNCHANGED <<size, next>>
         /\ Len(ChainOf(next, top)) = 1 /\ ChainOf(next, top)[1] = top
         /\ TotalOf(next, size, top) = 0
<1>1. /\ top \in files /\ size[top] = 0 /\ UNCHANGED <<size, next>>
      /\ inodeMap' = inodeMap \ {top} /\ files' = files \ {top} /\ Return("ok")
  BY DEF Release, IInv, TypeOK
<1>2. next[top] = None
  BY <1>1, BlocksOfMaxLocalSize DEF IInv, TypeOK, Structure, ChainsLinked
<1> QED
  BY <1>1, <1>2, LinkedNow, OneInode

LEMMA ReleaseChains ==
  ASSUME IInv, ChainInv, Release
  PROVE  ChainInv'
<1>1. CASE pc' = "abort"
  BY <1>1, DaemonStayChains
<1>2. CASE pc' # "abort"
  <2>1. /\ top \in files /\ inodeMap' = inodeMap \ {top} /\ files' = files \ {top} /\ next' = next
        /\ Len(ChainOf(next, top)) = 1 /\ ChainOf(next, top)[1] = top /\ pc' = "idle"
    BY <1>2, ReleaseFacts DEF Return
  <2>2. ASSUME NEW j \in inodeMap' PROVE OnChain(next', files', j)
    <3>1. PICK f \in files : \E n \in 1 .. Len(ChainOf(next, f)) : ChainOf(next, f)[n] = j
      BY <2>1 DEF ChainInv, Covered, OnChain
    <3>2. f # top
      BY <2>1, <3>1
    <3> QED
      BY <2>1, <3>1, <3>2 DEF OnChain
  <2>3. Covered'
    BY <2>2 DEF Covered
  <2>4. CallOnChain'
    BY <2>1 DEF CallOnChain
  <2> QED
    BY <2>3, <2>4 DEF ChainInv
<1> QED
  BY <1>1, <1>2

LEMMA InitChains ==
  ASSUME Init
  PROVE  ChainInv
  BY DEF Init, ChainInv, Covered, CallOnChain

LEMMA NextChains ==
  ASSUME IInv, ChainInv, [Next]_vars
  PROVE  ChainInv'
<1>0. IInv'
  BY NextIInv
<1>1. CASE Alloc
  BY <1>0, <1>1, AllocChains
<1>2. CASE AllocNoInode \/ UNCHANGED vars
  <2>1. UNCHANGED <<inodeMap, next, files, size, pc, top, cur, left>>
    BY <1>2 DEF AllocNoInode, vars, disk, call
  <2>2. pc' # "idle" => At(size', ChainOf(next, top'), cur', left', pc' = "total")
    BY <2>1 DEF ChainInv, CallOnChain
  <2> QED
    BY <2>1, <2>2, SameChains
<1>3. CASE \E f \in files, n \in 0 .. MaxFileSize : Truncate(f, n)
  BY <1>3, BeginChains DEF Truncate
<1>4. CASE \E f \in files, n \in 1 .. MaxFileSize : Write(f, n)
  BY <1>4, BeginChains DEF Write
<1>5. CASE \E f \in files : Free(f)
  BY <1>5, BeginChains DEF Free
<1>6. CASE AddSize \/ Walk
  BY <1>6, MoveChains
<1>7. CASE SizeKnown
  BY <1>7, SizeKnownChains
<1>8. CASE \/ GrowDone \/ GrowInPlace \/ GrowBlock \/ GrowNoBlock \/ GrowNoInode
           \/ ShrinkDone \/ ShrinkInPlace \/ ShrinkUndefined
  BY <1>8, DaemonStayChains
<1>9. CASE GrowChild
  BY <1>0, <1>9, GrowChildChains
<1>10. CASE ShrinkBlock
  BY <1>10, ShrinkBlockChains
<1>11. CASE ShrinkChild
  BY <1>0, <1>11, ShrinkChildChains
<1>12. CASE Release
  BY <1>12, ReleaseChains
<1>13. CASE Daemon
  BY <1>6, <1>7, <1>8, <1>9, <1>10, <1>11, <1>12, <1>13 DEF Daemon
<1> QED
  BY <1>1, <1>2, <1>3, <1>4, <1>5, <1>13 DEF Next, Caller

\* the chains are as ChainInv says, whatever the calls did
LEMMA ChainInvariant == Spec => [](IInv /\ ChainInv)
<1>1. Init => IInv /\ ChainInv
  BY InitIInv, InitChains
<1>2. IInv /\ ChainInv /\ [Next]_vars => (IInv /\ ChainInv)'
  BY NextIInv, NextChains
<1> QED
  BY <1>1, <1>2, PTL DEF Spec

(* The chains of two files never meet, no chain comes back to itself, and  *)
(* every allocated inode is on one: inode_free gives everything back, and  *)
(* no walk along inode_t.next is endless, whatever grew, shrank or failed. *)
THEOREM FilesPartitionInodes == Spec => []ChainsPartition
<1>1. ASSUME IInv, ChainInv PROVE ChainsPartition
  <2>1. Linked(next, inodeMap, files)
    BY <1>1, LinkedNow
  <2>2. ASSUME NEW f \in files PROVE DOMAIN ChainOf(next, f) = 1 .. Len(ChainOf(next, f))
    <3>1. FileChain(next, inodeMap, files, f, ChainOf(next, f))
      BY <2>1, FileChainFacts
    <3>2. ChainOf(next, f) \in Seq(Inums)
      BY <3>1 DEF FileChain
    <3> QED
      BY <3>2, LenProperties
  <2>3. \A i \in inodeMap : \E f \in files : \E n \in DOMAIN ChainOf(next, f) : ChainOf(next, f)[n] = i
    BY <1>1, <2>2 DEF ChainInv, Covered, OnChain
  <2>4. ASSUME NEW f \in files, NEW g \in files,
               NEW n \in DOMAIN ChainOf(next, f), NEW m \in DOMAIN ChainOf(next, g),
               ChainOf(next, f)[n] = ChainOf(next, g)[m]
        PROVE  f = g /\ n = m
    BY <2>1, <2>2, <2>4, ChainsApart
  <2> QED
    BY <2>3, <2>4, ChainIs DEF ChainsPartition
<1> QED
  BY <1>1, ChainInvariant, PTL

(***************************************************************************)
(* The store of file sizes that ByteStore is about.                        *)
(***************************************************************************)
FileLengths == [f \in files |-> TotalSize(f)]
Aim == IF pc = "idle" THEN None ELSE IF op = "write" THEN MAX(arg, TotalSize(top)) ELSE arg
Doing == IF pc \in {"fault", "abort"} THEN "dead" ELSE op

LEMMA StoreActions ==
  /\ Store!Init <=> /\ FileLengths = [f \in {} |-> 0] /\ Doing = "none"
                    /\ top = -1 /\ Aim = -1 /\ rv = "ok"
  /\ Store!Create <=>
       /\ Doing = "none"
       /\ \E f \in Inums \ DOMAIN FileLengths :
            FileLengths' = [g \in DOMAIN FileLengths \cup {f} |-> IF g = f THEN 0 ELSE FileLengths[g]]
       /\ rv' = "ok"
       /\ Doing' = Doing /\ top' = top /\ Aim' = Aim
  /\ Store!NoRoom <=>
       /\ Doing = "none"
       /\ rv' = "ENOSPC"
       /\ FileLengths' = FileLengths /\ Doing' = Doing /\ top' = top /\ Aim' = Aim
  /\ \A w, f, n : Store!Ask(w, f, n) <=>
       /\ Doing = "none"
       /\ Doing' = w
       /\ top' = f
       /\ Aim' = IF w = "write" /\ n < FileLengths[f] THEN FileLengths[f] ELSE n
       /\ FileLengths' = FileLengths /\ rv' = rv
  /\ Store!Advance <=>
       /\ Doing # "none"
       /\ top \in DOMAIN FileLengths'
       /\ FileLengths'[top] # FileLengths[top]
       /\ \/ FileLengths[top] < FileLengths'[top] /\ FileLengths'[top] <= Aim
          \/ Aim <= FileLengths'[top] /\ FileLengths'[top] < FileLengths[top]
       /\ FileLengths' = [FileLengths EXCEPT ![top] = FileLengths'[top]]
       /\ Doing' = Doing /\ top' = top /\ Aim' = Aim /\ rv' = rv
  /\ Store!Succeed <=>
       /\ Doing \in {"truncate", "write"}
       /\ FileLengths' = [FileLengths EXCEPT ![top] = Aim]
       /\ rv' = "ok"
       /\ Doing' = "none" /\ top' = -1 /\ Aim' = -1
  /\ Store!Fail <=>
       /\ Doing \in {"truncate", "write"}
       /\ FileLengths' \in {[FileLengths EXCEPT ![top] = n] : n \in FileLengths[top] .. Aim - 1}
       /\ rv' = "ENOSPC"
       /\ Doing' = "none" /\ top' = -1 /\ Aim' = -1
  /\ Store!Vanish <=>
       /\ Doing = "free"
       /\ FileLengths[top] = 0
       /\ FileLengths' = [g \in DOMAIN FileLengths \ {top} |-> FileLengths[g]]
       /\ rv' = "ok"
       /\ Doing' = "none" /\ top' = -1 /\ Aim' = -1
  /\ Store!Die <=>
       /\ Doing # "none"
       /\ Doing' = "dead"
       /\ FileLengths' = FileLengths /\ top' = top /\ Aim' = Aim /\ rv' = rv
  /\ (UNCHANGED Store!vars) <=>
       FileLengths' = FileLengths /\ Doing' = Doing /\ top' = top /\ Aim' = Aim /\ rv' = rv
  /\ DOMAIN FileLengths = files
BY DEF FileLengths, Aim, Doing, Store!Init, Store!Create, Store!NoRoom, Store!Ask, Store!Advance,
       Store!Closer, Store!Succeed, Store!Fail, Store!Vanish, Store!Die, Store!Idle, Store!Existing,
       Store!vars

\* the size of file top becomes n, the other files keep theirs
MovesTo(n) ==
  /\ files' = files /\ top \in files
  /\ TotalOf(next', size', top) = n
  /\ \A g \in files : g # top => TotalOf(next', size', g) = TotalOf(next, size, g)

LEMMA LengthsMove ==
  ASSUME NEW n, MovesTo(n)
  PROVE  /\ FileLengths' = [FileLengths EXCEPT ![top] = n] /\ FileLengths'[top] = n
         /\ FileLengths[top] = TotalOf(next, size, top) /\ top \in DOMAIN FileLengths'
  BY TotalIs, TotalIsPrimed DEF MovesTo, FileLengths

\* a call at p that is to make size t of its file the size a, with l bytes to go
Aimed(p, o, a, l, t) ==
  /\ a \in 0 .. MaxFileSize
  /\ o = "free" => a = 0
  /\ p = "grow" => /\ o \in {"truncate", "write"}
                   /\ l >= 1 => t + l = a
                   /\ l < 1 => IF o = "write" THEN t >= a ELSE t = a
  /\ p = "shrink" => o \in {"truncate", "free"} /\ l >= 0 /\ t - l = a

InBounds == \A f \in files : TotalOf(next, size, f) \in 0 .. MaxFileSize

OnCourse ==
  /\ pc = "idle" => op = "none" /\ top = None
  /\ pc # "idle" => Aimed(pc, op, arg, left, TotalOf(next, size, top))
  /\ InBounds

LEMMA CourseKept ==
  ASSUME OnCourse, NEW n, MovesTo(n), n \in 0 .. MaxFileSize,
         pc' = "idle" => op' = "none" /\ top' = None,
         pc' # "idle" => top' = top /\ Aimed(pc', op', arg', left', n)
  PROVE  OnCourse'
<1>1. /\ files' = files /\ TotalOf(next', size', top) = n
      /\ \A g \in files : g # top => TotalOf(next', size', g) = TotalOf(next, size, g)
  BY DEF MovesTo
<1>2. InBounds'
  BY <1>1 DEF OnCourse, InBounds
<1>3. pc' # "idle" => Aimed(pc', op', arg', left', TotalOf(next', size', top'))
  BY <1>1
<1> QED
  BY <1>2, <1>3 DEF OnCourse

UnderWay == pc \notin {"idle", "fault", "abort"}

\* the call returns with its file at the size it aims at
LEMMA Reach ==
  ASSUME OnCourse, UnderWay, op \in {"truncate", "write"}, NEW n, MovesTo(n),
         n \in 0 .. MaxFileSize, n = Aim, Return("ok")
  PROVE  Store!Succeed /\ OnCourse'
<1>1. FileLengths' = [FileLengths EXCEPT ![top] = Aim]
  BY LengthsMove
<1>2. pc' = "idle" /\ op' = "none" /\ top' = None /\ rv' = "ok"
  BY DEF Return
<1>3. Doing = op /\ Doing' = "none" /\ top' = -1 /\ Aim' = -1
  BY <1>2 DEF UnderWay, Doing, Aim, None
<1>4. Store!Succeed
  BY <1>1, <1>2, <1>3, StoreActions
<1>5. OnCourse'
  BY <1>2, CourseKept
<1> QED
  BY <1>4, <1>5

\* it returns short of it
LEMMA Short ==
  ASSUME OnCourse, UnderWay, op \in {"truncate", "write"}, NEW n, MovesTo(n),
         n \in 0 .. MaxFileSize, Aim \in Int, TotalOf(next, size, top) \in Int,
         TotalOf(next, size, top) <= n, n < Aim, Return("ENOSPC")
  PROVE  Store!Fail /\ OnCourse'
<1>1. /\ FileLengths' = [FileLengths EXCEPT ![top] = n]
      /\ FileLengths[top] = TotalOf(next, size, top)
  BY LengthsMove
<1>2. pc' = "idle" /\ op' = "none" /\ top' = None /\ rv' = "ENOSPC"
  BY DEF Return
<1>3. Doing = op /\ Doing' = "none" /\ top' = -1 /\ Aim' = -1
  BY <1>2 DEF UnderWay, Doing, Aim, None
<1>4. n \in FileLengths[top] .. Aim - 1
  BY <1>1
<1>5. Store!Fail
  BY <1>1, <1>2, <1>3, <1>4, StoreActions
<1>6. OnCourse'
  BY <1>2, CourseKept
<1> QED
  BY <1>5, <1>6

\* it goes on, with its file nearer to that size or as it was
LEMMA Nearer ==
  ASSUME OnCourse, UnderWay, UnderWay', UNCHANGED <<op, top, arg, rv>>, op # "none",
         NEW n, MovesTo(n), n \in 0 .. MaxFileSize, Aimed(pc', op, arg, left', n),
         \/ n = TotalOf(next, size, top)
         \/ TotalOf(next, size, top) < n /\ n <= arg
         \/ arg <= n /\ n < TotalOf(next, size, top) /\ op # "write"
  PROVE  (Store!Advance \/ UNCHANGED Store!vars) /\ OnCourse'
<1> DEFINE t == TotalOf(next, size, top)
<1>1. /\ FileLengths' = [FileLengths EXCEPT ![top] = n] /\ FileLengths'[top] = n
      /\ FileLengths[top] = t /\ top \in DOMAIN FileLengths'
  BY LengthsMove
<1>2. t \in Int /\ arg \in Int /\ n \in Int
  BY DEF OnCourse, InBounds, MovesTo, UnderWay, Aimed
<1>3. Doing = op /\ Doing' = op /\ op # "none"
  BY DEF UnderWay, Doing
<1>4. /\ Aim = IF op = "write" THEN MAX(arg, t) ELSE arg
      /\ Aim' = IF op = "write" THEN MAX(arg, n) ELSE arg
  <2>1. TotalSize(top) = t
    BY TotalIs
  <2>2. TotalSize(top)' = n
    BY TotalIsPrimed DEF MovesTo
  <2> QED
    BY <2>1, <2>2 DEF Aim, UnderWay
<1> HIDE DEF t
<1>5. Aim' = Aim
  BY <1>2, <1>4 DEF MAX, t
<1>6. CASE n = t
  <2>1. FileLengths' = FileLengths
    <3>1. FileLengths = [g \in DOMAIN FileLengths |-> FileLengths[g]]
      BY DEF FileLengths
    <3> QED
      BY <1>1, <1>6, <3>1
  <2> QED
    BY <2>1, <1>3, <1>5, StoreActions, CourseKept DEF UnderWay
<1>7. CASE n # t
  <2>1. \/ FileLengths[top] < FileLengths'[top] /\ FileLengths'[top] <= Aim
        \/ Aim <= FileLengths'[top] /\ FileLengths'[top] < FileLengths[top]
    BY <1>1, <1>2, <1>4, <1>7 DEF MAX, t
  <2>2. Store!Advance
    BY <1>1, <1>3, <1>5, <1>7, <2>1, StoreActions
  <2> QED
    BY <2>2, CourseKept DEF UnderWay
<1> QED
  BY <1>6, <1>7

LEMMA Standstill ==
  ASSUME top \in files, UNCHANGED <<next, size, files>>
  PROVE  MovesTo(TotalOf(next, size, top))
  BY DEF MovesTo

LEMMA CurMoves ==
  ASSUME IInv, IInv', CallOnChain, AtLastToGrow \/ AtLastToShrink, OnlyCur
  PROVE  MovesTo(TotalOf(next, size, top) - size[cur] + size'[cur]) /\ top \in files
  BY OnlyCurTotals, CurIsLast DEF MovesTo, OnlyCur

LEMMA RunningFacts ==
  ASSUME IInv, OnCourse, pc # "idle"
  PROVE  /\ top \in files /\ op # "none" /\ TotalOf(next, size, top) \in 0 .. MaxFileSize
         /\ TotalOf(next, size, top) \in Int /\ arg \in 0 .. MaxFileSize /\ arg \in Int
         /\ Aimed(pc, op, arg, left, TotalOf(next, size, top))
         /\ Aim = IF op = "write" THEN MAX(arg, TotalOf(next, size, top)) ELSE arg
<1>1. /\ top \in files /\ op # "none"
      /\ Aimed(pc, op, arg, left, TotalOf(next, size, top))
  BY DEF IInv, TypeOK, OnCourse
<1>2. TotalOf(next, size, top) \in 0 .. MaxFileSize
  BY <1>1 DEF OnCourse, InBounds
<1>3. arg \in 0 .. MaxFileSize
  BY <1>1 DEF Aimed
<1>4. TotalSize(top) = TotalOf(next, size, top)
  BY TotalIs
<1>5. Aim = IF op = "write" THEN MAX(arg, TotalOf(next, size, top)) ELSE arg
  BY <1>4 DEF Aim
<1> QED
  BY <1>1, <1>2, <1>3, <1>5

LEMMA HopOnCourse ==
  ASSUME IInv, OnCourse, AddSize \/ Walk
  PROVE  (Store!Advance \/ UNCHANGED Store!vars) /\ OnCourse'
<1> DEFINE t == TotalOf(next, size, top)
<1>1. /\ UNCHANGED <<next, size, files, op, top, arg, rv, pc>> /\ pc \in {"total", "grow", "shrink"}
      /\ pc # "total" => left' = left
  BY DEF AddSize, Walk, disk
<1>2. top \in files /\ op # "none" /\ t \in 0 .. MaxFileSize /\ Aimed(pc, op, arg, left, t)
  BY <1>1, RunningFacts
<1>3. MovesTo(t)
  BY <1>1, <1>2, Standstill
<1> HIDE DEF t
<1>4. Aimed(pc', op, arg, left', t)
  BY <1>1, <1>2 DEF Aimed
<1>5. UnderWay /\ UnderWay'
  BY <1>1 DEF UnderWay
<1> QED
  BY <1>1, <1>2, <1>3, <1>4, <1>5, Nearer DEF t

\* no size a caller asks for or a file has is cut off by the conversion to int
NoOverflow == 2 * MaxFileSize < INT_RANGE

LEMMA ToIntExact ==
  ASSUME NoOverflow, NEW x \in Int, -MaxFileSize <= x, x <= MaxFileSize
  PROVE  ToInt(x) = x
<1>1. CASE x >= 0
  <2>1. x % INT_RANGE = x
    BY <1>1, SizesAssumption DEF NoOverflow
  <2> QED
    BY <1>1, <2>1, SizesAssumption DEF ToInt, NoOverflow
<1>2. CASE x < 0
  <2>1. x % INT_RANGE = x + INT_RANGE
    BY <1>2, SizesAssumption DEF NoOverflow
  <2> QED
    BY <1>2, <2>1, SizesAssumption DEF ToInt, NoOverflow
<1> QED
  BY <1>1, <1>2

\* inode_total_size has counted the whole file
LEMMA TotalCounted ==
  ASSUME IInv, CallOnChain, SizeKnown
  PROVE  left + size[cur] = TotalOf(next, size, top)
<1> DEFINE c == ChainOf(next, top)
<1>1. pc = "total" /\ next[cur] = None /\ top \in files
  BY NextFacts DEF SizeKnown, IInv, TypeOK, Structure
<1>2. PICK n \in 1 .. Len(c) : c[n] = cur /\ left = SumTo(size, c, n - 1)
  BY <1>1 DEF CallOnChain, At
<1>3. n = Len(c)
  BY <1>1, <1>2, LinkedNow, EndOfChain
<1>4. c \in Seq(Inums) /\ size \in [Inums -> Int]
  <2>1. FileChain(next, inodeMap, files, top, c)
    BY <1>1, LinkedNow, FileChainFacts
  <2> QED
    BY <2>1, LinkedNow DEF FileChain
<1> HIDE DEF c
<1>5. SumTo(size, c, n) = SumTo(size, c, n - 1) + size[c[n]]
  BY <1>4, SumFacts
<1> QED
  BY <1>2, <1>3, <1>5 DEF TotalOf, c

LEMMA SizeKnownOnCourse ==
  ASSUME NoOverflow, IInv, CallOnChain, OnCourse, SizeKnown
  PROVE  (Store!Advance \/ UNCHANGED Store!vars) /\ OnCourse'
<1> DEFINE t == TotalOf(next, size, top)
<1>1. /\ UNCHANGED <<next, size, files, op, top, arg, rv>> /\ pc = "total" /\ pc' \in {"grow", "shrink"}
  BY DEF SizeKnown, disk, StartGrow, StartShrink
<1>2. top \in files /\ op # "none" /\ t \in 0 .. MaxFileSize /\ Aimed(pc, op, arg, left, t)
      /\ arg \in 0 .. MaxFileSize
  BY <1>1, RunningFacts
<1>3. MovesTo(t)
  BY <1>1, <1>2, Standstill
<1>4. left + size[cur] = t
  BY TotalCounted
<1> HIDE DEF t
<1>5. ToInt(arg - t) = arg - t /\ (arg - t < 0 => ToInt(-(arg - t)) = t - arg)
  <2>1. arg - t \in Int /\ -(arg - t) \in Int /\ -MaxFileSize <= arg - t /\ arg - t <= MaxFileSize
        /\ -MaxFileSize <= -(arg - t) /\ -(arg - t) <= MaxFileSize /\ -(arg - t) = t - arg
    BY <1>2, SizesAssumption
  <2> QED
    BY <2>1, ToIntExact
<1>6. \/ op = "write" /\ pc' = "grow" /\ left' = arg - t
      \/ op = "truncate" /\ arg - t >= 0 /\ pc' = "grow" /\ left' = arg - t
      \/ op = "truncate" /\ arg - t < 0 /\ pc' = "shrink" /\ left' = t - arg
      \/ op = "free" /\ pc' = "shrink" /\ left' = t
  BY <1>4, <1>5 DEF SizeKnown, StartGrow, StartShrink
<1>7. Aimed(pc', op, arg, left', t)
  BY <1>2, <1>6 DEF Aimed
<1>8. UnderWay /\ UnderWay'
  BY <1>1 DEF UnderWay
<1> QED
  BY <1>1, <1>2, <1>3, <1>7, <1>8, Nearer DEF t

(***************************************************************************)
(* Growing.                                                                *)
(***************************************************************************)

LEMMA GrowDoneOnCourse ==
  ASSUME IInv, OnCourse, GrowDone
  PROVE  Store!Succeed /\ OnCourse'
<1> DEFINE t == TotalOf(next, size, top)
<1>1. /\ UNCHANGED <<next, size, files>> /\ pc = "grow" /\ left < 1 /\ Return("ok")
  BY DEF GrowDone, disk
<1>2. /\ top \in files /\ t \in 0 .. MaxFileSize /\ arg \in Int /\ Aimed(pc, op, arg, left, t)
      /\ Aim = IF op = "write" THEN MAX(arg, t) ELSE arg
  BY <1>1, RunningFacts
<1>3. MovesTo(t)
  BY <1>1, <1>2, Standstill
<1> HIDE DEF t
<1>4. op \in {"truncate", "write"} /\ t = Aim
  BY <1>1, <1>2 DEF Aimed, MAX
<1> QED
  BY <1>1, <1>2, <1>3, <1>4, Reach DEF UnderWay

\* what a call that has to grow its file aims at
LEMMA GrowAim ==
  ASSUME IInv, OnCourse, pc = "grow", left >= 1
  PROVE  /\ op \in {"truncate", "write"} /\ left \in Int /\ Aim = arg
         /\ TotalOf(next, size, top) + left = arg
<1>1. left \in Int
  BY DEF IInv, TypeOK
<1> QED
  BY <1>1, RunningFacts DEF Aimed, MAX

LEMMA GrowInPlaceOnCourse ==
  ASSUME IInv, IInv', CallOnChain, OnCourse, GrowInPlace
  PROVE  Store!Succeed /\ OnCourse'
<1> DEFINE t == TotalOf(next, size, top)
<1>1. /\ AtLastToGrow /\ pc = "grow" /\ left >= 1 /\ Return("ok")
      /\ size' = [size EXCEPT ![cur] = @ + left]
      /\ UNCHANGED <<inodeMap, next, files>>
  BY DEF GrowInPlace, AtLastToGrow
<1>2. cur \in Inums /\ size[cur] \in Int /\ size \in [Inums -> Int]
  BY <1>1, CurIsLast, LinkedNow
<1>3. OnlyCur /\ size'[cur] = size[cur] + left
  BY <1>1, <1>2 DEF OnlyCur
<1>4. MovesTo(t - size[cur] + size'[cur])
  BY <1>1, <1>3, CurMoves
<1>5. op \in {"truncate", "write"} /\ left \in Int /\ Aim = arg /\ t + left = arg
  BY <1>1, GrowAim
<1>6. t \in Int /\ arg \in 0 .. MaxFileSize
  BY <1>1, RunningFacts
<1> HIDE DEF t
<1>7. t - size[cur] + size'[cur] = arg
  <2>1. t \in Int /\ left \in Int /\ size[cur] \in Int
    BY <1>2, <1>5, <1>6
  <2>2. t - size[cur] + size'[cur] = t + left
    BY <1>3, <2>1
  <2> QED
    BY <1>5, <2>2
<1>8. MovesTo(arg) /\ arg = Aim
  BY <1>4, <1>5, <1>7
<1> QED
  BY <1>1, <1>5, <1>6, <1>8, Reach DEF UnderWay

LEMMA GrowBlockOnCourse ==
  ASSUME IInv, IInv', CallOnChain, OnCourse, GrowBlock
  PROVE  (Store!Advance \/ UNCHANGED Store!vars) /\ OnCourse'
<1> DEFINE t == TotalOf(next, size, top)
           m == MIN(BLOCK_SIZE, left)
<1>1. /\ AtLastToGrow /\ pc = "grow" /\ left >= 1
      /\ size' = [size EXCEPT ![cur] = @ + m]
      /\ left' = left - BLOCK_SIZE
      /\ UNCHANGED <<inodeMap, next, files, pc, op, top, arg, rv>>
  BY DEF GrowBlock, AtLastToGrow
<1>2. cur \in Inums /\ size[cur] \in Int /\ size \in [Inums -> Int]
  BY <1>1, CurIsLast, LinkedNow
<1>3. OnlyCur /\ size'[cur] = size[cur] + m
  BY <1>1, <1>2 DEF OnlyCur
<1>4. MovesTo(t - size[cur] + size'[cur])
  BY <1>1, <1>3, CurMoves
<1>5. op \in {"truncate", "write"} /\ left \in Int /\ t + left = arg
  BY <1>1, GrowAim
<1>6. t \in 0 .. MaxFileSize /\ t \in Int /\ arg \in 0 .. MaxFileSize /\ MaxFileSize \in Nat
  BY <1>1, RunningFacts, SizesAssumption
<1>7. m \in Int /\ 1 <= m /\ m <= left /\ (left' >= 1 => m = BLOCK_SIZE) /\ (left' < 1 => m = left)
      /\ left' \in Int /\ left' = left - BLOCK_SIZE
  BY <1>1, <1>5, SizesAssumption DEF MIN
<1> HIDE DEF t, m
<1>8. t - size[cur] + size'[cur] = t + m
  BY <1>2, <1>3, <1>6, <1>7
<1>9. MovesTo(t + m)
  BY <1>4, <1>8
<1>10. t + m \in 0 .. MaxFileSize /\ t < t + m /\ t + m <= arg
  BY <1>5, <1>6, <1>7
<1>11. /\ left' >= 1 => t + m + left' = arg
       /\ left' < 1 => t + m = arg /\ t + m >= arg
  BY <1>5, <1>6, <1>7, SizesAssumption
<1>12. Aimed(pc', op, arg, left', t + m)
  BY <1>1, <1>5, <1>6, <1>11 DEF Aimed
<1> QED
  BY <1>1, <1>5, <1>9, <1>10, <1>12, Nearer DEF t, UnderWay

\* filling the last inode up does not reach the size the call aims at
LEMMA FillUp ==
  ASSUME IInv, OnCourse, CallOnChain, AtLastToGrow, ~FitsInUsedBlocks,
         UsedBlocks(cur) >= INODE_LOCAL_BLOCK_CAP
  PROVE  /\ size[cur] \in Nat /\ size[cur] <= MaxLocalSize /\ MaxLocalSize \in Nat
         /\ left \in Int /\ left - (MaxLocalSize - size[cur]) >= 1
<1>1. cur \in inodeMap /\ size[cur] \in Int /\ left \in Int /\ left >= 1
  BY CurIsLast DEF IInv, TypeOK, AtLastToGrow
<1>2. UsedBlocks(cur) = INODE_LOCAL_BLOCK_CAP
  BY <1>1, SizesAssumption DEF IInv, Structure, SizeIsBacked
<1>3. size[cur] >= 1
  BY <1>1, <1>2, BlocksSign, SizesAssumption DEF UsedBlocks
<1>4. size[cur] \in Nat /\ left \in Nat
  BY <1>1, <1>3
<1>5. size[cur] <= MaxLocalSize
  BY <1>2, <1>4, BlocksOfNat DEF UsedBlocks, MaxLocalSize
<1>6. left - (MaxLocalSize - size[cur]) >= 1
  BY <1>1, <1>2, <1>4, GrowBeyondFull DEF UsedBlocks, FitsInUsedBlocks
<1> QED
  BY <1>1, <1>4, <1>5, <1>6, BlocksOfMaxLocalSize

LEMMA GrowChildOnCourse ==
  ASSUME IInv, IInv', CallOnChain, OnCourse, GrowChild
  PROVE  (Store!Advance \/ UNCHANGED Store!vars) /\ OnCourse'
<1> DEFINE t == TotalOf(next, size, top)
           m == MaxLocalSize - size[cur]
<1>1. /\ AtLastToGrow /\ ~FitsInUsedBlocks /\ UsedBlocks(cur) >= INODE_LOCAL_BLOCK_CAP
      /\ pc = "grow" /\ left >= 1
      /\ left' = left - m
      /\ UNCHANGED <<files, pc, op, top, arg, rv>>
  BY DEF GrowChild, AtLastToGrow
<1>2. m \in Nat /\ left \in Int /\ left - m >= 1
  BY <1>1, FillUp
<1>3. t \in 0 .. MaxFileSize /\ t \in Int /\ arg \in 0 .. MaxFileSize /\ top \in files
  BY <1>1, RunningFacts
<1>4. MovesTo(t + m)
  BY <1>1, <1>3, GrowChildFacts DEF MovesTo
<1>5. op \in {"truncate", "write"} /\ t + left = arg
  BY <1>1, GrowAim
<1> HIDE DEF t, m
<1>6. t + m \in 0 .. MaxFileSize /\ (t + m # t => t < t + m /\ t + m <= arg)
      /\ t + m + left' = arg /\ left' >= 1
  BY <1>1, <1>2, <1>3, <1>5, SizesAssumption
<1>7. Aimed(pc', op, arg, left', t + m)
  BY <1>1, <1>2, <1>3, <1>5, <1>6 DEF Aimed
<1> QED
  BY <1>1, <1>4, <1>5, <1>6, <1>7, Nearer DEF t, UnderWay

LEMMA GrowFailsOnCourse ==
  ASSUME IInv, IInv', CallOnChain, OnCourse, GrowNoBlock \/ GrowNoInode
  PROVE  Store!Fail /\ OnCourse'
<1> DEFINE t == TotalOf(next, size, top)
<1>1. /\ AtLastToGrow /\ pc = "grow" /\ left >= 1 /\ Return("ENOSPC")
      /\ UNCHANGED <<inodeMap, next, files>>
  BY DEF GrowNoBlock, GrowNoInode, AtLastToGrow, disk
<1>2. op \in {"truncate", "write"} /\ left \in Int /\ Aim = arg /\ t + left = arg
  BY <1>1, GrowAim
<1>3. t \in 0 .. MaxFileSize /\ t \in Int /\ arg \in 0 .. MaxFileSize /\ arg \in Int /\ top \in files
  BY <1>1, RunningFacts
<1>4. CASE GrowNoBlock
  <2>1. MovesTo(t)
    BY <1>1, <1>3, <1>4, Standstill DEF GrowNoBlock, disk
  <2> HIDE DEF t
  <2>2. t <= t /\ t < Aim
    BY <1>1, <1>2, <1>3
  <2> QED
    BY <1>1, <1>2, <1>3, <2>1, <2>2, Short DEF t, UnderWay
<1>5. CASE GrowNoInode
  <2>1. cur \in Inums /\ size \in [Inums -> Int] /\ size[cur] \in Int
    BY <1>1, CurIsLast, LinkedNow
  <2>2. OnlyCur /\ size'[cur] = MaxLocalSize
    BY <1>1, <1>5, <2>1 DEF OnlyCur, GrowNoInode
  <2>3. MovesTo(t - size[cur] + size'[cur])
    BY <1>1, <2>2, CurMoves
  <2>4. size[cur] <= MaxLocalSize /\ MaxLocalSize \in Nat /\ left - (MaxLocalSize - size[cur]) >= 1
    BY <1>1, <1>5, FillUp DEF GrowNoInode
  <2> DEFINE n == t - size[cur] + size'[cur]
  <2> HIDE DEF t
  <2>5. n \in 0 .. MaxFileSize /\ t <= n /\ n < Aim
    BY <1>2, <1>3, <2>1, <2>2, <2>4, SizesAssumption
  <2> HIDE DEF n
  <2>6. MovesTo(n)
    BY <2>3 DEF n
  <2> QED
    BY <1>1, <1>2, <1>3, <2>5, <2>6, Short DEF t, UnderWay
<1> QED
  BY <1>4, <1>5

(***************************************************************************)
(* Shrinking.                                                              *)
(***************************************************************************)

\* inode_shrink stops early only with nothing left to take away
LEMMA DoneIsDone ==
  ASSUME IInv, OnCourse, pc = "shrink", ~Shrinkable
  PROVE  op = "truncate" => TotalOf(next, size, top) = arg
<1> DEFINE t == TotalOf(next, size, top)
<1>1. top \in files /\ t \in Int /\ arg \in Int /\ arg >= 0 /\ left \in Int /\ left >= 0
      /\ t - left = arg
  <2>1. left \in Int
    BY DEF IInv, TypeOK
  <2> QED
    BY <2>1, RunningFacts, SizesAssumption DEF Aimed
<1>2. CASE left < 1
  <2> HIDE DEF t
  <2>1. t = arg
    BY <1>1, <1>2
  <2> QED
    BY <2>1 DEF t
<1>3. CASE left >= 1
  <2>1. size[top] = 0
    BY <1>3 DEF Shrinkable
  <2>2. next[top] = None
    BY <1>1, <2>1, BlocksOfMaxLocalSize DEF IInv, TypeOK, Structure, ChainsLinked
  <2>3. t = 0
    BY <1>1, <2>1, <2>2, LinkedNow, OneInode
  <2> HIDE DEF t
  <2>4. FALSE
    BY <1>1, <1>3, <2>3
  <2> QED
    BY <2>4
<1> QED
  BY <1>1, <1>2, <1>3

LEMMA ShrinkDoneOnCourse ==
  ASSUME IInv, OnCourse, ShrinkDone
  PROVE  (Store!Succeed \/ Store!Advance \/ UNCHANGED Store!vars) /\ OnCourse'
<1> DEFINE t == TotalOf(next, size, top)
<1>1. /\ pc = "shrink" /\ ~Shrinkable /\ UNCHANGED <<next, size, files>> /\ ShrinkReturn
  BY DEF ShrinkDone, disk
<1>2. /\ top \in files /\ op # "none" /\ t \in 0 .. MaxFileSize /\ arg \in 0 .. MaxFileSize
      /\ Aimed(pc, op, arg, left, t) /\ Aim = IF op = "write" THEN MAX(arg, t) ELSE arg
  BY <1>1, RunningFacts
<1>3. MovesTo(t)
  BY <1>1, <1>2, Standstill
<1>4. CASE op = "truncate"
  <2>1. t = arg
    BY <1>1, <1>4, DoneIsDone
  <2> HIDE DEF t
  <2>2. Return("ok")
    BY <1>1, <1>4 DEF ShrinkReturn
  <2>3. op \in {"truncate", "write"} /\ t = Aim
    BY <1>2, <1>4, <2>1
  <2> QED
    BY <1>1, <1>2, <1>3, <2>2, <2>3, Reach DEF UnderWay
<1>5. CASE op # "truncate"
  <2>1. pc' = "clear" /\ UNCHANGED <<op, top, arg, rv>>
    BY <1>1, <1>5 DEF ShrinkReturn
  <2> HIDE DEF t
  <2>2. Aimed(pc', op, arg, left', t)
    BY <1>2, <2>1 DEF Aimed
  <2> QED
    BY <1>1, <1>2, <1>3, <2>1, <2>2, Nearer DEF t, UnderWay
<1> QED
  BY <1>4, <1>5

LEMMA ShrinkInPlaceOnCourse ==
  ASSUME IInv, IInv', CallOnChain, OnCourse, ShrinkInPlace
  PROVE  (Store!Succeed \/ Store!Advance \/ UNCHANGED Store!vars) /\ OnCourse'
<1> DEFINE t == TotalOf(next, size, top)
<1>1. /\ AtLastToShrink /\ pc = "shrink" /\ left >= 1 /\ ShrinkReturn
      /\ size' = [size EXCEPT ![cur] = @ - left]
      /\ UNCHANGED <<inodeMap, next, files>>
  BY DEF ShrinkInPlace, AtLastToShrink, Shrinkable
<1>2. cur \in Inums /\ size[cur] \in Int /\ size \in [Inums -> Int] /\ left \in Int
  BY <1>1, CurIsLast, LinkedNow DEF IInv, TypeOK
<1>3. /\ top \in files /\ op # "none" /\ t \in 0 .. MaxFileSize /\ t \in Int /\ arg \in Int
      /\ arg \in 0 .. MaxFileSize /\ op \in {"truncate", "free"} /\ t - left = arg
      /\ Aim = IF op = "write" THEN MAX(arg, t) ELSE arg
      /\ op = "free" => arg = 0
  BY <1>1, RunningFacts DEF Aimed
<1>4. OnlyCur
  BY <1>1, <1>2 DEF OnlyCur
<1>5. MovesTo(t - size[cur] + size'[cur])
  BY <1>1, <1>4, CurMoves
<1>6. size'[cur] = size[cur] - left
  BY <1>1, <1>2
<1> HIDE DEF t
<1>7. t - size[cur] + size'[cur] = arg /\ arg < t
  <2>1. t - size[cur] + size'[cur] = t - left
    BY <1>2, <1>3, <1>6
  <2> QED
    BY <1>1, <1>2, <1>3, <2>1
<1>8. MovesTo(arg)
  BY <1>5, <1>7
<1>9. CASE op = "truncate"
  <2>1. Return("ok") /\ arg = Aim /\ op \in {"truncate", "write"}
    BY <1>1, <1>3, <1>9 DEF ShrinkReturn
  <2> QED
    BY <1>1, <1>3, <1>8, <2>1, Reach DEF UnderWay
<1>10. CASE op # "truncate"
  <2>1. pc' = "clear" /\ UNCHANGED <<op, top, arg, rv>> /\ op # "write"
    BY <1>1, <1>3, <1>10 DEF ShrinkReturn
  <2>2. Aimed(pc', op, arg, left', arg)
    BY <1>3, <2>1 DEF Aimed
  <2>3. arg <= arg /\ arg < TotalOf(next, size, top)
    BY <1>3, <1>7 DEF t
  <2> QED
    BY <1>1, <1>3, <1>8, <2>1, <2>2, <2>3, Nearer DEF UnderWay
<1> QED
  BY <1>9, <1>10

\* the last block holds at least one byte and no more than is to go
LEMMA LastBlockBytes ==
  ASSUME IInv, DropLastBlock, left \in Int, left >= 1
  PROVE  DecreaseSize \in Int /\ 1 <= DecreaseSize /\ DecreaseSize <= left
         /\ size'[cur] = size[cur] - DecreaseSize /\ size[cur] \in Int
<1> DEFINE s == size[cur]
           u == UsedBlocks(cur)
<1>1. /\ LastSlot = u - 1 /\ LastSlot \in Slots /\ size'[cur] = BLOCK_SIZE * LastSlot
      /\ s \in Int /\ BytesToBlocks(s - left) # u /\ u = BytesToBlocks(s)
  BY DropLastBlockFacts, AtLastFacts DEF DropLastBlock, KeepsUsedBlocks, UsedBlocks
<1> HIDE DEF u, s
<1>2. u \in Int /\ u >= 1 /\ LastSlot \in Nat
  BY <1>1, BlocksInt DEF Slots
<1>3. s \in Nat
  BY <1>1, <1>2, BlocksSign
<1>4. BLOCK_SIZE * (u - 1) < s /\ s <= BLOCK_SIZE * u
  BY <1>1, <1>3, BlocksOfNat
<1>5. DecreaseSize = s - BLOCK_SIZE * (u - 1)
  BY <1>1 DEF DecreaseSize, s
<1>6. BLOCK_SIZE * (u - 1) \in Nat /\ BLOCK_SIZE * u \in Nat
  BY <1>2, SizesAssumption
<1>7. DecreaseSize \in Int /\ 1 <= DecreaseSize
  BY <1>3, <1>4, <1>5, <1>6
<1>8. ASSUME ~(DecreaseSize <= left) PROVE FALSE
  <2>1. BLOCK_SIZE * (u - 1) < s - left /\ s - left <= BLOCK_SIZE * u /\ s - left \in Nat
    BY <1>3, <1>4, <1>5, <1>6, <1>8
  <2>2. BytesToBlocks(s - left) = u
    BY <1>2, <2>1, BlocksUnique
  <2> QED
    BY <1>1, <2>2
<1>9. size'[cur] = s - DecreaseSize
  BY <1>1, <1>3, <1>5, <1>6
<1> QED
  BY <1>3, <1>7, <1>8, <1>9 DEF s

LEMMA DropBlockOnCourse ==
  ASSUME IInv, IInv', CallOnChain, OnCourse, ShrinkBlock \/ ShrinkChild
  PROVE  (Store!Advance \/ UNCHANGED Store!vars) /\ OnCourse'
<1> DEFINE t == TotalOf(next, size, top)
           m == DecreaseSize
<1>1. /\ DropLastBlock /\ AtLastToShrink /\ pc = "shrink" /\ left >= 1
      /\ left' = left - m
      /\ UNCHANGED <<files, pc, op, top, arg, rv>>
  BY DEF ShrinkBlock, ShrinkChild, DropLastBlock, AtLastToShrink, Shrinkable
<1>2. left \in Int
  BY DEF IInv, TypeOK
<1>3. m \in Int /\ 1 <= m /\ m <= left /\ size'[cur] = size[cur] - m /\ size[cur] \in Int
  BY <1>1, <1>2, LastBlockBytes
<1>4. /\ top \in files /\ op # "none" /\ t \in 0 .. MaxFileSize /\ t \in Int /\ arg \in Int
      /\ arg \in 0 .. MaxFileSize /\ op \in {"truncate", "free"} /\ t - left = arg
      /\ op = "free" => arg = 0
  BY <1>1, RunningFacts DEF Aimed
<1>5. MovesTo(t - m)
  <2>1. CASE ShrinkBlock
    <3>1. OnlyCur
      BY <1>1, <2>1, DropLastBlockFacts DEF OnlyCur, ShrinkBlock
    <3>2. MovesTo(t - size[cur] + size'[cur])
      BY <1>1, <3>1, CurMoves
    <3> HIDE DEF t, m
    <3>3. t - size[cur] + size'[cur] = t - m
      BY <1>3, <1>4
    <3> QED
      BY <3>2, <3>3
  <2>2. CASE ShrinkChild
    <3>1. size[cur] = m /\ ShorterBy(next, size, files, top, cur, next', size')
      BY <2>2, ShrinkChildFacts
    <3> QED
      BY <1>1, <1>4, <3>1 DEF ShorterBy, MovesTo
  <2> QED
    BY <2>1, <2>2
<1> HIDE DEF t, m
<1>6. t - m \in 0 .. MaxFileSize /\ arg <= t - m /\ t - m < t /\ left' >= 0 /\ (t - m) - left' = arg
  BY <1>1, <1>2, <1>3, <1>4, SizesAssumption
<1>7. Aimed(pc', op, arg, left', t - m)
  BY <1>1, <1>4, <1>6 DEF Aimed
<1> QED
  BY <1>1, <1>4, <1>5, <1>6, <1>7, Nearer DEF t, UnderWay

(***************************************************************************)
(* The calls, and the ends of a free.                                      *)
(***************************************************************************)

LEMMA AllocOnCourse ==
  ASSUME IInv, IInv', OnCourse, Alloc
  PROVE  Store!Create /\ OnCourse'
<1>1. PICK i \in Inums \ inodeMap :
        /\ files' = files \cup {i} /\ TotalOf(next', size', i) = 0
        /\ \A g \in files : TotalOf(next', size', g) = TotalOf(next, size, g)
  BY AllocFacts
<1>2. pc = "idle" /\ UNCHANGED <<pc, op, top, arg, left>> /\ rv' = "ok" /\ op = "none"
  BY DEF Alloc, call, OnCourse
<1>3. i \notin files
  BY DEF IInv, TypeOK
<1>4. FileLengths' = [g \in files \cup {i} |-> IF g = i THEN 0 ELSE FileLengths[g]]
  <2>1. \A g \in files : FileLengths[g] = TotalOf(next, size, g)
    BY TotalIs DEF FileLengths
  <2>2. FileLengths' = [g \in files \cup {i} |-> TotalOf(next', size', g)]
    BY <1>1, TotalIsPrimed DEF FileLengths
  <2> QED
    BY <1>1, <1>3, <2>1, <2>2
<1>5. Doing = "none" /\ Doing' = Doing /\ top' = top /\ Aim' = Aim
  BY <1>2 DEF Doing, Aim
<1>6. Store!Create
  BY <1>2, <1>3, <1>4, <1>5, StoreActions
<1>7. InBounds'
  BY <1>1, SizesAssumption DEF OnCourse, InBounds
<1> QED
  BY <1>2, <1>6, <1>7 DEF OnCourse

LEMMA RefusedOnCourse ==
  ASSUME OnCourse, AllocNoInode
  PROVE  Store!NoRoom /\ OnCourse'
<1>1. /\ pc = "idle" /\ UNCHANGED <<pc, op, top, arg, left, next, size, files>>
      /\ rv' = "ENOSPC" /\ op = "none"
  BY DEF AllocNoInode, call, disk, OnCourse
<1>2. FileLengths' = FileLengths
  BY <1>1, TotalIs, TotalIsPrimed DEF FileLengths
<1>3. Doing = "none" /\ Doing' = Doing /\ Aim' = Aim
  BY <1>1 DEF Doing, Aim
<1>4. Store!NoRoom
  BY <1>1, <1>2, <1>3, StoreActions
<1> QED
  BY <1>1, <1>4 DEF OnCourse, InBounds

LEMMA BeginOnCourse ==
  ASSUME IInv, OnCourse, NEW o \in {"truncate", "write", "free"}, NEW f \in files,
         NEW n \in 0 .. MaxFileSize, o = "free" => n = 0, Begin(o, f, n)
  PROVE  Store!Ask(o, f, n) /\ OnCourse'
<1> DEFINE t == TotalOf(next, size, f)
<1>1. /\ pc = "idle" /\ pc' = "total" /\ op' = o /\ top' = f /\ arg' = n /\ rv' = rv
      /\ UNCHANGED <<next, size, files>> /\ op = "none"
  BY DEF Begin, disk, OnCourse
<1>2. t \in 0 .. MaxFileSize
  BY DEF OnCourse, InBounds
<1>3. FileLengths' = FileLengths
  BY <1>1, TotalIs, TotalIsPrimed DEF FileLengths
<1>4. FileLengths[f] = t
  BY TotalIs DEF FileLengths
<1>5. Aim' = IF o = "write" THEN MAX(n, t) ELSE n
  <2>1. TotalSize(top)' = t
    BY <1>1, TotalIsPrimed
  <2> QED
    BY <1>1, <2>1 DEF Aim
<1>6. Doing = "none" /\ Doing' = o
  BY <1>1 DEF Doing
<1> HIDE DEF t
<1>7. Aim' = IF o = "write" /\ n < FileLengths[f] THEN FileLengths[f] ELSE n
  BY <1>2, <1>4, <1>5, SizesAssumption DEF MAX
<1>8. Store!Ask(o, f, n)
  BY <1>1, <1>3, <1>6, <1>7, StoreActions
<1>9. Aimed(pc', op', arg', left', TotalOf(next', size', top'))
  BY <1>1 DEF Aimed
<1> QED
  BY <1>1, <1>8, <1>9 DEF OnCourse, InBounds

\* the daemon dies in the middle of a call
LEMMA DeathOnCourse ==
  ASSUME IInv, OnCourse, UnderWay, pc' \in {"fault", "abort"},
         UNCHANGED <<next, size, files, op, top, arg, left, rv>>
  PROVE  Store!Die /\ OnCourse'
<1>1. top \in files /\ op # "none" /\ Aimed(pc, op, arg, left, TotalOf(next, size, top))
  BY RunningFacts DEF UnderWay
<1>2. FileLengths' = FileLengths
  BY TotalIs, TotalIsPrimed DEF FileLengths
<1>3. Aim' = Aim
  <2>1. TotalSize(top)' = TotalSize(top)
    BY TotalIs, TotalIsPrimed
  <2> QED
    BY <2>1 DEF Aim, UnderWay
<1>4. Doing # "none" /\ Doing' = "dead"
  BY <1>1 DEF Doing, UnderWay
<1>5. Store!Die
  BY <1>2, <1>3, <1>4, StoreActions
<1>6. Aimed(pc', op', arg', left', TotalOf(next', size', top'))
  BY <1>1 DEF Aimed
<1> QED
  BY <1>5, <1>6 DEF OnCourse, InBounds

LEMMA ReleaseOnCourse ==
  ASSUME IInv, OnCourse, Release
  PROVE  (Store!Vanish \/ Store!Die) /\ OnCourse'
<1>1. CASE pc' = "abort"
  <2>1. pc = "clear" /\ UNCHANGED <<next, size, files, op, top, arg, left, rv>>
    BY <1>1 DEF Release, Return
  <2> QED
    BY <1>1, <2>1, DeathOnCourse DEF UnderWay
<1>2. CASE pc' # "abort"
  <2>1. /\ top \in files /\ files' = files \ {top} /\ Return("ok")
        /\ UNCHANGED <<size, next>> /\ TotalOf(next, size, top) = 0
    BY <1>2, ReleaseFacts
  <2>2. pc = "clear" /\ op = "free"
    BY DEF Release, IInv, TypeOK
  <2>3. pc' = "idle" /\ op' = "none" /\ top' = None /\ rv' = "ok"
    BY <2>1 DEF Return
  <2>4. Doing = "free" /\ Doing' = "none" /\ top' = -1 /\ Aim' = -1
    BY <2>2, <2>3 DEF Doing, Aim, None
  <2>5. FileLengths[top] = 0 /\ FileLengths' = [g \in files \ {top} |-> FileLengths[g]]
    BY <2>1, TotalIs, TotalIsPrimed DEF FileLengths
  <2>6. Store!Vanish
    BY <2>3, <2>4, <2>5, StoreActions
  <2>7. InBounds'
    BY <2>1 DEF OnCourse, InBounds
  <2> QED
    BY <2>3, <2>6, <2>7 DEF OnCourse
<1> QED
  BY <1>1, <1>2

LEMMA InitOnCourse ==
  ASSUME Init
  PROVE  Store!Init /\ OnCourse
<1>1. files = {} /\ pc = "idle" /\ op = "none" /\ top = None /\ rv = "ok"
  BY DEF Init
<1>2. FileLengths = [f \in {} |-> 0]
  BY <1>1 DEF FileLengths
<1>3. Doing = "none" /\ Aim = -1 /\ top = -1
  BY <1>1 DEF Doing, Aim, None
<1>4. Store!Init
  BY <1>1, <1>2, <1>3, StoreActions
<1> QED
  BY <1>1, <1>4 DEF OnCourse, InBounds

StoreStep == Store!Next \/ UNCHANGED Store!vars

LEMMA NextOnCourse ==
  ASSUME NoOverflow, IInv, ChainInv, OnCourse, [Next]_vars
  PROVE  StoreStep /\ OnCourse'
<1>0. IInv' /\ CallOnChain
  BY NextIInv DEF ChainInv
<1>1. CASE Alloc
  BY <1>0, <1>1, AllocOnCourse DEF Store!Next, StoreStep
<1>2. CASE AllocNoInode
  BY <1>2, RefusedOnCourse DEF Store!Next, StoreStep
<1>3. CASE \E f \in files, n \in 0 .. MaxFileSize : Truncate(f, n)
  <2>1. PICK f \in files, n \in 0 .. MaxFileSize : Begin("truncate", f, n)
    BY <1>3 DEF Truncate
  <2>2. Store!Ask("truncate", f, n) /\ OnCourse'
    BY <2>1, BeginOnCourse
  <2> QED
    BY <2>2, StoreActions DEF Store!Next, Store!Existing, StoreStep, FileLengths
<1>4. CASE \E f \in files, n \in 1 .. MaxFileSize : Write(f, n)
  <2>1. PICK f \in files, n \in 1 .. MaxFileSize : Begin("write", f, n)
    BY <1>4 DEF Write
  <2>2. n \in 0 .. MaxFileSize
    OBVIOUS
  <2>3. Store!Ask("write", f, n) /\ OnCourse'
    BY <2>1, <2>2, BeginOnCourse
  <2> QED
    BY <2>2, <2>3, StoreActions DEF Store!Next, Store!Existing, StoreStep, FileLengths
<1>5. CASE \E f \in files : Free(f)
  <2>1. PICK f \in files : Begin("free", f, 0)
    BY <1>5 DEF Free
  <2>2. 0 \in 0 .. MaxFileSize
    BY SizesAssumption
  <2>3. Store!Ask("free", f, 0) /\ OnCourse'
    BY <2>1, <2>2, BeginOnCourse
  <2> QED
    BY <2>3, StoreActions DEF Store!Next, Store!Existing, StoreStep, FileLengths
<1>6. CASE AddSize \/ Walk
  BY <1>6, HopOnCourse DEF Store!Next, StoreStep
<1>7. CASE SizeKnown
  BY <1>0, <1>7, SizeKnownOnCourse DEF Store!Next, StoreStep
<1>8. CASE GrowDone
  BY <1>8, GrowDoneOnCourse DEF Store!Next, StoreStep
<1>9. CASE GrowInPlace
  BY <1>0, <1>9, GrowInPlaceOnCourse DEF Store!Next, StoreStep
<1>10. CASE GrowBlock
  BY <1>0, <1>10, GrowBlockOnCourse DEF Store!Next, StoreStep
<1>11. CASE GrowChild
  BY <1>0, <1>11, GrowChildOnCourse DEF Store!Next, StoreStep
<1>12. CASE GrowNoBlock \/ GrowNoInode
  BY <1>0, <1>12, GrowFailsOnCourse DEF Store!Next, StoreStep
<1>13. CASE ShrinkDone
  BY <1>13, ShrinkDoneOnCourse DEF Store!Next, StoreStep
<1>14. CASE ShrinkInPlace
  BY <1>0, <1>14, ShrinkInPlaceOnCourse DEF Store!Next, StoreStep
<1>15. CASE ShrinkBlock \/ ShrinkChild
  BY <1>0, <1>15, DropBlockOnCourse DEF Store!Next, StoreStep
<1>16. CASE ShrinkUndefined
  <2>1. pc = "shrink" /\ pc' = "fault" /\ UNCHANGED <<next, size, files, op, top, arg, left, rv>>
    BY <1>16 DEF ShrinkUndefined, AtLastToShrink, disk
  <2>2. Store!Die /\ OnCourse'
    BY <2>1, DeathOnCourse DEF UnderWay
  <2> QED
    BY <2>2 DEF Store!Next, StoreStep
<1>17. CASE Release
  BY <1>17, ReleaseOnCourse DEF Store!Next, StoreStep
<1>18. CASE UNCHANGED vars
  <2>1. UNCHANGED <<next, size, files, pc, op, top, arg, left, rv>>
    BY <1>18 DEF vars, disk, call
  <2>2. FileLengths' = FileLengths /\ TotalSize(top)' = TotalSize(top)
    BY <2>1, TotalIs, TotalIsPrimed DEF FileLengths
  <2>3. Aim' = Aim /\ Doing' = Doing
    BY <2>1, <2>2 DEF Aim, Doing
  <2>4. OnCourse'
    BY <2>1 DEF OnCourse, InBounds
  <2> QED
    BY <2>1, <2>2, <2>3, <2>4, StoreActions DEF StoreStep
<1>19. CASE Daemon
  BY <1>6, <1>7, <1>8, <1>9, <1>10, <1>11, <1>12, <1>13, <1>14, <1>15, <1>16, <1>17, <1>19
  DEF Daemon
<1> QED
  BY <1>1, <1>2, <1>3, <1>4, <1>5, <1>18, <1>19 DEF Next, Caller

\* every call is on its way to the size it was asked for
LEMMA CourseInvariant ==
  ASSUME NoOverflow
  PROVE  Spec => [](IInv /\ ChainInv /\ OnCourse)
<1>1. Init => IInv /\ ChainInv /\ OnCourse
  BY InitIInv, InitChains, InitOnCourse
<1>2. IInv /\ ChainInv /\ OnCourse /\ [Next]_vars => (IInv /\ ChainInv /\ OnCourse)'
  BY NextIInv, NextChains, NextOnCourse
<1> QED
  BY <1>1, <1>2, PTL DEF Spec

(* The inode layer is a store of file sizes: behind the chains, the blocks *)
(* and the recursion of inode_grow and inode_shrink, each call moves the   *)
(* size of its one file towards its aim and never past it, succeeds only   *)
(* there, and fails only for want of space, with the file on the way.      *)
THEOREM InodeImplementsStore ==
  ASSUME NoOverflow
  PROVE  Spec => StoreSpec
<1>1. Init => Store!Init
  BY InitOnCourse
<1>2. IInv /\ ChainInv /\ OnCourse /\ [Next]_vars => [Store!Next]_(Store!vars)
  BY NextOnCourse DEF StoreStep
<1> QED
  BY <1>1, <1>2, CourseInvariant, PTL DEF Spec, StoreSpec, Store!Spec

(* storage_truncate: "Grow the inode if the delta > 0" (storage.c:405). A   *)
(* truncate that returns 0 has left the size it was asked for, as long as   *)
(* no size is beyond half the range of the int that delta is kept in.       *)
THEOREM TruncateIsExact ==
  ASSUME NoOverflow
  PROVE  Spec => TruncateReaches
<1>1. ASSUME IInv, ChainInv, OnCourse, [Next]_vars,
             NEW f \in files, op = "truncate", f = top, pc' = "idle", rv' = "ok"
      PROVE  TotalSize(f)' = arg
  <2>1. StoreStep /\ OnCourse'
    BY <1>1, NextOnCourse
  <2>2. Doing \in {"truncate", "dead"} /\ Doing' = "none"
    BY <1>1, <2>1 DEF Doing, OnCourse
  <2>3. Store!Succeed
    BY <1>1, <2>1, <2>2, StoreActions DEF StoreStep, Store!Next
  <2>4. FileLengths' = [FileLengths EXCEPT ![top] = Aim] /\ top \in DOMAIN FileLengths
    BY <1>1, <2>3, StoreActions
  <2>5. pc # "idle"
    BY <1>1 DEF OnCourse
  <2>6. Aim = arg
    BY <1>1, <2>5 DEF Aim
  <2>7. top \in files'
    BY <2>4 DEF FileLengths
  <2> QED
    BY <1>1, <2>4, <2>6, <2>7 DEF FileLengths
<1>2. IInv /\ ChainInv /\ OnCourse /\ [Next]_vars
        => [\A f \in files : op = "truncate" /\ f = top /\ pc' = "idle" /\ rv' = "ok" =>
              TotalSize(f)' = arg]_vars
  BY <1>1
<1> QED
  BY <1>2, CourseInvariant, PTL DEF Spec, TruncateReaches
=============================================================================

