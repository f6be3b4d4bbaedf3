----------------------------- MODULE InodeCrash -----------------------------
(***************************************************************************)
(* The inode layer with a daemon that can be killed at any store.          *)
(*                                                                         *)
(* The image is a shared map of a file (block_init), so the stores done    *)
(* before the daemon died are in the image the next one mounts, in order,  *)
(* and nothing of the call survives.  Between two levels of a recursion    *)
(* the image is one that Inode has; within a level it is one of the images *)
(* below, one for every store but the last.  There is no recovery: the     *)
(* next daemon uses the image as it is.                                    *)
(*                                                                         *)
(* A crash inside inode_shrink can leave its file damaged.  What becomes   *)
(* of an image after that is not followed.                                 *)
(***************************************************************************)
EXTENDS Inode, FiniteSets

CONSTANT MaxCrashes   \* bound: how often the daemon is killed

ASSUME CrashAssumption == MaxCrashes \in Nat

VARIABLES
  crashes,  \* how often it has been killed
  victim    \* the file whose shrinking a crash has interrupted half way, or None

crashVars == <<vars, crashes, victim>>

(* The image as one value. *)
Image == [blockMap |-> blockMap, inodeMap |-> inodeMap, size |-> size,
          blocks |-> blocks, next |-> next]

(* What inode_reset makes of inode i. *)
Fresh(m, i) == [m EXCEPT !.size[i] = 0, !.blocks[i] = EmptySlots, !.next[i] = None]

FreeBlocks == DataBlocks \ blockMap
FreeInums == {i \in Inums : FirstFreeInum(i)}
FirstFreeBlocks == {b \in FreeBlocks : \A c \in FreeBlocks : b <= c}

(***************************************************************************)
(* The images between the stores of one level.                             *)
(***************************************************************************)

(* inode_grow with a free slot: bit of the block, slot, size.              *)
GrowBlockSlotFirst(b) ==
  LET slot == [Image EXCEPT !.blocks[cur][UsedBlocks(cur)] = b]
      sized == [slot EXCEPT !.size[cur] = @ + MIN(BLOCK_SIZE, left)]
  IN {slot, sized}
GrowBlockImages(b) ==
  LET marked == [Image EXCEPT !.blockMap = @ \cup {b}]
      slot == [marked EXCEPT !.blocks[cur][UsedBlocks(cur)] = b]
  IN {marked, slot}

(* inode_grow with every slot used: size, inode_reset, bit of the inode,   *)
(* next.                                                                   *)
GrowChildEager(i) ==
  {[Fresh(Image, i) EXCEPT !.inodeMap = @ \cup {i}, !.blockMap = @ \cup {b}] : b \in FirstFreeBlocks}
GrowChildImages(i) ==
  LET full == [Image EXCEPT !.size[cur] = MaxLocalSize]
      fresh == Fresh(full, i)
      marked == [fresh EXCEPT !.inodeMap = @ \cup {i}]
  IN {full, fresh, marked}

GrowImages ==
  IF ~AtLastToGrow \/ FitsInUsedBlocks THEN {}
  ELSE IF UsedBlocks(cur) < INODE_LOCAL_BLOCK_CAP
    THEN UNION {GrowBlockImages(b) : b \in FirstFreeBlocks}
    ELSE UNION {GrowChildImages(i) : i \in FreeInums}

(* inode_shrink: bit of the block, slot, size; then for a chained inode    *)
(* that is empty its bit and the next of its predecessor.                  *)
ShrinkImages ==
  IF ~AtLastToShrink \/ KeepsUsedBlocks \/ LastSlot < 0 THEN {}
  ELSE LET freed == [Image EXCEPT !.blockMap = @ \ {blocks[cur][LastSlot]}]
           slot == [freed EXCEPT !.blocks[cur][LastSlot] = None]
           sized == [slot EXCEPT !.size[cur] = @ - DecreaseSize]
           unmarked == [sized EXCEPT !.inodeMap = @ \ {cur}]
       IN {freed, slot} \cup IF DropsWholeChild THEN {sized, unmarked} ELSE {}

(***************************************************************************)
(* Crashes.                                                                *)
(***************************************************************************)

(* The next daemon: no call in progress, and the image m.                  *)
Restart(m) ==
  /\ crashes < MaxCrashes
  /\ crashes' = crashes + 1
  /\ blockMap' = m.blockMap
  /\ inodeMap' = m.inodeMap
  /\ size' = m.size
  /\ blocks' = m.blocks
  /\ next' = m.next
  /\ Return("ok")

(* storage_unlink has taken the name away before it frees the inode. *)
FilesLeft == IF op = "free" THEN files \ {top} ELSE files

(* Between two levels. The child inode_grow has just linked is empty.      *)
CrashBetween ==
  /\ pc \notin {"idle", "fault"}
  /\ Restart(Image)
  /\ files' = FilesLeft
  /\ torn' = (torn \/ (op # "free" /\ GrowingChild(cur) /\ cur \notin files))
  /\ UNCHANGED victim

CrashInGrow ==
  /\ \E m \in GrowImages : Restart(m)
  /\ UNCHANGED <<files, torn, victim>>

CrashInShrink ==
  /\ \E m \in ShrinkImages : Restart(m)
  /\ files' = FilesLeft
  /\ victim' = IF op = "free" THEN None ELSE top
  /\ UNCHANGED torn

(* storage_mknod, between inode_alloc's stores and before the name exists.  *)
CrashInAlloc ==
  /\ pc = "idle"
  /\ \E i \in FreeInums :
       LET fresh == Fresh(Image, i) IN
       \E m \in {fresh, [fresh EXCEPT !.inodeMap = @ \cup {i}]} : Restart(m)
  /\ UNCHANGED <<files, torn, victim>>

Crash == CrashBetween \/ CrashInGrow \/ CrashInShrink \/ CrashInAlloc

CrashInit == Init /\ crashes = 0 /\ victim = None

(* inode_second_to_last_child walks from the head of the file: an inode    *)
(* that a crash has cut off is not found, even if its next is the same.    *)
InodesOf(F) == UNION {{Chain(f)[n] : n \in DOMAIN Chain(f)} : f \in F}
FromHead == pc = "shrink" => \A i \in Inums \ InodesOf({top}) : next'[i] = next[i]

Running == Next /\ FromHead /\ UNCHANGED <<crashes, victim>>

CrashNext == victim = None /\ (Running \/ Crash)

CrashSpec == CrashInit /\ [][CrashNext]_crashVars

(***************************************************************************)
(* Properties.                                                             *)
(***************************************************************************)

Holds(i, k) == blocks[i][k] # None

(* After any number of crashes, anywhere but in the shrinking of a file    *)
(* that still has a name: no two slots hold one block, what a file holds   *)
(* is marked, what it needs it holds, and the chains are disjoint lists of *)
(* allocated inodes.  A crash in a shrink damages only the file itself, at *)
(* first.                                                                  *)
Sound(F) ==
  /\ \A i, j \in InodesOf(F), k, l \in Slots :
       Holds(i, k) /\ Holds(j, l) /\ blocks[i][k] = blocks[j][l] => i = j /\ k = l
  /\ \A i \in InodesOf(F), k \in Slots :
       /\ Holds(i, k) => blocks[i][k] \in blockMap \cap DataBlocks
       /\ k < UsedBlocks(i) => Holds(i, k)
  /\ \A i \in InodesOf(F) :
       /\ i \in inodeMap
       /\ next[i] # None => next[i] \in inodeMap \ files /\ size[i] = MaxLocalSize
  /\ \A i, j \in InodesOf(F) : next[i] = next[j] /\ next[i] # None => i = j
CrashKeepsFiles == Sound(files \ {victim})

(* What nobody can reach or free any more: the marked blocks no file's     *)
(* size needs and the inodes in no chain.                                  *)
Needed == {blocks[x[1]][x[2]] : x \in {y \in InodesOf(files) \X Slots : y[2] < UsedBlocks(y[1])}}
Leaked == Cardinality((blockMap \cap DataBlocks) \ Needed)
          + Cardinality(inodeMap \ InodesOf(files))

(* One crash loses at most one block or one inode, unless it interrupts    *)
(* the freeing of a file, whose blocks are then lost.                      *)
LeakIsSmall ==
  [][crashes' # crashes /\ op # "free" => Leaked' <= Leaked + 1]_crashVars
=============================================================================
