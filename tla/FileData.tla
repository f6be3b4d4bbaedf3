------------------------------ MODULE FileData ------------------------------
(***************************************************************************)
(* The bytes of files: storage_read, storage_write and storage_truncate    *)
(* over the inode layer of Inode.                                          *)
(*                                                                         *)
(* A call first changes the size of its file, which are the actions of     *)
(* Inode, and then runs inode_block_iter over the blocks of the file, one  *)
(* block per action, with one of three iterators: fill, read or write.     *)
(* Blocks are not cleared when they are freed or allocated, so a block     *)
(* keeps the bytes of its last owner until something overwrites them.      *)
(***************************************************************************)
EXTENDS Inode

CONSTANTS
  Bytes,      \* the values of a byte; 0 is the fill of inode_grow_zero
  PAGE_SIZE,  \* bytes of a page of the kernel's page cache
  Buffers,    \* bound: what a caller writes
  Offsets,    \* bound: where a caller reads and writes
  Lengths,    \* bound: the sizes a caller truncates to
  MaxRead     \* bound: the longest read

ASSUME FileDataAssumption ==
  /\ Bytes \subseteq Nat /\ 0 \in Bytes
  /\ PAGE_SIZE \in Nat \ {0}
  /\ Buffers \subseteq Seq(Bytes) \ {<<>>}
  /\ Offsets \subseteq Nat /\ Lengths \subseteq Nat
  /\ MaxRead \in Nat
  /\ Lengths \subseteq 0 .. MaxFileSize
  /\ \A off \in Offsets, buf \in Buffers : off + Len(buf) <= MaxFileSize

VARIABLES
  data,    \* the bytes of every data block of the image
  phase,   \* "idle", "resize" (in the inode layer), "iter", "reply"
  io,      \* the request: kind, file, off, size, buf
  it,      \* inode_block_iter: block of the file, start in it, size, bytes left
  out,     \* the buffer of a read; None where nothing has been put
  before   \* history: the contents of the files when the call began

dataVars == <<data, phase, io, it, out, before>>
allVars == <<vars, dataVars>>

Byte == 0 .. BLOCK_SIZE - 1
NoIo == [kind |-> "none", file |-> None, off |-> 0, size |-> 0, buf |-> <<>>]
NoIter == [block |-> 0, start |-> 0, size |-> 0, left |-> 0]
NoOut == [n \in 0 .. MaxRead - 1 |-> None]
NoFiles == [f \in {} |-> <<>>]

(***************************************************************************)
(* Blocks of a file.                                                       *)
(***************************************************************************)

(* inode_get_bnum: block k of a file. *)
BlockNumSameIndex(f, k) ==
  LET from[n \in 0 .. k] ==
        [i \in Inums |-> IF n < INODE_LOCAL_BLOCK_CAP THEN blocks[i][n]
                         ELSE IF next[i] < 0 THEN None
                         ELSE from[n][next[i]]]
  IN from[k][f]
BlockNum(f, k) ==
  LET from[n \in 0 .. k] ==
        [i \in Inums |-> IF n < INODE_LOCAL_BLOCK_CAP THEN blocks[i][n]
                         ELSE IF next[i] < 0 THEN None
                         ELSE from[n - INODE_LOCAL_BLOCK_CAP][next[i]]]
  IN from[k][f]

(* The bytes of a file: those of the inodes of its chain, one after the    *)
(* other, in the order of their slots.                                     *)
Content(f) ==
  [n \in 1 .. TotalSize(f) |->
     LET i == Chain(f)[(n - 1) \div MaxLocalSize + 1]
         k == ((n - 1) % MaxLocalSize) \div BLOCK_SIZE
     IN data[blocks[i][k]][(n - 1) % BLOCK_SIZE]]
Contents == [f \in files |-> Content(f)]

(***************************************************************************)
(* Calls of the storage layer.                                             *)
(***************************************************************************)
Ask(k, f, off, n, buf) ==
  /\ phase = "idle"
  /\ io' = [kind |-> k, file |-> f, off |-> off, size |-> n, buf |-> buf]
  /\ before' = Contents

(* storage_write. The kernel splits a write at pages: nothing turns on     *)
(* big_writes or direct_io, and storage_write_iter relies on it.           *)
(* Offsets whose low bits are a negative int are left out: they end at an  *)
(* assertion or outside the image.                                         *)
OnePage(off, buf) == (off % PAGE_SIZE) + Len(buf) <= PAGE_SIZE

StorageWrite(f, off, buf) ==
  /\ f # ROOT_INUM
  /\ OnePage(off, buf)
  /\ ToInt(off) >= 0
  /\ Write(f, off + Len(buf))
  /\ Ask("write", f, off, Len(buf), buf)
  /\ phase' = "resize"
  /\ UNCHANGED <<data, it, out>>

(* storage_truncate and inode_grow_zero, which fills from the old end on.  *)
StorageTruncate(f, n) ==
  /\ f # ROOT_INUM
  /\ Truncate(f, n)
  /\ Ask("truncate", f, TotalSize(f), ToInt(n - TotalSize(f)), <<>>)
  /\ phase' = "resize"
  /\ UNCHANGED <<data, it, out>>

(* storage_unlink of the last name *)
StorageUnlink(f) ==
  /\ Free(f)
  /\ Ask("free", f, 0, 0, <<>>)
  /\ phase' = "resize"
  /\ UNCHANGED <<data, it, out>>

(* storage_mknod *)
StorageMknod ==
  /\ phase = "idle"
  /\ Alloc \/ AllocNoInode
  /\ UNCHANGED dataVars

(* inode_block_iter up to the first block. *)
StartIter(f, off, n) ==
  LET bytes == MIN(TotalSize(f) - ToInt(off), n) IN
  /\ phase' = "iter"
  /\ it' = [block |-> ToInt(off) \div BLOCK_SIZE, start |-> ToInt(off) % BLOCK_SIZE,
            size |-> bytes, left |-> bytes]

(* storage_read. The kernel does not ask for bytes beyond the end. *)
StorageRead(f, off, n) ==
  /\ f # ROOT_INUM
  /\ off < TotalSize(f)
  /\ Ask("read", f, off, n, <<>>)
  /\ StartIter(f, off, MIN(TotalSize(f) - off, n))
  /\ UNCHANGED <<vars, data, out>>

(***************************************************************************)
(* What the daemon does with the call.                                     *)
(***************************************************************************)

(* One step of the inode layer. *)
Resize ==
  /\ phase = "resize"
  /\ Daemon
  /\ UNCHANGED dataVars

(* The inode layer has returned. storage_write goes on to copy,            *)
(* inode_grow_zero to fill; after an error, a shrink or a free the call is *)
(* over, and so it is if there is nothing to fill.                         *)
Goes == rv = "ok" /\ io.size >= 1 /\ io.kind \in {"write", "truncate"}

ResizeDone ==
  /\ phase = "resize"
  /\ pc = "idle"
  /\ IF Goes THEN StartIter(io.file, io.off, io.size) ELSE phase' = "reply" /\ UNCHANGED it
  /\ UNCHANGED <<vars, data, io, out, before>>

(* What one turn of inode_block_iter's loop is about: n bytes of block b   *)
(* of the image from byte it.start on, the done-th of the request.         *)
Count == MIN(BLOCK_SIZE - it.start, it.left)
Bnum == BlockNum(io.file, it.block)
DoneBytes == it.size - it.left
Here == it.start .. it.start + Count - 1

TurnSameStart == it' = [it EXCEPT !.block = @ + 1, !.left = @ - Count]
TurnForever == it' = [it EXCEPT !.start = 0]
Turn == it' = [it EXCEPT !.block = @ + 1, !.start = 0, !.left = @ - Count]

(* inode_fill_iter *)
FillIterReset ==
  /\ io.kind = "truncate"
  /\ data' = [data EXCEPT ![Bnum] = [j \in Byte |-> IF j \in Here THEN None ELSE @[j]]]
  /\ UNCHANGED out
FillIter ==
  /\ io.kind = "truncate"
  /\ data' = [data EXCEPT ![Bnum] = [j \in Byte |-> IF j \in Here THEN 0 ELSE @[j]]]
  /\ UNCHANGED out

(* storage_write_iter: the offset it is given, DoneBytes, is not used.     *)
WriteIter ==
  /\ io.kind = "write"
  /\ data' = [data EXCEPT ![Bnum] =
                [j \in Byte |-> IF j \in Here THEN io.buf[j - it.start + 1] ELSE @[j]]]
  /\ UNCHANGED out

(* storage_read_iter *)
ReadIter ==
  /\ io.kind = "read"
  /\ out' = [j \in DOMAIN out |-> IF j \in DoneBytes .. DoneBytes + Count - 1
                                    THEN data[Bnum][it.start + j - DoneBytes] ELSE out[j]]
  /\ UNCHANGED data

BlockIter ==
  /\ phase = "iter"
  /\ it.left > 0
  /\ FillIter \/ WriteIter \/ ReadIter
  /\ Turn
  /\ UNCHANGED <<vars, phase, io, before>>

IterDone ==
  /\ phase = "iter"
  /\ it.left <= 0
  /\ phase' = "reply"
  /\ UNCHANGED <<vars, data, io, it, out, before>>

(* The answer goes back to the kernel. *)
Reply ==
  /\ phase = "reply"
  /\ phase' = "idle"
  /\ io' = NoIo
  /\ it' = NoIter
  /\ out' = NoOut
  /\ before' = NoFiles
  /\ UNCHANGED <<vars, data>>

(***************************************************************************)
(* The specification.                                                      *)
(***************************************************************************)
DataInit ==
  /\ Init
  /\ data = [b \in DataBlocks |-> [j \in Byte |-> 0]]
  /\ phase = "idle"
  /\ io = NoIo
  /\ it = NoIter
  /\ out = NoOut
  /\ before = NoFiles

Kernel ==
  \/ StorageMknod
  \/ \E f \in files, off \in Offsets, buf \in Buffers : StorageWrite(f, off, buf)
  \/ \E f \in files, n \in Lengths : StorageTruncate(f, n)
  \/ \E f \in files, off \in Offsets, n \in 1 .. MaxRead : StorageRead(f, off, n)
  \/ \E f \in files : StorageUnlink(f)

Handler == Resize \/ ResizeDone \/ BlockIter \/ IterDone \/ Reply

DataNext == Kernel \/ Handler

DataSpec == DataInit /\ [][DataNext]_allVars

(* A call the daemon has started runs to its end. *)
FairDataSpec == DataSpec /\ WF_allVars(Handler)

(***************************************************************************)
(* Properties.                                                             *)
(***************************************************************************)

(* The inode layer keeps its type, and the request and the loop over the   *)
(* blocks agree with where the call is.                                    *)
DataTypeOK ==
  /\ TypeOK
  /\ data \in [DataBlocks -> [Byte -> Bytes]]
  /\ phase \in {"idle", "resize", "iter", "reply"}
  /\ phase = "idle" <=> io.kind = "none"
  /\ phase # "resize" => pc = "idle"
  /\ it.left <= it.size
  /\ \A n \in DOMAIN out : out[n] \in Bytes \cup {None}

(* Every turn of the loop stays inside a block that the file holds: inside *)
(* a file inode_get_bnum never returns -1, whatever grew and shrank        *)
(* before, so block_get is asked for no block outside the image.           *)
TurnInFile ==
  phase = "iter" /\ it.left > 0 =>
    /\ it.start + Count <= BLOCK_SIZE
    /\ \E i \in inodeMap, k \in Slots : Owns(i, k) /\ blocks[i][k] = Bnum

(* Every call is answered, unless the inode layer has met the child it     *)
(* left empty or an assertion.                                             *)
CallsAnswered == phase # "idle" ~> phase = "idle" \/ pc \in {"fault", "abort"}

(* Requests as the byte array knows them.                                  *)
Requests ==
  {[kind |-> "write", file |-> f, off |-> off, size |-> Len(buf), buf |-> buf] :
     f \in Inums, off \in Offsets, buf \in Buffers}
  \cup {[kind |-> "truncate", file |-> f, off |-> 0, size |-> n, buf |-> <<>>] :
          f \in Inums, n \in Lengths}
  \cup {[kind |-> "read", file |-> f, off |-> off, size |-> n, buf |-> <<>>] :
          f \in Inums, off \in Offsets, n \in 1 .. MaxRead}
  \cup {[kind |-> "free", file |-> f, off |-> 0, size |-> 0, buf |-> <<>>] : f \in Inums}

(* storage_read, storage_write, storage_truncate and storage_unlink        *)
(* implement files that are sequences of bytes: a write changes the bytes  *)
(* it names, a truncate keeps what is below the new size and zeroes what   *)
(* it adds, a read returns what is there, and no call changes a byte of    *)
(* another file, whatever stale bytes and chains the blocks have.          *)
File == INSTANCE ByteArray WITH
  Files <- Inums,
  content <- IF phase \in {"idle", "reply"} THEN Contents ELSE before,
  call <- IF phase = "idle" THEN NoIo
          ELSE IF io.kind = "truncate" THEN [io EXCEPT !.off = 0, !.size = Len(before[io.file]) + @]
          ELSE io,
  answer <- IF phase # "reply" THEN [rv |-> "none", bytes |-> <<>>]
            ELSE IF io.kind = "read" THEN [rv |-> "ok", bytes |-> [n \in 1 .. it.size |-> out[n - 1]]]
            ELSE [rv |-> rv, bytes |-> <<>>]
FileSpec == File!Spec
=============================================================================
