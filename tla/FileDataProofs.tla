--------------------------- MODULE FileDataProofs ---------------------------
(***************************************************************************)
(* FileData runs the inode layer of Inode and adds the bytes: each of its  *)
(* steps is a step of Inode or leaves the inode layer alone.  So what      *)
(* InodeProofs proves of the inode layer holds while reads and writes run  *)
(* over it.                                                                *)
(*                                                                         *)
(* BlockNumFacts and InsideOwned say where inode_get_bnum finds a block:   *)
(* block CAP * q + r of a file is in slot r of inode q of its chain, and   *)
(* below the size of the file that slot holds a block.  DInv is what the   *)
(* request and the loop over the blocks know of the size of their file.    *)
(*                                                                         *)
(* BytesInv is what they know of its bytes.  Two bytes are never in the    *)
(* same place (SpotsApart), a step of the inode layer moves no byte that   *)
(* is in its file before and after it (SpotsKept), and a turn of the loop  *)
(* is about the bytes of the request it is to be about (TurnPlaces): so a  *)
(* call has its file where it is to be when it ends, and has left the      *)
(* other files alone.  FileDataImplementsBytes is that result.             *)
(***************************************************************************)
EXTENDS FileData, InodeProofs

(* A write ends at a size the inode layer can be asked for.                *)
LEMMA EndOfWrite ==
  ASSUME NEW off \in Offsets, NEW buf \in Buffers
  PROVE  off + Len(buf) \in 1 .. MaxFileSize
<1>1. off \in Nat /\ buf \in Seq(Bytes) /\ buf # <<>>
  BY FileDataAssumption
<1>2. Len(buf) \in Nat \ {0}
  BY <1>1
<1>3. off + Len(buf) <= MaxFileSize
  BY FileDataAssumption
<1> QED
  BY <1>1, <1>2, <1>3, SizesAssumption

LEMMA KernelStep ==
  ASSUME Kernel
  PROVE  [Next]_vars
<1>1. CASE StorageMknod
  BY <1>1 DEF StorageMknod, Next, Caller
<1>2. CASE \E f \in files, off \in Offsets, buf \in Buffers : StorageWrite(f, off, buf)
  <2>1. PICK f \in files, off \in Offsets, buf \in Buffers : Write(f, off + Len(buf))
    BY <1>2 DEF StorageWrite
  <2> QED
    BY <2>1, EndOfWrite DEF Next, Caller
<1>3. CASE \E f \in files, n \in Lengths : StorageTruncate(f, n)
  <2>1. PICK f \in files, n \in Lengths : Truncate(f, n)
    BY <1>3 DEF StorageTruncate
  <2>2. n \in 0 .. MaxFileSize
    BY FileDataAssumption
  <2> QED
    BY <2>1, <2>2 DEF Next, Caller
<1>4. CASE \E f \in files, off \in Offsets, n \in 1 .. MaxRead : StorageRead(f, off, n)
  BY <1>4 DEF StorageRead
<1>5. CASE \E f \in files : StorageUnlink(f)
  BY <1>5 DEF StorageUnlink, Next, Caller
<1> QED
  BY <1>1, <1>2, <1>3, <1>4, <1>5 DEF Kernel

LEMMA HandlerStep ==
  ASSUME Handler
  PROVE  [Next]_vars
<1>1. CASE Resize
  BY <1>1 DEF Resize, Next
<1>2. CASE ResizeDone
  BY <1>2 DEF ResizeDone
<1>3. CASE BlockIter
  BY <1>3 DEF BlockIter
<1>4. CASE IterDone
  BY <1>4 DEF IterDone
<1>5. CASE Reply
  BY <1>5 DEF Reply
<1> QED
  BY <1>1, <1>2, <1>3, <1>4, <1>5 DEF Handler

(* storage.c's reads, writes and truncates use the inode layer only through *)
(* its operations: FileData implements Inode.                              *)
THEOREM FileDataImplementsInode == DataSpec => Spec
<1>1. DataInit => Init
  BY DEF DataInit
<1>2. [DataNext]_allVars => [Next]_vars
  BY KernelStep, HandlerStep DEF DataNext, allVars, vars
<1> QED
  BY <1>1, <1>2, PTL DEF DataSpec, Spec

(* Whatever is read and written, no block belongs to two files, no reserved *)
(* block belongs to any, and every byte below a size has a block: so        *)
(* inode_get_bnum gives every turn of inode_block_iter a block of its file. *)
THEOREM FileDataStructure == DataSpec => []Structure
<1> QED
  BY FileDataImplementsInode, StructureSafe, PTL

(***************************************************************************)
(* Blocks of a file.                                                       *)
(***************************************************************************)

\* one unfolding of the recursion in BlockNum
BlockBody(n, i, h) ==
  IF n < INODE_LOCAL_BLOCK_CAP THEN blocks[i][n]
  ELSE IF next[i] < 0 THEN None
  ELSE h[n - INODE_LOCAL_BLOCK_CAP][next[i]]
BlockFcn(k) ==
  CHOOSE h : h = [n \in 0 .. k |->
                    [i \in Inums |-> IF n < INODE_LOCAL_BLOCK_CAP THEN blocks[i][n]
                                     ELSE IF next[i] < 0 THEN None
                                     ELSE h[n - INODE_LOCAL_BLOCK_CAP][next[i]]]]

LEMMA BlockNumIs == \A f, k : BlockNum(f, k) = BlockFcn(k)[k][f]
  BY DEF BlockNum, BlockFcn

LEMMA BlockFcnExists ==
  ASSUME NEW k \in Nat
  PROVE  \E h : h = [n \in 0 .. k |-> [i \in Inums |-> BlockBody(n, i, h)]]
<1> DEFINE Solves(m, h) == h = [n \in 0 .. m |-> [i \in Inums |-> BlockBody(n, i, h)]]
           S == {m \in 0 .. k : \E h : Solves(m, h)}
<1>1. 0 \in S
  <2> DEFINE h == [n \in 0 .. 0 |-> [i \in Inums |-> blocks[i][n]]]
  <2>1. Solves(0, h)
    BY SizesAssumption DEF BlockBody
  <2>2. 0 \in 0 .. k
    OBVIOUS
  <2> HIDE DEF Solves, h
  <2> QED
    BY <2>1, <2>2
<1>2. ASSUME NEW m \in 0 .. k - 1, m \in S PROVE m + 1 \in S
  <2>1. PICK g : Solves(m, g)
    BY <1>2
  <2> DEFINE h == [n \in 0 .. m + 1 |-> IF n = m + 1 THEN [i \in Inums |-> BlockBody(m + 1, i, g)] ELSE g[n]]
             e == [n \in 0 .. m + 1 |-> [i \in Inums |-> BlockBody(n, i, h)]]
  <2>2. ASSUME NEW n \in 0 .. m + 1 PROVE h[n] = e[n]
    <3>1. n >= INODE_LOCAL_BLOCK_CAP =>
            n - INODE_LOCAL_BLOCK_CAP \in 0 .. m
            /\ h[n - INODE_LOCAL_BLOCK_CAP] = g[n - INODE_LOCAL_BLOCK_CAP]
      BY SizesAssumption
    <3>2. \A i \in Inums : BlockBody(n, i, h) = BlockBody(n, i, g)
      BY <3>1, SizesAssumption DEF BlockBody
    <3>3. e[n] = [i \in Inums |-> BlockBody(n, i, g)]
      BY <3>2
    <3>4. h[n] = [i \in Inums |-> BlockBody(n, i, g)]
      <4>1. CASE n = m + 1
        BY <4>1
      <4>2. CASE n # m + 1
        <5>1. n \in 0 .. m
          BY <4>2
        <5> QED
          BY <4>2, <5>1, <2>1
      <4> QED
        BY <4>1, <4>2
    <3> QED
      BY <3>3, <3>4
  <2>3. h = e
    BY <2>2
  <2>4. Solves(m + 1, h)
    BY <2>3
  <2>5. m + 1 \in 0 .. k
    OBVIOUS
  <2> HIDE DEF Solves, h
  <2> QED
    BY <2>4, <2>5
<1>3. k \in S
  <2>1. k \in 0 .. k
    OBVIOUS
  <2> HIDE DEF S
  <2>2. 0 .. k \subseteq S
    BY <1>1, <1>2, UpTo
  <2> QED
    BY <2>1, <2>2
<1> QED
  BY <1>3

\* where block k of a file is: inode number q of its chain, slot r
LEMMA Split ==
  ASSUME NEW k \in Nat, NEW d \in Nat \ {0}
  PROVE  k \div d \in Nat /\ k % d \in 0 .. d - 1 /\ k = d * (k \div d) + (k % d)
  OBVIOUS

\* c holds p + q: q inodes further on
LEMMA Further ==
  ASSUME NEW q \in Nat, NEW r \in Slots, NEW C, C = INODE_LOCAL_BLOCK_CAP
  PROVE  /\ C * q + r \in Nat /\ (q = 0 => C * q + r = r /\ r < C)
         /\ q >= 1 => /\ C * q + r >= C
                      /\ (C * q + r) - C = C * (q - 1) + r
  BY SizesAssumption DEF Slots

\* inode_get_bnum finds the block in the slot of the chain's inode it is in
LEMMA BlockNumFacts ==
  ASSUME NEW f, NEW c, FileChain(next, inodeMap, files, f, c),
         NEW q \in 0 .. Len(c) - 1, NEW r \in Slots
  PROVE  BlockNum(f, INODE_LOCAL_BLOCK_CAP * q + r) = blocks[c[q + 1]][r]
<1> DEFINE C == INODE_LOCAL_BLOCK_CAP
           k == C * q + r
           h == BlockFcn(k)
           Right(m, p) == h[C * m + r][c[p]] = blocks[c[p + m]][r]
           S == {m \in 0 .. q : \A p \in 1 .. Len(c) - m : Right(m, p)}
<1>1. /\ Len(c) \in Nat /\ Len(c) >= 1 /\ c[1] = f
      /\ \A j \in 1 .. Len(c) : c[j] \in Inums
      /\ \A j \in 1 .. Len(c) - 1 : c[j + 1] = next[c[j]]
  <2>1. c \in Seq(Inums) /\ Len(c) \in Nat /\ Len(c) >= 1 /\ c[1] = f
        /\ \A j \in 1 .. Len(c) - 1 : c[j + 1] = next[c[j]]
    BY DEF FileChain
  <2> QED
    BY <2>1
<1>2. q \in Nat /\ r \in Nat /\ k \in Nat
  BY <1>1, Further DEF Slots
<1>3. h = [n \in 0 .. k |-> [i \in Inums |-> BlockBody(n, i, h)]]
  <2> HIDE DEF k
  <2> QED
    BY <1>2, BlockFcnExists DEF BlockFcn, BlockBody
<1> HIDE DEF h
<1>4. ASSUME NEW n \in 0 .. k, NEW i \in Inums
      PROVE  h[n][i] = BlockBody(n, i, h)
  <2> HIDE DEF k
  <2>1. h[n] = [j \in Inums |-> BlockBody(n, j, h)]
    BY <1>3
  <2> QED
    BY <2>1
<1>5. ASSUME NEW m \in 0 .. q PROVE C * m + r \in 0 .. k
  <2>1. m \in Nat /\ m <= q /\ C \in Nat
    BY <1>2, SizesAssumption
  <2>2. C * m \in Nat /\ C * m <= C * q
    BY <2>1, <1>2
  <2> DEFINE x == C * m
             y == C * q
  <2>3. x \in Nat /\ y \in Nat /\ x <= y
    BY <2>2, <1>2, SizesAssumption
  <2> HIDE DEF x, y
  <2>4. x + r \in 0 .. y + r
    BY <2>3, <1>2
  <2> QED
    BY <2>4 DEF x, y
<1>6. 0 \in S
  <2>1. ASSUME NEW p \in 1 .. Len(c) - 0 PROVE Right(0, p)
    <3>1. C * 0 + r = r /\ r < C /\ p + 0 = p /\ p \in 1 .. Len(c)
      BY <1>1, SizesAssumption DEF Slots
    <3>2. C * 0 + r \in 0 .. k
      BY <1>2, <1>5
    <3> HIDE DEF k
    <3>3. h[r][c[p]] = BlockBody(r, c[p], h)
      BY <1>1, <1>4, <3>1, <3>2
    <3> QED
      BY <3>1, <3>3 DEF BlockBody
  <2> QED
    BY <2>1, <1>2
<1>7. ASSUME NEW m \in 0 .. q - 1, m \in S PROVE m + 1 \in S
  <2>0. m \in Nat /\ m + 1 \in Nat /\ m + 1 \in 0 .. q /\ m + 1 >= 1 /\ (m + 1) - 1 = m
    BY <1>2
  <2>1. ASSUME NEW p \in 1 .. Len(c) - (m + 1) PROVE Right(m + 1, p)
    <3>1. /\ p \in 1 .. Len(c) - 1 /\ p \in 1 .. Len(c) /\ p + 1 \in 1 .. Len(c) - m
          /\ (p + 1) + m = p + (m + 1) /\ p + 1 \in 1 .. Len(c)
      <4> DEFINE l == Len(c)
      <4>1. l \in Nat /\ m \in Nat /\ p \in 1 .. l - (m + 1)
        BY <1>1, <2>0
      <4> HIDE DEF l
      <4>2. /\ p \in 1 .. l - 1 /\ p \in 1 .. l /\ p + 1 \in 1 .. l - m
            /\ (p + 1) + m = p + (m + 1) /\ p + 1 \in 1 .. l
        BY <4>1
      <4> QED
        BY <4>2 DEF l
    <3>2. /\ C * (m + 1) + r >= C /\ (C * (m + 1) + r) - C = C * m + r /\ C * (m + 1) + r \in Nat
      <4> DEFINE w == m + 1
      <4>1. w \in Nat /\ w >= 1 /\ w - 1 = m
        BY <2>0
      <4> HIDE DEF w
      <4>2. C * w + r >= C /\ (C * w + r) - C = C * (w - 1) + r /\ C * w + r \in Nat
        BY <4>1, Further
      <4> QED
        BY <4>1, <4>2 DEF w
    <3>3. C * (m + 1) + r \in 0 .. k
      BY <1>5, <2>0
    <3>4. ~ (C * (m + 1) + r < C)
      BY <3>2, SizesAssumption
    <3>5. next[c[p]] = c[p + 1] /\ c[p + 1] \in Inums /\ ~ (next[c[p]] < 0)
      BY <1>1, <3>1, SizesAssumption DEF Inums
    <3>6. h[C * (m + 1) + r][c[p]] = BlockBody(C * (m + 1) + r, c[p], h)
      BY <1>1, <1>4, <3>1, <3>3
    <3>7. BlockBody(C * (m + 1) + r, c[p], h) = h[C * m + r][c[p + 1]]
      BY <3>2, <3>4, <3>5 DEF BlockBody
    <3>8. h[C * m + r][c[p + 1]] = blocks[c[(p + 1) + m]][r]
      BY <1>7, <3>1
    <3> QED
      BY <3>1, <3>6, <3>7, <3>8
  <2> QED
    BY <2>0, <2>1
<1>8. q \in S
  <2>1. q \in 0 .. q
    BY <1>2
  <2> HIDE DEF S
  <2>2. 0 .. q \subseteq S
    BY <1>2, <1>6, <1>7, UpTo
  <2> QED
    BY <2>1, <2>2
<1>9. 1 \in 1 .. Len(c) - q /\ 1 + q = q + 1
  BY <1>1, <1>2
<1>10. h[k][f] = blocks[c[q + 1]][r]
  BY <1>1, <1>8, <1>9
<1> QED
  BY <1>10, BlockNumIs DEF h

\* all inodes of a chain but the last are full
LEMMA FullChain ==
  ASSUME IInv, NEW f \in files, NEW c, c = ChainOf(next, f)
  PROVE  /\ FileChain(next, inodeMap, files, f, c)
         /\ \A j \in 1 .. Len(c) - 1 : size[c[j]] = MaxLocalSize
         /\ \A j \in 1 .. Len(c) : c[j] \in inodeMap /\ size[c[j]] \in Int
         /\ \A n \in 0 .. Len(c) - 1 : SumTo(size, c, n) = MaxLocalSize * n
         /\ TotalOf(next, size, f) = MaxLocalSize * (Len(c) - 1) + size[c[Len(c)]]
<1>1. FileChain(next, inodeMap, files, f, c) /\ size \in [Inums -> Int]
  BY LinkedNow, FileChainFacts
<1>2. /\ c \in Seq(Inums) /\ Len(c) \in Nat /\ Len(c) >= 1
      /\ \A j \in 1 .. Len(c) : c[j] \in inodeMap
      /\ \A j \in 1 .. Len(c) - 1 : c[j + 1] = next[c[j]]
  BY <1>1 DEF FileChain
<1>3. \A j \in 1 .. Len(c) : c[j] \in inodeMap /\ c[j] \in Inums /\ size[c[j]] \in Int
  BY <1>1, <1>2
<1>4. ASSUME NEW j \in 1 .. Len(c) - 1 PROVE size[c[j]] = MaxLocalSize
  <2>1. j \in 1 .. Len(c) /\ j + 1 \in 1 .. Len(c)
    BY <1>2
  <2>2. c[j] \in inodeMap /\ next[c[j]] \in Inums
    BY <1>2, <1>3, <2>1
  <2>3. next[c[j]] # None
    BY <2>2, SizesAssumption DEF Inums, None
  <2> QED
    BY <2>2, <2>3 DEF IInv, Structure, ChainsLinked
<1> DEFINE S == {n \in 0 .. Len(c) - 1 : SumTo(size, c, n) = MaxLocalSize * n}
<1>5. MaxLocalSize \in Nat
  BY BlocksOfMaxLocalSize
<1>6. 0 \in S
  <2>1. SumTo(size, c, 0) = 0
    BY <1>1, <1>2, SumFacts
  <2> QED
    BY <2>1, <1>2, <1>5
<1>7. ASSUME NEW n \in 0 .. (Len(c) - 1) - 1, n \in S PROVE n + 1 \in S
  <2>1. n + 1 \in 1 .. Len(c) - 1 /\ n + 1 \in 1 .. Len(c) /\ (n + 1) - 1 = n
        /\ n + 1 \in 0 .. Len(c) - 1 /\ n \in Nat
    BY <1>2
  <2>2. SumTo(size, c, n + 1) = SumTo(size, c, (n + 1) - 1) + size[c[n + 1]]
    BY <1>1, <1>2, <2>1, SumFacts
  <2>3. SumTo(size, c, n) = MaxLocalSize * n /\ size[c[n + 1]] = MaxLocalSize
    BY <1>4, <1>7, <2>1
  <2>4. MaxLocalSize * n + MaxLocalSize = MaxLocalSize * (n + 1)
    BY <1>5, <2>1
  <2> QED
    BY <2>1, <2>2, <2>3, <2>4
<1>8. 0 .. Len(c) - 1 \subseteq S
  <2>1. Len(c) - 1 \in Nat
    BY <1>2
  <2> HIDE DEF S
  <2> QED
    BY <1>6, <1>7, <2>1, UpTo
<1>9. \A n \in 0 .. Len(c) - 1 : SumTo(size, c, n) = MaxLocalSize * n
  BY <1>8
<1>10. TotalOf(next, size, f) = MaxLocalSize * (Len(c) - 1) + size[c[Len(c)]]
  <2>1. Len(c) \in 1 .. Len(c) /\ Len(c) - 1 \in 0 .. Len(c) - 1
    BY <1>2
  <2>2. SumTo(size, c, Len(c)) = SumTo(size, c, Len(c) - 1) + size[c[Len(c)]]
    BY <1>1, <1>2, <2>1, SumFacts
  <2>3. SumTo(size, c, Len(c) - 1) = MaxLocalSize * (Len(c) - 1)
    BY <1>9, <2>1
  <2> QED
    BY <2>2, <2>3 DEF TotalOf
<1> QED
  BY <1>1, <1>3, <1>4, <1>9, <1>10

\* what the slots of an inode cover
LEMMA InodeCovers ==
  ASSUME IInv, NEW i \in inodeMap
  PROVE  /\ size[i] \in Int /\ size[i] <= MaxLocalSize
         /\ \A r \in Slots : BLOCK_SIZE * r < size[i] => Owns(i, r) /\ r < UsedBlocks(i)
<1>1. size[i] \in Int /\ UsedBlocks(i) \in 0 .. INODE_LOCAL_BLOCK_CAP
  BY InodeTypes DEF IInv, Structure, SizeIsBacked
<1>2. CASE size[i] >= 0
  <2>1. /\ UsedBlocks(i) \in Nat /\ size[i] <= BLOCK_SIZE * UsedBlocks(i)
        /\ UsedBlocks(i) <= INODE_LOCAL_BLOCK_CAP
    BY <1>1, <1>2, BlocksOfNat, SizesAssumption DEF UsedBlocks
  <2> DEFINE u == UsedBlocks(i)
  <2> HIDE DEF u
  <2>2. u \in Nat /\ size[i] <= BLOCK_SIZE * u /\ u <= INODE_LOCAL_BLOCK_CAP
    BY <2>1 DEF u
  <2>3. BLOCK_SIZE * u <= BLOCK_SIZE * INODE_LOCAL_BLOCK_CAP
        /\ BLOCK_SIZE * u \in Nat /\ BLOCK_SIZE * INODE_LOCAL_BLOCK_CAP \in Nat
    BY <2>2, SizesAssumption
  <2>4. size[i] <= MaxLocalSize
    BY <1>1, <2>2, <2>3 DEF MaxLocalSize
  <2>5. ASSUME NEW r \in Slots, BLOCK_SIZE * r < size[i] PROVE Owns(i, r) /\ r < UsedBlocks(i)
    <3>1. r \in Nat
      BY DEF Slots
    <3>2. BLOCK_SIZE * r < BLOCK_SIZE * u /\ BLOCK_SIZE * r \in Nat
      BY <1>1, <2>2, <2>3, <2>5, <3>1, SizesAssumption
    <3>3. r < u
      BY <2>2, <3>1, <3>2, SizesAssumption
    <3> QED
      BY <3>3 DEF IInv, Structure, SizeIsBacked, u
  <2> QED
    BY <1>1, <2>4, <2>5
<1>3. CASE size[i] < 0
  <2>1. \A r \in Slots : BLOCK_SIZE * r >= 0
    BY SizesAssumption DEF Slots
  <2>2. \A r \in Slots : BLOCK_SIZE * r \in Int
    BY SizesAssumption DEF Slots
  <2>3. MaxLocalSize \in Nat
    BY BlocksOfMaxLocalSize
  <2> QED
    BY <1>1, <1>3, <2>1, <2>2, <2>3
<1> QED
  BY <1>1, <1>2, <1>3

\* a place below the size of a chain of n inodes is in one of them
LEMMA Below ==
  ASSUME NEW b \in Nat, NEW n \in Nat, n >= 1, NEW s \in Int, s <= MaxLocalSize,
         BLOCK_SIZE * b < MaxLocalSize * (n - 1) + s
  PROVE  \E q \in 0 .. n - 1, r \in Slots :
           /\ b = INODE_LOCAL_BLOCK_CAP * q + r
           /\ q = n - 1 => BLOCK_SIZE * r < s
<1> DEFINE q == b \div INODE_LOCAL_BLOCK_CAP
           r == b % INODE_LOCAL_BLOCK_CAP
<1>1. q \in Nat /\ r \in Slots /\ b = INODE_LOCAL_BLOCK_CAP * q + r
  BY Split, SizesAssumption DEF Slots
<1> HIDE DEF q, r
<1>2. MaxLocalSize \in Nat
  BY BlocksOfMaxLocalSize
<1>3. r \in Nat /\ r < INODE_LOCAL_BLOCK_CAP /\ BLOCK_SIZE * r \in Nat
  BY <1>1, SizesAssumption DEF Slots
<1>4. BLOCK_SIZE * b = MaxLocalSize * q + BLOCK_SIZE * r
  BY <1>1, <1>3, SizesAssumption DEF MaxLocalSize
<1>5. q <= n - 1
  <2>1. SUFFICES ASSUME q >= n PROVE FALSE
    BY <1>1
  <2>2. MaxLocalSize * q >= MaxLocalSize * n /\ MaxLocalSize * n = MaxLocalSize * (n - 1) + MaxLocalSize
        /\ MaxLocalSize * q \in Nat /\ MaxLocalSize * n \in Nat /\ MaxLocalSize * (n - 1) \in Nat
    BY <1>1, <1>2, <2>1
  <2> QED
    BY <1>2, <1>3, <1>4, <2>2
<1>6. q = n - 1 => BLOCK_SIZE * r < s
  <2>1. MaxLocalSize * (n - 1) \in Nat
    BY <1>2
  <2> QED
    BY <1>3, <1>4, <2>1
<1> QED
  BY <1>1, <1>5, <1>6

\* a block that begins below the size of a file is in a slot of its chain
LEMMA InsideOwned ==
  ASSUME IInv, NEW f \in files, NEW b \in Nat, BLOCK_SIZE * b < TotalOf(next, size, f)
  PROVE  \E q \in 0 .. Len(ChainOf(next, f)) - 1, r \in Slots :
           /\ b = INODE_LOCAL_BLOCK_CAP * q + r
           /\ ChainOf(next, f)[q + 1] \in inodeMap
           /\ Owns(ChainOf(next, f)[q + 1], r) /\ r < UsedBlocks(ChainOf(next, f)[q + 1])
           /\ BlockNum(f, b) = blocks[ChainOf(next, f)[q + 1]][r]
<1> DEFINE c == ChainOf(next, f)
<1>1. /\ FileChain(next, inodeMap, files, f, c)
      /\ \A j \in 1 .. Len(c) - 1 : size[c[j]] = MaxLocalSize
      /\ \A j \in 1 .. Len(c) : c[j] \in inodeMap
      /\ TotalOf(next, size, f) = MaxLocalSize * (Len(c) - 1) + size[c[Len(c)]]
  BY FullChain
<1>2. Len(c) \in Nat /\ Len(c) >= 1
  BY <1>1 DEF FileChain
<1> HIDE DEF c
<1>3. Len(c) \in 1 .. Len(c) /\ c[Len(c)] \in inodeMap
  BY <1>1, <1>2
<1> DEFINE s == size[c[Len(c)]]
           n == Len(c)
<1>4. s \in Int /\ s <= MaxLocalSize /\ n \in Nat /\ n >= 1
      /\ BLOCK_SIZE * b < MaxLocalSize * (n - 1) + s
  BY <1>1, <1>2, <1>3, InodeCovers
<1>5. PICK q \in 0 .. n - 1, r \in Slots :
        b = INODE_LOCAL_BLOCK_CAP * q + r /\ (q = n - 1 => BLOCK_SIZE * r < s)
  <2> HIDE DEF n, s
  <2> QED
    BY <1>4, Below
<1>6. q + 1 \in 1 .. Len(c) /\ (q # n - 1 => q + 1 \in 1 .. Len(c) - 1) /\ (q = n - 1 => q + 1 = Len(c))
  BY <1>2
<1>7. c[q + 1] \in inodeMap
  BY <1>1, <1>6
<1>8. BLOCK_SIZE * r < size[c[q + 1]]
  <2>1. CASE q = n - 1
    BY <1>5, <1>6, <2>1
  <2>2. CASE q # n - 1
    <3>1. size[c[q + 1]] = MaxLocalSize
      BY <1>1, <1>6, <2>2
    <3>2. r \in Nat /\ r < INODE_LOCAL_BLOCK_CAP
      BY SizesAssumption DEF Slots
    <3>3. BLOCK_SIZE * r < BLOCK_SIZE * INODE_LOCAL_BLOCK_CAP
      BY <3>2, SizesAssumption
    <3> QED
      BY <3>1, <3>3 DEF MaxLocalSize
  <2> QED
    BY <2>1, <2>2
<1>9. Owns(c[q + 1], r) /\ r < UsedBlocks(c[q + 1])
  BY <1>7, <1>8, InodeCovers
<1>10. BlockNum(f, b) = blocks[c[q + 1]][r]
  <2>1. BlockNum(f, INODE_LOCAL_BLOCK_CAP * q + r) = blocks[c[q + 1]][r]
    BY <1>1, BlockNumFacts
  <2> QED
    BY <2>1, <1>5
<1> QED
  BY <1>5, <1>7, <1>9, <1>10 DEF c

(***************************************************************************)
(* The request and the loop over the blocks.                               *)
(***************************************************************************)
RequestOK ==
  /\ io.kind \in {"write", "truncate", "read", "free"}
  /\ io.off \in 0 .. MaxFileSize
  /\ io.size \in Int
  /\ io.kind = "write" => io.buf \in Seq(Bytes) /\ Len(io.buf) = io.size
  /\ io.kind # "free" => io.file \in files

ResizeOK == io.kind # "read" /\ (pc # "idle" => op = io.kind)

IterType == it \in [block : Int, start : Int, size : Int, left : Int] /\ it.left <= it.size
IterOK ==
  /\ io.kind # "free"
  /\ it.start \in Byte /\ it.size <= io.size
  /\ it.left > 0 =>
       it.block \in Nat /\ BLOCK_SIZE * it.block + it.start + it.left <= TotalOf(next, size, io.file)

DInv ==
  /\ data \in [DataBlocks -> [Byte -> Bytes]]
  /\ out \in [0 .. MaxRead - 1 -> Bytes \cup {None}]
  /\ phase \in {"idle", "resize", "iter", "reply"}
  /\ phase = "idle" <=> io.kind = "none"
  /\ phase # "resize" => pc = "idle"
  /\ IterType
  /\ phase # "idle" => RequestOK
  /\ phase = "resize" => ResizeOK
  /\ phase = "iter" => IterOK

LayerInv == IInv /\ ChainInv /\ OnCourse

LEMMA TotalInBounds ==
  ASSUME OnCourse, NEW f \in files
  PROVE  TotalSize(f) \in 0 .. MaxFileSize
  BY TotalIs DEF OnCourse, InBounds

\* the loop starts at the place its offset is in
LEMMA StartFacts ==
  ASSUME NoOverflow, NEW f, TotalSize(f) \in 0 .. MaxFileSize,
         NEW off \in 0 .. MaxFileSize, NEW n \in Int, StartIter(f, off, n)
  PROVE  /\ phase' = "iter" /\ IterType' /\ it'.start \in Byte /\ it'.size <= n /\ it'.block \in Nat
         /\ it'.size = MIN(TotalSize(f) - off, n) /\ it'.left = it'.size
         /\ BLOCK_SIZE * it'.block + it'.start = off
         /\ BLOCK_SIZE * it'.block + it'.start + it'.left <= TotalSize(f)
<1>1. ToInt(off) = off
  BY ToIntExact, SizesAssumption
<1> DEFINE t == TotalSize(f)
           m == MIN(t - off, n)
           b == off \div BLOCK_SIZE
           s == off % BLOCK_SIZE
<1>2. phase' = "iter" /\ it' = [block |-> b, start |-> s, size |-> m, left |-> m]
  BY <1>1 DEF StartIter
<1>3. t - off \in Int /\ off \in Nat /\ t \in Int
  BY SizesAssumption
<1>4. b \in Nat /\ s \in Byte /\ off = BLOCK_SIZE * b + s
  BY <1>3, Split, SizesAssumption DEF Byte
<1>5. m \in Int /\ m <= t - off /\ m <= n
  BY <1>3 DEF MIN
<1> HIDE DEF t, m, b, s
<1>6. off + m <= t
  BY <1>3, <1>5
<1>7. BLOCK_SIZE * b + s + m = off + m
  BY <1>4
<1>8. b \in Int /\ s \in Int
  BY <1>4, SizesAssumption DEF Byte
<1>9. it'.block = b /\ it'.start = s /\ it'.size = m /\ it'.left = m
  BY <1>2
<1>10. IterType'
  BY <1>2, <1>5, <1>8 DEF IterType
<1> QED
  BY <1>2, <1>4, <1>5, <1>6, <1>7, <1>9, <1>10 DEF t, m

\* one turn of the loop is in one block, and the next begins where it ends
LEMMA TurnFacts ==
  ASSUME IInv, OnCourse, DInv, phase = "iter", it.left > 0
  PROVE  /\ Count \in 1 .. BLOCK_SIZE /\ Count <= it.left /\ it.start + Count <= BLOCK_SIZE
         /\ it.start \in Byte /\ it.left \in Int /\ it.block \in Nat
         /\ Count < it.left => it.start + Count = BLOCK_SIZE
         /\ io.file \in files
         /\ BLOCK_SIZE * it.block < TotalOf(next, size, io.file)
<1>1. /\ it.start \in Byte /\ it.left \in Int /\ it.left >= 1 /\ it.block \in Nat
      /\ BLOCK_SIZE * it.block + it.start + it.left <= TotalSize(io.file)
      /\ io.file \in files
  BY TotalIs DEF DInv, IterOK, IterType, RequestOK
<1>2. it.start \in Nat /\ it.start < BLOCK_SIZE /\ BLOCK_SIZE \in Nat
  BY <1>1, SizesAssumption DEF Byte
<1>3. /\ Count \in Int /\ Count <= it.left /\ Count <= BLOCK_SIZE - it.start
      /\ Count = BLOCK_SIZE - it.start \/ Count = it.left
  BY <1>1, <1>2 DEF Count, MIN
<1>4. TotalSize(io.file) \in Int /\ BLOCK_SIZE * it.block \in Int
  BY <1>1, <1>2, TotalInBounds
<1>5. BLOCK_SIZE * it.block < TotalSize(io.file)
  BY <1>1, <1>2, <1>4
<1> HIDE DEF Count
<1> QED
  BY <1>1, <1>2, <1>3, <1>5, TotalIs

LEMMA TurnKeeps ==
  ASSUME IInv, OnCourse, DInv, phase = "iter", it.left > 0, Turn
  PROVE  /\ IterType' /\ it'.start \in Byte /\ it'.size = it.size /\ it'.left = it.left - Count
         /\ it'.block \in Nat
         /\ it'.left > 0 => BLOCK_SIZE * it'.block + it'.start + it'.left <= TotalSize(io.file)
<1>1. /\ Count \in 1 .. BLOCK_SIZE /\ Count <= it.left /\ it.block \in Nat /\ it.left \in Int
      /\ it.start \in Byte /\ (Count < it.left => it.start + Count = BLOCK_SIZE) /\ io.file \in files
  BY TurnFacts
<1>2. it \in [block : Int, start : Int, size : Int, left : Int] /\ it.left <= it.size
  BY DEF DInv, IterType
<1>3. it' = [it EXCEPT !.block = it.block + 1, !.start = 0, !.left = it.left - Count]
  BY DEF Turn
<1>4. it'.block = it.block + 1 /\ it'.start = 0 /\ it'.size = it.size /\ it'.left = it.left - Count
  BY <1>2, <1>3
<1>5. 0 \in Byte /\ BLOCK_SIZE \in Nat
  BY SizesAssumption DEF Byte
<1>6. it.left - Count \in Int /\ it.left - Count <= it.size /\ it.block + 1 \in Nat /\ Count \in Int
      /\ it.block + 1 \in Int /\ 0 \in Int
  BY <1>1, <1>2, <1>5
<1>7. it' \in [block : Int, start : Int, size : Int, left : Int]
  BY <1>2, <1>3, <1>6
<1>8. ASSUME it'.left > 0 PROVE BLOCK_SIZE * it'.block + it'.start + it'.left <= TotalSize(io.file)
  <2>1. it.start + Count = BLOCK_SIZE
    BY <1>1, <1>4, <1>8
  <2>2. BLOCK_SIZE * it.block + it.start + it.left <= TotalSize(io.file)
    BY TotalIs DEF DInv, IterOK
  <2>3. BLOCK_SIZE * (it.block + 1) = BLOCK_SIZE * it.block + BLOCK_SIZE
        /\ BLOCK_SIZE * it.block \in Int
    BY <1>1, <1>5
  <2>4. TotalSize(io.file) \in Int /\ it.start \in Int
    BY <1>1, <1>2, TotalInBounds
  <2> DEFINE x == BLOCK_SIZE * it.block
             y == BLOCK_SIZE * (it.block + 1)
             t == TotalSize(io.file)
  <2> HIDE DEF x, y, t
  <2>5. y = x + BLOCK_SIZE /\ x + it.start + it.left <= t /\ x \in Int /\ t \in Int
    BY <2>2, <2>3, <2>4 DEF x, y, t
  <2>6. y + 0 + (it.left - Count) <= t
    BY <1>1, <1>5, <1>6, <2>1, <2>4, <2>5
  <2> QED
    BY <1>4, <2>6 DEF y, t
<1> QED
  BY <1>1, <1>4, <1>5, <1>6, <1>7, <1>8 DEF IterType

\* the block of a turn is one the file holds
LEMMA TurnBlock ==
  ASSUME IInv, OnCourse, DInv, phase = "iter", it.left > 0
  PROVE  /\ \E i \in inodeMap, k \in Slots : Owns(i, k) /\ blocks[i][k] = Bnum
         /\ Bnum \in DataBlocks
<1>1. it.block \in Nat /\ io.file \in files /\ BLOCK_SIZE * it.block < TotalOf(next, size, io.file)
  BY TurnFacts
<1>2. PICK i \in inodeMap, r \in Slots : Owns(i, r) /\ BlockNum(io.file, it.block) = blocks[i][r]
  BY <1>1, InsideOwned
<1>3. i \in Inums
  BY <1>2 DEF IInv, TypeOK
<1>4. blocks[i][r] \in DataBlocks
  BY <1>2, <1>3 DEF IInv, Structure, OwnedIsAllocated
<1> QED
  BY <1>2, <1>4 DEF Bnum

(***************************************************************************)
(* The steps of a call.                                                    *)
(***************************************************************************)

LEMMA SameTotals ==
  ASSUME UNCHANGED <<next, size>>
  PROVE  \A f : TotalSize(f)' = TotalSize(f)
  BY TotalIs, TotalIsPrimed

LEMMA InitDInv ==
  ASSUME DataInit
  PROVE  DInv
<1>1. /\ data = [b \in DataBlocks |-> [j \in Byte |-> 0]] /\ phase = "idle" /\ io = NoIo
      /\ it = NoIter /\ out = NoOut /\ pc = "idle"
  BY DEF DataInit, Init
<1>2. data \in [DataBlocks -> [Byte -> Bytes]] /\ out \in [0 .. MaxRead - 1 -> Bytes \cup {None}]
  BY <1>1, FileDataAssumption DEF NoOut
<1>3. io.kind = "none" /\ IterType
  BY <1>1 DEF NoIo, NoIter, IterType
<1> QED
  BY <1>1, <1>2, <1>3 DEF DInv

\* a call that starts with its size
LEMMA AskDInv ==
  ASSUME DInv, NEW k \in {"write", "truncate", "free"}, NEW f, NEW off, NEW n, NEW buf,
         Ask(k, f, off, n, buf), k # "free" => f \in files,
         off \in 0 .. MaxFileSize, n \in Int, k = "write" => buf \in Seq(Bytes) /\ Len(buf) = n,
         NEW e, Begin(k, f, e), phase' = "resize", UNCHANGED <<data, it, out>>
  PROVE  DInv'
<1>1. io' = [kind |-> k, file |-> f, off |-> off, size |-> n, buf |-> buf]
  BY DEF Ask
<1>2. io'.kind = k /\ io'.file = f /\ io'.off = off /\ io'.size = n /\ io'.buf = buf
  BY <1>1
<1>3. op' = k /\ files' = files
  BY DEF Begin
<1>4. RequestOK'
  BY <1>2, <1>3 DEF RequestOK
<1>5. ResizeOK'
  BY <1>2, <1>3 DEF ResizeOK
<1>6. IterType'
  BY DEF DInv, IterType
<1>7. io'.kind # "none"
  BY <1>2
<1> QED
  BY <1>4, <1>5, <1>6, <1>7 DEF DInv

LEMMA MknodDInv ==
  ASSUME DInv, StorageMknod
  PROVE  DInv'
<1>1. phase = "idle" /\ UNCHANGED dataVars
  BY DEF StorageMknod
<1>2. pc' = pc
  BY DEF StorageMknod, Alloc, AllocNoInode, call
<1>3. IterType' /\ UNCHANGED <<data, phase, io, it, out>>
  BY <1>1 DEF DInv, IterType, dataVars
<1> QED
  BY <1>1, <1>2, <1>3 DEF DInv

LEMMA KernelDInv ==
  ASSUME NoOverflow, LayerInv, DInv, Kernel
  PROVE  DInv'
<1>1. CASE StorageMknod
  BY <1>1, MknodDInv
<1>2. ASSUME NEW f \in files, NEW off \in Offsets, NEW buf \in Buffers, StorageWrite(f, off, buf)
      PROVE  DInv'
  <2>1. /\ Ask("write", f, off, Len(buf), buf) /\ Begin("write", f, off + Len(buf)) /\ phase' = "resize"
        /\ UNCHANGED <<data, it, out>>
    BY <1>2 DEF StorageWrite, Write
  <2>2. off \in Nat /\ buf \in Seq(Bytes) /\ off + Len(buf) \in 1 .. MaxFileSize
    BY EndOfWrite, FileDataAssumption
  <2>3. Len(buf) \in Nat
    BY <2>2
  <2>4. off \in 0 .. MaxFileSize
    BY <2>2, <2>3, SizesAssumption
  <2> QED
    BY <2>1, <2>2, <2>3, <2>4, AskDInv
<1>3. ASSUME NEW f \in files, NEW n \in Lengths, StorageTruncate(f, n)
      PROVE  DInv'
  <2>1. /\ Ask("truncate", f, TotalSize(f), ToInt(n - TotalSize(f)), <<>>) /\ Begin("truncate", f, n)
        /\ phase' = "resize" /\ UNCHANGED <<data, it, out>>
    BY <1>3 DEF StorageTruncate, Truncate
  <2>2. TotalSize(f) \in 0 .. MaxFileSize
    BY TotalInBounds DEF LayerInv
  <2>3. n \in 0 .. MaxFileSize
    BY FileDataAssumption
  <2>4. ToInt(n - TotalSize(f)) \in Int
    BY <2>2, <2>3, ToIntExact, SizesAssumption
  <2> QED
    BY <2>1, <2>2, <2>4, AskDInv
<1>4. ASSUME NEW f \in files, StorageUnlink(f)
      PROVE  DInv'
  <2>1. /\ Ask("free", f, 0, 0, <<>>) /\ Begin("free", f, 0) /\ phase' = "resize"
        /\ UNCHANGED <<data, it, out>>
    BY <1>4 DEF StorageUnlink, Free
  <2>2. 0 \in 0 .. MaxFileSize
    BY SizesAssumption
  <2> QED
    BY <2>1, <2>2, AskDInv
<1>5. ASSUME NEW f \in files, NEW off \in Offsets, NEW n \in 1 .. MaxRead, StorageRead(f, off, n)
      PROVE  DInv'
  <2> DEFINE m == MIN(TotalSize(f) - off, n)
  <2>1. /\ Ask("read", f, off, n, <<>>) /\ off < TotalSize(f) /\ StartIter(f, off, m)
        /\ UNCHANGED <<vars, data, out>>
    BY <1>5 DEF StorageRead
  <2>2. TotalSize(f) \in 0 .. MaxFileSize /\ off \in Nat /\ n \in Int
    BY TotalInBounds, FileDataAssumption DEF LayerInv
  <2>3. off \in 0 .. MaxFileSize
    BY <2>1, <2>2, SizesAssumption
  <2>4. m \in Int /\ m <= n
    BY <2>1, <2>2 DEF MIN
  <2> HIDE DEF m
  <2>5. /\ phase' = "iter" /\ IterType' /\ it'.start \in Byte /\ it'.size <= m /\ it'.block \in Nat
        /\ it'.left = it'.size
        /\ BLOCK_SIZE * it'.block + it'.start + it'.left <= TotalSize(f)
    BY <2>1, <2>2, <2>3, <2>4, StartFacts
  <2>6. /\ io' = [kind |-> "read", file |-> f, off |-> off, size |-> n, buf |-> <<>>]
        /\ phase = "idle"
    BY <2>1 DEF Ask
  <2>7. io'.kind = "read" /\ io'.file = f /\ io'.off = off /\ io'.size = n
    BY <2>6
  <2>8. files' = files /\ TotalSize(f)' = TotalSize(f) /\ pc' = pc
    BY <2>1, SameTotals DEF vars, disk, call
  <2>9. TotalOf(next', size', io'.file) = TotalSize(f)
    BY <2>7, <2>8, TotalIsPrimed
  <2>10. IterOK'
    <3>1. it'.size \in Int
      BY <2>5 DEF IterType
    <3> QED
      BY <2>2, <2>4, <2>5, <2>7, <2>9, <3>1 DEF IterOK
  <2>11. RequestOK'
    BY <2>2, <2>3, <2>7, <2>8 DEF RequestOK
  <2>12. pc' = "idle" /\ UNCHANGED <<data, out>>
    BY <2>1, <2>6, <2>8 DEF DInv
  <2> QED
    BY <2>5, <2>7, <2>10, <2>11, <2>12 DEF DInv
<1> QED
  BY <1>1, <1>2, <1>3, <1>4, <1>5 DEF Kernel

\* the call of the inode layer stays the one it was asked for, and only a free
\* takes a file away
LEMMA DaemonKeeps ==
  ASSUME IInv, Daemon
  PROVE  /\ pc # "idle" /\ (pc' # "idle" => op' = op)
         /\ op # "free" => files' = files
<1>1. pc = "clear" => op = "free"
  BY DEF IInv, TypeOK
<1>2. CASE AddSize \/ SizeKnown \/ Walk
  BY <1>2 DEF AddSize, SizeKnown, Walk
<1>3. CASE GrowDone \/ GrowInPlace \/ GrowNoBlock \/ GrowNoInode
  BY <1>3 DEF GrowDone, GrowInPlace, GrowNoBlock, GrowNoInode, Return, AtLastToGrow
<1>4. CASE GrowBlock \/ GrowChild
  BY <1>4 DEF GrowBlock, GrowChild, AtLastToGrow
<1>5. CASE ShrinkDone \/ ShrinkInPlace
  BY <1>5 DEF ShrinkDone, ShrinkInPlace, ShrinkReturn, Return, AtLastToShrink
<1>6. CASE ShrinkBlock \/ ShrinkChild \/ ShrinkUndefined
  BY <1>6 DEF ShrinkBlock, ShrinkChild, ShrinkUndefined, DropLastBlock, AtLastToShrink
<1>7. CASE Release
  BY <1>1, <1>7 DEF Release, Return
<1> QED
  BY <1>2, <1>3, <1>4, <1>5, <1>6, <1>7 DEF Daemon

LEMMA ResizeDInv ==
  ASSUME LayerInv, DInv, Resize
  PROVE  DInv'
<1>1. phase = "resize" /\ Daemon /\ UNCHANGED <<data, phase, io, it, out>>
  BY DEF Resize, dataVars
<1>2. /\ pc # "idle" /\ (pc' # "idle" => op' = op)
      /\ op # "free" => files' = files
  BY <1>1, DaemonKeeps DEF LayerInv
<1>3. RequestOK'
  BY <1>1, <1>2 DEF DInv, RequestOK, ResizeOK
<1>4. ResizeOK' /\ IterType'
  BY <1>1, <1>2 DEF DInv, ResizeOK, IterType
<1> QED
  BY <1>1, <1>3, <1>4 DEF DInv

LEMMA ResizeDoneDInv ==
  ASSUME NoOverflow, LayerInv, DInv, ResizeDone
  PROVE  DInv'
<1>1. /\ phase = "resize" /\ pc = "idle" /\ UNCHANGED <<vars, data, io, out, before>>
      /\ IF Goes THEN StartIter(io.file, io.off, io.size) ELSE phase' = "reply" /\ UNCHANGED it
  BY DEF ResizeDone
<1>2. UNCHANGED <<pc, op, files, next, size>>
  BY <1>1 DEF vars, disk, call
<1>3. RequestOK /\ RequestOK' /\ io.kind # "none"
  BY <1>1, <1>2 DEF DInv, RequestOK
<1>4. CASE Goes
  <2>1. io.kind # "free" /\ io.file \in files /\ io.off \in 0 .. MaxFileSize /\ io.size \in Int
    BY <1>3, <1>4 DEF RequestOK, Goes
  <2>2. TotalSize(io.file) \in 0 .. MaxFileSize
    BY <2>1, TotalInBounds DEF LayerInv
  <2>3. /\ phase' = "iter" /\ IterType' /\ it'.start \in Byte /\ it'.size <= io.size
        /\ it'.block \in Nat
        /\ BLOCK_SIZE * it'.block + it'.start + it'.left <= TotalSize(io.file)
    BY <1>1, <1>4, <2>1, <2>2, StartFacts
  <2>4. TotalOf(next', size', io'.file) = TotalSize(io.file)
    BY <1>1, <1>2, TotalIs
  <2>5. IterOK'
    BY <1>1, <2>1, <2>3, <2>4 DEF IterOK
  <2> QED
    BY <1>1, <1>2, <1>3, <2>3, <2>5 DEF DInv
<1>5. CASE ~ Goes
  <2>1. phase' = "reply" /\ IterType'
    BY <1>1, <1>5 DEF DInv, IterType
  <2> QED
    BY <1>1, <1>2, <1>3, <2>1 DEF DInv
<1> QED
  BY <1>4, <1>5

\* the bytes stay bytes
LEMMA TurnBytes ==
  ASSUME LayerInv, DInv, BlockIter
  PROVE  /\ data' \in [DataBlocks -> [Byte -> Bytes]]
         /\ out' \in [0 .. MaxRead - 1 -> Bytes \cup {None}]
<1>1. /\ phase = "iter" /\ it.left > 0 /\ (FillIter \/ WriteIter \/ ReadIter)
  BY DEF BlockIter
<1>2. /\ Count \in 1 .. BLOCK_SIZE /\ Count <= it.left /\ it.start + Count <= BLOCK_SIZE
      /\ it.start \in Byte /\ it.left \in Int /\ Bnum \in DataBlocks
  BY <1>1, TurnFacts, TurnBlock DEF LayerInv
<1>3. data \in [DataBlocks -> [Byte -> Bytes]] /\ out \in [0 .. MaxRead - 1 -> Bytes \cup {None}]
  BY DEF DInv
<1>4. data[Bnum] \in [Byte -> Bytes]
  BY <1>2, <1>3
<1>5. CASE FillIter
  <2> DEFINE v == [j \in Byte |-> IF j \in Here THEN 0 ELSE data[Bnum][j]]
  <2>1. data' = [data EXCEPT ![Bnum] = v] /\ out' = out
    BY <1>5 DEF FillIter
  <2>2. v \in [Byte -> Bytes]
    BY <1>4, FileDataAssumption
  <2> QED
    BY <1>3, <2>1, <2>2
<1>6. CASE WriteIter
  <2> DEFINE v == [j \in Byte |-> IF j \in Here THEN io.buf[j - it.start + 1] ELSE data[Bnum][j]]
  <2>1. data' = [data EXCEPT ![Bnum] = v] /\ out' = out
    BY <1>6 DEF WriteIter
  <2>2. io.buf \in Seq(Bytes) /\ it.left <= Len(io.buf)
    <3>1. io.buf \in Seq(Bytes) /\ Len(io.buf) = io.size /\ it.size <= io.size /\ it.left <= it.size
          /\ it.size \in Int
      BY <1>1, <1>6 DEF DInv, RequestOK, IterOK, IterType, WriteIter
    <3>2. Len(io.buf) \in Int
      BY <3>1
    <3> QED
      BY <1>2, <3>1, <3>2
  <2>3. ASSUME NEW j \in Here PROVE io.buf[j - it.start + 1] \in Bytes
    <3>1. it.start \in Int /\ j \in Int /\ j >= it.start /\ j <= it.start + Count - 1
      BY <1>2, <2>3, SizesAssumption DEF Here, Byte
    <3>2. Len(io.buf) \in Nat
      BY <2>2
    <3>3. j - it.start + 1 \in 1 .. Len(io.buf)
      BY <1>2, <2>2, <3>1, <3>2
    <3> QED
      BY <2>2, <3>3
  <2>4. v \in [Byte -> Bytes]
    BY <1>4, <2>3
  <2> QED
    BY <1>3, <2>1, <2>4
<1>7. CASE ReadIter
  <2>1. /\ out' = [j \in DOMAIN out |-> IF j \in DoneBytes .. DoneBytes + Count - 1
                                    THEN data[Bnum][it.start + j - DoneBytes] ELSE out[j]]
        /\ data' = data
    BY <1>7 DEF ReadIter
  <2>2. DoneBytes \in Int
    BY <1>2 DEF DInv, IterType, DoneBytes
  <2>3. ASSUME NEW j \in DoneBytes .. DoneBytes + Count - 1
        PROVE  data[Bnum][it.start + j - DoneBytes] \in Bytes
    <3>1. it.start + j - DoneBytes \in Byte
      BY <1>2, <2>2, SizesAssumption DEF Byte
    <3> QED
      BY <1>4, <3>1
  <2>4. DOMAIN out = 0 .. MaxRead - 1 /\ \A j \in DOMAIN out : out[j] \in Bytes \cup {None}
    BY <1>3
  <2>5. out' \in [0 .. MaxRead - 1 -> Bytes \cup {None}]
    BY <2>1, <2>3, <2>4
  <2> QED
    BY <1>3, <2>1, <2>5
<1> QED
  BY <1>1, <1>5, <1>6, <1>7

LEMMA BlockIterDInv ==
  ASSUME LayerInv, DInv, BlockIter
  PROVE  DInv'
<1>1. /\ phase = "iter" /\ it.left > 0 /\ Turn /\ UNCHANGED <<vars, phase, io>>
  BY DEF BlockIter
<1>2. UNCHANGED <<pc, op, files, next, size>>
  BY <1>1 DEF vars, disk, call
<1>3. RequestOK' /\ io.kind # "free" /\ io.kind # "none" /\ io.file \in files
  BY <1>1, <1>2 DEF DInv, RequestOK, IterOK
<1>4. /\ IterType' /\ it'.start \in Byte /\ it'.size = it.size /\ it'.block \in Nat
      /\ it'.left > 0 => BLOCK_SIZE * it'.block + it'.start + it'.left <= TotalSize(io.file)
  BY <1>1, TurnKeeps DEF LayerInv
<1>5. TotalOf(next', size', io'.file) = TotalSize(io.file)
  BY <1>1, <1>2, TotalIs
<1>6. IterOK'
  BY <1>1, <1>3, <1>4, <1>5 DEF DInv, IterOK
<1>7. /\ data' \in [DataBlocks -> [Byte -> Bytes]]
      /\ out' \in [0 .. MaxRead - 1 -> Bytes \cup {None}]
  BY TurnBytes
<1>8. pc = "idle"
  BY <1>1 DEF DInv
<1> QED
  BY <1>1, <1>2, <1>3, <1>4, <1>6, <1>7, <1>8 DEF DInv

LEMMA EndDInv ==
  ASSUME DInv, IterDone \/ Reply
  PROVE  DInv'
<1>1. UNCHANGED <<vars, data>>
  BY DEF IterDone, Reply
<1>2. UNCHANGED <<pc, op, files, next, size, data>>
  BY <1>1 DEF vars, disk, call
<1>3. CASE IterDone
  <2>1. phase = "iter" /\ phase' = "reply" /\ UNCHANGED <<io, it, out>>
    BY <1>3 DEF IterDone
  <2>2. RequestOK' /\ io.kind # "none" /\ IterType'
    BY <1>2, <2>1 DEF DInv, RequestOK, IterType
  <2> QED
    BY <1>2, <2>1, <2>2 DEF DInv
<1>4. CASE Reply
  <2>1. phase = "reply" /\ phase' = "idle" /\ io' = NoIo /\ it' = NoIter /\ out' = NoOut
    BY <1>4 DEF Reply
  <2>2. io'.kind = "none" /\ IterType' /\ out' \in [0 .. MaxRead - 1 -> Bytes \cup {None}]
    BY <2>1 DEF NoIo, NoIter, NoOut, IterType
  <2> QED
    BY <1>2, <2>1, <2>2 DEF DInv
<1> QED
  BY <1>3, <1>4

LEMMA NextDInv ==
  ASSUME NoOverflow, LayerInv, DInv, [DataNext]_allVars
  PROVE  LayerInv' /\ DInv'
<1>1. [Next]_vars
  BY KernelStep, HandlerStep DEF DataNext, allVars, vars
<1>2. LayerInv'
  BY <1>1, NextIInv, NextChains, NextOnCourse DEF LayerInv
<1>3. CASE Kernel
  BY <1>2, <1>3, KernelDInv
<1>4. CASE Handler
  BY <1>2, <1>4, ResizeDInv, ResizeDoneDInv, BlockIterDInv, EndDInv DEF Handler
<1>5. CASE UNCHANGED allVars
  <2>1. UNCHANGED <<data, phase, io, it, out>> /\ UNCHANGED <<pc, op, files, next, size>>
    BY <1>5 DEF allVars, dataVars, vars, disk, call
  <2>2. (RequestOK => RequestOK') /\ (ResizeOK => ResizeOK') /\ (IterType => IterType')
    BY <2>1 DEF RequestOK, ResizeOK, IterType
  <2>3. IterOK => IterOK'
    BY <2>1 DEF IterOK
  <2> QED
    BY <1>2, <2>1, <2>2, <2>3 DEF DInv
<1> QED
  BY <1>3, <1>4, <1>5 DEF DataNext

LEMMA DataInvariant ==
  ASSUME NoOverflow
  PROVE  DataSpec => [](LayerInv /\ DInv)
<1>1. DataInit => LayerInv /\ DInv
  <2>1. DataInit => Init
    BY DEF DataInit
  <2> QED
    BY <2>1, InitIInv, InitChains, InitOnCourse, InitDInv DEF LayerInv
<1>2. LayerInv /\ DInv /\ [DataNext]_allVars => (LayerInv /\ DInv)'
  BY NextDInv
<1> QED
  BY <1>1, <1>2, PTL DEF DataSpec

(* The inode layer keeps its type under the storage layer's calls, and the *)
(* request, the loop and the bytes agree with where a call is.             *)
THEOREM DataTypeCorrect ==
  ASSUME NoOverflow
  PROVE  DataSpec => []DataTypeOK
<1>1. LayerInv /\ DInv => DataTypeOK
  <2>1. LayerInv => TypeOK
    BY DEF LayerInv, IInv
  <2>2. DInv => \A n \in DOMAIN out : out[n] \in Bytes \cup {None}
    BY DEF DInv
  <2> QED
    BY <2>1, <2>2 DEF DInv, IterType, DataTypeOK
<1> QED
  BY <1>1, DataInvariant, PTL

(* inode_block_iter stays inside the file: whatever calls came before,     *)
(* every turn of its loop is within one block and that block is held by an *)
(* inode in use, so inode_get_bnum never returns -1 there.                 *)
THEOREM TurnsStayInFile ==
  ASSUME NoOverflow
  PROVE  DataSpec => []TurnInFile
<1>1. LayerInv /\ DInv => TurnInFile
  <2>1. ASSUME LayerInv, DInv, phase = "iter", it.left > 0
        PROVE  /\ it.start + Count <= BLOCK_SIZE
               /\ \E i \in inodeMap, k \in Slots : Owns(i, k) /\ blocks[i][k] = Bnum
    BY <2>1, TurnFacts, TurnBlock DEF LayerInv
  <2> QED
    BY <2>1 DEF TurnInFile
<1> QED
  BY <1>1, DataInvariant, PTL

(***************************************************************************)
(* Where the bytes of a file are.                                          *)
(***************************************************************************)

\* byte n of a file is in this inode of its chain and in this slot of it
Nth(n) == (n - 1) \div MaxLocalSize + 1
SlotOf(n) == ((n - 1) % MaxLocalSize) \div BLOCK_SIZE

Spot(f, n) == blocks[Chain(f)[Nth(n)]][SlotOf(n)]

Held(f, n) ==
  /\ Nth(n) \in 1 .. Len(Chain(f))
  /\ SlotOf(n) \in Slots
  /\ Owns(Chain(f)[Nth(n)], SlotOf(n)) /\ SlotOf(n) < UsedBlocks(Chain(f)[Nth(n)])

LEMMA DivUnique ==
  ASSUME NEW d \in Nat \ {0}, NEW q \in Nat, NEW r \in 0 .. d - 1
  PROVE  (d * q + r) \div d = q /\ (d * q + r) % d = r
<1> DEFINE x == d * q + r
           p == x \div d
           s == x % d
<1>1. x \in Nat
  OBVIOUS
<1>2. p \in Nat /\ s \in 0 .. d - 1 /\ x = d * p + s
  <2> HIDE DEF x
  <2> QED
    BY <1>1, Split
<1> HIDE DEF p, s
<1>3. d * q + r = d * p + s
  BY <1>2
<1>4. ~(p > q)
  <2>1. SUFFICES ASSUME p >= q + 1 PROVE FALSE
    BY <1>2
  <2>2. d * p >= d * (q + 1) /\ d * (q + 1) = d * q + d /\ d * p \in Nat /\ d * q \in Nat
    BY <1>2, <2>1
  <2> QED
    BY <1>2, <1>3, <2>2
<1>5. ~(q > p)
  <2>1. SUFFICES ASSUME q >= p + 1 PROVE FALSE
    BY <1>2
  <2>2. d * q >= d * (p + 1) /\ d * (p + 1) = d * p + d /\ d * p \in Nat /\ d * q \in Nat
    BY <1>2, <2>1
  <2> QED
    BY <1>2, <1>3, <2>2
<1>6. p = q
  BY <1>2, <1>4, <1>5
<1>7. s = r
  BY <1>2, <1>3, <1>6
<1> QED
  BY <1>6, <1>7 DEF p, s

\* the inode, the slot and the place in the block, from the number of the block
LEMMA PlaceOf ==
  ASSUME NEW q \in Nat, NEW r \in Slots, NEW j \in Byte, NEW n,
         n = BLOCK_SIZE * (INODE_LOCAL_BLOCK_CAP * q + r) + j + 1
  PROVE  /\ Nth(n) = q + 1 /\ SlotOf(n) = r
         /\ (n - 1) \div BLOCK_SIZE = INODE_LOCAL_BLOCK_CAP * q + r /\ (n - 1) % BLOCK_SIZE = j
<1> DEFINE B == BLOCK_SIZE
           C == INODE_LOCAL_BLOCK_CAP
           b == C * q + r
           m == B * r + j
<1>1. B \in Nat \ {0} /\ C \in Nat \ {0} /\ r \in Nat /\ r <= C - 1 /\ j \in 0 .. B - 1 /\ j \in Nat
  BY SizesAssumption DEF Slots, Byte
<1>2. b \in Nat
  BY <1>1
<1>3. (B * b + j) \div B = b /\ (B * b + j) % B = j /\ B * b \in Nat
  <2> HIDE DEF b, B
  <2>1. (B * b + j) \div B = b /\ (B * b + j) % B = j
    BY <1>1, <1>2, DivUnique
  <2>2. B * b \in Nat
    BY <1>1, <1>2
  <2> QED
    BY <2>1, <2>2
<1>4. n - 1 = B * b + j
  <2> DEFINE y == B * b
  <2>1. y \in Nat /\ n = y + j + 1
    <3>1. y \in Nat
      BY <1>3
    <3>2. n = y + j + 1
      OBVIOUS
    <3> QED
      BY <3>1, <3>2
  <2> HIDE DEF y
  <2>2. n - 1 = y + j
    BY <1>1, <2>1
  <2> QED
    BY <2>2 DEF y
<1>5. B * b = (B * C) * q + B * r
  BY <1>1
<1>6. B * C \in Nat \ {0} /\ m \in 0 .. B * C - 1
  <2>1. B * r <= B * (C - 1) /\ B * (C - 1) = B * C - B /\ B * r \in Nat /\ B * C \in Nat
    BY <1>1
  <2>2. m <= B * C - 1 /\ m \in Nat
    BY <1>1, <2>1
  <2>3. B * C # 0
    BY <1>1
  <2> QED
    BY <2>1, <2>2, <2>3
<1>7. m \div B = r
  <2> HIDE DEF B
  <2> QED
    BY <1>1, DivUnique DEF m
<1>8. n - 1 = (B * C) * q + m
  <2> DEFINE y == (B * C) * q
             z == B * r
  <2>1. y \in Nat /\ z \in Nat
    BY <1>1
  <2>2. n - 1 = (y + z) + j
    BY <1>4, <1>5
  <2> HIDE DEF y, z
  <2>3. n - 1 = y + (z + j)
    BY <1>1, <2>1, <2>2
  <2> QED
    BY <2>3 DEF y, z, m
<1> HIDE DEF m
<1>9. ((B * C) * q + m) \div (B * C) = q /\ ((B * C) * q + m) % (B * C) = m
  <2> DEFINE d == B * C
  <2>1. d \in Nat \ {0} /\ m \in 0 .. d - 1
    BY <1>6
  <2> HIDE DEF d
  <2>2. (d * q + m) \div d = q /\ (d * q + m) % d = m
    BY <2>1, DivUnique
  <2> QED
    BY <2>2 DEF d
<1>10. Nth(n) = q + 1 /\ SlotOf(n) = r
  BY <1>7, <1>8, <1>9 DEF Nth, SlotOf, MaxLocalSize
<1> QED
  BY <1>3, <1>4, <1>10

\* a byte below the size of its file is in a slot that holds a block
LEMMA ByteHeld ==
  ASSUME IInv, NEW f \in files, NEW n \in Nat, 1 <= n, n <= TotalSize(f)
  PROVE  /\ Held(f, n) /\ BlockNum(f, (n - 1) \div BLOCK_SIZE) = Spot(f, n)
         /\ (n - 1) \div BLOCK_SIZE = INODE_LOCAL_BLOCK_CAP * (Nth(n) - 1) + SlotOf(n)
<1> DEFINE b == (n - 1) \div BLOCK_SIZE
           j == (n - 1) % BLOCK_SIZE
           c == ChainOf(next, f)
<1>1. b \in Nat /\ j \in Byte /\ n - 1 = BLOCK_SIZE * b + j
  <2> DEFINE m == n - 1
  <2>1. m \in Nat
    OBVIOUS
  <2> HIDE DEF m
  <2>2. m \div BLOCK_SIZE \in Nat /\ m % BLOCK_SIZE \in Byte
        /\ m = BLOCK_SIZE * (m \div BLOCK_SIZE) + (m % BLOCK_SIZE)
    BY <2>1, Split, SizesAssumption DEF Byte
  <2> QED
    BY <2>2 DEF m
<1> HIDE DEF b, j
<1>2. TotalSize(f) \in Int /\ c \in Seq(Inums) /\ Len(c) \in Nat
  <2>1. FileChain(next, inodeMap, files, f, c) /\ size \in [Inums -> Int]
    BY LinkedNow, FileChainFacts
  <2>2. c \in Seq(Inums) /\ Len(c) \in Nat
    BY <2>1 DEF FileChain
  <2>3. SumTo(size, c, Len(c)) \in Int
    BY <2>1, <2>2, SumFacts
  <2> QED
    BY <2>2, <2>3, TotalIs DEF TotalOf
<1>3. BLOCK_SIZE * b < TotalOf(next, size, f)
  <2> DEFINE x == BLOCK_SIZE * b
  <2>1. x \in Nat /\ n - 1 = x + j /\ j \in Nat
    BY <1>1, SizesAssumption DEF Byte
  <2> HIDE DEF x
  <2>2. x < TotalSize(f)
    BY <1>2, <2>1
  <2> QED
    BY <2>2, TotalIs DEF x
<1>4. PICK q \in 0 .. Len(c) - 1, r \in Slots :
        /\ b = INODE_LOCAL_BLOCK_CAP * q + r
        /\ Owns(c[q + 1], r) /\ r < UsedBlocks(c[q + 1]) /\ BlockNum(f, b) = blocks[c[q + 1]][r]
  BY <1>1, <1>3, InsideOwned
<1>5. q \in Nat /\ q + 1 \in 1 .. Len(c)
  BY <1>2, <1>4
<1>6. n = BLOCK_SIZE * (INODE_LOCAL_BLOCK_CAP * q + r) + j + 1
  <2> DEFINE x == BLOCK_SIZE * b
  <2>1. x \in Nat /\ n - 1 = x + j /\ j \in Nat
    BY <1>1, SizesAssumption DEF Byte
  <2> HIDE DEF x
  <2>2. n = x + j + 1
    BY <2>1
  <2> QED
    BY <2>2, <1>4 DEF x
<1>7. Nth(n) = q + 1 /\ SlotOf(n) = r
  BY <1>1, <1>4, <1>5, <1>6, PlaceOf
<1>8. Chain(f) = c
  BY ChainIs
<1>9. Held(f, n) /\ BlockNum(f, b) = Spot(f, n)
  BY <1>4, <1>5, <1>7, <1>8 DEF Held, Spot
<1>10. b = INODE_LOCAL_BLOCK_CAP * (Nth(n) - 1) + SlotOf(n)
  <2>1. Nth(n) - 1 = q
    BY <1>5, <1>7
  <2> QED
    BY <1>4, <1>7, <2>1
<1> QED
  BY <1>9, <1>10 DEF b

AllHeld == \A f \in files : \A n \in Nat : 1 <= n /\ n <= TotalSize(f) => Held(f, n)

LEMMA HeldNow == IInv => AllHeld
  BY ByteHeld DEF AllHeld

LEMMA HeldThen == IInv' => AllHeld'
  BY HeldNow, PTL

\* no two bytes are in the same place
LEMMA SpotsApart ==
  ASSUME IInv, NEW f \in files, NEW m \in Nat, 1 <= m, m <= TotalSize(f),
         NEW g \in files, NEW n \in Nat, 1 <= n, n <= TotalSize(g), Spot(f, m) = Spot(g, n)
  PROVE  f = g /\ (m - 1) \div BLOCK_SIZE = (n - 1) \div BLOCK_SIZE
<1>1. /\ Held(f, m) /\ Held(g, n)
      /\ (m - 1) \div BLOCK_SIZE = INODE_LOCAL_BLOCK_CAP * (Nth(m) - 1) + SlotOf(m)
      /\ (n - 1) \div BLOCK_SIZE = INODE_LOCAL_BLOCK_CAP * (Nth(n) - 1) + SlotOf(n)
  BY ByteHeld
<1>2. Chain(f)[Nth(m)] = Chain(g)[Nth(n)] /\ SlotOf(m) = SlotOf(n)
  <2>1. Chain(f)[Nth(m)] \in inodeMap /\ Chain(g)[Nth(n)] \in inodeMap /\ inodeMap \subseteq Inums
    BY <1>1 DEF Held, Owns, IInv, TypeOK
  <2> QED
    BY <1>1, <2>1 DEF Held, Spot, IInv, Structure, NoSharedBlock
<1>3. f = g /\ Nth(m) = Nth(n)
  BY <1>1, <1>2, LinkedNow, ChainIs, ChainsApart DEF Held
<1> QED
  BY <1>1, <1>2, <1>3

(***************************************************************************)
(* The inode layer does not move bytes.                                    *)
(***************************************************************************)

\* a slot that is in use before a step and holds a block after it holds the same
SlotsKept ==
  \A i \in inodeMap : \A k \in Slots :
    k < UsedBlocks(i) /\ i \in inodeMap' /\ blocks'[i][k] # None => blocks'[i][k] = blocks[i][k]

\* as far as a chain goes before and after a step it is the same
ChainsKept ==
  \A f \in files : \A q \in 1 .. Len(Chain(f)) :
    f \in files' /\ q \in 1 .. Len(Chain(f)') => Chain(f)'[q] = Chain(f)[q]

LEMMA DaemonSlots ==
  ASSUME IInv, Daemon
  PROVE  SlotsKept
<1>1. CASE UNCHANGED blocks
  BY <1>1 DEF SlotsKept
<1>2. inodeMap \subseteq Inums /\ blocks \in [Inums -> [Slots -> Int]]
  BY DEF IInv, TypeOK
<1>3. CASE GrowBlock
  <2>1. /\ ~FitsInUsedBlocks /\ UsedBlocks(cur) < INODE_LOCAL_BLOCK_CAP
        /\ \E b \in Bnums : blocks' = [blocks EXCEPT ![cur][UsedBlocks(cur)] = b]
    BY <1>3 DEF GrowBlock
  <2>2. ASSUME NEW i \in inodeMap, NEW k \in Slots, k < UsedBlocks(i)
        PROVE  blocks'[i][k] = blocks[i][k]
    <3>1. ~(i = cur /\ k = UsedBlocks(cur))
      <4>1. k \in Int
        BY DEF Slots
      <4> QED
        BY <2>2, <4>1
    <3> HIDE DEF UsedBlocks
    <3> QED
      BY <1>2, <2>1, <3>1
  <2> QED
    BY <2>2 DEF SlotsKept
<1>4. CASE GrowChild
  <2>1. PICK i \in Inums : FirstFreeInum(i) /\ blocks' = [blocks EXCEPT ![i] = EmptySlots]
    BY <1>4 DEF GrowChild
  <2>2. i \notin inodeMap
    BY <2>1 DEF FirstFreeInum
  <2>3. \A j \in inodeMap : blocks'[j] = blocks[j]
    BY <1>2, <2>1, <2>2
  <2> QED
    BY <2>3 DEF SlotsKept
<1>5. CASE ShrinkBlock \/ ShrinkChild
  <2>1. blocks' = [blocks EXCEPT ![cur][LastSlot] = None]
    BY <1>5 DEF ShrinkBlock, ShrinkChild, DropLastBlock
  <2>2. ASSUME NEW i \in inodeMap, NEW k \in Slots, blocks'[i][k] # None
        PROVE  blocks'[i][k] = blocks[i][k]
    BY <1>2, <2>1, <2>2
  <2> QED
    BY <2>2 DEF SlotsKept
<1>6. CASE AddSize \/ SizeKnown \/ Walk
  BY <1>1, <1>6 DEF AddSize, SizeKnown, Walk, disk
<1>7. CASE GrowDone \/ GrowInPlace \/ GrowNoBlock \/ GrowNoInode
  BY <1>1, <1>7 DEF GrowDone, GrowInPlace, GrowNoBlock, GrowNoInode, disk
<1>8. CASE ShrinkDone \/ ShrinkInPlace \/ ShrinkUndefined \/ Release
  BY <1>1, <1>8 DEF ShrinkDone, ShrinkInPlace, ShrinkUndefined, Release, disk
<1> QED
  BY <1>3, <1>4, <1>5, <1>6, <1>7, <1>8 DEF Daemon

LEMMA DaemonChains ==
  ASSUME IInv, IInv', ChainInv, Daemon
  PROVE  ChainsKept
<1>1. CASE UNCHANGED next
  <2>1. \A f : Chain(f)' = Chain(f)
    BY <1>1, ChainIs, ChainIsPrimed
  <2> QED
    BY <2>1 DEF ChainsKept
<1>2. \A f \in files : Chain(f) \in Seq(Inums) /\ Len(Chain(f)) \in Nat
  BY LinkedNow, FileChainFacts, ChainIs DEF FileChain
<1>3. CASE GrowChild
  <2>1. PICK i : /\ ChainOf(next', top) = Append(ChainOf(next, top), i)
                 /\ i \in Inums
    BY <1>3, GrowChildFacts DEF ChainInv
  <2>2. \A g \in files : g # top => ChainOf(next', g) = ChainOf(next, g)
    BY <1>3, GrowChildFacts DEF ChainInv
  <2>3. ASSUME NEW f \in files, NEW q \in 1 .. Len(Chain(f)) PROVE Chain(f)'[q] = Chain(f)[q]
    <3>1. CASE f = top
      <4>1. Chain(f)' = Append(Chain(f), i)
        BY <2>1, <3>1, ChainIs, ChainIsPrimed
      <4> DEFINE c == Chain(f)
      <4>2. c \in Seq(Inums) /\ q \in 1 .. Len(c)
        BY <1>2
      <4> HIDE DEF c
      <4>3. Append(c, i)[q] = c[q]
        BY <2>1, <4>2
      <4> QED
        BY <4>1, <4>3 DEF c
    <3>2. CASE f # top
      BY <2>2, <3>2, ChainIs, ChainIsPrimed
    <3> QED
      BY <3>1, <3>2
  <2> QED
    BY <2>3 DEF ChainsKept
<1>4. CASE ShrinkChild
  <2>1. ShorterBy(next, size, files, top, cur, next', size')
    BY <1>4, ShrinkChildFacts DEF ChainInv
  <2>2. ASSUME NEW f \in files, NEW q \in 1 .. Len(Chain(f)), q \in 1 .. Len(Chain(f)')
        PROVE  Chain(f)'[q] = Chain(f)[q]
    <3>1. CASE f = top
      <4> DEFINE c == Chain(f)
                 d == Chain(f)'
      <4>1. d = SubSeq(c, 1, Len(c) - 1) /\ Len(c) >= 2
        BY <2>1, <3>1, ChainIs, ChainIsPrimed DEF ShorterBy
      <4>2. c \in Seq(Inums) /\ q \in 1 .. Len(d) /\ Len(c) \in Nat
        BY <1>2, <2>2
      <4> HIDE DEF c, d
      <4>3. Len(c) - 1 \in Nat /\ Len(c) - 1 <= Len(c)
        BY <4>1, <4>2
      <4>4. Len(d) = Len(c) - 1 /\ \A k \in 1 .. Len(c) - 1 : d[k] = c[k]
        BY <4>1, <4>2, <4>3, Prefix
      <4>5. d[q] = c[q]
        BY <4>2, <4>4
      <4> QED
        BY <4>5 DEF c, d
    <3>2. CASE f # top
      BY <2>1, <3>2, ChainIs, ChainIsPrimed DEF ShorterBy
    <3> QED
      BY <3>1, <3>2
  <2> QED
    BY <2>2 DEF ChainsKept
<1>5. CASE AddSize \/ SizeKnown \/ Walk
  BY <1>1, <1>5 DEF AddSize, SizeKnown, Walk, disk
<1>6. CASE GrowDone \/ GrowInPlace \/ GrowNoBlock \/ GrowNoInode \/ GrowBlock
  BY <1>1, <1>6 DEF GrowDone, GrowInPlace, GrowNoBlock, GrowNoInode, GrowBlock, disk
<1>7. CASE ShrinkDone \/ ShrinkInPlace \/ ShrinkUndefined \/ ShrinkBlock \/ Release
  BY <1>1, <1>7 DEF ShrinkDone, ShrinkInPlace, ShrinkUndefined, ShrinkBlock, Release, disk
<1> QED
  BY <1>3, <1>4, <1>5, <1>6, <1>7 DEF Daemon

\* a byte that is in its file before and after a step is in the same place
LEMMA SpotsKept ==
  ASSUME IInv, IInv', ChainInv, Daemon, NEW f \in files, f \in files',
         NEW n \in Nat, 1 <= n, n <= TotalSize(f), n <= TotalSize(f)'
  PROVE  Spot(f, n)' = Spot(f, n)
<1>1. Held(f, n) /\ Held(f, n)'
  BY HeldNow, HeldThen DEF AllHeld
<1>2. Chain(f)'[Nth(n)] = Chain(f)[Nth(n)]
  BY <1>1, DaemonChains DEF ChainsKept, Held
<1> DEFINE i == Chain(f)[Nth(n)]
           k == SlotOf(n)
<1>3. i \in inodeMap /\ k < UsedBlocks(i) /\ i \in inodeMap' /\ blocks'[i][k] # None /\ k \in Slots
  BY <1>1, <1>2 DEF Held, Owns
<1> HIDE DEF i, k
<1>4. blocks'[i][k] = blocks[i][k]
  BY <1>3, DaemonSlots DEF SlotsKept
<1> QED
  BY <1>2, <1>4 DEF Spot, i, k

(***************************************************************************)
(* The bytes of a file as a sequence.                                      *)
(***************************************************************************)
AreBytes ==
  \A f \in files :
    /\ TotalSize(f) \in Nat /\ TotalSize(f) <= MaxFileSize
    /\ Content(f) \in Seq(Bytes) /\ Len(Content(f)) = TotalSize(f)
    /\ \A n \in 1 .. TotalSize(f) : Content(f)[n] = data[Spot(f, n)][(n - 1) % BLOCK_SIZE]

LEMMA BytesNow == LayerInv /\ DInv => AreBytes
<1> SUFFICES ASSUME LayerInv, DInv, NEW f \in files
             PROVE  /\ TotalSize(f) \in Nat /\ TotalSize(f) <= MaxFileSize
                    /\ Content(f) \in Seq(Bytes) /\ Len(Content(f)) = TotalSize(f)
                    /\ \A n \in 1 .. TotalSize(f) :
                         Content(f)[n] = data[Spot(f, n)][(n - 1) % BLOCK_SIZE]
  BY DEF AreBytes
<1> DEFINE t == TotalSize(f)
           c == [n \in 1 .. t |-> data[Spot(f, n)][(n - 1) % BLOCK_SIZE]]
<1>1. t \in Nat /\ t <= MaxFileSize
  <2>1. t \in 0 .. MaxFileSize
    BY TotalInBounds DEF LayerInv
  <2> QED
    BY <2>1, SizesAssumption
<1>2. Content(f) = c
  BY DEF Content, Spot, Nth, SlotOf
<1>3. ASSUME NEW n \in 1 .. t PROVE c[n] \in Bytes
  <2>1. n \in Nat /\ 1 <= n /\ n <= t
    BY <1>1
  <2>2. Held(f, n)
    BY <2>1, HeldNow DEF AllHeld, LayerInv
  <2>3. Spot(f, n) \in DataBlocks
    BY <2>2 DEF Held, Owns, Spot, LayerInv, IInv, TypeOK, Structure, OwnedIsAllocated
  <2>4. (n - 1) % BLOCK_SIZE \in Byte
    BY <2>1, SizesAssumption DEF Byte
  <2>5. data \in [DataBlocks -> [Byte -> Bytes]]
    BY DEF DInv
  <2>6. data[Spot(f, n)][(n - 1) % BLOCK_SIZE] \in Bytes
    BY <2>3, <2>4, <2>5
  <2> QED
    BY <2>6
<1> HIDE DEF t
<1>4. c \in Seq(Bytes) /\ Len(c) = t /\ \A n \in 1 .. t : c[n] = data[Spot(f, n)][(n - 1) % BLOCK_SIZE]
  <2>1. \A n \in 1 .. t : c[n] = data[Spot(f, n)][(n - 1) % BLOCK_SIZE]
    OBVIOUS
  <2>2. c \in [1 .. t -> Bytes]
    BY <1>3
  <2> HIDE DEF c
  <2>3. c \in Seq(Bytes)
    BY <1>1, <2>2
  <2>4. Len(c) = t
    BY <1>1, <2>2
  <2> QED
    BY <2>1, <2>3, <2>4
<1> QED
  BY <1>1, <1>2, <1>4 DEF t

LEMMA BytesThen == LayerInv' /\ DInv' => AreBytes'
  BY BytesNow, PTL

LEMMA SameBytes ==
  ASSUME NEW s \in Seq(Bytes), NEW t \in Seq(Bytes), NEW n \in Nat, Len(s) = n, Len(t) = n,
         \A k \in 1 .. n : s[k] = t[k]
  PROVE  s = t
  BY SeqEqual

\* a byte below both sizes of its file is the same after a step of the inode layer
LEMMA BytesKept ==
  ASSUME LayerInv, DInv, LayerInv', DInv', Daemon, data' = data, NEW f \in files, f \in files'
  PROVE  /\ \A n \in Nat : 1 <= n /\ n <= TotalSize(f) /\ n <= TotalSize(f)' =>
                             Content(f)'[n] = Content(f)[n]
         /\ TotalSize(f)' = TotalSize(f) => Content(f)' = Content(f)
<1>1. /\ TotalSize(f) \in Nat /\ Content(f) \in Seq(Bytes) /\ Len(Content(f)) = TotalSize(f)
      /\ \A n \in 1 .. TotalSize(f) : Content(f)[n] = data[Spot(f, n)][(n - 1) % BLOCK_SIZE]
  BY BytesNow DEF AreBytes
<1>2. /\ TotalSize(f)' \in Nat /\ Content(f)' \in Seq(Bytes) /\ Len(Content(f)') = TotalSize(f)'
      /\ \A n \in 1 .. TotalSize(f)' : Content(f)'[n] = data'[Spot(f, n)'][(n - 1) % BLOCK_SIZE]
  BY BytesThen DEF AreBytes
<1>3. ASSUME NEW n \in Nat, 1 <= n, n <= TotalSize(f), n <= TotalSize(f)'
      PROVE  Content(f)'[n] = Content(f)[n]
  <2>1. Spot(f, n)' = Spot(f, n)
    BY <1>3, SpotsKept DEF LayerInv
  <2>2. n \in 1 .. TotalSize(f) /\ n \in 1 .. TotalSize(f)'
    BY <1>1, <1>2, <1>3
  <2> QED
    BY <1>1, <1>2, <2>1, <2>2
<1>4. ASSUME TotalSize(f)' = TotalSize(f) PROVE Content(f)' = Content(f)
  <2> DEFINE s == Content(f)'
             t == Content(f)
             m == TotalSize(f)
  <2>1. s \in Seq(Bytes) /\ t \in Seq(Bytes) /\ m \in Nat /\ Len(s) = m /\ Len(t) = m
        /\ \A k \in 1 .. m : s[k] = t[k]
    <3>1. \A k \in 1 .. m : s[k] = t[k]
      BY <1>1, <1>3, <1>4
    <3> QED
      BY <1>1, <1>2, <1>4, <3>1
  <2> HIDE DEF s, t, m
  <2>2. s = t
    BY <2>1, SameBytes
  <2> QED
    BY <2>2 DEF s, t
<1> QED
  BY <1>3, <1>4

(***************************************************************************)
(* The sizes of files during a call, from the refinement of ByteStore.     *)
(***************************************************************************)
OthersKeepSize(f) == \A g \in files : g # f => g \in files' /\ TotalSize(g)' = TotalSize(g)

\* x comes nearer to a and becomes y
Approaches(x, y, a) == (x <= y /\ y <= a) \/ (a <= y /\ y <= x)

LEMMA CallSizes ==
  ASSUME NoOverflow, LayerInv, LayerInv', Daemon, NEW f, f = top
  PROVE  /\ pc # "idle" /\ top \in files /\ OthersKeepSize(f)
         /\ pc' # "idle" => /\ files' = files /\ top' = top /\ Aim' = Aim
                            /\ \/ TotalSize(f)' = TotalSize(f)
                               \/ Approaches(TotalSize(f), TotalSize(f)', Aim)
         /\ pc' = "idle" =>
              \/ /\ op = "free" /\ rv' = "ok" /\ files' = files \ {top}
              \/ /\ op \in {"truncate", "write"} /\ rv' = "ok" /\ files' = files
                 /\ TotalSize(f)' = Aim
              \/ /\ op \in {"truncate", "write"} /\ rv' = "ENOSPC" /\ files' = files
                 /\ TotalSize(f)' \in TotalSize(f) .. Aim - 1
<1>1. pc # "idle" /\ top \in files /\ op # "none"
  <2>1. pc # "idle"
    BY DaemonKeeps DEF LayerInv
  <2> QED
    BY <2>1 DEF LayerInv, IInv, TypeOK
<1>2. StoreStep
  BY NextOnCourse DEF LayerInv, Next
<1>3. Doing # "none" /\ (Doing' = "none" <=> pc' = "idle")
  <2>1. pc' = "idle" => op' = "none"
    BY DEF LayerInv, OnCourse
  <2>2. pc' # "idle" => op' # "none"
    BY DEF LayerInv, IInv, TypeOK
  <2> QED
    BY <1>1, <2>1, <2>2 DEF Doing
<1>4. DOMAIN FileLengths = files /\ DOMAIN FileLengths' = files'
      /\ \A g \in files : FileLengths[g] = TotalSize(g)
  BY DEF FileLengths
<1>5. \A g \in files' : FileLengths'[g] = TotalSize(g)'
  BY DEF FileLengths
<1>6. ASSUME NEW x, FileLengths' = [FileLengths EXCEPT ![top] = x]
      PROVE  files' = files /\ TotalSize(f)' = x /\ OthersKeepSize(f)
  <2>1. files' = files
    BY <1>4, <1>6
  <2>2. \A g \in files : FileLengths'[g] = IF g = top THEN x ELSE FileLengths[g]
    BY <1>4, <1>6
  <2> QED
    BY <1>1, <1>4, <1>5, <2>1, <2>2 DEF OthersKeepSize
<1>7. CASE Store!Advance
  <2>1. /\ FileLengths' = [FileLengths EXCEPT ![top] = FileLengths'[top]]
        /\ Doing' = Doing /\ top' = top /\ Aim' = Aim
        /\ \/ FileLengths[top] < FileLengths'[top] /\ FileLengths'[top] <= Aim
           \/ Aim <= FileLengths'[top] /\ FileLengths'[top] < FileLengths[top]
    BY <1>7, StoreActions
  <2>2. files' = files /\ TotalSize(f)' = FileLengths'[top] /\ OthersKeepSize(f)
    BY <1>6, <2>1
  <2>3. TotalSize(f) \in Int /\ TotalSize(f)' \in Int
    <3>1. TotalSize(f) \in 0 .. MaxFileSize
      BY <1>1, TotalInBounds DEF LayerInv
    <3>2. TotalSize(f)' \in 0 .. MaxFileSize
      BY <1>1, <2>2, TotalIsPrimed DEF LayerInv, OnCourse, InBounds
    <3> QED
      BY <3>1, <3>2, SizesAssumption
  <2>4. Approaches(TotalSize(f), TotalSize(f)', Aim)
    <3> DEFINE x == TotalSize(f)
               y == TotalSize(f)'
    <3>1. x \in Int /\ y \in Int /\ ((x < y /\ y <= Aim) \/ (Aim <= y /\ y < x))
      BY <1>1, <1>4, <2>1, <2>2, <2>3
    <3> HIDE DEF x, y
    <3>2. Approaches(x, y, Aim)
      BY <3>1 DEF Approaches
    <3> QED
      BY <3>2 DEF x, y
  <2> QED
    BY <1>1, <1>3, <2>1, <2>2, <2>4
<1>8. CASE Store!Succeed
  <2>1. Doing \in {"truncate", "write"} /\ FileLengths' = [FileLengths EXCEPT ![top] = Aim]
        /\ rv' = "ok" /\ Doing' = "none"
    BY <1>8, StoreActions
  <2>2. op \in {"truncate", "write"}
    BY <2>1 DEF Doing
  <2>3. files' = files /\ TotalSize(f)' = Aim /\ OthersKeepSize(f)
    BY <1>6, <2>1
  <2> QED
    BY <1>1, <1>3, <2>1, <2>2, <2>3
<1>9. CASE Store!Fail
  <2>1. Doing \in {"truncate", "write"} /\ rv' = "ENOSPC" /\ Doing' = "none"
        /\ FileLengths' \in {[FileLengths EXCEPT ![top] = n] : n \in FileLengths[top] .. Aim - 1}
    BY <1>9, StoreActions
  <2>2. op \in {"truncate", "write"}
    BY <2>1 DEF Doing
  <2>3. PICK n \in FileLengths[top] .. Aim - 1 : FileLengths' = [FileLengths EXCEPT ![top] = n]
    BY <2>1
  <2>4. files' = files /\ TotalSize(f)' = n /\ OthersKeepSize(f)
    BY <1>6, <2>3
  <2> QED
    BY <1>1, <1>3, <1>4, <2>1, <2>2, <2>3, <2>4
<1>10. CASE Store!Vanish
  <2>1. Doing = "free" /\ rv' = "ok" /\ Doing' = "none"
        /\ FileLengths' = [g \in DOMAIN FileLengths \ {top} |-> FileLengths[g]]
    BY <1>10, StoreActions
  <2>2. op = "free"
    BY <2>1 DEF Doing
  <2>3. files' = files \ {top} /\ \A g \in files' : FileLengths'[g] = FileLengths[g]
    BY <1>4, <2>1
  <2>4. OthersKeepSize(f)
    BY <1>4, <1>5, <2>3 DEF OthersKeepSize
  <2> QED
    BY <1>1, <1>3, <2>1, <2>2, <2>3, <2>4
<1>11. CASE Store!Die \/ UNCHANGED Store!vars
  <2>1. FileLengths' = FileLengths /\ top' = top /\ Aim' = Aim /\ Doing' # "none"
    BY <1>3, <1>11, StoreActions
  <2>2. files' = files /\ \A g \in files : TotalSize(g)' = TotalSize(g)
    BY <1>4, <1>5, <2>1
  <2> QED
    BY <1>1, <1>3, <2>1, <2>2 DEF OthersKeepSize
<1>12. ~Store!Create /\ ~Store!NoRoom /\ \A w, g, n : ~Store!Ask(w, g, n)
  BY <1>3, StoreActions
<1> QED
  BY <1>2, <1>7, <1>8, <1>9, <1>10, <1>11, <1>12 DEF StoreStep, Store!Next

(***************************************************************************)
(* The bytes during a call.                                                *)
(***************************************************************************)

(* The kernel's pages are parts of blocks (both have 4096 bytes), so that  *)
(* a write that is within a page is within a block.                        *)
PagesFit == \E m \in Nat : BLOCK_SIZE = m * PAGE_SIZE

\* the bytes the file had, and the size it is to get
Old == before[io.file]
Goal ==
  IF io.kind = "write" THEN MAX(io.off + io.size, Len(Old))
  ELSE IF io.kind = "truncate" THEN Len(Old) + io.size
  ELSE 0

\* what byte n of the file is to be, if it is one the call is about
Value(n) == IF io.kind = "write" THEN io.buf[n - io.off] ELSE 0

Remembered ==
  /\ before = [g \in DOMAIN before |-> before[g]]
  /\ io.file \in DOMAIN before
  /\ DOMAIN before \ {io.file} = files \ {io.file}
  /\ \A g \in DOMAIN before : before[g] \in Seq(Bytes)
  /\ \A g \in files : g # io.file => Content(g) = before[g]

AskedFor ==
  /\ DOMAIN io = {"kind", "file", "off", "size", "buf"}
  /\ io.kind = "write" => io.size >= 1 /\ (io.off % BLOCK_SIZE) + io.size <= BLOCK_SIZE
  /\ io.kind = "truncate" => io.off = Len(Old)
  /\ io.kind = "read" => io.size \in 1 .. MaxRead /\ io.off < Len(Old)

Outcome(f) ==
  /\ rv = "ok" => TotalSize(f) = Goal
  /\ rv # "ok" => rv = "ENOSPC" /\ Len(Old) <= TotalSize(f) /\ TotalSize(f) < Goal

ResizeBytes ==
  /\ pc # "idle" => top = io.file /\ Aim = Goal
  /\ io.file \in files =>
       /\ Approaches(Len(Old), TotalSize(io.file), Goal)
       /\ \A n \in 1 .. Len(Old) : n <= TotalSize(io.file) => Content(io.file)[n] = Old[n]
  /\ pc = "idle" => IF io.kind = "free" THEN io.file \notin files /\ rv = "ok"
                    ELSE io.file \in files /\ Outcome(io.file)

WriteBytes(f) ==
  /\ rv = "ok" /\ it.size = io.size /\ TotalSize(f) = Goal
  /\ \A n \in io.off + 1 .. io.off + DoneBytes : Content(f)[n] = Value(n)
  /\ \A n \in 1 .. Len(Old) : n \notin io.off + 1 .. io.off + io.size => Content(f)[n] = Old[n]

ReadBytes(f) ==
  /\ Content(f) = Old /\ it.size = MIN(Len(Old) - io.off, io.size)
  /\ \A j \in 0 .. DoneBytes - 1 : out[j] = Old[io.off + j + 1]

IterBytes ==
  /\ it.left >= 0
  /\ it.left > 0 => BLOCK_SIZE * it.block + it.start = io.off + DoneBytes
  /\ io.kind = "write" /\ it.left > 0 => DoneBytes = 0 /\ it.start + it.left <= BLOCK_SIZE
  /\ IF io.kind = "read" THEN ReadBytes(io.file) ELSE WriteBytes(io.file)

BytesInv ==
  /\ phase \in {"resize", "iter"} => Remembered /\ AskedFor
  /\ phase = "resize" => ResizeBytes
  /\ phase = "iter" => IterBytes

LEMMA SameContent ==
  ASSUME UNCHANGED <<data, next, size, blocks>>
  PROVE  \A f : Content(f)' = Content(f) /\ TotalSize(f)' = TotalSize(f)
<1>1. \A f : TotalSize(f)' = TotalSize(f) /\ Chain(f)' = Chain(f)
  BY SameTotals, ChainIs, ChainIsPrimed
<1> SUFFICES ASSUME NEW f PROVE Content(f)' = Content(f)
  BY <1>1
<1>2. Content(f) = [n \in 1 .. TotalSize(f) |-> data[Spot(f, n)][(n - 1) % BLOCK_SIZE]]
  BY DEF Content, Spot, Nth, SlotOf
<1>3. Content(f)' = [n \in 1 .. TotalSize(f)' |-> data'[Spot(f, n)'][(n - 1) % BLOCK_SIZE]]
  BY DEF Content, Spot, Nth, SlotOf
<1>4. \A n : Spot(f, n)' = Spot(f, n)
  BY <1>1 DEF Spot
<1> QED
  BY <1>1, <1>2, <1>3, <1>4

\* when a call is asked for, nothing has changed yet
LEMMA AskBytes ==
  ASSUME LayerInv, DInv, NEW k, NEW f \in files, NEW off, NEW n, NEW buf,
         Ask(k, f, off, n, buf), UNCHANGED <<data, disk, files>>
  PROVE  /\ io'.kind = k /\ io'.file = f /\ io'.off = off /\ io'.size = n /\ io'.buf = buf
         /\ DOMAIN io' = {"kind", "file", "off", "size", "buf"}
         /\ before'[f] = Content(f) /\ before'[f] \in Seq(Bytes) /\ Len(before'[f]) = TotalSize(f)
         /\ Content(f)' = Content(f) /\ TotalSize(f)' = TotalSize(f) /\ TotalSize(f) \in Nat
         /\ TotalSize(f) <= MaxFileSize
         /\ Remembered'
<1>1. /\ io' = [kind |-> k, file |-> f, off |-> off, size |-> n, buf |-> buf]
      /\ before' = [g \in files |-> Content(g)]
  BY DEF Ask, Contents
<1>2. \A g : Content(g)' = Content(g) /\ TotalSize(g)' = TotalSize(g)
  BY SameContent DEF disk
<1>3. \A g \in files : /\ TotalSize(g) \in Nat /\ Content(g) \in Seq(Bytes) /\ TotalSize(g) <= MaxFileSize
                       /\ Len(Content(g)) = TotalSize(g)
  BY BytesNow DEF AreBytes
<1>4. /\ io'.kind = k /\ io'.file = f /\ io'.off = off /\ io'.size = n /\ io'.buf = buf
      /\ DOMAIN io' = {"kind", "file", "off", "size", "buf"}
  BY <1>1
<1>5. /\ DOMAIN before' = files /\ \A g \in files : before'[g] = Content(g)
      /\ before' = [g \in DOMAIN before' |-> before'[g]]
  BY <1>1
<1>6. Remembered'
  BY <1>2, <1>3, <1>4, <1>5 DEF Remembered
<1> QED
  BY <1>2, <1>3, <1>4, <1>5, <1>6

LEMMA InBlock ==
  ASSUME PagesFit, NEW off \in Nat, NEW n \in Nat, (off % PAGE_SIZE) + n <= PAGE_SIZE
  PROVE  (off % BLOCK_SIZE) + n <= BLOCK_SIZE
<1> DEFINE P == PAGE_SIZE
           a == off \div P
           r == off % P
<1>1. PICK m \in Nat : BLOCK_SIZE = m * P
  BY DEF PagesFit
<1>2. P \in Nat \ {0} /\ a \in Nat /\ r \in 0 .. P - 1 /\ off = P * a + r
  BY Split, FileDataAssumption
<1>3. m \in Nat \ {0}
  BY <1>1, <1>2, SizesAssumption
<1> DEFINE q == a \div m
           s == a % m
<1>4. q \in Nat /\ s \in 0 .. m - 1 /\ a = m * q + s
  BY <1>2, <1>3, Split
<1> HIDE DEF a, r, q, s, P
<1>5. P * a = BLOCK_SIZE * q + P * s
  <2>1. P * (m * q + s) = (m * P) * q + P * s
    BY <1>2, <1>3, <1>4
  <2> QED
    BY <1>1, <1>4, <2>1
<1>6. P * s + P <= BLOCK_SIZE /\ P * s \in Nat
  <2>1. s \in Nat /\ s + 1 <= m
    BY <1>3, <1>4
  <2>2. P * (s + 1) <= P * m /\ P * (s + 1) = P * s + P /\ P * m = m * P
    BY <1>2, <1>3, <2>1
  <2>3. P * s \in Nat
    BY <1>2, <2>1
  <2> QED
    BY <1>1, <2>2, <2>3
<1> DEFINE y == P * s
<1>7. y + r \in 0 .. BLOCK_SIZE - 1
  BY <1>2, <1>6, SizesAssumption
<1>8. off = BLOCK_SIZE * q + (y + r)
  <2> DEFINE x == BLOCK_SIZE * q
  <2>1. x \in Nat
    BY <1>4, SizesAssumption
  <2>2. off = (x + y) + r
    BY <1>2, <1>5
  <2> HIDE DEF x, y
  <2>3. y \in Nat /\ r \in Nat
    BY <1>2, <1>6 DEF y
  <2>4. off = x + (y + r)
    BY <2>1, <2>2, <2>3
  <2> QED
    BY <2>4 DEF x
<1>9. off % BLOCK_SIZE = y + r
  <2> DEFINE z == y + r
  <2>1. z \in 0 .. BLOCK_SIZE - 1 /\ off = BLOCK_SIZE * q + z
    BY <1>7, <1>8
  <2> HIDE DEF z
  <2>2. (BLOCK_SIZE * q + z) % BLOCK_SIZE = z
    BY <1>4, <2>1, DivUnique, SizesAssumption
  <2> QED
    BY <2>1, <2>2 DEF z
<1>10. r + n <= P
  BY DEF r, P
<1> QED
  BY <1>2, <1>6, <1>9, <1>10, SizesAssumption

\* the inode layer is asked for a size: it is on its way from the old one
LEMMA ResizeStarts ==
  ASSUME LayerInv, DInv, NEW k \in {"write", "truncate", "free"}, NEW f \in files,
         NEW off \in Nat, NEW n \in Int, NEW buf, NEW e \in Nat,
         Ask(k, f, off, n, buf), Begin(k, f, e), phase' = "resize", UNCHANGED <<data, it, out>>,
         k = "write" => e = off + n /\ n >= 1 /\ (off % BLOCK_SIZE) + n <= BLOCK_SIZE,
         k = "truncate" => off = TotalSize(f) /\ e = TotalSize(f) + n,
         k = "free" => e = 0
  PROVE  BytesInv'
<1>1. UNCHANGED <<data, disk, files>> /\ pc' = "total" /\ top' = f /\ op' = k /\ arg' = e
  BY DEF Begin
<1>2. /\ io'.kind = k /\ io'.file = f /\ io'.off = off /\ io'.size = n /\ io'.buf = buf
      /\ before'[f] = Content(f) /\ before'[f] \in Seq(Bytes) /\ Len(before'[f]) = TotalSize(f)
      /\ Content(f)' = Content(f) /\ TotalSize(f)' = TotalSize(f) /\ TotalSize(f) \in Nat
      /\ Remembered' /\ DOMAIN io' = {"kind", "file", "off", "size", "buf"}
  BY <1>1, AskBytes
<1>3. AskedFor'
  BY <1>2 DEF AskedFor, Old
<1>4. Aim' = IF k = "write" THEN MAX(e, TotalSize(f)) ELSE e
  <2>1. TotalSize(top)' = TotalSize(f)
    BY <1>1, <1>2
  <2> QED
    BY <1>1, <2>1 DEF Aim
<1>5. Goal' = IF k = "write" THEN MAX(off + n, TotalSize(f)) ELSE IF k = "truncate" THEN TotalSize(f) + n ELSE 0
  BY <1>2 DEF Goal, Old
<1>6. Aim' = Goal'
  BY <1>4, <1>5
<1>7. Approaches(Len(Old)', TotalSize(io.file)', Goal')
  <2>1. Len(Old)' = TotalSize(f) /\ TotalSize(io.file)' = TotalSize(f)
    BY <1>2 DEF Old
  <2> DEFINE t == TotalSize(f)
  <2>2. Goal' \in Int /\ t \in Int
    BY <1>2, <1>5 DEF MAX
  <2> HIDE DEF t
  <2>3. Approaches(t, t, Goal')
    BY <2>2 DEF Approaches
  <2> QED
    BY <2>1, <2>3 DEF t
<1>8. \A m \in 1 .. Len(Old)' : m <= TotalSize(io.file)' => Content(io.file)'[m] = Old'[m]
  <2>1. Content(io.file)' = Old'
    BY <1>2 DEF Old
  <2> QED
    BY <2>1
<1>9. ResizeBytes'
  BY <1>1, <1>2, <1>6, <1>7, <1>8 DEF ResizeBytes
<1> QED
  BY <1>2, <1>3, <1>9 DEF BytesInv

LEMMA ReadStarts ==
  ASSUME NoOverflow, LayerInv, DInv, NEW f \in files, NEW off \in Offsets, NEW n \in 1 .. MaxRead,
         StorageRead(f, off, n)
  PROVE  BytesInv'
<1> DEFINE m == MIN(TotalSize(f) - off, n)
<1>1. /\ Ask("read", f, off, n, <<>>) /\ off < TotalSize(f) /\ StartIter(f, off, m)
      /\ UNCHANGED <<vars, data, out>>
  BY DEF StorageRead
<1>2. off \in Nat /\ n \in Int /\ n >= 1
  BY FileDataAssumption
<1>3. /\ io'.kind = "read" /\ io'.file = f /\ io'.off = off /\ io'.size = n
      /\ before'[f] = Content(f) /\ Len(before'[f]) = TotalSize(f)
      /\ Content(f)' = Content(f) /\ TotalSize(f) \in Nat /\ TotalSize(f) <= MaxFileSize
      /\ Remembered' /\ DOMAIN io' = {"kind", "file", "off", "size", "buf"}
  BY <1>1, AskBytes DEF vars
<1>4. off \in 0 .. MaxFileSize /\ TotalSize(f) \in 0 .. MaxFileSize /\ m \in Int /\ m <= TotalSize(f) - off
      /\ MIN(TotalSize(f) - off, m) = m /\ m >= 1
  BY <1>1, <1>2, <1>3, SizesAssumption DEF MIN
<1>5. m \in Int
  BY <1>4
<1> HIDE DEF m
<1>6. /\ phase' = "iter" /\ it'.size = MIN(TotalSize(f) - off, m) /\ it'.left = it'.size
      /\ BLOCK_SIZE * it'.block + it'.start = off
  BY <1>1, <1>4, <1>5, StartFacts
<1>7. DoneBytes' = 0 /\ it'.size = m /\ it'.left = m
  BY <1>4, <1>5, <1>6 DEF DoneBytes
<1>8. AskedFor'
  BY <1>1, <1>3 DEF AskedFor, Old
<1>9. ReadBytes(f)'
  <2>1. Old' = Content(f) /\ Len(Old') = TotalSize(f)
    BY <1>3 DEF Old
  <2>2. \A j \in 0 .. DoneBytes' - 1 : out'[j] = Old'[io'.off + j + 1]
    BY <1>7
  <2> QED
    BY <1>3, <1>7, <2>1, <2>2 DEF ReadBytes, m
<1>10. IterBytes'
  <2>1. it'.left >= 0
    BY <1>4, <1>7
  <2>2. BLOCK_SIZE * it'.block + it'.start = io'.off + DoneBytes'
    BY <1>2, <1>3, <1>6, <1>7
  <2> QED
    BY <1>3, <1>9, <2>1, <2>2 DEF IterBytes
<1> QED
  BY <1>3, <1>6, <1>8, <1>10 DEF BytesInv

LEMMA KernelBytes ==
  ASSUME NoOverflow, PagesFit, LayerInv, DInv, BytesInv, Kernel
  PROVE  BytesInv'
<1>1. CASE StorageMknod
  BY <1>1 DEF StorageMknod, dataVars, BytesInv
<1>2. ASSUME NEW f \in files, NEW off \in Offsets, NEW buf \in Buffers, StorageWrite(f, off, buf)
      PROVE  BytesInv'
  <2>1. /\ Ask("write", f, off, Len(buf), buf) /\ Begin("write", f, off + Len(buf)) /\ phase' = "resize"
        /\ UNCHANGED <<data, it, out>> /\ OnePage(off, buf)
    BY <1>2 DEF StorageWrite, Write
  <2>2. off \in Nat /\ buf \in Seq(Bytes) /\ buf # <<>> /\ off + Len(buf) \in 1 .. MaxFileSize
    BY EndOfWrite, FileDataAssumption
  <2>3. Len(buf) \in Nat /\ Len(buf) >= 1
    BY <2>2
  <2>4. (off % BLOCK_SIZE) + Len(buf) <= BLOCK_SIZE
    BY <2>1, <2>2, <2>3, InBlock DEF OnePage
  <2>5. off + Len(buf) \in Nat /\ Len(buf) \in Int
    BY <2>2, <2>3
  <2> QED
    BY <2>1, <2>2, <2>3, <2>4, <2>5, ResizeStarts
<1>3. ASSUME NEW f \in files, NEW n \in Lengths, StorageTruncate(f, n)
      PROVE  BytesInv'
  <2>1. /\ Ask("truncate", f, TotalSize(f), ToInt(n - TotalSize(f)), <<>>) /\ Begin("truncate", f, n)
        /\ phase' = "resize" /\ UNCHANGED <<data, it, out>>
    BY <1>3 DEF StorageTruncate, Truncate
  <2>2. TotalSize(f) \in 0 .. MaxFileSize
    BY TotalInBounds DEF LayerInv
  <2>3. n \in 0 .. MaxFileSize
    BY FileDataAssumption
  <2>4. ToInt(n - TotalSize(f)) = n - TotalSize(f) /\ n - TotalSize(f) \in Int
    BY <2>2, <2>3, ToIntExact, SizesAssumption
  <2>5. TotalSize(f) \in Nat /\ n \in Nat /\ n = TotalSize(f) + (n - TotalSize(f))
    BY <2>2, <2>3, SizesAssumption
  <2> QED
    BY <2>1, <2>4, <2>5, ResizeStarts
<1>4. ASSUME NEW f \in files, StorageUnlink(f)
      PROVE  BytesInv'
  <2>1. /\ Ask("free", f, 0, 0, <<>>) /\ Begin("free", f, 0) /\ phase' = "resize"
        /\ UNCHANGED <<data, it, out>>
    BY <1>4 DEF StorageUnlink, Free
  <2> QED
    BY <2>1, ResizeStarts
<1> QED
  BY <1>1, <1>2, <1>3, <1>4, ReadStarts DEF Kernel

\* on the way from l to g, nothing below both l and where it is gets lost
LEMMA StillOnTheWay ==
  ASSUME NEW l \in Int, NEW t \in Int, NEW u \in Int, NEW g \in Int, Approaches(l, t, g),
         u = t \/ Approaches(t, u, g) \/ u = g \/ u \in t .. g - 1
  PROVE  /\ Approaches(l, u, g)
         /\ \A n \in Int : n <= l /\ n <= u => n <= t
         /\ u \in t .. g - 1 => l <= u /\ u < g
  BY DEF Approaches

\* each step of the inode layer leaves the bytes of the other files alone, and
\* of its own file those that stay
LEMMA ResizeKeepsBytes ==
  ASSUME NoOverflow, LayerInv, DInv, BytesInv, LayerInv', DInv', Resize
  PROVE  BytesInv'
<1>1. phase = "resize" /\ Daemon /\ UNCHANGED <<data, phase, io, it, out, before>>
  BY DEF Resize, dataVars
<1>2. PICK f : f = io.file
  OBVIOUS
<1>3. /\ pc # "idle" /\ top \in files /\ top = f /\ Aim = Goal /\ op = io.kind
      /\ Remembered /\ AskedFor
      /\ Approaches(Len(Old), TotalSize(f), Goal)
      /\ \A n \in 1 .. Len(Old) : n <= TotalSize(f) => Content(f)[n] = Old[n]
  <2>1. pc # "idle" /\ top \in files
    BY <1>1, DaemonKeeps DEF LayerInv, IInv, TypeOK
  <2> QED
    BY <1>1, <1>2, <2>1 DEF BytesInv, ResizeBytes, DInv, ResizeOK
<1>4. /\ OthersKeepSize(f)
      /\ pc' # "idle" => /\ files' = files /\ top' = top /\ Aim' = Aim
                         /\ \/ TotalSize(f)' = TotalSize(f)
                            \/ Approaches(TotalSize(f), TotalSize(f)', Aim)
      /\ pc' = "idle" =>
           \/ /\ op = "free" /\ rv' = "ok" /\ files' = files \ {top}
           \/ /\ op \in {"truncate", "write"} /\ rv' = "ok" /\ files' = files
              /\ TotalSize(f)' = Aim
           \/ /\ op \in {"truncate", "write"} /\ rv' = "ENOSPC" /\ files' = files
              /\ TotalSize(f)' \in TotalSize(f) .. Aim - 1
  BY <1>1, <1>3, CallSizes
<1>5. Old' = Old /\ Goal' = Goal /\ io'.file = f /\ f \in DOMAIN before /\ Old \in Seq(Bytes)
  BY <1>1, <1>2, <1>3 DEF Old, Goal, Remembered
<1>6. files' \subseteq files /\ files' \ {f} = files \ {f}
  BY <1>3, <1>4
<1>7. ASSUME NEW g \in files' PROVE
        /\ \A n \in Nat : 1 <= n /\ n <= TotalSize(g) /\ n <= TotalSize(g)' =>
                             Content(g)'[n] = Content(g)[n]
        /\ TotalSize(g)' = TotalSize(g) => Content(g)' = Content(g)
  BY <1>1, <1>6, BytesKept
<1>8. Remembered' /\ AskedFor'
  <2>1. \A g \in files' : g # f => Content(g)' = before[g]
    BY <1>2, <1>3, <1>4, <1>6, <1>7 DEF Remembered, OthersKeepSize
  <2>2. Remembered'
    BY <1>1, <1>2, <1>3, <1>6, <2>1 DEF Remembered
  <2> QED
    BY <1>1, <1>3, <1>5, <2>2 DEF AskedFor
<1>9. Len(Old) \in Nat /\ TotalSize(f) \in Nat /\ Goal \in Int
  <2>1. Len(Old) \in Nat
    BY <1>5
  <2>2. TotalSize(f) \in Nat
    BY <1>3, BytesNow DEF AreBytes
  <2>3. io.off \in Int /\ io.size \in Int
    BY <1>1, SizesAssumption DEF DInv, RequestOK
  <2> QED
    BY <2>1, <2>2, <2>3 DEF Goal, MAX
<1>10. ASSUME f \in files'
       PROVE  /\ Approaches(Len(Old), TotalSize(f)', Goal)
              /\ \A n \in 1 .. Len(Old) : n <= TotalSize(f)' => Content(f)'[n] = Old[n]
              /\ pc' = "idle" /\ rv' # "ok" => Len(Old) <= TotalSize(f)' /\ TotalSize(f)' < Goal
  <2> DEFINE l == Len(Old)
             t == TotalSize(f)
             u == TotalSize(f)'
  <2>1. u \in Nat
    BY <1>10, BytesThen DEF AreBytes
  <2>2. u = t \/ Approaches(t, u, Goal) \/ u = Goal \/ u \in t .. Goal - 1
    BY <1>3, <1>4, <1>10
  <2>3. pc' = "idle" /\ rv' # "ok" => u \in t .. Goal - 1
    BY <1>3, <1>4, <1>10
  <2>4. l \in Nat /\ t \in Nat /\ Approaches(l, t, Goal)
    BY <1>3, <1>9
  <2>7. /\ Approaches(l, u, Goal) /\ (u \in t .. Goal - 1 => l <= u /\ u < Goal)
        /\ \A n \in Int : n <= l /\ n <= u => n <= t
    <3> DEFINE g == Goal
    <3>1. l \in Int /\ t \in Int /\ u \in Int /\ g \in Int
      BY <1>9, <2>1, <2>4
    <3>2. Approaches(l, t, g) /\ (u = t \/ Approaches(t, u, g) \/ u = g \/ u \in t .. g - 1)
      BY <2>2, <2>4
    <3> HIDE DEF l, t, u, g
    <3>3. /\ Approaches(l, u, g) /\ (u \in t .. g - 1 => l <= u /\ u < g)
          /\ \A n \in Int : n <= l /\ n <= u => n <= t
      BY <3>1, <3>2, StillOnTheWay
    <3> QED
      BY <3>3 DEF g
  <2>5. ASSUME NEW n \in 1 .. l, n <= u PROVE n \in Nat /\ 1 <= n /\ n <= t /\ Content(f)[n] = Old[n]
    <3> HIDE DEF l, t, u
    <3>1. n \in Nat /\ 1 <= n /\ n <= l
      BY <2>4
    <3>2. n <= t
      BY <2>5, <2>7, <3>1
    <3>3. Content(f)[n] = Old[n]
      BY <1>3, <3>2 DEF l, t
    <3> QED
      BY <3>1, <3>2, <3>3
  <2>6. ASSUME NEW n \in 1 .. l, n <= u PROVE Content(f)'[n] = Old[n]
    BY <1>7, <1>10, <2>5, <2>6
  <2> HIDE DEF l, t, u
  <2> QED
    BY <2>3, <2>6, <2>7 DEF l, t, u
<1>11. ResizeBytes'
  <2>1. pc' # "idle" => top' = io'.file /\ Aim' = Goal'
    BY <1>3, <1>4, <1>5
  <2>2. pc' = "idle" => IF io'.kind = "free" THEN f \notin files' /\ rv' = "ok"
                        ELSE f \in files' /\ Outcome(f)'
    <3>1. ASSUME pc' = "idle", io'.kind # "free" PROVE f \in files' /\ Outcome(f)'
      <4>1. f \in files' /\ (rv' = "ok" => TotalSize(f)' = Goal) /\ (rv' # "ok" => rv' = "ENOSPC")
        BY <1>1, <1>3, <1>4, <3>1
      <4> QED
        BY <1>5, <1>10, <3>1, <4>1 DEF Outcome
    <3>2. pc' = "idle" /\ io'.kind = "free" => f \notin files' /\ rv' = "ok"
      BY <1>1, <1>3, <1>4
    <3> QED
      BY <3>1, <3>2
  <2> QED
    BY <1>5, <1>10, <2>1, <2>2 DEF ResizeBytes
<1> QED
  BY <1>1, <1>8, <1>11 DEF BytesInv

\* the file has its size and its bytes, and the loop is at the first to change
LEMMA IterStarts ==
  ASSUME NoOverflow, LayerInv, DInv, BytesInv, ResizeDone
  PROVE  BytesInv'
<1>1. /\ phase = "resize" /\ pc = "idle" /\ UNCHANGED <<vars, data, io, out, before>>
      /\ IF Goes THEN StartIter(io.file, io.off, io.size) ELSE phase' = "reply" /\ UNCHANGED it
  BY DEF ResizeDone
<1>2. CASE ~Goes
  BY <1>1, <1>2 DEF BytesInv
<1>3. CASE Goes
  <2>1. PICK f : f = io.file
    OBVIOUS
  <2>2. rv = "ok" /\ io.size >= 1 /\ io.kind \in {"write", "truncate"} /\ Remembered /\ AskedFor /\ ResizeBytes
        /\ RequestOK
    BY <1>1, <1>3 DEF Goes, BytesInv, DInv
  <2>3. /\ f \in files /\ TotalSize(f) = Goal
        /\ \A n \in 1 .. Len(Old) : n <= TotalSize(f) => Content(f)[n] = Old[n]
    BY <1>1, <2>1, <2>2 DEF ResizeBytes, Outcome
  <2>4. /\ io.off \in 0 .. MaxFileSize /\ io.size \in Int /\ TotalSize(f) \in 0 .. MaxFileSize
        /\ Old \in Seq(Bytes)
    BY <2>2, <2>3, TotalInBounds DEF RequestOK, LayerInv, Remembered, Old
  <2>5. Len(Old) \in Nat /\ io.off \in Nat
    BY <2>4, SizesAssumption
  <2>6. Len(Old) <= Goal /\ MIN(Goal - io.off, io.size) = io.size /\ Goal \in Int
    BY <2>2, <2>4, <2>5 DEF Goal, MAX, MIN, AskedFor
  <2>7. /\ phase' = "iter" /\ it'.start \in Byte /\ it'.block \in Nat
        /\ it'.size = io.size /\ it'.left = it'.size
        /\ BLOCK_SIZE * it'.block + it'.start = io.off
    BY <1>1, <1>3, <2>1, <2>3, <2>4, <2>6, StartFacts
  <2>8. DoneBytes' = 0
    BY <2>4, <2>7 DEF DoneBytes
  <2>9. (io.off % BLOCK_SIZE) = it'.start
    <3> DEFINE b == it'.block
               s == it'.start
    <3>1. BLOCK_SIZE * b + s = io.off /\ b \in Nat /\ s \in 0 .. BLOCK_SIZE - 1
      BY <2>7 DEF Byte
    <3> HIDE DEF b, s
    <3>2. (BLOCK_SIZE * b + s) % BLOCK_SIZE = s
      BY <3>1, DivUnique, SizesAssumption
    <3> QED
      BY <3>1, <3>2 DEF s
  <2>10. io.kind = "write" => it'.start + it'.left <= BLOCK_SIZE
    BY <2>2, <2>7, <2>9 DEF AskedFor
  <2>11. \A g : Content(g)' = Content(g) /\ TotalSize(g)' = TotalSize(g)
    BY <1>1, SameContent DEF vars, disk
  <2>12. Remembered' /\ AskedFor' /\ Goal' = Goal /\ Old' = Old /\ files' = files
    <3>1. io' = io /\ before' = before /\ files' = files
      BY <1>1 DEF vars
    <3>2. Old' = Old
      BY <3>1 DEF Old
    <3> QED
      BY <2>2, <2>11, <3>1, <3>2 DEF Remembered, AskedFor, Goal
  <2>13. WriteBytes(f)'
    <3>1. \A n \in 1 .. Len(Old) : Content(f)[n] = Old[n]
      <4>1. \A n \in 1 .. Len(Old) : n <= Goal
        BY <2>5, <2>6
      <4> QED
        BY <2>3, <4>1
    <3>2. \A n \in io.off + 1 .. io.off + DoneBytes' : Content(f)'[n] = Value(n)'
      BY <2>5, <2>8
    <3>3. rv' = "ok" /\ it'.size = io'.size /\ TotalSize(f)' = Goal'
      BY <1>1, <2>2, <2>3, <2>7, <2>11, <2>12 DEF vars
    <3> QED
      BY <1>1, <2>11, <2>12, <3>1, <3>2, <3>3 DEF WriteBytes
  <2>14. IterBytes'
    <3>1. it'.left >= 0 /\ BLOCK_SIZE * it'.block + it'.start = io'.off + DoneBytes'
      BY <1>1, <2>2, <2>4, <2>5, <2>7, <2>8
    <3>2. io'.kind # "read" /\ io'.file = f
      BY <1>1, <2>1, <2>2
    <3> QED
      BY <1>1, <2>8, <2>10, <2>13, <3>1, <3>2 DEF IterBytes
  <2> QED
    BY <2>7, <2>12, <2>14 DEF BytesInv
<1> QED
  BY <1>2, <1>3

\* byte n is one of those this turn of the loop is about
InTurn(n) == n \in io.off + DoneBytes + 1 .. io.off + DoneBytes + Count

\* which bytes of which files are where the turn reads or writes
LEMMA TurnPlaces ==
  ASSUME LayerInv, DInv, BytesInv, phase = "iter", it.left > 0,
         NEW g \in files, NEW n \in Nat, 1 <= n, n <= TotalSize(g)
  PROVE  /\ Spot(g, n) = Bnum /\ (n - 1) % BLOCK_SIZE \in Here <=> g = io.file /\ InTurn(n)
         /\ InTurn(n) => (n - 1) % BLOCK_SIZE = it.start + (n - 1 - io.off - DoneBytes)
<1> DEFINE p == io.off + DoneBytes
           B == BLOCK_SIZE
           f == io.file
           y == B * it.block
<1>1. /\ Count \in 1 .. B /\ Count <= it.left /\ it.start + Count <= B
      /\ it.start \in 0 .. B - 1 /\ it.left \in Int /\ it.block \in Nat /\ f \in files
  BY TurnFacts DEF LayerInv, Byte
<1>2. /\ y + it.start = p /\ y + it.start + it.left <= TotalSize(f) /\ y \in Nat /\ B \in Nat \ {0}
  <2>1. y \in Nat /\ B \in Nat \ {0}
    BY <1>1, SizesAssumption
  <2> QED
    BY <2>1, TotalIs DEF BytesInv, IterBytes, DInv, IterOK
<1>3. TotalSize(f) \in Int /\ p \in Nat
  <2>1. TotalSize(f) \in Nat
    BY <1>1, BytesNow DEF AreBytes
  <2> HIDE DEF y, p
  <2> QED
    BY <1>1, <1>2, <2>1
<1>4. ASSUME NEW s \in 0 .. B - 1 PROVE (y + s) \div B = it.block /\ (y + s) % B = s
  BY <1>1, <1>2, <1>4, DivUnique
<1>5. InTurn(n) <=> n \in p + 1 .. p + Count
  BY DEF InTurn
<1> HIDE DEF p, y, B, f
<1>6. ASSUME InTurn(n) PROVE (n - 1) \div B = it.block /\ (n - 1) % B = it.start + (n - 1 - p)
                             /\ it.start + (n - 1 - p) \in it.start .. it.start + Count - 1
  <2> DEFINE s == it.start + (n - 1 - p)
  <2>1. s \in 0 .. B - 1 /\ n - 1 = y + s /\ s \in it.start .. it.start + Count - 1
    BY <1>1, <1>2, <1>3, <1>5, <1>6
  <2> HIDE DEF s
  <2>2. (n - 1) \div B = it.block /\ (n - 1) % B = s
    BY <1>4, <2>1
  <2> QED
    BY <2>1, <2>2 DEF s
<1>7. \A m \in Nat : 1 <= m /\ m <= TotalSize(f) /\ (m - 1) \div B = it.block => Spot(f, m) = Bnum
  BY <1>1, ByteHeld DEF LayerInv, Bnum, B, f
<1>8. ASSUME g = f, InTurn(n) PROVE Spot(g, n) = Bnum /\ (n - 1) % B \in Here
  BY <1>6, <1>7, <1>8 DEF Here
<1>9. ASSUME Spot(g, n) = Bnum, (n - 1) % B \in Here PROVE g = f /\ InTurn(n)
  <2> DEFINE m == p + 1
  <2>1. m \in Nat /\ 1 <= m /\ m <= TotalSize(f) /\ m - 1 = y + it.start
    BY <1>1, <1>2, <1>3
  <2>2. (m - 1) \div B = it.block
    BY <1>1, <1>4, <2>1
  <2> HIDE DEF m
  <2>3. Spot(f, m) = Bnum
    BY <1>7, <2>1, <2>2
  <2>4. g = f /\ (n - 1) \div B = it.block
    <3>1. f = g /\ (m - 1) \div B = (n - 1) \div B
      BY <1>1, <1>9, <2>1, <2>3, SpotsApart DEF LayerInv, B
    <3> QED
      BY <2>2, <3>1
  <2>5. n - 1 = y + ((n - 1) % B)
    <3> DEFINE k == n - 1
    <3>1. k \in Nat
      OBVIOUS
    <3> HIDE DEF k
    <3>2. k = B * (k \div B) + (k % B)
      BY <1>2, <3>1, Split
    <3> QED
      BY <2>4, <3>2 DEF y, k
  <2> DEFINE r == (n - 1) % B
  <2>6. r \in Int /\ r >= it.start /\ r <= it.start + Count - 1
    BY <1>1, <1>9 DEF Here
  <2> HIDE DEF r
  <2>7. n \in p + 1 .. p + Count
    BY <1>1, <1>2, <1>3, <2>5, <2>6 DEF r
  <2> QED
    BY <1>5, <2>4, <2>7
<1>10. InTurn(n) => (n - 1) % B = it.start + (n - 1 - io.off - DoneBytes)
  <2>1. io.off \in Int /\ DoneBytes \in Int
    BY SizesAssumption DEF DInv, RequestOK, IterType, DoneBytes
  <2>2. n - 1 - io.off - DoneBytes = n - 1 - p
    BY <2>1 DEF p
  <2> QED
    BY <1>6, <2>2
<1> QED
  BY <1>8, <1>9, <1>10 DEF B, f

\* what the turn puts into the bytes of the file, and what it leaves
LEMMA TurnWrites ==
  ASSUME LayerInv, DInv, BytesInv, LayerInv', DInv', phase = "iter", it.left > 0, UNCHANGED vars,
         NEW w, data' = [data EXCEPT ![Bnum] = [j \in Byte |-> IF j \in Here THEN w[j] ELSE data[Bnum][j]]],
         NEW g \in files
  PROVE  /\ TotalSize(g)' = TotalSize(g) /\ TotalSize(g) \in Nat
         /\ \A n \in 1 .. TotalSize(g) :
              Content(g)'[n] = IF g = io.file /\ InTurn(n) THEN w[it.start + (n - 1 - io.off - DoneBytes)]
                               ELSE Content(g)[n]
         /\ g # io.file => Content(g)' = Content(g)
<1>1. UNCHANGED <<next, size, blocks, files>>
  BY DEF vars, disk
<1>2. TotalSize(g)' = TotalSize(g) /\ Chain(g)' = Chain(g)
  BY <1>1, SameTotals, ChainIs, ChainIsPrimed
<1>3. \A n : Spot(g, n)' = Spot(g, n)
  BY <1>1, <1>2 DEF Spot
<1>4. /\ TotalSize(g) \in Nat /\ Content(g) \in Seq(Bytes) /\ Len(Content(g)) = TotalSize(g)
      /\ \A n \in 1 .. TotalSize(g) : Content(g)[n] = data[Spot(g, n)][(n - 1) % BLOCK_SIZE]
  BY BytesNow DEF AreBytes
<1>5. /\ Content(g)' \in Seq(Bytes) /\ Len(Content(g)') = TotalSize(g)
      /\ \A n \in 1 .. TotalSize(g) : Content(g)'[n] = data'[Spot(g, n)][(n - 1) % BLOCK_SIZE]
  BY <1>1, <1>2, <1>3, BytesThen DEF AreBytes
<1>6. ASSUME NEW n \in 1 .. TotalSize(g)
      PROVE  Content(g)'[n] = IF g = io.file /\ InTurn(n) THEN w[it.start + (n - 1 - io.off - DoneBytes)]
                              ELSE Content(g)[n]
  <2> DEFINE s == Spot(g, n)
             j == (n - 1) % BLOCK_SIZE
  <2>1. n \in Nat /\ 1 <= n /\ n <= TotalSize(g)
    BY <1>4
  <2>2. /\ s = Bnum /\ j \in Here <=> g = io.file /\ InTurn(n)
        /\ InTurn(n) => j = it.start + (n - 1 - io.off - DoneBytes)
    BY <2>1, TurnPlaces
  <2>3. s \in DataBlocks
    <3>1. Held(g, n)
      BY <2>1, HeldNow DEF AllHeld, LayerInv
    <3> QED
      BY <3>1 DEF Held, Owns, Spot, LayerInv, IInv, TypeOK, Structure, OwnedIsAllocated
  <2>4. j \in Byte
    BY <2>1, SizesAssumption DEF Byte
  <2>5. Content(g)'[n] = data'[s][j] /\ Content(g)[n] = data[s][j]
    BY <1>4, <1>5
  <2> HIDE DEF s, j
  <2>6. data \in [DataBlocks -> [Byte -> Bytes]]
    BY DEF DInv
  <2>7. data'[s][j] = IF s = Bnum /\ j \in Here THEN w[j] ELSE data[s][j]
    <3>1. CASE s = Bnum
      <4>1. data'[s] = [i \in Byte |-> IF i \in Here THEN w[i] ELSE data[Bnum][i]]
        BY <2>3, <2>6, <3>1
      <4> QED
        BY <2>4, <3>1, <4>1
    <3>2. CASE s # Bnum
      BY <2>3, <2>6, <3>2
    <3> QED
      BY <3>1, <3>2
  <2> QED
    BY <2>2, <2>5, <2>7
<1>7. ASSUME g # io.file PROVE Content(g)' = Content(g)
  <2> DEFINE s == Content(g)'
             t == Content(g)
             m == TotalSize(g)
  <2>1. s \in Seq(Bytes) /\ t \in Seq(Bytes) /\ m \in Nat /\ Len(s) = m /\ Len(t) = m
        /\ \A k \in 1 .. m : s[k] = t[k]
    <3>1. \A k \in 1 .. m : s[k] = t[k]
      BY <1>6, <1>7
    <3> QED
      BY <1>4, <1>5, <3>1
  <2> HIDE DEF s, t, m
  <2>2. s = t
    BY <2>1, SameBytes
  <2> QED
    BY <2>2 DEF s, t
<1> QED
  BY <1>2, <1>4, <1>6, <1>7

\* how far the loop is after a turn
LEMMA TurnCounts ==
  ASSUME LayerInv, DInv, BytesInv, phase = "iter", it.left > 0, Turn, io' = io
  PROVE  /\ Count \in Nat \ {0} /\ DoneBytes \in Nat /\ it.size \in Int /\ it.start \in Byte
         /\ DoneBytes + Count <= it.size /\ io.off \in Nat /\ io.size \in Int /\ io.file \in files
         /\ it'.size = it.size /\ DoneBytes' = DoneBytes + Count
         /\ it'.left >= 0
         /\ it'.left > 0 => BLOCK_SIZE * it'.block + it'.start = io.off + DoneBytes'
         /\ io.kind = "write" => it'.left = 0 /\ DoneBytes = 0
<1>1. /\ Count \in 1 .. BLOCK_SIZE /\ Count <= it.left /\ it.left \in Int /\ it.block \in Nat
      /\ it.start \in Byte /\ (Count < it.left => it.start + Count = BLOCK_SIZE) /\ io.file \in files
  BY TurnFacts DEF LayerInv
<1>2. it'.size = it.size /\ it'.left = it.left - Count
  BY TurnKeeps DEF LayerInv
<1>3. it.size \in Int /\ it.left <= it.size /\ io.off \in Nat /\ io.size \in Int
  BY SizesAssumption DEF DInv, RequestOK, IterType
<1>4. it.left > 0 => BLOCK_SIZE * it.block + it.start = io.off + DoneBytes
  BY DEF BytesInv, IterBytes
<1>5. io.kind = "write" => DoneBytes = 0 /\ it.start + it.left <= BLOCK_SIZE
  BY DEF BytesInv, IterBytes
<1>6. it.start \in Nat /\ BLOCK_SIZE \in Nat /\ Count \in Nat \ {0}
  BY <1>1, SizesAssumption DEF Byte
<1>7. DoneBytes = it.size - it.left /\ DoneBytes' = it'.size - it'.left
  BY DEF DoneBytes
<1>8. DoneBytes \in Nat /\ DoneBytes + Count <= it.size /\ DoneBytes' = DoneBytes + Count /\ it'.left >= 0
  BY <1>1, <1>2, <1>3, <1>6, <1>7
<1>9. ASSUME it'.left > 0 PROVE BLOCK_SIZE * it'.block + it'.start = io.off + DoneBytes'
  <2>1. it.start + Count = BLOCK_SIZE
    BY <1>1, <1>2, <1>6, <1>9
  <2>2. it'.block = it.block + 1 /\ it'.start = 0
    <3>1. it \in [block : Int, start : Int, size : Int, left : Int]
      BY DEF DInv, IterType
    <3> QED
      BY <3>1 DEF Turn
  <2> DEFINE y == BLOCK_SIZE * it.block
  <2>3. y \in Nat /\ BLOCK_SIZE * (it.block + 1) = y + BLOCK_SIZE
    BY <1>1, <1>6
  <2>4. y + it.start = io.off + DoneBytes
    BY <1>4
  <2> HIDE DEF y
  <2>5. (y + BLOCK_SIZE) + 0 = io.off + DoneBytes'
    BY <1>3, <1>6, <1>8, <2>1, <2>3, <2>4
  <2> QED
    BY <2>2, <2>3, <2>5
<1>10. ASSUME io.kind = "write" PROVE it'.left = 0 /\ DoneBytes = 0
  <2>1. Count = it.left
    BY <1>1, <1>5, <1>6, <1>10 DEF Count, MIN
  <2> QED
    BY <1>1, <1>2, <1>5, <1>10, <2>1
<1> QED
  BY <1>1, <1>2, <1>3, <1>6, <1>8, <1>9, <1>10

\* a turn that fills or writes makes its bytes what they are to be
LEMMA PutBytes ==
  ASSUME LayerInv, DInv, BytesInv, LayerInv', DInv', BlockIter, FillIter \/ WriteIter
  PROVE  BytesInv'
<1>1. /\ phase = "iter" /\ it.left > 0 /\ Turn /\ UNCHANGED <<vars, phase, io, before>>
      /\ io.kind \in {"write", "truncate"} /\ io' = io
  BY DEF BlockIter, FillIter, WriteIter
<1>2. PICK f : f = io.file
  OBVIOUS
<1>3. /\ Count \in Nat \ {0} /\ DoneBytes \in Nat /\ it.size \in Int /\ it.start \in Byte
      /\ DoneBytes + Count <= it.size /\ io.off \in Nat /\ io.size \in Int /\ f \in files
      /\ it'.size = it.size /\ DoneBytes' = DoneBytes + Count
      /\ it'.left >= 0
      /\ it'.left > 0 => BLOCK_SIZE * it'.block + it'.start = io.off + DoneBytes'
      /\ io.kind = "write" => it'.left = 0 /\ DoneBytes = 0
  BY <1>1, <1>2, TurnCounts
<1>4. Remembered /\ AskedFor /\ WriteBytes(f)
  BY <1>1, <1>2 DEF BytesInv, IterBytes
<1>5. files' = files /\ rv' = rv /\ Old' = Old /\ Goal' = Goal
  BY <1>1 DEF vars, disk, call, Old, Goal
<1> DEFINE w == [j \in Byte |-> IF io.kind = "write" THEN io.buf[j - it.start + 1] ELSE 0]
<1>6. data' = [data EXCEPT ![Bnum] = [j \in Byte |-> IF j \in Here THEN w[j] ELSE data[Bnum][j]]]
  BY DEF FillIter, WriteIter
<1>7. \A j \in Byte : w[j] = IF io.kind = "write" THEN io.buf[j - it.start + 1] ELSE 0
  OBVIOUS
<1> HIDE DEF w
<1>8. ASSUME NEW g \in files
      PROVE  /\ TotalSize(g)' = TotalSize(g) /\ TotalSize(g) \in Nat
             /\ \A n \in 1 .. TotalSize(g) :
                  Content(g)'[n] = IF g = io.file /\ InTurn(n) THEN w[it.start + (n - 1 - io.off - DoneBytes)]
                                   ELSE Content(g)[n]
             /\ g # io.file => Content(g)' = Content(g)
  BY <1>1, <1>6, TurnWrites
<1>9. Remembered' /\ AskedFor'
  BY <1>1, <1>2, <1>4, <1>5, <1>8 DEF Remembered, AskedFor
<1>10. /\ Len(Old) \in Nat /\ Goal \in Int /\ TotalSize(f) = Goal /\ it.size = io.size /\ rv = "ok"
       /\ Len(Old) <= Goal /\ io.off + io.size <= Goal
  <2>1. Len(Old) \in Nat
    BY <1>4 DEF Remembered, Old
  <2>2. TotalSize(f) = Goal /\ it.size = io.size /\ rv = "ok"
    BY <1>4 DEF WriteBytes
  <2>3. io.kind = "truncate" => io.off = Len(Old)
    BY <1>4 DEF AskedFor
  <2>4. io.size >= 0
    BY <1>3, <2>2
  <2> QED
    BY <1>1, <1>3, <2>1, <2>2, <2>3, <2>4 DEF Goal, MAX
<1>11. ASSUME NEW n \in io.off + 1 .. io.off + DoneBytes' PROVE Content(f)'[n] = Value(n)'
  <2>1. n \in 1 .. TotalSize(f)
    BY <1>3, <1>10
  <2>2. Value(n)' = Value(n)
    BY <1>1 DEF Value
  <2>3. CASE InTurn(n)
    <3> DEFINE j == it.start + (n - 1 - io.off - DoneBytes)
    <3>1. Content(f)'[n] = w[j]
      BY <1>2, <1>3, <1>8, <2>1, <2>3
    <3>2. j \in Byte
      <4>1. (n - 1) % BLOCK_SIZE = j
        BY <1>1, <1>2, <1>3, <1>10, <2>1, <2>3, TurnPlaces
      <4>2. (n - 1) % BLOCK_SIZE \in Byte
        BY <1>10, <2>1, SizesAssumption DEF Byte
      <4> QED
        BY <4>1, <4>2
    <3>3. w[j] = IF io.kind = "write" THEN io.buf[j - it.start + 1] ELSE 0
      <4> HIDE DEF j
      <4> QED
        BY <1>7, <3>2
    <3>4. io.kind = "write" => j - it.start + 1 = n - io.off
      BY <1>3, <1>10, <2>1, SizesAssumption DEF Byte
    <3> HIDE DEF j
    <3> QED
      BY <2>2, <3>1, <3>3, <3>4 DEF Value
  <2>4. CASE ~InTurn(n)
    <3>1. n \in io.off + 1 .. io.off + DoneBytes
      BY <1>3, <1>10, <2>1, <2>4 DEF InTurn
    <3>2. Content(f)'[n] = Content(f)[n]
      BY <1>3, <1>8, <2>1, <2>4
    <3> QED
      BY <1>4, <2>2, <3>1, <3>2 DEF WriteBytes
  <2> QED
    BY <2>3, <2>4
<1>12. ASSUME NEW n \in 1 .. Len(Old), n \notin io.off + 1 .. io.off + io.size
       PROVE  Content(f)'[n] = Old[n]
  <2>1. n \in 1 .. TotalSize(f) /\ ~InTurn(n)
    BY <1>3, <1>10, <1>12 DEF InTurn
  <2>2. Content(f)'[n] = Content(f)[n]
    BY <1>3, <1>8, <2>1
  <2> QED
    BY <1>4, <1>12, <2>2 DEF WriteBytes
<1>13. WriteBytes(f)'
  BY <1>1, <1>3, <1>5, <1>8, <1>10, <1>11, <1>12 DEF WriteBytes
<1>14. IterBytes'
  <2>1. io'.kind = "write" /\ it'.left > 0 => FALSE
    BY <1>1, <1>3
  <2> QED
    BY <1>1, <1>2, <1>3, <1>13, <2>1 DEF IterBytes
<1> QED
  BY <1>1, <1>9, <1>14 DEF BytesInv

\* a turn that reads copies its bytes to their place in the answer
LEMMA GetBytes ==
  ASSUME LayerInv, DInv, BytesInv, BlockIter, ReadIter
  PROVE  BytesInv'
<1>1. /\ phase = "iter" /\ it.left > 0 /\ Turn /\ UNCHANGED <<vars, data, phase, io, before>>
      /\ io.kind = "read" /\ io' = io
      /\ out' = [j \in DOMAIN out |-> IF j \in DoneBytes .. DoneBytes + Count - 1
                                    THEN data[Bnum][it.start + j - DoneBytes] ELSE out[j]]
  BY DEF BlockIter, ReadIter
<1>2. PICK f : f = io.file
  OBVIOUS
<1>3. /\ Count \in Nat \ {0} /\ DoneBytes \in Nat /\ it.size \in Int /\ it.start \in Byte
      /\ DoneBytes + Count <= it.size /\ io.off \in Nat /\ io.size \in Int /\ f \in files
      /\ it'.size = it.size /\ DoneBytes' = DoneBytes + Count
      /\ it'.left >= 0
      /\ it'.left > 0 => BLOCK_SIZE * it'.block + it'.start = io.off + DoneBytes'
  BY <1>1, <1>2, TurnCounts
<1>4. Remembered /\ AskedFor /\ ReadBytes(f)
  BY <1>1, <1>2 DEF BytesInv, IterBytes
<1>5. files' = files /\ Old' = Old
  BY <1>1 DEF vars, disk, Old
<1>6. \A g : Content(g)' = Content(g) /\ TotalSize(g)' = TotalSize(g)
  BY <1>1, SameContent DEF vars, disk
<1>7. Remembered' /\ AskedFor'
  BY <1>1, <1>4, <1>5, <1>6 DEF Remembered, AskedFor
<1>8. /\ TotalSize(f) \in Nat /\ Len(Old) = TotalSize(f) /\ Content(f) = Old
      /\ \A n \in 1 .. TotalSize(f) : Old[n] = data[Spot(f, n)][(n - 1) % BLOCK_SIZE]
  BY <1>3, <1>4, BytesNow DEF AreBytes, ReadBytes
<1>9. it.size <= Len(Old) - io.off /\ it.size <= MaxRead /\ it.size <= io.size
  <2>1. it.size = MIN(Len(Old) - io.off, io.size) /\ io.size \in 1 .. MaxRead /\ MaxRead \in Nat
    BY <1>1, <1>4, FileDataAssumption DEF ReadBytes, AskedFor
  <2> QED
    BY <1>3, <1>8, <2>1 DEF MIN
<1>10. DOMAIN out = 0 .. MaxRead - 1
  BY DEF DInv
<1>11. ASSUME NEW j \in 0 .. DoneBytes' - 1 PROVE out'[j] = Old[io.off + j + 1]
  <2>1. j \in DOMAIN out /\ j \in Nat
    BY <1>3, <1>9, <1>10, FileDataAssumption
  <2>2. CASE j \in DoneBytes .. DoneBytes + Count - 1
    <3> DEFINE n == io.off + j + 1
    <3>1. n \in Nat /\ 1 <= n /\ n <= TotalSize(f) /\ n \in 1 .. TotalSize(f) /\ InTurn(n)
      <4>1. n \in Nat /\ 1 <= n
        BY <1>3, <2>1
      <4>2. n <= TotalSize(f)
        BY <1>3, <1>8, <1>9, <2>1, <2>2
      <4>3. InTurn(n)
        BY <1>3, <2>1, <2>2 DEF InTurn
      <4> QED
        BY <1>8, <4>1, <4>2, <4>3
    <3>2. n - 1 - io.off - DoneBytes = j - DoneBytes
      BY <1>3, <2>1
    <3> HIDE DEF n
    <3>3. Spot(f, n) = Bnum /\ (n - 1) % BLOCK_SIZE = it.start + (j - DoneBytes)
      BY <1>1, <1>2, <1>3, <3>1, <3>2, TurnPlaces
    <3>4. it.start + (j - DoneBytes) = it.start + j - DoneBytes
      BY <1>3, <2>1, SizesAssumption DEF Byte
    <3>5. Old[n] = data[Bnum][it.start + j - DoneBytes]
      BY <1>8, <3>1, <3>3, <3>4
    <3> QED
      BY <1>1, <2>1, <2>2, <3>5 DEF n
  <2>3. CASE j \notin DoneBytes .. DoneBytes + Count - 1
    <3>1. j \in 0 .. DoneBytes - 1
      BY <1>3, <2>1, <2>3
    <3> QED
      BY <1>1, <1>4, <2>1, <2>3, <3>1 DEF ReadBytes
  <2> QED
    BY <2>2, <2>3
<1>12. ReadBytes(f)'
  BY <1>1, <1>3, <1>4, <1>5, <1>6, <1>11 DEF ReadBytes
<1>13. IterBytes'
  BY <1>1, <1>2, <1>3, <1>12 DEF IterBytes
<1> QED
  BY <1>1, <1>7, <1>13 DEF BytesInv

LEMMA NextBytes ==
  ASSUME NoOverflow, PagesFit, LayerInv, DInv, BytesInv, [DataNext]_allVars
  PROVE  LayerInv' /\ DInv' /\ BytesInv'
<1>1. LayerInv' /\ DInv'
  BY NextDInv
<1>2. CASE Kernel
  BY <1>1, <1>2, KernelBytes
<1>3. CASE Resize \/ ResizeDone
  BY <1>1, <1>3, ResizeKeepsBytes, IterStarts
<1>4. CASE BlockIter
  BY <1>1, <1>4, PutBytes, GetBytes DEF BlockIter
<1>5. CASE IterDone \/ Reply
  BY <1>1, <1>5 DEF IterDone, Reply, BytesInv
<1>6. CASE UNCHANGED allVars
  <2>1. UNCHANGED <<phase, io, it, out, before, data>> /\ UNCHANGED <<pc, op, rv, top, arg, files, next, size, blocks>>
    BY <1>6 DEF allVars, dataVars, vars, disk, call
  <2>2. \A g : Content(g)' = Content(g) /\ TotalSize(g)' = TotalSize(g)
    BY <2>1, SameContent
  <2>3. Aim' = Aim
    BY <2>1, <2>2 DEF Aim
  <2>4. Old' = Old /\ Goal' = Goal /\ DoneBytes' = DoneBytes
    BY <2>1 DEF Old, Goal, DoneBytes
  <2>5. (Remembered => Remembered') /\ (AskedFor => AskedFor')
    BY <2>1, <2>2, <2>4 DEF Remembered, AskedFor
  <2>6. ResizeBytes => ResizeBytes'
    BY <2>1, <2>2, <2>3, <2>4 DEF ResizeBytes, Outcome
  <2>7. \A f : (WriteBytes(f) => WriteBytes(f)') /\ (ReadBytes(f) => ReadBytes(f)')
    <3>1. \A n : Value(n)' = Value(n)
      BY <2>1 DEF Value
    <3> QED
      BY <2>1, <2>2, <2>4, <3>1 DEF WriteBytes, ReadBytes
  <2>8. IterBytes => IterBytes'
    BY <2>1, <2>4, <2>7 DEF IterBytes
  <2> QED
    BY <1>1, <2>1, <2>5, <2>6, <2>8 DEF BytesInv
<1> QED
  BY <1>1, <1>2, <1>3, <1>4, <1>5, <1>6 DEF DataNext, Handler

LEMMA BytesInvariant ==
  ASSUME NoOverflow, PagesFit
  PROVE  DataSpec => [](LayerInv /\ DInv /\ BytesInv)
<1>1. DataInit => BytesInv
  BY DEF DataInit, BytesInv
<1>2. LayerInv /\ DInv /\ BytesInv /\ [DataNext]_allVars => BytesInv'
  BY NextBytes
<1> QED
  BY <1>1, <1>2, DataInvariant, PTL DEF DataSpec

(***************************************************************************)
(* The sequences of bytes that ByteArray is about.                         *)
(***************************************************************************)
FileBytes == IF phase \in {"idle", "reply"} THEN Contents ELSE before
FileCall ==
  IF phase = "idle" THEN NoIo
  ELSE IF io.kind = "truncate" THEN [io EXCEPT !.off = 0, !.size = Len(before[io.file]) + @]
  ELSE io
Copied == [n \in 1 .. it.size |-> out[n - 1]]
FileAnswer ==
  IF phase # "reply" THEN [rv |-> "none", bytes |-> <<>>]
  ELSE IF io.kind = "read" THEN [rv |-> "ok", bytes |-> Copied]
  ELSE [rv |-> rv, bytes |-> <<>>]

LEMMA FileActions ==
  /\ File!Init <=> FileBytes = [f \in {} |-> <<>>] /\ FileCall = File!NoCall /\ FileAnswer = File!NoAnswer
  /\ File!NoCall = [kind |-> "none", file |-> -1, off |-> 0, size |-> 0, buf |-> <<>>]
  /\ File!NoAnswer = [rv |-> "none", bytes |-> <<>>]
  /\ File!Create <=>
       /\ FileCall = File!NoCall
       /\ \E f \in Inums \ DOMAIN FileBytes :
            FileBytes' = [g \in DOMAIN FileBytes \cup {f} |-> IF g = f THEN <<>> ELSE FileBytes[g]]
       /\ FileCall' = FileCall /\ FileAnswer' = FileAnswer
  /\ File!Ask <=>
       /\ FileCall = File!NoCall
       /\ FileCall' \in Requests
       /\ FileCall'.file \in DOMAIN FileBytes
       /\ FileBytes' = FileBytes /\ FileAnswer' = FileAnswer
  /\ \A k, v, b : File!Done(k, v, b) <=>
       /\ FileCall.kind = k /\ FileAnswer = File!NoAnswer /\ FileAnswer' = [rv |-> v, bytes |-> b]
       /\ FileCall' = FileCall
  /\ File!OwnFileOnly <=>
       /\ FileCall.file \in DOMAIN FileBytes'
       /\ FileBytes' = [FileBytes EXCEPT ![FileCall.file] = FileBytes'[FileCall.file]]
  /\ File!End = FileCall.off + Len(FileCall.buf)
  /\ File!Written <=>
       /\ File!Done("write", "ok", <<>>)
       /\ File!OwnFileOnly
       /\ Len(FileBytes'[FileCall.file]) =
            IF Len(FileBytes[FileCall.file]) > File!End THEN Len(FileBytes[FileCall.file]) ELSE File!End
       /\ SubSeq(FileBytes'[FileCall.file], FileCall.off + 1, File!End) = FileCall.buf
       /\ \A n \in 1 .. Len(FileBytes[FileCall.file]) :
            n \notin FileCall.off + 1 .. File!End => FileBytes'[FileCall.file][n] = FileBytes[FileCall.file][n]
  /\ File!Truncated <=>
       /\ File!Done("truncate", "ok", <<>>)
       /\ File!OwnFileOnly
       /\ FileBytes'[FileCall.file] =
            [n \in 1 .. FileCall.size |->
               IF n <= Len(FileBytes[FileCall.file]) THEN FileBytes[FileCall.file][n] ELSE 0]
  /\ File!Grown("write", File!End) <=>
       /\ File!Done("write", "ENOSPC", <<>>)
       /\ File!OwnFileOnly
       /\ Len(FileBytes[FileCall.file]) <= Len(FileBytes'[FileCall.file])
       /\ SubSeq(FileBytes[FileCall.file], 1, Len(FileBytes[FileCall.file])) =
            SubSeq(FileBytes'[FileCall.file], 1, Len(FileBytes[FileCall.file]))
       /\ Len(FileBytes'[FileCall.file]) < File!End
  /\ File!Grown("truncate", FileCall.size) <=>
       /\ File!Done("truncate", "ENOSPC", <<>>)
       /\ File!OwnFileOnly
       /\ Len(FileBytes[FileCall.file]) <= Len(FileBytes'[FileCall.file])
       /\ SubSeq(FileBytes[FileCall.file], 1, Len(FileBytes[FileCall.file])) =
            SubSeq(FileBytes'[FileCall.file], 1, Len(FileBytes[FileCall.file]))
       /\ Len(FileBytes'[FileCall.file]) < FileCall.size
  /\ File!Read <=>
       /\ FileCall.kind = "read" /\ FileAnswer = File!NoAnswer /\ FileCall' = FileCall
       /\ FileAnswer' = [rv |-> "ok", bytes |->
            SubSeq(FileBytes[FileCall.file], FileCall.off + 1,
                   IF FileCall.off + FileCall.size < Len(FileBytes[FileCall.file])
                   THEN FileCall.off + FileCall.size ELSE Len(FileBytes[FileCall.file]))]
       /\ FileBytes' = FileBytes
  /\ File!Freed <=>
       /\ File!Done("free", "ok", <<>>)
       /\ FileBytes' = [g \in DOMAIN FileBytes \ {FileCall.file} |-> FileBytes[g]]
  /\ File!Deliver <=>
       /\ FileAnswer # File!NoAnswer
       /\ FileCall' = File!NoCall /\ FileAnswer' = File!NoAnswer
       /\ FileBytes' = FileBytes
  /\ (UNCHANGED File!vars) <=> FileBytes' = FileBytes /\ FileCall' = FileCall /\ FileAnswer' = FileAnswer
BY DEF FileBytes, FileCall, FileAnswer, Copied, File!Init, File!NoCall, File!NoAnswer, File!Create, File!Ask,
       File!Done, File!old, File!new, File!OwnFileOnly, File!End, File!Longer, File!Written,
       File!Truncated, File!Grown, File!IsPrefix, File!Read, File!Freed, File!Deliver, File!vars

FileStep == [File!Next]_(File!vars)

\* what a sequence of bytes is a part of
LEMMA Slice ==
  ASSUME NEW s, NEW m \in Int, NEW n \in Int, NEW t \in Seq(Bytes), Len(t) = n - m + 1,
         \A i \in 1 .. Len(t) : s[m + i - 1] = t[i]
  PROVE  SubSeq(s, m, n) = t
<1>1. Len(t) \in Nat
  OBVIOUS
<1>2. ASSUME NEW i \in m .. n PROVE s[i] \in Bytes
  <2>1. i - m + 1 \in 1 .. Len(t) /\ m + (i - m + 1) - 1 = i
    BY <1>1
  <2>2. s[i] = t[i - m + 1]
    BY <2>1
  <2> QED
    BY <2>1, <2>2, ElementOfSeq
<1> DEFINE u == SubSeq(s, m, n)
<1>3. u \in Seq(Bytes) /\ Len(u) = (IF m <= n THEN n - m + 1 ELSE 0)
      /\ \A i \in 1 .. n - m + 1 : u[i] = s[m + i - 1]
  BY <1>2, SubSeqProperties
<1> HIDE DEF u
<1>4. Len(u) = Len(t) /\ \A i \in 1 .. Len(t) : u[i] = t[i]
  BY <1>1, <1>3
<1>5. u = t
  BY <1>1, <1>3, <1>4, SameBytes
<1> QED
  BY <1>5 DEF u

LEMMA InitFile ==
  ASSUME DataInit
  PROVE  File!Init
<1>1. phase = "idle" /\ files = {}
  BY DEF DataInit, Init
<1>2. FileBytes = [f \in {} |-> <<>>]
  BY <1>1 DEF FileBytes, Contents
<1>3. FileCall = File!NoCall /\ FileAnswer = File!NoAnswer
  BY <1>1, FileActions DEF FileCall, FileAnswer, NoIo, None
<1> QED
  BY <1>2, <1>3, FileActions

\* storage_mknod makes an empty file
LEMMA MknodFile ==
  ASSUME LayerInv, DInv, LayerInv', DInv', StorageMknod
  PROVE  FileStep
<1>1. phase = "idle" /\ UNCHANGED dataVars /\ UNCHANGED <<data, phase, io, it, out, before>>
  BY DEF StorageMknod, dataVars
<1>2. /\ FileCall = File!NoCall /\ FileCall' = FileCall /\ FileAnswer' = FileAnswer
      /\ FileBytes = Contents /\ FileBytes' = Contents'
  BY <1>1, FileActions DEF FileCall, FileAnswer, FileBytes, NoIo, None
<1>3. CASE AllocNoInode
  <2>1. UNCHANGED <<data, next, size, blocks>> /\ files' = files
    BY <1>1, <1>3 DEF AllocNoInode, disk
  <2>2. Contents' = Contents
    BY <2>1, SameContent DEF Contents
  <2> QED
    BY <1>2, <2>2, FileActions DEF FileStep
<1>4. CASE Alloc
  <2>1. PICK i \in Inums \ inodeMap :
           /\ inodeMap' = inodeMap \cup {i} /\ files' = files \cup {i}
           /\ ChainOf(next', i) = <<i>> /\ TotalOf(next', size', i) = 0
           /\ \A g \in files : /\ ChainOf(next', g) = ChainOf(next, g)
                               /\ TotalOf(next', size', g) = TotalOf(next, size, g)
    BY <1>4, AllocFacts DEF LayerInv
  <2>2. \A j \in inodeMap : blocks'[j] = blocks[j]
    <3>1. PICK k \in Inums : FirstFreeInum(k) /\ blocks' = [blocks EXCEPT ![k] = EmptySlots]
      BY <1>4 DEF Alloc
    <3>2. k \notin inodeMap /\ blocks \in [Inums -> [Slots -> Int]] /\ inodeMap \subseteq Inums
      BY <3>1 DEF FirstFreeInum, LayerInv, IInv, TypeOK
    <3> QED
      BY <3>1, <3>2
  <2>3. ASSUME NEW g \in files PROVE Content(g)' = Content(g)
    <3> DEFINE s == Content(g)'
               t == Content(g)
               m == TotalSize(g)
    <3>1. TotalSize(g)' = TotalSize(g) /\ Chain(g)' = Chain(g) /\ g \in files'
      BY <2>1, TotalIs, TotalIsPrimed, ChainIs, ChainIsPrimed
    <3>2. /\ m \in Nat /\ t \in Seq(Bytes) /\ Len(t) = m
          /\ \A n \in 1 .. m : t[n] = data[Spot(g, n)][(n - 1) % BLOCK_SIZE]
      BY BytesNow DEF AreBytes
    <3>3. /\ s \in Seq(Bytes) /\ Len(s) = m
          /\ \A n \in 1 .. m : s[n] = data[Spot(g, n)'][(n - 1) % BLOCK_SIZE]
      BY <1>1, <3>1, BytesThen DEF AreBytes
    <3>4. ASSUME NEW n \in 1 .. m PROVE Spot(g, n)' = Spot(g, n)
      <4>1. Held(g, n)
        BY <3>2, HeldNow DEF AllHeld, LayerInv
      <4>2. Chain(g)[Nth(n)] \in inodeMap
        BY <4>1 DEF Held, Owns
      <4> QED
        BY <2>2, <3>1, <4>2 DEF Spot
    <3>5. \A n \in 1 .. m : s[n] = t[n]
      BY <3>2, <3>3, <3>4
    <3> HIDE DEF s, t, m
    <3>6. s = t
      BY <3>2, <3>3, <3>5, SameBytes
    <3> QED
      BY <3>6 DEF s, t
  <2>4. Content(i)' = <<>>
    <3>1. i \in files' /\ TotalSize(i)' = 0
      BY <2>1, TotalIsPrimed
    <3>2. Content(i)' \in Seq(Bytes) /\ Len(Content(i)') = 0
      BY <3>1, BytesThen DEF AreBytes
    <3> QED
      BY <3>2, EmptySeq
  <2>5. i \notin files
    BY <2>1 DEF LayerInv, IInv, Structure, TypeOK
  <2>6. Contents' = [g \in files \cup {i} |-> IF g = i THEN <<>> ELSE Contents[g]]
    BY <2>1, <2>3, <2>4, <2>5 DEF Contents
  <2>7. DOMAIN Contents = files
    BY DEF Contents
  <2>8. File!Create
    BY <1>2, <2>1, <2>5, <2>6, <2>7, FileActions
  <2> QED
    BY <2>8 DEF FileStep, File!Next
<1> QED
  BY <1>3, <1>4 DEF StorageMknod

\* a call is asked for, with nothing done yet
LEMMA AskFile ==
  ASSUME LayerInv, DInv, NEW k \in {"write", "truncate", "read", "free"}, NEW f \in files,
         NEW off, NEW n \in Int, NEW buf,
         Ask(k, f, off, n, buf), UNCHANGED <<data, disk, files>>, phase' \in {"resize", "iter"},
         NEW a, NEW b,
         [kind |-> k, file |-> f, off |-> a, size |-> b, buf |-> buf] \in Requests,
         IF k = "truncate" THEN a = 0 /\ b = TotalSize(f) + n ELSE a = off /\ b = n
  PROVE  FileStep
<1>1. /\ phase = "idle" /\ io' = [kind |-> k, file |-> f, off |-> off, size |-> n, buf |-> buf]
      /\ before' = Contents
  BY DEF Ask
<1>2. before'[f] \in Seq(Bytes) /\ Len(before'[f]) = TotalSize(f)
  BY AskBytes
<1>3. FileBytes = Contents /\ FileBytes' = Contents /\ DOMAIN Contents = files
  BY <1>1 DEF FileBytes, Contents
<1>4. FileCall = File!NoCall /\ FileAnswer' = FileAnswer
  BY <1>1, FileActions DEF FileCall, FileAnswer, NoIo, None
<1>5. FileCall' = [kind |-> k, file |-> f, off |-> a, size |-> b, buf |-> buf]
  <2>1. FileCall' = IF io'.kind = "truncate" THEN [io' EXCEPT !.off = 0, !.size = Len(before'[io'.file]) + io'.size] ELSE io'
    BY DEF FileCall
  <2>2. io'.kind = k /\ io'.file = f /\ io'.size = n
    BY <1>1
  <2>3. CASE k = "truncate"
    <3>1. FileCall' = [io' EXCEPT !.off = 0, !.size = b]
      BY <1>2, <2>1, <2>2, <2>3
    <3> QED
      BY <1>1, <2>3, <3>1
  <2>4. CASE k # "truncate"
    BY <1>1, <2>1, <2>2, <2>4
  <2> QED
    BY <2>3, <2>4
<1>6. FileCall'.file = f
  BY <1>5
<1>7. File!Ask
  BY <1>3, <1>4, <1>5, <1>6, FileActions
<1> QED
  BY <1>7 DEF FileStep, File!Next

LEMMA KernelFile ==
  ASSUME NoOverflow, LayerInv, DInv, LayerInv', DInv', Kernel
  PROVE  FileStep
<1>1. CASE StorageMknod
  BY <1>1, MknodFile
<1>2. files \subseteq Inums
  BY DEF LayerInv, IInv, TypeOK, Structure
<1>3. ASSUME NEW f \in files, NEW off \in Offsets, NEW buf \in Buffers, StorageWrite(f, off, buf)
      PROVE  FileStep
  <2>1. /\ Ask("write", f, off, Len(buf), buf) /\ phase' = "resize" /\ UNCHANGED <<data, disk, files>>
    BY <1>3 DEF StorageWrite, Write, Begin
  <2>2. buf \in Seq(Bytes)
    BY FileDataAssumption
  <2>3. Len(buf) \in Int
    BY <2>2
  <2>4. [kind |-> "write", file |-> f, off |-> off, size |-> Len(buf), buf |-> buf] \in Requests
    BY <1>2 DEF Requests
  <2> QED
    BY <2>1, <2>3, <2>4, AskFile
<1>4. ASSUME NEW f \in files, NEW n \in Lengths, StorageTruncate(f, n)
      PROVE  FileStep
  <2>1. /\ Ask("truncate", f, TotalSize(f), ToInt(n - TotalSize(f)), <<>>)
        /\ phase' = "resize" /\ UNCHANGED <<data, disk, files>>
    BY <1>4 DEF StorageTruncate, Truncate, Begin
  <2>2. TotalSize(f) \in 0 .. MaxFileSize
    BY TotalInBounds DEF LayerInv
  <2>3. n \in 0 .. MaxFileSize
    BY FileDataAssumption
  <2>4. ToInt(n - TotalSize(f)) = n - TotalSize(f) /\ n - TotalSize(f) \in Int
    BY <2>2, <2>3, ToIntExact, SizesAssumption
  <2>5. n = TotalSize(f) + ToInt(n - TotalSize(f))
    BY <2>2, <2>3, <2>4, SizesAssumption
  <2>6. [kind |-> "truncate", file |-> f, off |-> 0, size |-> n, buf |-> <<>>] \in Requests
    BY <1>2 DEF Requests
  <2> QED
    BY <2>1, <2>4, <2>5, <2>6, AskFile
<1>5. ASSUME NEW f \in files, StorageUnlink(f)
      PROVE  FileStep
  <2>1. /\ Ask("free", f, 0, 0, <<>>) /\ phase' = "resize" /\ UNCHANGED <<data, disk, files>>
    BY <1>5 DEF StorageUnlink, Free, Begin
  <2>2. [kind |-> "free", file |-> f, off |-> 0, size |-> 0, buf |-> <<>>] \in Requests
    BY <1>2 DEF Requests
  <2> QED
    BY <2>1, <2>2, AskFile
<1>6. ASSUME NEW f \in files, NEW off \in Offsets, NEW n \in 1 .. MaxRead, StorageRead(f, off, n)
      PROVE  FileStep
  <2>1. /\ Ask("read", f, off, n, <<>>) /\ phase' = "iter" /\ UNCHANGED <<data, disk, files>>
    BY <1>6 DEF StorageRead, StartIter, vars
  <2>2. [kind |-> "read", file |-> f, off |-> off, size |-> n, buf |-> <<>>] \in Requests
    BY <1>2 DEF Requests
  <2>3. n \in Int
    OBVIOUS
  <2> QED
    BY <2>1, <2>2, <2>3, AskFile
<1> QED
  BY <1>1, <1>3, <1>4, <1>5, <1>6 DEF Kernel

\* the end of a call: the bytes of its file are what they are to be, and the
\* other files have kept theirs
LEMMA CallEnds ==
  ASSUME LayerInv, DInv, BytesInv, phase \in {"resize", "iter"}, phase' = "reply",
         UNCHANGED <<vars, data, io, it, out, before>>, NEW f, f = io.file
  PROVE  /\ FileBytes = before /\ FileBytes[f] = Old /\ f \in DOMAIN before
         /\ FileBytes' = Contents
         /\ FileCall.file = f /\ FileCall.kind = io.kind /\ FileCall.buf = io.buf
         /\ io.kind # "truncate" => FileCall.off = io.off /\ FileCall.size = io.size
         /\ io.kind = "truncate" => FileCall.size = Len(Old) + io.size
         /\ FileAnswer = File!NoAnswer /\ FileCall' = FileCall
         /\ io.kind = "read" => FileAnswer' = [rv |-> "ok", bytes |-> Copied]
         /\ \A k, v : k = io.kind /\ k # "read" /\ v = rv => File!Done(k, v, <<>>)
         /\ f \in files => File!OwnFileOnly /\ FileBytes'[f] = Content(f)
<1>1. Remembered /\ AskedFor
  BY DEF BytesInv
<1>2. FileBytes = before /\ FileBytes[f] = Old /\ f \in DOMAIN before
  BY <1>1 DEF FileBytes, Old, Remembered
<1>3. FileBytes' = Contents
  <2>1. \A g : Content(g)' = Content(g)
    BY SameContent DEF vars, disk
  <2>2. files' = files
    BY DEF vars
  <2>3. Contents' = Contents
    BY <2>1, <2>2 DEF Contents
  <2> QED
    BY <2>3 DEF FileBytes
<1>4. FileCall = IF io.kind = "truncate" THEN [io EXCEPT !.off = 0, !.size = Len(Old) + io.size] ELSE io
  BY DEF FileCall, Old
<1>5. DOMAIN io = {"kind", "file", "off", "size", "buf"}
  BY <1>1 DEF AskedFor
<1>6. /\ FileCall.file = f /\ FileCall.kind = io.kind /\ FileCall.buf = io.buf
      /\ io.kind # "truncate" => FileCall.off = io.off /\ FileCall.size = io.size
      /\ io.kind = "truncate" => FileCall.size = Len(Old) + io.size
  <2> DEFINE x == Len(Old) + io.size
  <2>1. FileCall = IF io.kind = "truncate" THEN [io EXCEPT !.off = 0, !.size = x] ELSE io
    BY <1>4
  <2> HIDE DEF x
  <2>2. /\ FileCall.file = f /\ FileCall.kind = io.kind /\ FileCall.buf = io.buf
        /\ io.kind # "truncate" => FileCall.off = io.off /\ FileCall.size = io.size
        /\ io.kind = "truncate" => FileCall.size = x
    BY <1>5, <2>1
  <2> QED
    BY <2>2 DEF x
<1>7. FileCall' = FileCall
  BY DEF FileCall
<1>8. FileAnswer = File!NoAnswer
  BY FileActions DEF FileAnswer
<1>9. FileAnswer' = IF io.kind = "read" THEN [rv |-> "ok", bytes |-> Copied]
                    ELSE [rv |-> rv, bytes |-> <<>>]
  <2>1. Copied' = Copied
    BY DEF Copied
  <2> QED
    BY <2>1 DEF FileAnswer, vars
<1>10. \A k, v : k = io.kind /\ k # "read" /\ v = rv => File!Done(k, v, <<>>)
  BY <1>6, <1>7, <1>8, <1>9, FileActions
<1>11. ASSUME f \in files PROVE File!OwnFileOnly /\ FileBytes'[f] = Content(f)
  <2>1. FileBytes'[f] = Content(f) /\ DOMAIN FileBytes' = files
    BY <1>3, <1>11 DEF Contents
  <2>2. DOMAIN before = files /\ \A g \in files : g # f => before[g] = Content(g)
    BY <1>1, <1>11 DEF Remembered
  <2>3. FileBytes' = [before EXCEPT ![f] = Content(f)]
    BY <1>3, <1>11, <2>2 DEF Contents
  <2> QED
    BY <1>2, <1>6, <1>11, <2>1, <2>3, FileActions
<1> QED
  BY <1>2, <1>3, <1>6, <1>7, <1>8, <1>9, <1>10, <1>11

\* the inode layer has done all there is to do
LEMMA ResizedFile ==
  ASSUME NoOverflow, LayerInv, DInv, BytesInv, ResizeDone
  PROVE  FileStep
<1>1. /\ phase = "resize" /\ pc = "idle" /\ UNCHANGED <<vars, data, io, out, before>>
      /\ IF Goes THEN StartIter(io.file, io.off, io.size) ELSE phase' = "reply" /\ UNCHANGED it
  BY DEF ResizeDone
<1>2. CASE Goes
  <2>1. phase' = "iter" /\ io' = io /\ before' = before
    BY <1>1, <1>2 DEF StartIter
  <2>2. FileBytes' = FileBytes /\ FileCall' = FileCall /\ FileAnswer' = FileAnswer
    BY <1>1, <2>1 DEF FileBytes, FileCall, FileAnswer
  <2> QED
    BY <2>2, FileActions DEF FileStep
<1>3. CASE ~Goes
  <2>1. PICK f : f = io.file
    OBVIOUS
  <2>2. /\ FileBytes = before /\ FileBytes[f] = Old /\ f \in DOMAIN before
        /\ FileBytes' = Contents
        /\ FileCall.file = f /\ FileCall.kind = io.kind /\ FileCall.buf = io.buf
        /\ io.kind # "truncate" => FileCall.off = io.off /\ FileCall.size = io.size
        /\ io.kind = "truncate" => FileCall.size = Len(Old) + io.size
        /\ FileAnswer = File!NoAnswer /\ FileCall' = FileCall
        /\ io.kind = "read" => FileAnswer' = [rv |-> "ok", bytes |-> Copied]
        /\ \A k, v : k = io.kind /\ k # "read" /\ v = rv => File!Done(k, v, <<>>)
        /\ f \in files => File!OwnFileOnly /\ FileBytes'[f] = Content(f)
    BY <1>1, <1>3, <2>1, CallEnds
  <2>3. Remembered /\ AskedFor /\ ResizeBytes
    BY <1>1 DEF BytesInv
  <2>4. /\ io.kind \in {"write", "truncate", "free"} /\ io.off \in Nat /\ io.size \in Int
        /\ io.kind = "write" => Len(io.buf) = io.size
        /\ Old \in Seq(Bytes)
    BY <1>1, <2>1, <2>3, SizesAssumption DEF DInv, RequestOK, ResizeOK, Remembered, Old
  <2>5. Len(Old) \in Nat
    BY <2>4
  <2>6. CASE io.kind = "free"
    <3>1. f \notin files /\ rv = "ok"
      BY <1>1, <2>1, <2>3, <2>6 DEF ResizeBytes
    <3>2. DOMAIN before \ {f} = files /\ \A g \in files : Content(g) = before[g]
      BY <2>1, <2>3, <3>1 DEF Remembered
    <3>3. Contents = [g \in DOMAIN before \ {f} |-> before[g]]
      BY <3>2 DEF Contents
    <3>4. File!Done("free", "ok", <<>>)
      BY <2>2, <2>6, <3>1
    <3>5. File!Freed
      BY <2>2, <3>3, <3>4, FileActions
    <3> QED
      BY <3>5 DEF FileStep, File!Next
  <2>7. CASE io.kind # "free"
    <3>1. f \in files /\ (rv = "ok" => TotalSize(f) = Goal)
          /\ (rv # "ok" => rv = "ENOSPC" /\ Len(Old) <= TotalSize(f) /\ TotalSize(f) < Goal)
      BY <1>1, <2>1, <2>3, <2>7 DEF ResizeBytes, Outcome
    <3>2. /\ TotalSize(f) \in Nat /\ Content(f) \in Seq(Bytes) /\ Len(Content(f)) = TotalSize(f)
      BY <3>1, BytesNow DEF AreBytes
    <3>3. \A n \in 1 .. Len(Old) : n <= TotalSize(f) => Content(f)[n] = Old[n]
      BY <2>1, <2>3, <3>1 DEF ResizeBytes
    <3>4. File!OwnFileOnly /\ FileBytes'[f] = Content(f)
      BY <2>2, <3>1
    <3>5. CASE rv # "ok"
      <4> DEFINE l == Len(Old)
                 s == Content(f)
      <4>1. l <= Len(s) /\ Len(s) < Goal
        BY <3>1, <3>2, <3>5
      <4>2. SubSeq(Old, 1, l) = Old /\ SubSeq(s, 1, l) = Old
        <5>1. \A i \in 1 .. l : s[i] = Old[i]
          BY <2>5, <3>1, <3>2, <3>3, <3>5
        <5>2. l = l - 1 + 1 /\ \A i \in 1 .. l : 1 + i - 1 = i
          BY <2>5
        <5>3. 1 \in Int /\ l \in Int
          BY <2>5
        <5> HIDE DEF s
        <5>4. SubSeq(Old, 1, l) = Old
          BY <2>4, <5>2, <5>3, Slice
        <5>5. SubSeq(s, 1, l) = Old
          BY <2>4, <5>1, <5>2, <5>3, Slice
        <5> QED
          BY <5>4, <5>5
      <4>3. CASE io.kind = "write"
        <5>1. File!End = io.off + io.size
          BY <2>2, <2>4, <4>3, FileActions
        <5>2. Goal = MAX(io.off + io.size, l)
          BY <4>3 DEF Goal
        <5>3. Len(s) < File!End
          BY <2>4, <2>5, <3>2, <4>1, <5>1, <5>2 DEF MAX
        <5>4. File!Done("write", "ENOSPC", <<>>)
          BY <2>2, <3>1, <3>5, <4>3
        <5>5. File!Grown("write", File!End)
          BY <2>2, <3>4, <4>1, <4>2, <5>3, <5>4, FileActions
        <5> QED
          BY <5>5 DEF FileStep, File!Next
      <4>4. CASE io.kind = "truncate"
        <5>1. Goal = FileCall.size
          BY <2>2, <4>4 DEF Goal
        <5>2. File!Done("truncate", "ENOSPC", <<>>)
          BY <2>2, <3>1, <3>5, <4>4
        <5>3. File!Grown("truncate", FileCall.size)
          BY <2>2, <3>4, <4>1, <4>2, <5>1, <5>2, FileActions
        <5> QED
          BY <5>3 DEF FileStep, File!Next, FileCall
      <4> QED
        BY <2>4, <2>7, <4>3, <4>4
    <3>6. CASE rv = "ok"
      <4>1. io.kind = "truncate" /\ io.size < 1
        BY <1>3, <2>3, <2>4, <2>7, <3>6 DEF Goes, AskedFor
      <4>2. File!Done("truncate", "ok", <<>>)
        BY <2>2, <3>6, <4>1
      <4>3. FileCall.size = TotalSize(f) /\ TotalSize(f) <= Len(Old)
        BY <2>2, <2>4, <2>5, <3>1, <3>6, <4>1 DEF Goal
      <4>4. Content(f) = [n \in 1 .. FileCall.size |-> IF n <= Len(Old) THEN Old[n] ELSE 0]
        <5> DEFINE s == Content(f)
                   t == TotalSize(f)
        <5>1. \A n \in 1 .. t : n <= Len(Old) /\ s[n] = Old[n]
          BY <2>5, <3>2, <3>3, <4>3
        <5>2. s \in Seq(Bytes) /\ Len(s) = t
          BY <3>2
        <5> HIDE DEF s, t
        <5>3. s = [n \in 1 .. t |-> s[n]]
          BY <5>2
        <5>4. s = [n \in 1 .. t |-> IF n <= Len(Old) THEN Old[n] ELSE 0]
          BY <5>1, <5>3
        <5> QED
          BY <4>3, <5>4 DEF s, t
      <4>5. File!Truncated
        BY <2>2, <3>4, <4>2, <4>4, FileActions
      <4> QED
        BY <4>5 DEF FileStep, File!Next
    <3> QED
      BY <3>5, <3>6
  <2> QED
    BY <2>6, <2>7
<1> QED
  BY <1>2, <1>3

\* the loop over the blocks has done all there is to do
LEMMA IteratedFile ==
  ASSUME LayerInv, DInv, BytesInv, IterDone
  PROVE  FileStep
<1>1. /\ phase = "iter" /\ it.left <= 0 /\ phase' = "reply"
      /\ UNCHANGED <<vars, data, io, it, out, before>>
  BY DEF IterDone
<1>2. PICK f : f = io.file
  OBVIOUS
<1>3. /\ FileBytes = before /\ FileBytes[f] = Old /\ f \in DOMAIN before
      /\ FileBytes' = Contents
      /\ FileCall.file = f /\ FileCall.kind = io.kind /\ FileCall.buf = io.buf
      /\ io.kind # "truncate" => FileCall.off = io.off /\ FileCall.size = io.size
      /\ io.kind = "truncate" => FileCall.size = Len(Old) + io.size
      /\ FileAnswer = File!NoAnswer /\ FileCall' = FileCall
      /\ io.kind = "read" => FileAnswer' = [rv |-> "ok", bytes |-> Copied]
      /\ \A k, v : k = io.kind /\ k # "read" /\ v = rv => File!Done(k, v, <<>>)
      /\ f \in files => File!OwnFileOnly /\ FileBytes'[f] = Content(f)
  BY <1>1, <1>2, CallEnds
<1>4. Remembered /\ AskedFor /\ IterBytes
  BY <1>1 DEF BytesInv
<1>5. /\ io.kind \in {"write", "truncate", "read"} /\ io.off \in Nat /\ io.size \in Int /\ f \in files
      /\ io.kind = "write" => io.buf \in Seq(Bytes) /\ Len(io.buf) = io.size
      /\ Old \in Seq(Bytes) /\ it.size \in Int /\ it.left \in Int
  BY <1>1, <1>2, <1>4, SizesAssumption DEF DInv, RequestOK, IterOK, IterType, Remembered, Old
<1>6. Len(Old) \in Nat
  BY <1>5
<1>7. DoneBytes = it.size
  BY <1>1, <1>4, <1>5 DEF IterBytes, DoneBytes
<1>8. TotalSize(f) \in Nat /\ Content(f) \in Seq(Bytes) /\ Len(Content(f)) = TotalSize(f)
  BY <1>5, BytesNow DEF AreBytes
<1>9. File!OwnFileOnly /\ FileBytes'[f] = Content(f)
  BY <1>3, <1>5
<1> DEFINE s == Content(f)
           l == Len(Old)
<1>10. CASE io.kind = "read"
  <2>1. s = Old /\ it.size = MIN(l - io.off, io.size) /\ \A j \in 0 .. it.size - 1 : out[j] = Old[io.off + j + 1]
    BY <1>2, <1>4, <1>7, <1>10 DEF IterBytes, ReadBytes
  <2> DEFINE e == IF io.off + io.size < l THEN io.off + io.size ELSE l
             t == Copied
  <2>2. it.size \in Nat /\ it.size = e - io.off /\ e \in Int /\ e <= l
    BY <1>4, <1>5, <1>6, <1>10, <2>1, FileDataAssumption DEF AskedFor, MIN
  <2>3. ASSUME NEW n \in 1 .. it.size PROVE Copied[n] = Old[io.off + n] /\ Copied[n] \in Bytes
    <3>1. n - 1 \in 0 .. it.size - 1 /\ io.off + (n - 1) + 1 = io.off + n
      BY <1>5, <2>2
    <3>2. Copied[n] = Old[io.off + n]
      BY <2>1, <3>1 DEF Copied
    <3>3. io.off + n \in 1 .. Len(Old)
      BY <1>5, <1>6, <2>2
    <3> QED
      BY <1>5, <3>2, <3>3, ElementOfSeq
  <2>4. t \in Seq(Bytes) /\ Len(t) = it.size
    <3>1. t \in [1 .. it.size -> Bytes]
      BY <2>3 DEF Copied
    <3> HIDE DEF t
    <3> QED
      BY <2>2, <3>1
  <2> HIDE DEF e, t
  <2>5. SubSeq(Old, io.off + 1, e) = t
    <3>1. \A n \in 1 .. Len(t) : (io.off + 1) + n - 1 = io.off + n
      BY <1>5, <2>2, <2>4
    <3>2. \A n \in 1 .. Len(t) : Old[(io.off + 1) + n - 1] = t[n]
      BY <2>3, <2>4, <3>1 DEF t
    <3>3. Len(t) = e - (io.off + 1) + 1 /\ io.off + 1 \in Int
      BY <1>5, <2>2, <2>4
    <3> DEFINE m == io.off + 1
    <3>4. m \in Int /\ Len(t) = e - m + 1 /\ \A n \in 1 .. Len(t) : Old[m + n - 1] = t[n]
      BY <3>2, <3>3
    <3> HIDE DEF m
    <3>5. SubSeq(Old, m, e) = t
      BY <2>2, <2>4, <3>4, Slice
    <3> QED
      BY <3>5 DEF m
  <2>6. FileBytes' = FileBytes
    <3>1. DOMAIN before = files /\ \A g \in files : before[g] = Content(g)
      BY <1>2, <1>4, <1>5, <2>1 DEF Remembered, Old
    <3>2. before = [g \in files |-> before[g]]
      BY <1>4, <3>1 DEF Remembered
    <3>3. before = Contents
      BY <3>1, <3>2 DEF Contents
    <3> QED
      BY <1>3, <3>3
  <2>7. File!Read
    BY <1>3, <1>10, <2>5, <2>6, FileActions DEF e, t
  <2> QED
    BY <2>7 DEF FileStep, File!Next
<1>11. CASE io.kind # "read"
  <2>1. /\ rv = "ok" /\ it.size = io.size /\ TotalSize(f) = Goal
        /\ \A n \in io.off + 1 .. io.off + io.size : s[n] = Value(n)
        /\ \A n \in 1 .. l : n \notin io.off + 1 .. io.off + io.size => s[n] = Old[n]
    BY <1>2, <1>4, <1>7, <1>11 DEF IterBytes, WriteBytes
  <2>2. io.size >= 0
    BY <1>4, <1>5, <1>7, <2>1 DEF IterBytes, DoneBytes, DInv, IterType
  <2>3. CASE io.kind = "write"
    <3> DEFINE e == io.off + io.size
    <3>1. File!End = e /\ e \in Int
      BY <1>3, <1>5, <2>3, FileActions
    <3>2. Len(s) = IF l > e THEN l ELSE e
      BY <1>6, <1>8, <2>1, <2>3, <3>1 DEF Goal, MAX
    <3> HIDE DEF e
    <3>3. SubSeq(s, io.off + 1, e) = io.buf
      <4>1. io.buf \in Seq(Bytes) /\ Len(io.buf) = io.size /\ io.size \in Nat
        BY <1>5, <2>2, <2>3
      <4>2. Len(io.buf) = e - (io.off + 1) + 1 /\ io.off + 1 \in Int
        BY <1>5, <4>1 DEF e
      <4>3. ASSUME NEW n \in 1 .. Len(io.buf) PROVE s[(io.off + 1) + n - 1] = io.buf[n]
        <5>1. io.off + n \in io.off + 1 .. io.off + io.size /\ (io.off + 1) + n - 1 = io.off + n
              /\ io.off + n - io.off = n
          BY <1>5, <4>1
        <5> DEFINE k == io.off + n
        <5>2. s[k] = Value(k)
          BY <2>1, <5>1
        <5>3. k - io.off = n /\ (io.off + 1) + n - 1 = k
          BY <1>5, <4>1
        <5> HIDE DEF k, s
        <5>4. Value(k) = io.buf[n]
          BY <2>3, <5>3 DEF Value
        <5> QED
          BY <5>2, <5>3, <5>4
      <4> DEFINE m == io.off + 1
      <4>4. m \in Int /\ Len(io.buf) = e - m + 1 /\ \A n \in 1 .. Len(io.buf) : s[m + n - 1] = io.buf[n]
        BY <4>2, <4>3
      <4> HIDE DEF s, m
      <4>5. SubSeq(s, m, e) = io.buf
        BY <3>1, <4>1, <4>4, Slice
      <4> QED
        BY <4>5 DEF m
    <3>4. File!Done("write", "ok", <<>>)
      BY <1>3, <2>1, <2>3
    <3>5. \A n \in 1 .. l : n \notin io.off + 1 .. e => s[n] = Old[n]
      BY <2>1 DEF e
    <3>6. FileCall.file = f /\ FileCall.off = io.off /\ FileCall.buf = io.buf /\ FileBytes[f] = Old
      BY <1>3, <2>3
    <3>7. /\ Len(FileBytes'[FileCall.file]) =
               IF Len(FileBytes[FileCall.file]) > File!End THEN Len(FileBytes[FileCall.file]) ELSE File!End
          /\ SubSeq(FileBytes'[FileCall.file], FileCall.off + 1, File!End) = FileCall.buf
          /\ \A n \in 1 .. Len(FileBytes[FileCall.file]) :
               n \notin FileCall.off + 1 .. File!End => FileBytes'[FileCall.file][n] = FileBytes[FileCall.file][n]
      BY <1>9, <3>1, <3>2, <3>3, <3>5, <3>6
    <3>8. File!Written
      BY <1>9, <3>4, <3>7, FileActions
    <3> QED
      BY <3>8 DEF FileStep, File!Next
  <2>4. CASE io.kind = "truncate"
    <3>1. io.off = l /\ FileCall.size = l + io.size /\ TotalSize(f) = l + io.size
      BY <1>3, <1>4, <2>1, <2>4 DEF AskedFor, Goal
    <3> DEFINE t == l + io.size
    <3>2. ASSUME NEW n \in 1 .. t PROVE s[n] = IF n <= l THEN Old[n] ELSE 0
      <4>1. CASE n <= l
        <5>1. n \in 1 .. l /\ n \notin io.off + 1 .. io.off + io.size
          BY <1>5, <1>6, <2>2, <3>1, <4>1
        <5> QED
          BY <2>1, <4>1, <5>1
      <4>2. CASE n > l
        <5>1. n \in io.off + 1 .. io.off + io.size
          BY <1>5, <1>6, <2>2, <3>1, <4>2
        <5>2. s[n] = 0
          BY <2>1, <2>4, <5>1 DEF Value
        <5> QED
          BY <1>5, <1>6, <4>2, <5>2
      <4> QED
        BY <1>5, <1>6, <4>1, <4>2
    <3>3. s \in Seq(Bytes) /\ Len(s) = t /\ t = FileCall.size
      BY <1>8, <3>1
    <3> HIDE DEF s, t
    <3>4. s = [n \in 1 .. t |-> s[n]]
      BY <3>3
    <3>5. s = [n \in 1 .. FileCall.size |-> IF n <= l THEN Old[n] ELSE 0]
      BY <3>2, <3>3, <3>4
    <3>6. File!Done("truncate", "ok", <<>>)
      BY <1>3, <2>1, <2>4
    <3>7. File!Truncated
      BY <1>3, <1>9, <3>5, <3>6, FileActions DEF s
    <3> QED
      BY <3>7 DEF FileStep, File!Next
  <2> QED
    BY <1>5, <1>11, <2>3, <2>4
<1> QED
  BY <1>10, <1>11

\* the kernel gets its answer
LEMMA ReplyFile ==
  ASSUME LayerInv, Reply
  PROVE  FileStep
<1>1. phase = "reply" /\ phase' = "idle" /\ UNCHANGED <<vars, data>> /\ rv \in {"ok", "ENOSPC"}
  BY DEF Reply, LayerInv, IInv, TypeOK
<1>2. FileBytes' = FileBytes
  <2>1. \A g : Content(g)' = Content(g)
    BY <1>1, SameContent DEF vars, disk
  <2>2. files' = files
    BY <1>1 DEF vars
  <2> QED
    BY <1>1, <2>1, <2>2 DEF FileBytes, Contents
<1>3. FileCall' = File!NoCall /\ FileAnswer' = File!NoAnswer
  BY <1>1, FileActions DEF FileCall, FileAnswer, NoIo, None
<1>4. FileAnswer # File!NoAnswer
  <2>1. FileAnswer.rv \in {"ok", "ENOSPC"}
    BY <1>1 DEF FileAnswer
  <2>2. File!NoAnswer.rv = "none"
    BY FileActions
  <2> QED
    BY <2>1, <2>2
<1>5. File!Deliver
  BY <1>2, <1>3, <1>4, FileActions
<1> QED
  BY <1>5 DEF FileStep, File!Next

LEMMA NextFile ==
  ASSUME NoOverflow, LayerInv, DInv, BytesInv, [DataNext]_allVars
  PROVE  FileStep
<1>1. LayerInv' /\ DInv'
  BY NextDInv
<1>2. CASE Kernel
  BY <1>1, <1>2, KernelFile
<1>3. CASE Resize \/ BlockIter
  <2>1. phase \in {"resize", "iter"} /\ phase' = phase /\ io' = io /\ before' = before
    BY <1>3 DEF Resize, BlockIter, dataVars
  <2>2. FileBytes' = FileBytes /\ FileCall' = FileCall /\ FileAnswer' = FileAnswer
    BY <2>1 DEF FileBytes, FileCall, FileAnswer
  <2> QED
    BY <2>2, FileActions DEF FileStep
<1>4. CASE ResizeDone \/ IterDone \/ Reply
  BY <1>4, ResizedFile, IteratedFile, ReplyFile
<1>5. CASE UNCHANGED allVars
  <2>1. UNCHANGED <<phase, io, it, out, before, data, rv, files, next, size, blocks>>
    BY <1>5 DEF allVars, dataVars, vars, disk
  <2>2. \A g : Content(g)' = Content(g)
    BY <2>1, SameContent
  <2>3. FileBytes' = FileBytes /\ FileCall' = FileCall /\ FileAnswer' = FileAnswer
    BY <2>1, <2>2 DEF FileBytes, FileCall, FileAnswer, Contents, Copied
  <2> QED
    BY <2>3, FileActions DEF FileStep
<1> QED
  BY <1>2, <1>3, <1>4, <1>5 DEF DataNext, Handler

(* storage_read, storage_write, storage_truncate and storage_unlink        *)
(* implement files that are sequences of bytes: behind the slots, chains   *)
(* and stale blocks of the inode layer, a write puts its bytes where it    *)
(* was asked to and changes no other, a truncate keeps what is below the   *)
(* new size and zeroes what it adds, a read returns what is there, and     *)
(* each file keeps its bytes while a call works on another.                *)
THEOREM FileDataImplementsBytes ==
  ASSUME NoOverflow, PagesFit
  PROVE  DataSpec => FileSpec
<1>1. DataInit => File!Init
  BY InitFile
<1>2. LayerInv /\ DInv /\ BytesInv /\ [DataNext]_allVars => [File!Next]_(File!vars)
  BY NextFile DEF FileStep
<1> QED
  BY <1>1, <1>2, BytesInvariant, PTL DEF DataSpec, FileSpec, File!Spec
=============================================================================
