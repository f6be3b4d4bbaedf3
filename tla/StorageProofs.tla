--------------------------- MODULE StorageProofs ---------------------------
(***************************************************************************)
(* Proofs about Storage, for every number of inodes and blocks, every set  *)
(* of names and every depth of the tree.                                   *)
(*                                                                         *)
(* First what the operators of Storage do to an image: the fields an       *)
(* update changes, the blocks in use, where a path leads, the entries the  *)
(* calls into directory.c add and remove, and the steps of the tree they   *)
(* amount to.  Then every outcome of a handler leaves the image alone,     *)
(* makes one of these steps, changes the size of one file, or kills the    *)
(* daemon.  The invariant is Sane, what holds of the tree between two      *)
(* handlers.                                                               *)
(***************************************************************************)
EXTENDS Storage, DirectoryLemmas, FiniteSetTheorems

(***************************************************************************)
(* Tables of an image.                                                     *)
(***************************************************************************)
ImageTables == Seq([name : EntryNames, inum : Inums \cup {Unused}])

LEMMA InumFacts ==
  /\ Inums \subseteq Nat
  /\ ROOT_INUM \in Inums
  /\ IsFiniteSet(Inums)
<1>1. MAX_INODE_COUNT - 1 \in Nat
  BY StorageAssumption
<1> QED
  BY <1>1, FS_Interval DEF Inums, ROOT_INUM

(* A table of an image is a table whose entries in use are inodes.         *)
LEMMA ImageTableFacts ==
  ASSUME NEW d
  PROVE  d \in ImageTables <=> d \in Tables /\ \A n, i : <<n, i>> \in Bound(d) => i \in Inums
  BY InumFacts, TablesOver DEF ImageTables

LEMMA ImageFacts ==
  ASSUME NEW s \in Images, NEW i \in Inums
  PROVE  /\ s.mode[i] \in {"free", "file", "dir"}
         /\ s.refs[i] \in Nat
         /\ s.len[i] \in Nat
         /\ s.table[i] \in ImageTables
         /\ s.table[i] \in Tables
<1>1. s.table[i] \in ImageTables
  <2> HIDE DEF ImageTables, Inums
  <2> QED
    BY DEF Images, ImageTables
<1>2. s.table[i] \in Tables
  BY <1>1, ImageTableFacts
<1> QED
  BY <1>1, <1>2 DEF Images

(* Two images that agree on every inode are the same.                      *)
LEMMA SameImage ==
  ASSUME NEW s \in Images, NEW t \in Images,
         \A i \in Inums : /\ s.mode[i] = t.mode[i]
                          /\ s.refs[i] = t.refs[i]
                          /\ s.table[i] = t.table[i]
                          /\ s.len[i] = t.len[i]
  PROVE  s = t
<1>1. s.mode = t.mode
  BY DEF Images
<1>2. s.refs = t.refs
  BY DEF Images
<1>3. s.table = t.table
  BY DEF Images
<1>4. s.len = t.len
  BY DEF Images
<1>5. /\ s = [mode |-> s.mode, refs |-> s.refs, table |-> s.table, len |-> s.len]
      /\ t = [mode |-> t.mode, refs |-> t.refs, table |-> t.table, len |-> t.len]
  BY DEF Images
<1> QED
  BY <1>1, <1>2, <1>3, <1>4, <1>5

(***************************************************************************)
(* What the updates of an image change.                                    *)
(***************************************************************************)
LEMMA SetTableFacts ==
  ASSUME NEW s \in Images, NEW i \in Inums, NEW d \in ImageTables
  PROVE  /\ SetTable(s, i, d) \in Images
         /\ SetTable(s, i, d).mode = s.mode
         /\ SetTable(s, i, d).refs = s.refs
         /\ SetTable(s, i, d).len = s.len
         /\ \A j \in Inums : SetTable(s, i, d).table[j] = IF j = i THEN d ELSE s.table[j]
         /\ d = s.table[i] => SetTable(s, i, d) = s
<1>1. /\ SetTable(s, i, d) \in Images
      /\ SetTable(s, i, d).mode = s.mode
      /\ SetTable(s, i, d).refs = s.refs
      /\ SetTable(s, i, d).len = s.len
      /\ \A j \in Inums : SetTable(s, i, d).table[j] = IF j = i THEN d ELSE s.table[j]
  BY DEF SetTable, Images, ImageTables
<1>2. ASSUME d = s.table[i] PROVE SetTable(s, i, d) = s
  <2> DEFINE t == SetTable(s, i, d)
  <2>1. t \in Images /\ \A j \in Inums : /\ s.mode[j] = t.mode[j]
                                         /\ s.refs[j] = t.refs[j]
                                         /\ s.table[j] = t.table[j]
                                         /\ s.len[j] = t.len[j]
    BY <1>1, <1>2
  <2> HIDE DEF t
  <2>2. s = t
    BY <2>1, SameImage
  <2> QED
    BY <2>2 DEF t
<1> QED
  BY <1>1, <1>2

LEMMA AddRefFacts ==
  ASSUME NEW s \in Images, NEW i \in Inums, NEW n \in Int, s.refs[i] + n \in Nat
  PROVE  /\ AddRef(s, i, n) \in Images
         /\ AddRef(s, i, n).mode = s.mode
         /\ AddRef(s, i, n).table = s.table
         /\ AddRef(s, i, n).len = s.len
         /\ \A j \in Inums : AddRef(s, i, n).refs[j] = IF j = i THEN s.refs[i] + n ELSE s.refs[j]
  BY DEF AddRef, Images

LEMMA FreeInodeFacts ==
  ASSUME NEW s \in Images, NEW i \in Inums
  PROVE  /\ FreeInode(s, i) \in Images
         /\ \A j \in Inums :
              IF j = i
                THEN /\ FreeInode(s, i).mode[j] = "free"
                     /\ FreeInode(s, i).refs[j] = 0
                     /\ FreeInode(s, i).table[j] = <<>>
                     /\ FreeInode(s, i).len[j] = 0
                ELSE /\ FreeInode(s, i).mode[j] = s.mode[j]
                     /\ FreeInode(s, i).refs[j] = s.refs[j]
                     /\ FreeInode(s, i).table[j] = s.table[j]
                     /\ FreeInode(s, i).len[j] = s.len[j]
<1>1. <<>> \in ImageTables
  BY DEF ImageTables
<1> QED
  BY <1>1 DEF FreeInode, Images, ImageTables

LEMMA AllocInodeFacts ==
  ASSUME NEW s \in Images, FreeInums(s) # {}, NEW k \in {"file", "dir"}
  PROVE  /\ Min(FreeInums(s)) \in FreeInums(s)
         /\ Min(FreeInums(s)) \in Inums
         /\ s.mode[Min(FreeInums(s))] = "free"
         /\ AllocInode(s, k) \in Images
         /\ \A j \in Inums :
              IF j = Min(FreeInums(s))
                THEN /\ AllocInode(s, k).mode[j] = k
                     /\ AllocInode(s, k).refs[j] = 0
                     /\ AllocInode(s, k).table[j] = <<>>
                     /\ AllocInode(s, k).len[j] = 0
                ELSE /\ AllocInode(s, k).mode[j] = s.mode[j]
                     /\ AllocInode(s, k).refs[j] = s.refs[j]
                     /\ AllocInode(s, k).table[j] = s.table[j]
                     /\ AllocInode(s, k).len[j] = s.len[j]
<1> DEFINE i == Min(FreeInums(s))
<1>1. FreeInums(s) \subseteq Inums
  BY DEF FreeInums
<1>2. i \in FreeInums(s)
  BY <1>1, InumFacts, MinFacts
<1>3. i \in Inums /\ s.mode[i] = "free"
  BY <1>2 DEF FreeInums, Allocated
<1>4. <<>> \in ImageTables
  BY DEF ImageTables
<1> HIDE DEF i
<1>5. AllocInode(s, k) = [s EXCEPT !.mode[i] = k, !.refs[i] = 0, !.table[i] = <<>>, !.len[i] = 0]
  BY DEF AllocInode, i
<1> DEFINE t == [s EXCEPT !.mode[i] = k, !.refs[i] = 0, !.table[i] = <<>>, !.len[i] = 0]
<1>6. t \in Images
  BY <1>3, <1>4 DEF Images, ImageTables
<1>7. /\ t.mode = [s.mode EXCEPT ![i] = k]
      /\ t.refs = [s.refs EXCEPT ![i] = 0]
      /\ t.table = [s.table EXCEPT ![i] = <<>>]
      /\ t.len = [s.len EXCEPT ![i] = 0]
  BY DEF Images
<1>8. \A j \in Inums :
        IF j = i
          THEN t.mode[j] = k /\ t.refs[j] = 0 /\ t.table[j] = <<>> /\ t.len[j] = 0
          ELSE /\ t.mode[j] = s.mode[j] /\ t.refs[j] = s.refs[j]
               /\ t.table[j] = s.table[j] /\ t.len[j] = s.len[j]
  <2> HIDE DEF t
  <2> QED
    BY <1>7 DEF Images
<1>9. AllocInode(s, k) = t
  BY <1>5
<1> HIDE DEF t
<1> QED
  BY <1>2, <1>3, <1>6, <1>8, <1>9 DEF i

(***************************************************************************)
(* Blocks: how many entries fit, and how many blocks an image holds.       *)
(***************************************************************************)
BlocksFor(n) == (n + ENTRIES_PER_BLOCK - 1) \div ENTRIES_PER_BLOCK

LEMMA DivIs ==
  ASSUME NEW a \in Nat, NEW b \in Nat \ {0}, NEW q \in Nat, q * b <= a, a < q * b + b
  PROVE  a \div b = q
  OBVIOUS

LEMMA DivFacts ==
  ASSUME NEW a \in Nat, NEW b \in Nat \ {0}
  PROVE  /\ a \div b \in Nat
         /\ (a \div b) * b <= a
         /\ a < (a \div b) * b + b
         /\ a % b = a - (a \div b) * b
  OBVIOUS

LEMMA DivMonotone ==
  ASSUME NEW a \in Nat, NEW b \in Nat \ {0}, NEW c \in Nat, a <= c
  PROVE  a \div b <= c \div b
<1> DEFINE q == a \div b
           r == c \div b
<1>1. q * b <= a /\ q \in Nat /\ r \in Nat /\ c < r * b + b
  BY DivFacts
<1> HIDE DEF q, r
<1>2. ~ (r < q)
  <2> SUFFICES ASSUME r < q PROVE FALSE
    OBVIOUS
  <2>1. q * b >= r * b + b
    BY <1>1
  <2> QED
    BY <1>1, <2>1
<1>3. q <= r
  BY <1>1, <1>2
<1> QED
  BY <1>3 DEF q, r

(* One more entry takes a block where it is the first of a block, and only *)
(* there.                                                                  *)
LEMMA BlocksForFacts ==
  ASSUME NEW n \in Nat
  PROVE  /\ BlocksFor(n) \in Nat
         /\ BlocksFor(0) = 0
         /\ \A m \in Nat : m <= n => BlocksFor(m) <= BlocksFor(n)
         /\ BlocksFor(n + 1) = IF n % ENTRIES_PER_BLOCK = 0 THEN BlocksFor(n) + 1 ELSE BlocksFor(n)
<1> DEFINE E == ENTRIES_PER_BLOCK
<1>1. E \in Nat \ {0} /\ E \in Nat /\ E >= 1
  BY NamesAssumption
<1> HIDE DEF E
<1>2. \A m \in Nat : m + E - 1 \in Nat
  BY <1>1
<1>3. (n + E - 1) \div E \in Nat
  BY <1>1, <1>2, DivFacts
<1>4. (0 + E - 1) \div E = 0
  <2>1. 0 * E <= 0 + E - 1 /\ 0 + E - 1 < 0 * E + E
    BY <1>1
  <2> QED
    BY <1>1, <1>2, <2>1, DivIs
<1>5. \A m \in Nat : m <= n => (m + E - 1) \div E <= (n + E - 1) \div E
  <2> SUFFICES ASSUME NEW m \in Nat, m <= n PROVE (m + E - 1) \div E <= (n + E - 1) \div E
    OBVIOUS
  <2>1. m + E - 1 <= n + E - 1
    BY <1>1
  <2> QED
    BY <1>1, <1>2, <2>1, DivMonotone
<1> DEFINE q == n \div E
           r == n % E
<1>0. q \in Nat /\ q * E <= n /\ n < q * E + E /\ r = n - q * E
  BY <1>1, DivFacts
<1> HIDE DEF q, r
<1>6. q * E \in Nat /\ (q + 1) * E = q * E + E
  BY <1>0, <1>1
<1>7. (n + 1 + E - 1) \div E = q + 1
  <2>1. (q + 1) * E <= n + 1 + E - 1 /\ n + 1 + E - 1 < (q + 1) * E + E
    BY <1>0, <1>1, <1>6
  <2> QED
    BY <1>0, <1>1, <1>2, <1>6, <2>1, DivIs
<1>8. CASE r = 0
  <2>1. q * E <= n + E - 1 /\ n + E - 1 < q * E + E
    BY <1>0, <1>1, <1>6, <1>8
  <2>2. (n + E - 1) \div E = q
    BY <1>0, <1>1, <1>2, <1>6, <2>1, DivIs
  <2> QED
    BY <1>3, <1>4, <1>5, <1>7, <1>8, <2>2 DEF BlocksFor, E, r
<1>9. CASE r # 0
  <2>1. (q + 1) * E <= n + E - 1 /\ n + E - 1 < (q + 1) * E + E
    BY <1>0, <1>1, <1>6, <1>9
  <2>2. (n + E - 1) \div E = q + 1
    BY <1>0, <1>1, <1>2, <1>6, <2>1, DivIs
  <2> QED
    BY <1>3, <1>4, <1>5, <1>7, <1>9, <2>2 DEF BlocksFor, E, r
<1> QED
  BY <1>8, <1>9

LEMMA BlocksOfFacts ==
  ASSUME NEW s \in Images, NEW i \in Inums
  PROVE  /\ BlocksOf(s, i) = s.len[i] + BlocksFor(Len(s.table[i]))
         /\ BlocksOf(s, i) \in Nat
<1>1. Len(s.table[i]) \in Nat /\ s.len[i] \in Nat
  BY ImageFacts, TableFacts
<1>2. BlocksFor(Len(s.table[i])) \in Nat
  BY <1>1, BlocksForFacts
<1>3. BlocksOf(s, i) = s.len[i] + BlocksFor(Len(s.table[i]))
  BY DEF BlocksOf, BlocksFor
<1> QED
  BY <1>1, <1>2, <1>3

(* The blocks of one inode are as many as BlocksOf says.                   *)
LEMMA PairsCounted ==
  ASSUME NEW i, NEW a \in Nat, NEW b \in Nat, a <= b
  PROVE  /\ IsFiniteSet({i} \X (a + 1 .. b))
         /\ Cardinality({i} \X (a + 1 .. b)) = b - a
<1> DEFINE D == a + 1 .. b
           T == {i} \X D
           f == [k \in D |-> <<i, k>>]
<1>1. IsFiniteSet(D) /\ Cardinality(D) = b - a
  <2>1. a + 1 \in Int /\ b \in Int
    OBVIOUS
  <2>2. /\ IsFiniteSet(a + 1 .. b)
        /\ Cardinality(a + 1 .. b) = IF a + 1 > b THEN 0 ELSE b - (a + 1) + 1
    BY <2>1, FS_Interval
  <2> QED
    BY <2>2
<1>2. f \in Bijection(D, T)
  <2>1. f \in Injection(D, T)
    BY DEF Injection, IsInjective
  <2>2. \A x \in T : \E k \in D : f[k] = x
    OBVIOUS
  <2>3. f \in [D -> T]
    OBVIOUS
  <2>4. f \in Surjection(D, T)
    BY <2>2, <2>3 DEF Surjection
  <2> QED
    BY <2>1, <2>4 DEF Bijection
<1>3. ExistsBijection(D, T)
  BY <1>2 DEF ExistsBijection
<1> HIDE DEF D, T
<1> QED
  BY <1>1, <1>3, FS_Bijection DEF D, T

LEMMA UsedFinite ==
  ASSUME NEW s \in Images
  PROVE  IsFiniteSet(BlocksInUse(s))
<1> DEFINE P == {{i} \X (1 .. BlocksOf(s, i)) : i \in Inums}
           f == [i \in Inums |-> {i} \X (1 .. BlocksOf(s, i))]
<1>1. f \in Surjection(Inums, P)
  BY DEF Surjection
<1>2. IsFiniteSet(P)
  <2> HIDE DEF P, f
  <2> QED
    BY <1>1, InumFacts, FS_Surjection
<1>3. \A T \in P : IsFiniteSet(T)
  <2> SUFFICES ASSUME NEW i \in Inums PROVE IsFiniteSet({i} \X (1 .. BlocksOf(s, i)))
    OBVIOUS
  <2>1. BlocksOf(s, i) \in Nat
    BY BlocksOfFacts
  <2>2. IsFiniteSet({i} \X (0 + 1 .. BlocksOf(s, i)))
    BY <2>1, PairsCounted
  <2> QED
    BY <2>2
<1> HIDE DEF P
<1>4. IsFiniteSet(UNION P)
  BY <1>2, <1>3, FS_UNION
<1> QED
  BY <1>4 DEF P, BlocksInUse

LEMMA UsedIs ==
  ASSUME NEW s
  PROVE  \A x : x \in BlocksInUse(s) <=> \E i \in Inums : \E k \in 1 .. BlocksOf(s, i) : x = <<i, k>>
  BY DEF BlocksInUse

LEMMA FreeBlocksFacts ==
  ASSUME NEW s \in Images
  PROVE  FreeBlocks(s) \in Int
  BY UsedFinite, FS_CardinalityType, StorageAssumption DEF FreeBlocks

(* Blocks that are given back are free.                                    *)
LEMMA BlocksGivenBack ==
  ASSUME NEW s \in Images, NEW t \in Images,
         \A i \in Inums : BlocksOf(t, i) <= BlocksOf(s, i)
  PROVE  FreeBlocks(t) >= FreeBlocks(s)
<1>1. \A i \in Inums : BlocksOf(t, i) \in Nat /\ BlocksOf(s, i) \in Nat
  BY BlocksOfFacts
<1>2. BlocksInUse(t) \subseteq BlocksInUse(s)
  <2> SUFFICES ASSUME NEW i \in Inums, NEW k, k \in 1 .. BlocksOf(t, i)
               PROVE  <<i, k>> \in BlocksInUse(s)
    BY UsedIs
  <2>1. k \in 1 .. BlocksOf(s, i)
    BY <1>1
  <2> QED
    BY <2>1, UsedIs
<1>3. Cardinality(BlocksInUse(t)) <= Cardinality(BlocksInUse(s))
  BY <1>2, UsedFinite, FS_Subset
<1>4. /\ Cardinality(BlocksInUse(t)) \in Nat
      /\ Cardinality(BlocksInUse(s)) \in Nat
  BY UsedFinite, FS_CardinalityType
<1> QED
  BY <1>3, <1>4, StorageAssumption DEF FreeBlocks

(* Blocks that one inode takes are no longer free.                         *)
LEMMA BlocksTaken ==
  ASSUME NEW s \in Images, NEW t \in Images, NEW i \in Inums,
         BlocksOf(s, i) <= BlocksOf(t, i),
         \A j \in Inums \ {i} : BlocksOf(t, j) = BlocksOf(s, j)
  PROVE  FreeBlocks(t) = FreeBlocks(s) - (BlocksOf(t, i) - BlocksOf(s, i))
<1> DEFINE a == BlocksOf(s, i)
           b == BlocksOf(t, i)
           U == BlocksInUse(s)
           V == {i} \X (a + 1 .. b)
<1>1. a \in Nat /\ b \in Nat /\ a <= b
  BY BlocksOfFacts
<1>2. IsFiniteSet(V) /\ Cardinality(V) = b - a
  <2> HIDE DEF a, b
  <2> QED
    BY <1>1, PairsCounted
<1>3. IsFiniteSet(U) /\ Cardinality(U) \in Nat
  BY UsedFinite, FS_CardinalityType
<1>4. BlocksInUse(t) = U \cup V
  <2>1. ASSUME NEW x \in BlocksInUse(t) PROVE x \in U \cup V
    <3>0. PICK j \in Inums : \E k \in 1 .. BlocksOf(t, j) : x = <<j, k>>
      BY <2>1, UsedIs
    <3>1. PICK k \in 1 .. BlocksOf(t, j) : x = <<j, k>>
      BY <3>0
    <3>2. CASE j # i
      BY <3>1, <3>2, UsedIs
    <3>3. CASE j = i /\ k <= a
      <4>1. k \in 1 .. BlocksOf(s, i)
        BY <1>1, <3>1, <3>3
      <4> QED
        BY <3>1, <3>3, <4>1, UsedIs
    <3>4. CASE j = i /\ ~ (k <= a)
      <4>1. k \in a + 1 .. b
        BY <1>1, <3>1, <3>4
      <4> QED
        BY <3>1, <3>4, <4>1
    <3> QED
      BY <3>2, <3>3, <3>4
  <2>2. ASSUME NEW x \in U PROVE x \in BlocksInUse(t)
    <3>0. PICK j \in Inums : \E k \in 1 .. BlocksOf(s, j) : x = <<j, k>>
      BY <2>2, UsedIs
    <3>1. PICK k \in 1 .. BlocksOf(s, j) : x = <<j, k>>
      BY <3>0
    <3>2. k \in 1 .. BlocksOf(t, j)
      BY <1>1, <3>1
    <3> QED
      BY <3>1, <3>2, UsedIs
  <2>3. ASSUME NEW x \in V PROVE x \in BlocksInUse(t)
    <3>1. PICK k \in a + 1 .. b : x = <<i, k>>
      BY <2>3
    <3>2. k \in 1 .. b
      BY <1>1
    <3> QED
      BY <3>1, <3>2, UsedIs
  <2> QED
    BY <2>1, <2>2, <2>3
<1>5. U \cap V = {}
  <2> SUFFICES ASSUME NEW x \in U, x \in V PROVE FALSE
    OBVIOUS
  <2>0. PICK j \in Inums : \E k \in 1 .. BlocksOf(s, j) : x = <<j, k>>
    BY UsedIs
  <2>1. PICK k \in 1 .. BlocksOf(s, j) : x = <<j, k>>
    BY <2>0
  <2>2. j = i /\ k \in a + 1 .. b
    BY <2>1
  <2> QED
    BY <1>1, <2>1, <2>2
<1> HIDE DEF U, V
<1>6. Cardinality(U \cup V) = Cardinality(U) + Cardinality(V) - 0
  BY <1>2, <1>3, <1>5, FS_Union, FS_EmptySet
<1>7. Cardinality(BlocksInUse(t)) = Cardinality(BlocksInUse(s)) + (b - a)
  BY <1>1, <1>2, <1>3, <1>4, <1>6 DEF U
<1> QED
  BY <1>1, <1>3, <1>7, StorageAssumption DEF FreeBlocks, U

(***************************************************************************)
(* Paths.                                                                  *)
(***************************************************************************)
UniqueTables(s) == \A i \in Inums : Unique(s.table[i])

Errors == {ENOENT, ENOTDIR}

LEMMA ErrorFacts == Errors \subseteq Int /\ \A e \in Errors : e < 0 /\ e \notin Inums
  BY InumFacts DEF Errors, ENOENT, ENOTDIR

LEMMA PathFacts ==
  ASSUME NEW p \in Seq(Names), p # <<>>
  PROVE  /\ Len(p) \in Nat \ {0}
         /\ Front(p) \in Seq(Names)
         /\ Len(Front(p)) = Len(p) - 1
         /\ \A k \in 1 .. Len(p) - 1 : Front(p)[k] = p[k]
         /\ Last(p) = p[Len(p)]
         /\ Last(p) \in Names
<1>1. Len(p) \in Nat /\ Len(p) # 0
  OBVIOUS
<1>2. Len(p) - 1 \in 0 .. Len(p) /\ Len(p) \in 1 .. Len(p)
  BY <1>1
<1>3. \A k \in 1 .. Len(p) : p[k] \in Names
  OBVIOUS
<1> DEFINE m == Len(p) - 1
           f == SubSeq(p, 1, m)
<1>4. m \in Nat /\ \A k \in 1 .. m : p[k] \in Names
  BY <1>1, <1>3
<1>5. f \in Seq(Names) /\ Len(f) = m /\ \A k \in 1 .. m : f[k] = p[k]
  <2> HIDE DEF m
  <2>1. /\ f \in Seq(Names)
        /\ Len(f) = IF 1 <= m THEN m - 1 + 1 ELSE 0
        /\ \A k \in 1 .. m - 1 + 1 : f[k] = p[1 + k - 1]
    BY <1>4, SubSeqProperties
  <2> QED
    BY <1>4, <2>1
<1>6. Front(p) = f
  BY DEF Front
<1> HIDE DEF f
<1> QED
  BY <1>1, <1>2, <1>3, <1>5, <1>6 DEF Last

LEMMA PathsAreNames == Paths \subseteq Seq(Names)
<1> SUFFICES ASSUME NEW p \in Paths PROVE p \in Seq(Names)
  OBVIOUS
<1>1. PICK n \in 0 .. MaxDepth : p \in [1 .. n -> Names]
  BY DEF Paths
<1>2. n \in Nat
  BY StorageAssumption
<1> QED
  BY <1>1, <1>2

(* Two paths that agree on all but the last component and on the last.     *)
LEMMA SamePath ==
  ASSUME NEW p \in Seq(Names), p # <<>>, NEW q \in Seq(Names), q # <<>>,
         Front(p) = Front(q), Last(p) = Last(q)
  PROVE  p = q
<1>1. Len(p) = Len(q)
  BY PathFacts
<1>2. \A k \in 1 .. Len(p) : p[k] = q[k]
  <2> SUFFICES ASSUME NEW k \in 1 .. Len(p) PROVE p[k] = q[k]
    OBVIOUS
  <2>1. CASE k = Len(p)
    BY <1>1, <2>1, PathFacts
  <2>2. CASE k # Len(p)
    <3>1. k \in 1 .. Len(p) - 1
      BY <2>2, PathFacts
    <3>2. Front(p)[k] = p[k]
      BY <3>1, PathFacts
    <3>3. Front(q)[k] = q[k]
      BY <1>1, <3>1, PathFacts
    <3> QED
      BY <3>2, <3>3
  <2> QED
    BY <2>1, <2>2
<1> QED
  BY <1>1, <1>2

(* One component of a path.                                                *)
LEMMA InumInFacts ==
  ASSUME NEW s \in Images, UniqueTables(s), NEW d \in Inums \cup Errors, NEW n \in Names
  PROVE  /\ InumIn(s, d, n) \in Inums \cup Errors
         /\ \A i \in Inums : InumIn(s, d, n) = i
                              <=> IsDir(s, d) /\ <<n, i>> \in Bound(s.table[d])
<1>1. CASE d \in Errors
  <2>1. InumIn(s, d, n) = d
    BY <1>1, ErrorFacts DEF InumIn
  <2> QED
    BY <1>1, <2>1, ErrorFacts DEF IsDir
<1>2. CASE d \in Inums
  <2>0. d \in Nat
    BY <1>2, InumFacts
  <2> DEFINE i == LookupInum(s.table[d], n)
  <2>1. s.table[d] \in Tables /\ Unique(s.table[d])
    BY <1>2, ImageFacts DEF UniqueTables
  <2>2. /\ i \in Nat \cup {Unused}
        /\ TooLong(n) => i = Unused
        /\ ~TooLong(n) => \A j \in Nat : <<n, j>> \in Bound(s.table[d]) <=> i = j
        /\ i # Unused => <<n, i>> \in Bound(s.table[d])
    BY <2>1, LookupBound
  <2>3. \A j : <<n, j>> \in Bound(s.table[d]) => n \in EntryNames /\ j \in Inums
    <3>1. Bound(s.table[d]) \subseteq EntryNames \X Nat
      BY <2>1, BoundFacts
    <3>2. \A m, j : <<m, j>> \in Bound(s.table[d]) => j \in Inums
      BY <1>2, ImageFacts, ImageTableFacts
    <3> QED
      BY <3>1, <3>2
  <2>4. TooLong(n) => n \notin EntryNames
    BY NamesAssumption DEF TooLong, EntryNames
  <2>5. \A j \in Inums : <<n, j>> \in Bound(s.table[d]) <=> i = j
    <3> SUFFICES ASSUME NEW j \in Inums PROVE <<n, j>> \in Bound(s.table[d]) <=> i = j
      OBVIOUS
    <3>1. j \in Nat /\ j # Unused
      BY InumFacts DEF Unused
    <3>2. CASE TooLong(n)
      BY <2>2, <2>3, <2>4, <3>1, <3>2
    <3>3. CASE ~TooLong(n)
      BY <2>2, <3>1, <3>3
    <3> QED
      BY <3>2, <3>3
  <2>6. i < 0 \/ i \in Inums
    BY <2>2, <2>3 DEF Unused
  <2>7. InumIn(s, d, n) = IF ~IsDir(s, d) THEN ENOTDIR ELSE IF i < 0 THEN ENOENT ELSE i
    BY <2>0 DEF InumIn
  <2> HIDE DEF i
  <2>8. \A j \in Inums : j >= 0 /\ j # ENOENT /\ j # ENOTDIR
    BY InumFacts DEF ENOENT, ENOTDIR
  <2>9. \A j \in Inums : i = j => ~ (i < 0)
    BY InumFacts
  <2> QED
    BY <2>5, <2>6, <2>7, <2>8, <2>9 DEF Errors
<1> QED
  BY <1>1, <1>2

(***************************************************************************)
(* Resolve walks along the path: what it finds for a path is what InumIn   *)
(* finds for the last component in what it finds for the rest.  That the   *)
(* walk exists, and that no two walks differ, is shown by the least number *)
(* of components for which it would not be so.                             *)
(***************************************************************************)
IsWalk(s, p, n, w) ==
  w = [k \in 0 .. n |-> IF k = 0 THEN ROOT_INUM ELSE InumIn(s, w[k - 1], p[k])]

LEMMA WalkFacts ==
  ASSUME NEW s, NEW p, NEW n \in Nat, NEW w, IsWalk(s, p, n, w)
  PROVE  w[0] = ROOT_INUM /\ \A k \in 1 .. n : w[k] = InumIn(s, w[k - 1], p[k])
<1>1. 0 \in 0 .. n /\ \A k \in 1 .. n : k \in 0 .. n /\ k # 0
  OBVIOUS
<1> QED
  BY <1>1 DEF IsWalk

LEMMA WalkExists ==
  ASSUME NEW s, NEW p, NEW n \in Nat
  PROVE  \E w : IsWalk(s, p, n, w)
<1> DEFINE Lost == {m \in Nat : ~ \E w : IsWalk(s, p, m, w)}
<1> SUFFICES ASSUME Lost # {} PROVE FALSE
  OBVIOUS
<1>1. PICK m \in Lost : \A l \in Lost : m <= l
  <2> HIDE DEF Lost
  <2>1. Lost \subseteq Nat
    BY DEF Lost
  <2> QED
    BY <2>1, MinFacts
<1>2. m \in Nat /\ ~ \E w : IsWalk(s, p, m, w)
  OBVIOUS
<1>3. m # 0
  <2>1. 0 .. 0 = {0}
    OBVIOUS
  <2>2. IsWalk(s, p, 0, [k \in 0 .. 0 |-> ROOT_INUM])
    BY <2>1 DEF IsWalk
  <2> QED
    BY <1>2, <2>2
<1>4. m - 1 \in Nat /\ m - 1 \notin Lost
  BY <1>1, <1>2, <1>3
<1>5. PICK v : IsWalk(s, p, m - 1, v)
  BY <1>4
<1> DEFINE w == [k \in 0 .. m |-> IF k = m THEN InumIn(s, v[m - 1], p[m]) ELSE v[k]]
<1>6. v[0] = ROOT_INUM /\ \A k \in 1 .. m - 1 : v[k] = InumIn(s, v[k - 1], p[k])
  <2> DEFINE l == m - 1
  <2>1. l \in Nat /\ IsWalk(s, p, l, v)
    BY <1>4, <1>5
  <2> HIDE DEF l, w, Lost
  <2>2. v[0] = ROOT_INUM /\ \A k \in 1 .. l : v[k] = InumIn(s, v[k - 1], p[k])
    BY <2>1, WalkFacts
  <2> QED
    BY <2>2 DEF l
<1>7. \A k \in 0 .. m : w[k] = IF k = 0 THEN ROOT_INUM ELSE InumIn(s, w[k - 1], p[k])
  <2> SUFFICES ASSUME NEW k \in 0 .. m
               PROVE  w[k] = IF k = 0 THEN ROOT_INUM ELSE InumIn(s, w[k - 1], p[k])
    OBVIOUS
  <2>1. CASE k = 0
    BY <1>2, <1>3, <1>6, <2>1
  <2>2. CASE k = m
    <3>1. w[k] = InumIn(s, v[m - 1], p[m])
      BY <2>2
    <3>2. m - 1 \in 0 .. m /\ m - 1 # m
      BY <1>2, <1>3
    <3>3. w[m - 1] = v[m - 1]
      BY <3>2
    <3> QED
      BY <1>3, <2>2, <3>1, <3>3
  <2>3. CASE k # 0 /\ k # m
    <3>1. k \in 1 .. m - 1 /\ k - 1 \in 0 .. m /\ k - 1 # m
      BY <1>2, <2>3
    <3>2. w[k] = v[k] /\ w[k - 1] = v[k - 1]
      BY <2>3, <3>1
    <3> QED
      BY <1>6, <2>3, <3>1, <3>2
  <2> QED
    BY <2>1, <2>2, <2>3
<1>8. w = [k \in 0 .. m |-> w[k]]
  OBVIOUS
<1> HIDE DEF w
<1>9. IsWalk(s, p, m, w)
  BY <1>7, <1>8 DEF IsWalk
<1> QED
  BY <1>2, <1>9

LEMMA WalksAgree ==
  ASSUME NEW s, NEW p, NEW q, NEW n \in Nat, NEW m \in Nat, NEW v, NEW w,
         IsWalk(s, p, n, v), IsWalk(s, q, m, w),
         NEW l \in Nat, l <= n, l <= m, \A k \in 1 .. l : p[k] = q[k]
  PROVE  v[l] = w[l]
<1> DEFINE Apart == {k \in 0 .. l : v[k] # w[k]}
<1> SUFFICES ASSUME Apart # {} PROVE FALSE
  OBVIOUS
<1>1. PICK k \in Apart : \A j \in Apart : k <= j
  <2> HIDE DEF Apart
  <2>1. Apart \subseteq Nat
    BY DEF Apart
  <2> QED
    BY <2>1, MinFacts
<1>2. k \in 0 .. l /\ v[k] # w[k]
  OBVIOUS
<1>3. /\ v[0] = ROOT_INUM /\ \A j \in 1 .. n : v[j] = InumIn(s, v[j - 1], p[j])
      /\ w[0] = ROOT_INUM /\ \A j \in 1 .. m : w[j] = InumIn(s, w[j - 1], q[j])
  BY WalkFacts
<1>4. k # 0
  BY <1>2, <1>3
<1>5. /\ k \in 1 .. l /\ k \in 1 .. n /\ k \in 1 .. m
      /\ k - 1 \in 0 .. l /\ k - 1 < k
  BY <1>2, <1>4
<1>6. v[k - 1] = w[k - 1]
  <2>1. k - 1 \notin Apart
    BY <1>1, <1>5
  <2> QED
    BY <1>5, <2>1
<1> QED
  BY <1>2, <1>3, <1>5, <1>6

LEMMA ResolveIsWalk ==
  ASSUME NEW s, NEW p, Len(p) \in Nat, NEW w, IsWalk(s, p, Len(p), w)
  PROVE  Resolve(s, p) = w[Len(p)]
<1> DEFINE W == CHOOSE v : IsWalk(s, p, Len(p), v)
<1>1. Resolve(s, p) = W[Len(p)]
  BY DEF Resolve, IsWalk
<1>2. IsWalk(s, p, Len(p), W)
  OBVIOUS
<1> HIDE DEF W
<1> QED
  BY <1>1, <1>2, WalksAgree

LEMMA ResolveRoot ==
  ASSUME NEW s, NEW p, Len(p) = 0
  PROVE  Resolve(s, p) = ROOT_INUM
<1>0. Len(p) \in Nat
  OBVIOUS
<1>1. PICK w : IsWalk(s, p, Len(p), w)
  BY <1>0, WalkExists
<1>2. Resolve(s, p) = w[Len(p)]
  BY <1>0, <1>1, ResolveIsWalk
<1>3. w[0] = ROOT_INUM
  BY <1>0, <1>1, WalkFacts
<1> QED
  BY <1>2, <1>3

LEMMA WalkPrefix ==
  ASSUME NEW s, NEW p, NEW q, NEW m \in Nat, NEW n \in Nat, m <= n, NEW v, NEW w,
         IsWalk(s, q, m, v), IsWalk(s, p, n, w), \A k \in 1 .. m : q[k] = p[k]
  PROVE  v[m] = w[m]
<1>1. m <= m
  OBVIOUS
<1> QED
  BY <1>1, WalksAgree

LEMMA ResolveLast ==
  ASSUME NEW s, NEW p, NEW q, NEW m \in Nat, Len(p) = m + 1, Len(q) = m,
         \A k \in 1 .. m : q[k] = p[k]
  PROVE  Resolve(s, p) = InumIn(s, Resolve(s, q), p[m + 1])
<1>0. /\ m + 1 \in Nat /\ m + 1 \in 1 .. m + 1
      /\ m <= m + 1 /\ m <= m /\ m + 1 - 1 = m
  OBVIOUS
<1>1. PICK w : IsWalk(s, p, m + 1, w)
  BY <1>0, WalkExists
<1>2. PICK v : IsWalk(s, q, m, v)
  BY WalkExists
<1>3. Resolve(s, p) = w[m + 1]
  BY <1>0, <1>1, ResolveIsWalk
<1>4. Resolve(s, q) = v[m]
  BY <1>2, ResolveIsWalk
<1>5. \A k \in 1 .. m + 1 : w[k] = InumIn(s, w[k - 1], p[k])
  BY <1>0, <1>1, WalkFacts
<1>6. v[m] = w[m]
  BY <1>0, <1>1, <1>2, WalkPrefix
<1>7. w[m + 1] = InumIn(s, w[m + 1 - 1], p[m + 1])
  BY <1>0, <1>5
<1> QED
  BY <1>0, <1>3, <1>4, <1>6, <1>7

LEMMA ResolveUnfold ==
  ASSUME NEW s, NEW p \in Seq(Names)
  PROVE  /\ p = <<>> => Resolve(s, p) = ROOT_INUM
         /\ p # <<>> => Resolve(s, p) = InumIn(s, Resolve(s, Front(p)), Last(p))
<1>1. ASSUME p # <<>>
      PROVE  Resolve(s, p) = InumIn(s, Resolve(s, Front(p)), Last(p))
  <2> DEFINE m == Len(p) - 1
  <2>1. /\ m \in Nat /\ Len(p) = m + 1 /\ Len(Front(p)) = m
        /\ \A k \in 1 .. m : Front(p)[k] = p[k]
        /\ Last(p) = p[m + 1]
    BY <1>1, PathFacts
  <2> HIDE DEF m
  <2> QED
    BY <2>1, ResolveLast
<1>2. ASSUME p = <<>> PROVE Resolve(s, p) = ROOT_INUM
  <2>1. Len(p) = 0
    BY <1>2
  <2> QED
    BY <2>1, ResolveRoot
<1> QED
  BY <1>1, <1>2

(* Induction along a path: of the paths in a set that is not empty, one is *)
(* the root or is in the set though the path to its parent is not.         *)
LEMMA ShortestPath ==
  ASSUME NEW B, B \subseteq Seq(Names), B # {}
  PROVE  \E p \in B : p # <<>> => Front(p) \notin B
<1> DEFINE N == {Len(p) : p \in B}
<1>1. N \subseteq Nat /\ N # {}
  <2>1. \A p \in B : Len(p) \in Nat
    <3> SUFFICES ASSUME NEW p \in B PROVE Len(p) \in Nat
      OBVIOUS
    <3>1. p \in Seq(Names)
      OBVIOUS
    <3> QED
      BY <3>1
  <2> QED
    BY <2>1
<1>2. PICK n \in N : \A m \in N : n <= m
  <2> HIDE DEF N
  <2> QED
    BY <1>1, MinFacts
<1>3. PICK p \in B : n = Len(p)
  BY <1>2
<1>4. ASSUME p # <<>>, Front(p) \in B PROVE FALSE
  <2>1. p \in Seq(Names)
    BY <1>3
  <2>2. Len(p) \in Nat /\ Len(Front(p)) = Len(p) - 1
    BY <1>4, <2>1, PathFacts
  <2>3. Len(Front(p)) \in N
    BY <1>4
  <2>4. n <= Len(Front(p))
    BY <1>2, <2>3
  <2> QED
    BY <1>3, <2>2, <2>4
<1> QED
  BY <1>3, <1>4

LEMMA ResolveFacts ==
  ASSUME NEW s \in Images, UniqueTables(s), NEW p \in Seq(Names)
  PROVE  Resolve(s, p) \in Inums \cup Errors
<1> DEFINE B == {q \in Seq(Names) : Resolve(s, q) \notin Inums \cup Errors}
<1> SUFFICES ASSUME B # {} PROVE FALSE
  OBVIOUS
<1>1. PICK q \in B : q # <<>> => Front(q) \notin B
  <2>1. B \subseteq Seq(Names)
    OBVIOUS
  <2> HIDE DEF B
  <2> QED
    BY <2>1, ShortestPath
<1>2. q \in Seq(Names) /\ Resolve(s, q) \notin Inums \cup Errors
  OBVIOUS
<1>3. q # <<>>
  BY <1>2, ResolveUnfold, InumFacts
<1>4. Front(q) \in Seq(Names) /\ Last(q) \in Names
  BY <1>2, <1>3, PathFacts
<1>5. Resolve(s, Front(q)) \in Inums \cup Errors
  BY <1>1, <1>3, <1>4
<1>6. InumIn(s, Resolve(s, Front(q)), Last(q)) \in Inums \cup Errors
  BY <1>4, <1>5, InumInFacts
<1> QED
  BY <1>2, <1>3, <1>6, ResolveUnfold

(* A path leads to an inode when its last component is bound to it in the  *)
(* directory the rest of the path leads to.                                *)
LEMMA ResolveStep ==
  ASSUME NEW s \in Images, UniqueTables(s), NEW p \in Seq(Names), p # <<>>, NEW i \in Inums
  PROVE  /\ Parent(s, p) \in Inums \cup Errors
         /\ Front(p) \in Seq(Names)
         /\ Last(p) \in Names
         /\ Resolve(s, p) = i <=> /\ IsDir(s, Parent(s, p))
                                  /\ <<Last(p), i>> \in Bound(s.table[Parent(s, p)])
<1>1. Front(p) \in Seq(Names) /\ Last(p) \in Names
  BY PathFacts
<1>2. Resolve(s, Front(p)) \in Inums \cup Errors
  BY <1>1, ResolveFacts
<1>3. Resolve(s, p) = InumIn(s, Resolve(s, Front(p)), Last(p))
  BY ResolveUnfold
<1> QED
  BY <1>1, <1>2, <1>3, InumInFacts DEF Parent

(* A path that leads somewhere leads there still when names are added.     *)
LEMMA ResolveKept ==
  ASSUME NEW s \in Images, UniqueTables(s), NEW t \in Images, UniqueTables(t),
         \A d \in Inums : IsDir(s, d) => IsDir(t, d) /\ Bound(s.table[d]) \subseteq Bound(t.table[d]),
         NEW p \in Seq(Names), Resolve(s, p) \in Inums
  PROVE  Resolve(t, p) = Resolve(s, p)
<1> DEFINE B == {q \in Seq(Names) : Resolve(s, q) \in Inums /\ Resolve(t, q) # Resolve(s, q)}
<1> SUFFICES ASSUME B # {} PROVE FALSE
  OBVIOUS
<1>1. PICK q \in B : q # <<>> => Front(q) \notin B
  <2>1. B \subseteq Seq(Names)
    OBVIOUS
  <2> HIDE DEF B
  <2> QED
    BY <2>1, ShortestPath
<1>2. q \in Seq(Names) /\ Resolve(s, q) \in Inums /\ Resolve(t, q) # Resolve(s, q)
  OBVIOUS
<1>3. q # <<>>
  BY <1>2, ResolveUnfold
<1> DEFINE d == Parent(s, q)
           i == Resolve(s, q)
<1>4. IsDir(s, d) /\ <<Last(q), i>> \in Bound(s.table[d]) /\ Front(q) \in Seq(Names)
  BY <1>2, <1>3, ResolveStep
<1>5. d \in Inums
  BY <1>4 DEF IsDir
<1>6. Parent(t, q) = d
  BY <1>1, <1>3, <1>4, <1>5 DEF Parent
<1>7. IsDir(t, d) /\ <<Last(q), i>> \in Bound(t.table[d])
  BY <1>4, <1>5
<1>8. Resolve(t, q) = i
  BY <1>2, <1>3, <1>6, <1>7, ResolveStep
<1> QED
  BY <1>2, <1>8

(***************************************************************************)
(* The tree: what holds of the image between two handlers.                 *)
(***************************************************************************)
Link(d, n, i) == [dir |-> d, name |-> n, object |-> i]
Links(s) == {l \in [dir : Inums, name : Names, object : Inums] :
               <<l.name, l.object>> \in Bound(s.table[l.dir])}
LinksTo(s, i) == {l \in Links(s) : l.object = i}

(* Tables are as Directory keeps them: no name twice, no name behind a     *)
(* hole with the same name, ".." behind "." only, no hole at the end.      *)
TablesSound(s) == \A i \in Inums : Sound(s.table[i]) /\ Pruned(s.table[i])

(* Only directories have entries, and a free inode is as inode_free leaves *)
(* it: so giving back the inode of a failed storage_mknod undoes it.       *)
Clean(s) ==
  \A i \in Inums :
    /\ s.mode[i] # "dir" => Bound(s.table[i]) = {}
    /\ s.mode[i] = "free" => s.refs[i] = 0 /\ s.len[i] = 0

(* The root has no name, and its ".." never goes.                          *)
Rooted(s) ==
  /\ s.mode[ROOT_INUM] = "dir"
  /\ LinksTo(s, ROOT_INUM) = {}
  /\ <<DotDot, ROOT_INUM>> \in Bound(s.table[ROOT_INUM])

NoneDangles(s) ==
  \A d, i \in Inums : \A n : <<n, i>> \in Bound(s.table[d]) => s.mode[i] # "free"

Counted(s) ==
  \A i \in Inums \ {ROOT_INUM} :
    /\ IsFiniteSet(LinksTo(s, i))
    /\ s.mode[i] # "free" => s.refs[i] = Cardinality(LinksTo(s, i)) /\ s.refs[i] >= 1

Placed(s) ==
  \A l, m \in Links(s) : l.object = m.object /\ s.mode[l.object] = "dir" => l = m

DotsRight(s) ==
  \A d, i \in Inums :
    /\ <<Dot, i>> \in Bound(s.table[d]) => i = d
    /\ <<DotDot, i>> \in Bound(s.table[d]) =>
         (d = ROOT_INUM /\ i = ROOT_INUM) \/ \E n \in Names : Link(i, n, d) \in Links(s)

Closed(s, S) == \A l \in Links(s) : l.dir \in S => l.object \in S
Reached(s) ==
  \A S \in SUBSET Inums : ROOT_INUM \in S /\ Closed(s, S) => Allocated(s) \subseteq S

Sane(s) ==
  /\ s \in Images
  /\ FreeBlocks(s) \in Nat
  /\ TablesSound(s)
  /\ Clean(s)
  /\ Rooted(s)
  /\ NoneDangles(s)
  /\ Counted(s)
  /\ Placed(s)
  /\ DotsRight(s)
  /\ Reached(s)

LEMMA LinkFacts ==
  ASSUME NEW s
  PROVE  /\ \A d, n, i : Link(d, n, i) \in Links(s)
                          <=> /\ d \in Inums /\ n \in Names /\ i \in Inums
                              /\ <<n, i>> \in Bound(s.table[d])
         /\ \A l \in Links(s) : /\ l = Link(l.dir, l.name, l.object)
                                /\ l.dir \in Inums /\ l.name \in Names /\ l.object \in Inums
                                /\ <<l.name, l.object>> \in Bound(s.table[l.dir])
         /\ \A d, n, i : /\ Link(d, n, i).dir = d
                         /\ Link(d, n, i).name = n
                         /\ Link(d, n, i).object = i
  BY DEF Link, Links

LEMMA LinkSame ==
  ASSUME NEW d, NEW n, NEW i, NEW e, NEW m, NEW j
  PROVE  Link(d, n, i) = Link(e, m, j) <=> d = e /\ n = m /\ i = j
  BY DEF Link

(* A directory is bound to one name, in one directory.                     *)
LEMMA OnlyLink ==
  ASSUME NEW s, Sane(s), NEW d, NEW n, NEW i, NEW e, NEW m,
         Link(d, n, i) \in Links(s), Link(e, m, i) \in Links(s), s.mode[i] = "dir"
  PROVE  d = e /\ n = m
<1> DEFINE k == Link(d, n, i)
           l == Link(e, m, i)
<1>1. k.object = i /\ l.object = i
  BY LinkFacts
<1>2. k = l
  <2> HIDE DEF k, l
  <2>1. k \in Links(s) /\ l \in Links(s)
    BY DEF k, l
  <2> QED
    BY <1>1, <2>1 DEF Sane, Placed
<1> QED
  BY <1>2, LinkSame

LEMMA SaneTables ==
  ASSUME NEW s, Sane(s)
  PROVE  s \in Images /\ UniqueTables(s)
  BY DEF Sane, TablesSound, Sound, UniqueTables

(* Only directories have links.                                            *)
LEMMA LinkDirs ==
  ASSUME NEW s, Sane(s), NEW l \in Links(s)
  PROVE  IsDir(s, l.dir) /\ s.mode[l.object] # "free" /\ l.object # ROOT_INUM
<1>1. l.dir \in Inums /\ l.object \in Inums /\ <<l.name, l.object>> \in Bound(s.table[l.dir])
  BY LinkFacts
<1>2. s.mode[l.dir] = "dir"
  BY <1>1 DEF Sane, Clean
<1>3. s.mode[l.object] # "free"
  BY <1>1 DEF Sane, NoneDangles
<1>4. l.object # ROOT_INUM
  BY DEF Sane, Rooted, LinksTo
<1> QED
  BY <1>1, <1>2, <1>3, <1>4 DEF IsDir

(* A path that leads somewhere but to the root ends with a link.           *)
LEMMA LastLink ==
  ASSUME NEW s, Sane(s), NEW p \in Seq(Names), NEW i \in Inums, Resolve(s, p) = i,
         p # <<>>
  PROVE  /\ Link(Parent(s, p), Last(p), i) \in Links(s)
         /\ IsDir(s, Parent(s, p))
         /\ Parent(s, p) \in Inums
         /\ Front(p) \in Seq(Names)
         /\ Last(p) \in Names
         /\ s.mode[i] # "free"
         /\ i # ROOT_INUM
<1>1. s \in Images /\ UniqueTables(s)
  BY SaneTables
<1>2. /\ IsDir(s, Parent(s, p)) /\ <<Last(p), i>> \in Bound(s.table[Parent(s, p)])
      /\ Front(p) \in Seq(Names) /\ Last(p) \in Names
  BY <1>1, ResolveStep
<1>3. Parent(s, p) \in Inums
  BY <1>2 DEF IsDir
<1>4. Link(Parent(s, p), Last(p), i) \in Links(s)
  BY <1>2, <1>3, LinkFacts
<1>5. s.mode[i] # "free" /\ i # ROOT_INUM
  BY <1>4, LinkDirs, LinkFacts
<1> QED
  BY <1>2, <1>3, <1>4, <1>5

(* Only one path leads to a directory.                                     *)
LEMMA OneWay ==
  ASSUME NEW s, Sane(s), NEW p \in Seq(Names), NEW q \in Seq(Names),
         IsDir(s, Resolve(s, p)), Resolve(s, p) = Resolve(s, q)
  PROVE  p = q
<1> DEFINE B == {r \in Seq(Names) : /\ IsDir(s, Resolve(s, r))
                                    /\ \E o \in Seq(Names) : Resolve(s, r) = Resolve(s, o) /\ r # o}
<1> SUFFICES ASSUME B # {} PROVE FALSE
  OBVIOUS
<1>1. PICK r \in B : r # <<>> => Front(r) \notin B
  <2>1. B \subseteq Seq(Names)
    OBVIOUS
  <2> HIDE DEF B
  <2> QED
    BY <2>1, ShortestPath
<1>2. PICK o \in Seq(Names) : Resolve(s, r) = Resolve(s, o) /\ r # o
  OBVIOUS
<1>3. r \in Seq(Names) /\ IsDir(s, Resolve(s, r))
  OBVIOUS
<1> DEFINE i == Resolve(s, r)
<1>4. i \in Inums /\ Resolve(s, o) = i /\ s.mode[i] = "dir"
  BY <1>2, <1>3 DEF IsDir
<1>5. CASE r = <<>>
  <2>1. i = ROOT_INUM
    BY <1>3, <1>5, ResolveUnfold
  <2>2. o # <<>>
    BY <1>2, <1>5
  <2> QED
    BY <1>4, <2>1, <2>2, LastLink
<1>6. CASE o = <<>>
  <2>1. i = ROOT_INUM
    BY <1>4, <1>6, ResolveUnfold
  <2>2. r # <<>>
    BY <1>2, <1>6
  <2> QED
    BY <1>3, <1>4, <2>1, <2>2, LastLink
<1>7. CASE r # <<>> /\ o # <<>>
  <2> DEFINE d == Parent(s, r)
             e == Parent(s, o)
  <2>1. /\ Link(d, Last(r), i) \in Links(s) /\ IsDir(s, d) /\ Front(r) \in Seq(Names)
        /\ Link(e, Last(o), i) \in Links(s) /\ Front(o) \in Seq(Names)
    BY <1>3, <1>4, <1>7, LastLink
  <2>3. d = e /\ Last(r) = Last(o)
    <3> HIDE DEF d, e, i
    <3> QED
      BY <1>4, <2>1, OnlyLink
  <2>4. Front(r) = Front(o)
    <3>1. Front(r) \notin B
      BY <1>1, <1>7
    <3> QED
      BY <2>1, <2>3, <3>1 DEF Parent
  <2> QED
    BY <1>2, <1>3, <1>7, <2>3, <2>4, SamePath
<1> QED
  BY <1>5, <1>6, <1>7

(* No directory is in itself: nothing would lead there from the root.      *)
LEMMA NotInItself ==
  ASSUME NEW s, Sane(s), NEW d, NEW n, NEW i, Link(d, n, i) \in Links(s)
  PROVE  d # i
<1> SUFFICES ASSUME d = i PROVE FALSE
  OBVIOUS
<1>1. d \in Inums /\ i \in Inums /\ Link(i, n, i) \in Links(s)
  BY LinkFacts
<1>2. s.mode[i] = "dir" /\ i # ROOT_INUM
  BY <1>1, LinkDirs, LinkFacts DEF IsDir
<1> DEFINE S == Inums \ {i}
<1>3. S \in SUBSET Inums /\ ROOT_INUM \in S
  BY <1>2, InumFacts
<1>4. Closed(s, S)
  <2> SUFFICES ASSUME NEW l \in Links(s), l.dir \in S PROVE l.object \in S
    BY DEF Closed
  <2>1. l = Link(l.dir, l.name, l.object) /\ l.object \in Inums
    BY LinkFacts
  <2>2. CASE l.object = i
    <3>1. Link(l.dir, l.name, i) \in Links(s)
      BY <2>1, <2>2
    <3>2. l.dir = i
      BY <1>1, <1>2, <3>1, OnlyLink
    <3> QED
      BY <3>2
  <2> QED
    BY <2>1, <2>2
<1>5. i \in Allocated(s)
  BY <1>1, <1>2 DEF Allocated
<1>6. Allocated(s) \subseteq S
  <2> HIDE DEF S
  <2> QED
    BY <1>3, <1>4 DEF Sane, Reached
<1> QED
  BY <1>5, <1>6

LEMMA PrefixFacts ==
  ASSUME NEW p \in Seq(Names), NEW q \in Seq(Names)
  PROVE  IsPrefix(q, p) <=> Len(q) <= Len(p) /\ \A k \in 1 .. Len(q) : q[k] = p[k]
<1> DEFINE n == Len(q)
<1>1. n \in Nat /\ Len(p) \in Nat
  OBVIOUS
<1>2. CASE n <= Len(p)
  <2>1. \A k \in 1 .. n : p[k] \in Names /\ q[k] \in Names
    BY <1>1, <1>2
  <2> DEFINE f == SubSeq(q, 1, n)
             g == SubSeq(p, 1, n)
  <2>2. /\ f \in Seq(Names) /\ Len(f) = n /\ \A k \in 1 .. n : f[k] = q[k]
        /\ g \in Seq(Names) /\ Len(g) = n /\ \A k \in 1 .. n : g[k] = p[k]
    <3> HIDE DEF n
    <3>1. /\ f \in Seq(Names)
          /\ Len(f) = IF 1 <= n THEN n - 1 + 1 ELSE 0
          /\ \A k \in 1 .. n - 1 + 1 : f[k] = q[1 + k - 1]
      BY <1>1, <2>1, SubSeqProperties
    <3>2. /\ g \in Seq(Names)
          /\ Len(g) = IF 1 <= n THEN n - 1 + 1 ELSE 0
          /\ \A k \in 1 .. n - 1 + 1 : g[k] = p[1 + k - 1]
      BY <1>1, <2>1, SubSeqProperties
    <3> QED
      BY <1>1, <3>1, <3>2
  <2>3. IsPrefix(q, p) <=> f = g
    BY <1>2 DEF IsPrefix
  <2> HIDE DEF f, g, n
  <2>4. f = g <=> \A k \in 1 .. n : f[k] = g[k]
    BY <2>2, SeqEqual
  <2> QED
    BY <1>2, <2>2, <2>3, <2>4 DEF n
<1>3. CASE ~ (n <= Len(p))
  BY <1>3 DEF IsPrefix
<1> QED
  BY <1>2, <1>3

LEMMA PrefixOfParent ==
  ASSUME NEW p \in Seq(Names), p # <<>>, NEW q \in Seq(Names), IsPrefix(q, Front(p))
  PROVE  IsPrefix(q, p)
<1>1. /\ Len(p) \in Nat /\ Len(q) \in Nat
      /\ Front(p) \in Seq(Names) /\ Len(Front(p)) = Len(p) - 1
      /\ \A k \in 1 .. Len(p) - 1 : Front(p)[k] = p[k]
  BY PathFacts
<1>2. Len(q) <= Len(p) - 1 /\ \A k \in 1 .. Len(q) : q[k] = Front(p)[k]
  BY <1>1, PrefixFacts
<1>3. Len(q) <= Len(p) /\ \A k \in 1 .. Len(q) : q[k] = p[k]
  BY <1>1, <1>2
<1> QED
  BY <1>3, PrefixFacts

LEMMA PrefixSelf ==
  ASSUME NEW p \in Seq(Names)
  PROVE  IsPrefix(p, p)
  BY PrefixFacts

(* What contains the root and the object of every link from what it has,   *)
(* but perhaps i, has the directory a path leads to that does not pass i.  *)
LEMMA WayRound ==
  ASSUME NEW s, Sane(s), NEW i \in Inums, NEW S \in SUBSET Inums, ROOT_INUM \in S,
         \A l \in Links(s) : l.dir \in S /\ l.object # i => l.object \in S,
         NEW p \in Seq(Names), IsDir(s, Resolve(s, p)),
         \A q \in Seq(Names) : IsPrefix(q, p) /\ s.mode[i] = "dir" => Resolve(s, q) # i
  PROVE  Resolve(s, p) \in S
<1> DEFINE Clear(r) == \A q \in Seq(Names) : IsPrefix(q, r) /\ s.mode[i] = "dir" => Resolve(s, q) # i
           B == {r \in Seq(Names) : /\ IsDir(s, Resolve(s, r)) /\ Clear(r)
                                    /\ Resolve(s, r) \notin S}
<1> SUFFICES ASSUME B # {} PROVE FALSE
  OBVIOUS
<1>1. PICK r \in B : r # <<>> => Front(r) \notin B
  <2>1. B \subseteq Seq(Names)
    OBVIOUS
  <2> HIDE DEF B
  <2> QED
    BY <2>1, ShortestPath
<1>2. r \in Seq(Names) /\ IsDir(s, Resolve(s, r)) /\ Clear(r) /\ Resolve(s, r) \notin S
  OBVIOUS
<1>3. r # <<>>
  BY <1>2, ResolveUnfold
<1> DEFINE d == Parent(s, r)
           j == Resolve(s, r)
<1>4. j \in Inums /\ s.mode[j] = "dir"
  BY <1>2 DEF IsDir
<1>5. Link(d, Last(r), j) \in Links(s) /\ IsDir(s, d) /\ Front(r) \in Seq(Names)
  BY <1>2, <1>3, <1>4, LastLink
<1>6. Clear(Front(r))
  BY <1>2, <1>3, <1>5, PrefixOfParent
<1>7. d \in S
  <2>1. Front(r) \notin B
    BY <1>1, <1>3
  <2> QED
    BY <1>5, <1>6, <2>1 DEF Parent
<1>8. j # i
  <2> SUFFICES ASSUME j = i PROVE FALSE
    OBVIOUS
  <2>1. IsPrefix(r, r)
    BY <1>2, PrefixSelf
  <2> QED
    BY <1>2, <1>4, <2>1
<1>9. Link(d, Last(r), j).dir = d /\ Link(d, Last(r), j).object = j
  BY LinkFacts
<1> QED
  BY <1>2, <1>5, <1>7, <1>8, <1>9

(***************************************************************************)
(* directory_add_entry and directory_remove_entry on an image.             *)
(***************************************************************************)
Roomy(s) == s \in Images /\ FreeBlocks(s) \in Nat

LEMMA SetTableBlocks ==
  ASSUME NEW s \in Images, NEW i \in Inums, NEW d \in ImageTables
  PROVE  /\ \A j \in Inums \ {i} : BlocksOf(SetTable(s, i, d), j) = BlocksOf(s, j)
         /\ BlocksOf(SetTable(s, i, d), i) = s.len[i] + BlocksFor(Len(d))
<1> DEFINE t == SetTable(s, i, d)
<1>1. /\ t \in Images /\ t.len = s.len
      /\ \A j \in Inums : t.table[j] = IF j = i THEN d ELSE s.table[j]
  BY SetTableFacts
<1> HIDE DEF t
<1>2. \A j \in Inums : /\ BlocksOf(t, j) = t.len[j] + BlocksFor(Len(t.table[j]))
                       /\ BlocksOf(s, j) = s.len[j] + BlocksFor(Len(s.table[j]))
  BY <1>1, BlocksOfFacts
<1> QED
  BY <1>1, <1>2 DEF t

(* A table that is no longer than before needs no block.                   *)
LEMMA ShorterTable ==
  ASSUME NEW s, Roomy(s), NEW i \in Inums, NEW d \in ImageTables, Len(d) <= Len(s.table[i])
  PROVE  Roomy(SetTable(s, i, d))
<1> DEFINE t == SetTable(s, i, d)
<1>1. s \in Images /\ FreeBlocks(s) \in Nat
  BY DEF Roomy
<1>2. t \in Images
  BY <1>1, SetTableFacts
<1>3. /\ \A j \in Inums \ {i} : BlocksOf(t, j) = BlocksOf(s, j)
      /\ BlocksOf(t, i) = s.len[i] + BlocksFor(Len(d))
      /\ BlocksOf(s, i) = s.len[i] + BlocksFor(Len(s.table[i]))
  BY <1>1, SetTableBlocks, BlocksOfFacts
<1>4. Len(d) \in Nat /\ Len(s.table[i]) \in Nat
  BY <1>1, ImageFacts, ImageTableFacts, TableFacts
<1>5. BlocksFor(Len(d)) <= BlocksFor(Len(s.table[i])) /\ BlocksFor(Len(d)) \in Nat
  BY <1>4, BlocksForFacts
<1>6. BlocksFor(Len(s.table[i])) \in Nat /\ s.len[i] \in Nat
  BY <1>1, <1>4, BlocksForFacts, ImageFacts
<1>7. BlocksOf(t, i) <= BlocksOf(s, i)
  <2> HIDE DEF t
  <2> QED
    BY <1>3, <1>5, <1>6
<1>8. \A j \in Inums : BlocksOf(t, j) <= BlocksOf(s, j)
  <2>1. \A j \in Inums : BlocksOf(s, j) \in Nat
    BY <1>1, BlocksOfFacts
  <2> HIDE DEF t
  <2> QED
    BY <1>3, <1>7, <2>1
<1> HIDE DEF t
<1>9. FreeBlocks(t) >= FreeBlocks(s) /\ FreeBlocks(t) \in Int
  BY <1>1, <1>2, <1>8, BlocksGivenBack, FreeBlocksFacts
<1>10. Roomy(t)
  BY <1>1, <1>2, <1>9 DEF Roomy
<1> QED
  BY <1>10 DEF t

(* One add on the table of one directory.                                  *)
LEMMA AddToTable ==
  ASSUME NEW s, Roomy(s), NEW d \in Inums, Sound(s.table[d]), Pruned(s.table[d]),
         NEW n \in Names \cup {Dot, DotDot}, NEW i \in Inums,
         \/ AddStop(s.table[d], n) \in Named(s.table[d], n)
         \/ Live(s.table[d]) \cap Named(s.table[d], n) = {},
         NEW out \in Adds(s.table[d], n, i, Room(s))
  PROVE  out.table \in ImageTables /\ Roomy(SetTable(s, d, out.table))
<1> DEFINE u == s.table[d]
           v == out.table
           t == SetTable(s, d, v)
<1>1. s \in Images /\ FreeBlocks(s) \in Nat
  BY DEF Roomy
<1>2. u \in Tables /\ u \in ImageTables /\ i \in Nat
  BY <1>1, ImageFacts, InumFacts
<1>3. Room(s) \in BOOLEAN
  BY DEF Room
<1>4. v \in Tables
  BY <1>2, <1>3, AddSound
<1>5. Bound(v) \subseteq Bound(u) \cup {<<n, i>>}
  BY <1>2, <1>3, AddBinds
<1>6. v \in ImageTables
  BY <1>2, <1>4, <1>5, ImageTableFacts
<1>7. \/ Len(v) = Len(u)
      \/ Len(v) = Len(u) + 1 /\ (NeedsBlock(u) => Room(s))
  BY <1>2, <1>3, AddGrows
<1>8. Len(u) \in Nat
  BY <1>2, TableFacts
<1>9. CASE Len(v) = Len(u)
  <2>1. Len(v) <= Len(s.table[d])
    BY <1>8, <1>9
  <2> QED
    BY <1>6, <2>1, ShorterTable
<1>10. CASE Len(v) = Len(u) + 1 /\ (NeedsBlock(u) => Room(s))
  <2>1. /\ \A j \in Inums \ {d} : BlocksOf(t, j) = BlocksOf(s, j)
        /\ BlocksOf(t, d) = s.len[d] + BlocksFor(Len(v))
        /\ BlocksOf(s, d) = s.len[d] + BlocksFor(Len(u))
    BY <1>1, <1>6, SetTableBlocks, BlocksOfFacts
  <2>2. /\ BlocksFor(Len(u)) \in Nat
        /\ BlocksFor(Len(v)) = IF NeedsBlock(u) THEN BlocksFor(Len(u)) + 1 ELSE BlocksFor(Len(u))
    BY <1>8, <1>10, BlocksForFacts DEF NeedsBlock
  <2>3. s.len[d] \in Nat
    BY <1>1, ImageFacts
  <2>4. t \in Images
    BY <1>1, <1>6, SetTableFacts
  <2> HIDE DEF t, u, v
  <2>5. /\ BlocksOf(s, d) <= BlocksOf(t, d)
        /\ BlocksOf(t, d) - BlocksOf(s, d) = IF NeedsBlock(u) THEN 1 ELSE 0
    BY <2>1, <2>2, <2>3
  <2>6. FreeBlocks(t) = FreeBlocks(s) - (BlocksOf(t, d) - BlocksOf(s, d))
    BY <1>1, <2>1, <2>4, <2>5, BlocksTaken
  <2>7. NeedsBlock(u) => FreeBlocks(s) > 0
    BY <1>10 DEF Room
  <2>8. FreeBlocks(t) \in Nat
    BY <1>1, <2>5, <2>6, <2>7
  <2>9. Roomy(t)
    BY <2>4, <2>8 DEF Roomy
  <2> QED
    BY <1>6, <2>9 DEF t, v
<1> QED
  BY <1>7, <1>9, <1>10

(* What directory_add_entry leaves where it succeeds: the name is bound,   *)
(* and a directory may have a new "..", perhaps behind other entries.      *)
SameButTables(s, t) == t.mode = s.mode /\ t.refs = s.refs /\ t.len = s.len

BackEntry(d) == {<<DotDot, d>>}

Added(s, t, d, n, i) ==
  /\ Roomy(t)
  /\ SameButTables(s, t)
  /\ \A e \in Inums : Unique(t.table[e]) /\ Unhidden(t.table[e]) /\ Pruned(t.table[e])
  /\ \A e \in Inums \ {i} : DotsFirst(t.table[e])
  /\ Bound(t.table[d]) = Bound(s.table[d]) \cup {<<n, i>>}
  /\ \A e \in Inums \ {d, i} : t.table[e] = s.table[e]
  /\ ~IsDir(s, i) => t.table[i] = s.table[i]
  /\ \/ Bound(t.table[i]) = Bound(s.table[i])
     \/ Bound(t.table[i]) = Bound(s.table[i]) \cup BackEntry(d)
  /\ (Holes(s.table[i]) = {} /\ \A k \in Live(s.table[i]) : s.table[i][k].name = Dot)
       => DotsFirst(t.table[i])

LEMMA AddEntryFacts ==
  ASSUME NEW s, Roomy(s), TablesSound(s), NEW d \in Inums, NEW n \in Names, NEW i \in Inums, d # i,
         \A j \in Inums : <<n, j>> \notin Bound(s.table[d]),
         NEW out \in AddEntry(s, d, n, i)
  PROVE  \/ out.rv \in {"ENAMETOOLONG", "EEXIST", "ENOSPC"} /\ out.fs = s
         \/ out.rv = "ok" /\ Added(s, out.fs, d, n, i)
<1> DEFINE u == s.table[d]
           T(a) == SetTable(s, d, a.table)
<1>0. s \in Images /\ FreeBlocks(s) \in Nat
  BY DEF Roomy
<1>1. PICK a \in Adds(u, n, i, Room(s)) :
        out \in IF a.rv = "ok" /\ IsDir(s, i)
                  THEN {Result("ok", SetTable(T(a), i, back.table)) :
                          back \in Adds(T(a).table[i], DotDot, d, Room(T(a)))}
                  ELSE {Result(a.rv, T(a))}
  BY DEF AddEntry
<1>2. u \in Tables /\ u \in ImageTables /\ Sound(u) /\ Pruned(u) /\ i \in Nat /\ d \in Nat
  BY <1>0, ImageFacts, InumFacts DEF TablesSound
<1>3. Live(u) \cap Named(u, n) = {}
  <2>1. \A j : <<n, j>> \in Bound(u) => j \in Inums
    BY <1>2, ImageTableFacts
  <2>2. \A j : <<n, j>> \notin Bound(u)
    BY <2>1
  <2> HIDE DEF u
  <2> QED
    BY <1>2, <2>2, UnboundFacts
<1>4. n \in Names \cup {Dot, DotDot} /\ Room(s) \in BOOLEAN
  BY DEF Room
<1> DEFINE t == T(a)
           v == a.table
<1>5. v \in ImageTables /\ Roomy(t)
  <2> HIDE DEF u
  <2>1. \/ AddStop(s.table[d], n) \in Named(s.table[d], n)
        \/ Live(s.table[d]) \cap Named(s.table[d], n) = {}
    BY <1>3 DEF u
  <2> QED
    BY <1>1, <1>2, <1>4, <2>1, AddToTable DEF u
<1>6. \/ a.rv \in {"ENAMETOOLONG", "EEXIST", "ENOSPC"} /\ v = u
      \/ a.rv = "ok" /\ Bound(v) = Bound(u) \cup {<<n, i>>}
  <2> HIDE DEF u
  <2> QED
    BY <1>1, <1>2, <1>3, <1>4, AddBinds
<1>7. n # DotDot
  BY NamesAssumption
<1>8. Unique(v) /\ Unhidden(v) /\ Pruned(v) /\ DotsFirst(v)
  <2> HIDE DEF u
  <2> QED
    BY <1>1, <1>2, <1>3, <1>4, <1>7, AddSound
<1>9. /\ t \in Images /\ SameButTables(s, t)
      /\ \A e \in Inums : t.table[e] = IF e = d THEN v ELSE s.table[e]
      /\ v = u => t = s
  BY <1>0, <1>5, SetTableFacts DEF SameButTables
<1> DEFINE w == s.table[i]
<1>10. t.table[i] = w /\ w \in Tables /\ w \in ImageTables /\ Sound(w) /\ Pruned(w)
  BY <1>0, <1>9, ImageFacts DEF TablesSound
<1>11. \A e \in Inums : Unique(s.table[e]) /\ Unhidden(s.table[e]) /\ Pruned(s.table[e]) /\ DotsFirst(s.table[e])
  BY DEF TablesSound, Sound
<1> HIDE DEF t, u, v, w
<1>12. CASE a.rv # "ok"
  <2>1. out = Result(a.rv, s)
    BY <1>1, <1>6, <1>9, <1>12 DEF t
  <2> QED
    BY <1>6, <1>12, <2>1 DEF Result
<1>13. CASE a.rv = "ok" /\ ~IsDir(s, i)
  <2>1. out = Result("ok", t)
    BY <1>1, <1>13 DEF t
  <2>2. out.rv = "ok" /\ out.fs = t
    BY <2>1 DEF Result
  <2>3. Bound(t.table[d]) = Bound(s.table[d]) \cup {<<n, i>>}
    BY <1>6, <1>9, <1>13 DEF u
  <2>4. \A e \in Inums : /\ Unique(t.table[e]) /\ Unhidden(t.table[e]) /\ Pruned(t.table[e])
                         /\ DotsFirst(t.table[e])
    BY <1>8, <1>9, <1>11
  <2>5. Added(s, t, d, n, i)
    BY <1>5, <1>9, <1>10, <2>3, <2>4 DEF Added, w
  <2> QED
    BY <2>2, <2>5
<1>14. CASE a.rv = "ok" /\ IsDir(s, i)
  <2>1. PICK back \in Adds(t.table[i], DotDot, d, Room(t)) :
               out = Result("ok", SetTable(t, i, back.table))
    BY <1>1, <1>14 DEF t
  <2> DEFINE x == back.table
             r == SetTable(t, i, x)
  <2>2. out.rv = "ok" /\ out.fs = r
    BY <2>1 DEF Result
  <2>3. \/ AddStop(w, DotDot) \in Named(w, DotDot)
        \/ Live(w) \cap Named(w, DotDot) = {}
    BY <1>10, DotDotStop DEF Sound
  <2>4. DotDot \in Names \cup {Dot, DotDot} /\ Room(t) \in BOOLEAN
    BY DEF Room
  <2>5. x \in ImageTables /\ Roomy(r)
    BY <1>5, <1>10, <2>1, <2>3, <2>4, AddToTable
  <2>6. Bound(x) = Bound(w) \/ Bound(x) = Bound(w) \cup {<<DotDot, d>>}
    BY <1>2, <1>10, <2>1, <2>3, <2>4, AddBinds
  <2>7. Unique(x) /\ Unhidden(x) /\ Pruned(x)
    BY <1>2, <1>10, <2>1, <2>3, <2>4, AddSound
  <2>8. (Holes(w) = {} /\ \A k \in Live(w) : w[k].name = Dot) => DotsFirst(x)
    BY <1>2, <1>10, <2>1, <2>4, AddWithoutHoles
  <2>9. /\ SameButTables(t, r)
        /\ \A e \in Inums : r.table[e] = IF e = i THEN x ELSE t.table[e]
    BY <1>9, <2>5, SetTableFacts DEF SameButTables
  <2> HIDE DEF x, r
  <2>10. /\ SameButTables(s, r)
         /\ \A e \in Inums : r.table[e] = IF e = i THEN x ELSE IF e = d THEN v ELSE s.table[e]
    BY <1>9, <2>9 DEF SameButTables
  <2>11. Bound(r.table[d]) = Bound(s.table[d]) \cup {<<n, i>>}
    BY <1>6, <1>14, <2>10 DEF u
  <2>12. \A e \in Inums : Unique(r.table[e]) /\ Unhidden(r.table[e]) /\ Pruned(r.table[e])
    BY <1>8, <1>11, <2>7, <2>10
  <2>13. \A e \in Inums \ {i} : DotsFirst(r.table[e])
    BY <1>8, <1>11, <2>10
  <2>14. Added(s, r, d, n, i)
    BY <1>14, <2>5, <2>6, <2>8, <2>10, <2>11, <2>12, <2>13 DEF Added, BackEntry, w
  <2> QED
    BY <2>2, <2>14
<1> QED
  BY <1>12, <1>13, <1>14

(* What directory_remove_entry leaves where it succeeds: the name is not   *)
(* bound, and a directory has no ".." any more.                            *)
WithoutBack(B) == {x \in B : x[1] # DotDot}

Dropped(s, t, d, n, i) ==
  /\ Roomy(t)
  /\ SameButTables(s, t)
  /\ IsDir(s, i) \/ DotsFirst(s.table[i]) => TablesSound(t)
  /\ Bound(t.table[d]) = Bound(s.table[d]) \ {<<n, i>>}
  /\ \A e \in Inums \ {d, i} : t.table[e] = s.table[e]
  /\ ~IsDir(s, i) => t.table[i] = s.table[i]
  /\ IsDir(s, i) => Bound(t.table[i]) = WithoutBack(Bound(s.table[i]))

LEMMA RemovedBack ==
  ASSUME NEW d \in Tables, Unique(d), Unhidden(d), Removed(d, DotDot).rv # "abort"
  PROVE  Bound(Removed(d, DotDot).table) = WithoutBack(Bound(d))
<1> DEFINE v == Removed(d, DotDot).table
<1>1. /\ Bound(d) \subseteq EntryNames \X Nat
      /\ \A i, j : <<DotDot, i>> \in Bound(d) /\ <<DotDot, j>> \in Bound(d) => i = j
  BY BoundFacts
<1>2. \A x \in Bound(d) : x = <<x[1], x[2]>>
  BY <1>1
<1>3. CASE \A j : <<DotDot, j>> \notin Bound(d)
  <2>1. v = d
    BY <1>3, RemovedBinds
  <2>2. \A x \in Bound(d) : x[1] # DotDot
    BY <1>2, <1>3
  <2> HIDE DEF v
  <2> QED
    BY <2>1, <2>2 DEF WithoutBack, v
<1>4. CASE \E i : <<DotDot, i>> \in Bound(d) /\ Bound(v) = Bound(d) \ {<<DotDot, i>>}
  <2>1. PICK i : <<DotDot, i>> \in Bound(d) /\ Bound(v) = Bound(d) \ {<<DotDot, i>>}
    BY <1>4
  <2>2. \A x \in Bound(d) : x[1] = DotDot <=> x = <<DotDot, i>>
    BY <1>1, <1>2, <2>1
  <2> HIDE DEF v
  <2> QED
    BY <2>1, <2>2 DEF WithoutBack, v
<1> QED
  BY <1>3, <1>4, RemovedBinds

LEMMA RemoveEntryFacts ==
  ASSUME NEW s, Roomy(s), NEW d \in Inums, NEW n \in Names, NEW i \in Inums, d # i,
         \A e \in Inums : Unique(s.table[e]) /\ Unhidden(s.table[e]) /\ Pruned(s.table[e]),
         \A e \in Inums \ {i} : DotsFirst(s.table[e]),
         <<n, i>> \in Bound(s.table[d])
  PROVE  LET out == RemoveEntry(s, d, n) IN
         \/ out.rv = "abort" /\ Roomy(out.fs)
         \/ out.rv = "ok" /\ Dropped(s, out.fs, d, n, i)
<1> DEFINE u == s.table[d]
           w == s.table[i]
           k == RemoveStop(u, n)
           v == MarkUnused(u, n)
           m == SetTable(s, d, v)
           back == Removed(m.table[i], DotDot)
           out == RemoveEntry(s, d, n)
<1>0. s \in Images /\ FreeBlocks(s) \in Nat
  BY DEF Roomy
<1>1. /\ u \in Tables /\ u \in ImageTables /\ w \in Tables /\ w \in ImageTables
      /\ Unique(u) /\ Unhidden(u) /\ Pruned(u) /\ DotsFirst(u)
      /\ Unique(w) /\ Unhidden(w) /\ Pruned(w)
  BY <1>0, ImageFacts
<1>2. k \in Live(u) /\ u[k].name = n /\ u[k].inum = i
  <2>1. PICK j \in Live(u) : u[j].name = n /\ u[j].inum = i
    BY <1>1, BoundFacts
  <2> HIDE DEF u
  <2>2. k = j
    BY <1>1, <2>1, RemoveStopFacts
  <2> QED
    BY <2>1, <2>2
<1> HIDE DEF u
<1>3. n # DotDot /\ n # Dot
  BY NamesAssumption
<1>4. v \in Tables /\ Len(v) = Len(u) /\ Bound(v) = Bound(u) \ {<<n, i>>} /\ Sound(v)
  <2>1. v = [u EXCEPT ![k].inum = Unused]
    BY DEF MarkUnused
  <2>2. v \in Tables /\ Len(v) = Len(u)
    BY <1>1, <1>2, MarkKeepsLength
  <2> HIDE DEF v, k
  <2> QED
    BY <1>1, <1>2, <1>3, <2>1, <2>2, MarkBinds, MarkSound
<1>5. /\ Prune(v) \in Tables /\ Len(Prune(v)) <= Len(v) /\ Bound(Prune(v)) = Bound(v)
      /\ Sound(Prune(v)) /\ Pruned(Prune(v))
  BY <1>4, PruneShortens, PruneBinds, PruneSound
<1>6. v \in ImageTables /\ Prune(v) \in ImageTables
  BY <1>1, <1>4, <1>5, ImageTableFacts
<1>7. Len(u) \in Nat /\ Len(v) <= Len(u) /\ Len(Prune(v)) <= Len(u)
  BY <1>1, <1>4, <1>5, TableFacts
<1>8. /\ Roomy(m) /\ m \in Images /\ SameButTables(s, m)
      /\ \A e \in Inums : m.table[e] = IF e = d THEN v ELSE s.table[e]
  <2>1. Len(v) <= Len(s.table[d])
    BY <1>7 DEF u
  <2> QED
    BY <1>0, <1>6, <2>1, SetTableFacts, ShorterTable DEF SameButTables
<1>9. m.table[i] = w /\ m.table[d] = v
  BY <1>8
<1> DEFINE p == SetTable(s, d, Prune(v))
           q == SetTable(SetTable(m, i, back.table), d, Prune(v))
<1>10. out = IF ~IsDir(s, i) THEN Result("ok", p)
             ELSE IF back.rv = "abort" THEN Result("abort", m)
             ELSE Result("ok", q)
  <2>1. s.table[d] = u
    BY DEF u
  <2> HIDE DEF m, v, k, p, q
  <2>2. out = IF k \notin Live(u) THEN Result(Removed(u, n).rv, s)
              ELSE IF ~IsDir(s, u[k].inum) THEN Result("ok", SetTable(s, d, Prune(m.table[d])))
              ELSE IF Removed(m.table[u[k].inum], DotDot).rv = "abort" THEN Result("abort", m)
              ELSE Result("ok", SetTable(SetTable(m, u[k].inum, Removed(m.table[u[k].inum], DotDot).table),
                                         d, Prune(m.table[d])))
    BY <2>1 DEF RemoveEntry, m, v, k
  <2> QED
    BY <1>2, <1>9, <2>2 DEF p, q
<1>11. \A e \in Inums : Unique(s.table[e]) /\ Unhidden(s.table[e]) /\ Pruned(s.table[e])
  OBVIOUS
<1>12. ASSUME ~IsDir(s, i) PROVE out.rv = "ok" /\ Dropped(s, out.fs, d, n, i)
  <2>1. /\ Roomy(p) /\ SameButTables(s, p)
        /\ \A e \in Inums : p.table[e] = IF e = d THEN Prune(v) ELSE s.table[e]
    <3>1. Len(Prune(v)) <= Len(s.table[d])
      BY <1>7 DEF u
    <3> QED
      BY <1>0, <1>6, <3>1, SetTableFacts, ShorterTable DEF SameButTables
  <2> HIDE DEF p, v, m, out
  <2>2. out.rv = "ok" /\ out.fs = p
    BY <1>10, <1>12 DEF Result
  <2>3. Bound(p.table[d]) = Bound(s.table[d]) \ {<<n, i>>}
    BY <1>4, <1>5, <2>1 DEF u
  <2>4. DotsFirst(s.table[i]) => TablesSound(p)
    BY <1>5, <1>11, <2>1 DEF TablesSound, Sound
  <2>5. Dropped(s, p, d, n, i)
    BY <1>12, <2>1, <2>3, <2>4 DEF Dropped
  <2> QED
    BY <2>2, <2>5
<1>13. ASSUME IsDir(s, i), back.rv = "abort" PROVE out.rv = "abort" /\ Roomy(out.fs)
  <2>1. out = Result("abort", m)
    BY <1>10, <1>13
  <2> HIDE DEF m, out
  <2> QED
    BY <1>8, <2>1 DEF Result
<1>14. ASSUME IsDir(s, i), back.rv # "abort" PROVE out.rv = "ok" /\ Dropped(s, out.fs, d, n, i)
  <2> DEFINE x == back.table
             r == SetTable(m, i, x)
  <2> HIDE DEF m, w, v
  <2>1. back = Removed(w, DotDot)
    BY <1>9
  <2>2. x \in Tables /\ Sound(x) /\ Pruned(x)
    BY <1>1, <1>14, <2>1, RemovedSound
  <2>3. Bound(x) = WithoutBack(Bound(w)) /\ Len(x) <= Len(w)
    BY <1>1, <1>14, <2>1, RemovedBack, RemovedShortens
  <2>4. x \in ImageTables
    <3>1. Bound(x) \subseteq Bound(w)
      BY <2>3 DEF WithoutBack
    <3> QED
      BY <1>1, <2>2, <3>1, ImageTableFacts
  <2>5. /\ Roomy(r) /\ r \in Images /\ SameButTables(m, r)
        /\ \A e \in Inums : r.table[e] = IF e = i THEN x ELSE m.table[e]
    <3> HIDE DEF x
    <3>1. Len(x) <= Len(m.table[i])
      BY <1>9, <2>3
    <3> QED
      BY <1>8, <2>4, <3>1, SetTableFacts, ShorterTable DEF SameButTables
  <2>6. q = SetTable(r, d, Prune(v))
    OBVIOUS
  <2> HIDE DEF x, r
  <2>7. /\ Roomy(q) /\ SameButTables(r, q)
        /\ \A e \in Inums : q.table[e] = IF e = d THEN Prune(v) ELSE r.table[e]
    <3> HIDE DEF q
    <3>1. Len(Prune(v)) <= Len(r.table[d])
      BY <1>5, <1>9, <2>5
    <3> QED
      BY <1>6, <2>5, <2>6, <3>1, SetTableFacts, ShorterTable DEF SameButTables
  <2> HIDE DEF q, out
  <2>8. out.rv = "ok" /\ out.fs = q
    BY <1>10, <1>14 DEF Result
  <2>9. /\ SameButTables(s, q)
        /\ \A e \in Inums : q.table[e] = IF e = d THEN Prune(v) ELSE IF e = i THEN x ELSE s.table[e]
    BY <1>8, <2>5, <2>7 DEF SameButTables
  <2>10. /\ Bound(q.table[d]) = Bound(s.table[d]) \ {<<n, i>>}
         /\ Bound(q.table[i]) = WithoutBack(Bound(s.table[i]))
    BY <1>4, <1>5, <2>3, <2>9 DEF u, w
  <2>11. TablesSound(q)
    BY <1>5, <1>11, <2>2, <2>9 DEF TablesSound, Sound
  <2>12. Dropped(s, q, d, n, i)
    BY <1>14, <2>7, <2>9, <2>10, <2>11 DEF Dropped
  <2> QED
    BY <2>8, <2>12
<1> QED
  BY <1>12, <1>13, <1>14

(***************************************************************************)
(* The four steps the handlers of Storage make when they succeed: a new    *)
(* inode, a new link, a link less, a link moved.  What each does to the    *)
(* links of the tree, and that each leaves a sane tree sane.               *)
(***************************************************************************)
Unbound(s, d, n) == \A j : <<n, j>> \notin Bound(s.table[d])

(* storage_mknod *)
MakeStep(s, t, d, n, i, k) ==
  /\ Roomy(t) /\ TablesSound(t)
  /\ d \in Inums /\ n \in Names /\ i \in Inums /\ k \in {"file", "dir"}
  /\ s.mode[d] = "dir" /\ s.mode[i] = "free"
  /\ Unbound(s, d, n)
  /\ \A e \in Inums \ {i} : /\ t.mode[e] = s.mode[e]
                            /\ t.refs[e] = s.refs[e]
                            /\ t.len[e] = s.len[e]
  /\ t.mode[i] = k /\ t.refs[i] = 1 /\ t.len[i] = 0
  /\ Bound(t.table[d]) = Bound(s.table[d]) \cup {<<n, i>>}
  /\ \A e \in Inums \ {d, i} : t.table[e] = s.table[e]
  /\ Bound(t.table[i]) \subseteq {<<Dot, i>>, <<DotDot, d>>}
  /\ k = "file" => Bound(t.table[i]) = {}

(* storage_link *)
LinkStep(s, t, d, n, i) ==
  /\ Roomy(t) /\ TablesSound(t)
  /\ d \in Inums /\ n \in Names /\ i \in Inums
  /\ s.mode[d] = "dir" /\ s.mode[i] = "file"
  /\ Unbound(s, d, n)
  /\ t.mode = s.mode /\ t.len = s.len
  /\ \A e \in Inums \ {i} : t.refs[e] = s.refs[e]
  /\ t.refs[i] = s.refs[i] + 1
  /\ Bound(t.table[d]) = Bound(s.table[d]) \cup {<<n, i>>}
  /\ \A e \in Inums \ {d} : t.table[e] = s.table[e]

(* storage_unlink *)
UnlinkStep(s, t, d, n, i) ==
  /\ Roomy(t) /\ TablesSound(t)
  /\ d \in Inums /\ n \in Names /\ i \in Inums
  /\ <<n, i>> \in Bound(s.table[d])
  /\ s.mode[i] = "dir" => \A m \in Names : Unbound(s, i, m)
  /\ \A e \in Inums \ {i} : /\ t.mode[e] = s.mode[e]
                            /\ t.refs[e] = s.refs[e]
                            /\ t.len[e] = s.len[e]
  /\ Bound(t.table[d]) = Bound(s.table[d]) \ {<<n, i>>}
  /\ \A e \in Inums \ {d, i} : t.table[e] = s.table[e]
  /\ IF s.refs[i] > 1
       THEN /\ t.refs[i] = s.refs[i] - 1
            /\ t.mode[i] = s.mode[i]
            /\ s.mode[i] # "dir" => t.table[i] = s.table[i]
       ELSE t.refs[i] = 0 /\ t.mode[i] = "free" /\ t.table[i] = <<>> /\ t.len[i] = 0

(* storage_rename: from the link n of a to the link m of d.                *)
MoveStep(s, t, a, n, d, m, i) ==
  /\ Roomy(t) /\ TablesSound(t)
  /\ a \in Inums /\ n \in Names /\ d \in Inums /\ m \in Names /\ i \in Inums
  /\ a # i /\ d # i
  /\ s.mode[d] = "dir"
  /\ <<n, i>> \in Bound(s.table[a])
  /\ Unbound(s, d, m)
  /\ t.mode = s.mode /\ t.refs = s.refs /\ t.len = s.len
  /\ Bound(t.table[i]) = IF s.mode[i] = "dir" THEN WithoutBack(Bound(s.table[i])) ELSE Bound(s.table[i])
  /\ \A e \in Inums \ {i} :
       Bound(t.table[e]) = (Bound(s.table[e]) \cup (IF e = d THEN {<<m, i>>} ELSE {}))
                             \ (IF e = a THEN {<<n, i>>} ELSE {})
  /\ \E p \in Seq(Names) :
       /\ Resolve(s, p) = d
       /\ \A q \in Seq(Names) : IsPrefix(q, p) /\ s.mode[i] = "dir" => Resolve(s, q) # i

(***************************************************************************)
(* Links after a step.                                                     *)
(***************************************************************************)
AllLinks == [dir : Inums, name : Names, object : Inums]

(* From s to t the tables bind the links of G and unbind those of L.       *)
Rebound(s, t, G, L) ==
  \A e \in Inums, m \in Names, j \in Inums :
    <<m, j>> \in Bound(t.table[e])
      <=> /\ <<m, j>> \in Bound(s.table[e]) \/ Link(e, m, j) \in G
          /\ Link(e, m, j) \notin L

LinksMoved(s, t, G, L) == Links(t) = (Links(s) \cup G) \ L

LEMMA LinksChange ==
  ASSUME NEW s, NEW t, NEW G, G \subseteq AllLinks, NEW L, Rebound(s, t, G, L)
  PROVE  LinksMoved(s, t, G, L)
<1>1. /\ Links(s) \subseteq AllLinks /\ Links(t) \subseteq AllLinks
      /\ \A l \in AllLinks : /\ l.dir \in Inums /\ l.name \in Names /\ l.object \in Inums
                             /\ l = Link(l.dir, l.name, l.object)
  BY DEF Links, AllLinks, Link
<1>2. ASSUME NEW l \in AllLinks
      PROVE  l \in Links(t) <=> (l \in Links(s) \/ l \in G) /\ l \notin L
  <2>1. l.dir \in Inums /\ l.name \in Names /\ l.object \in Inums /\ l = Link(l.dir, l.name, l.object)
    BY <1>1
  <2> DEFINE e == l.dir
             m == l.name
             j == l.object
  <2>2. <<m, j>> \in Bound(t.table[e]) <=> /\ <<m, j>> \in Bound(s.table[e]) \/ Link(e, m, j) \in G
                                           /\ Link(e, m, j) \notin L
    BY <2>1 DEF Rebound
  <2>3. /\ Link(e, m, j) \in Links(t) <=> <<m, j>> \in Bound(t.table[e])
        /\ Link(e, m, j) \in Links(s) <=> <<m, j>> \in Bound(s.table[e])
    BY <2>1, LinkFacts
  <2> HIDE DEF e, m, j
  <2> QED
    BY <2>1, <2>2, <2>3 DEF e, m, j
<1> QED
  BY <1>1, <1>2 DEF LinksMoved

LEMMA LinkType ==
  ASSUME NEW d \in Inums, NEW n \in Names, NEW i \in Inums
  PROVE  Link(d, n, i) \in AllLinks
  BY DEF Link, AllLinks

(* A name that is not bound has no link, and the links that leave one      *)
(* directory stand for what is bound there.                                *)
LEMMA MakeLinks ==
  ASSUME NEW s, NEW t, NEW d, NEW n, NEW i, NEW k, MakeStep(s, t, d, n, i, k), Sane(s)
  PROVE  /\ Links(t) = Links(s) \cup {Link(d, n, i)}
         /\ LinksTo(s, i) = {}
         /\ d # i
<1>1. /\ d \in Inums /\ n \in Names /\ i \in Inums /\ s.mode[d] = "dir" /\ s.mode[i] = "free"
      /\ Bound(t.table[d]) = Bound(s.table[d]) \cup {<<n, i>>}
      /\ \A e \in Inums \ {d, i} : t.table[e] = s.table[e]
      /\ Bound(t.table[i]) \subseteq {<<Dot, i>>, <<DotDot, d>>}
  BY DEF MakeStep
<1>2. d # i
  BY <1>1
<1>3. LinksTo(s, i) = {}
  <2> SUFFICES ASSUME NEW l \in Links(s), l.object = i PROVE FALSE
    BY DEF LinksTo
  <2> QED
    BY <1>1, LinkDirs
<1>4. Bound(s.table[i]) = {}
  BY <1>1 DEF Sane, Clean
<1>5. \A m \in Names : m # Dot /\ m # DotDot
  BY NamesAssumption
<1> DEFINE G == {Link(d, n, i)}
<1>6. \A e \in Inums, m \in Names, j \in Inums :
           <<m, j>> \in Bound(t.table[e])
             <=> <<m, j>> \in Bound(s.table[e]) \/ Link(e, m, j) \in G
  <2> SUFFICES ASSUME NEW e \in Inums, NEW m \in Names, NEW j \in Inums
               PROVE  <<m, j>> \in Bound(t.table[e])
                        <=> <<m, j>> \in Bound(s.table[e]) \/ Link(e, m, j) \in G
    OBVIOUS
  <2>1. Link(e, m, j) \in G <=> e = d /\ m = n /\ j = i
    BY LinkSame
  <2> HIDE DEF G
  <2>2. CASE e = d
    BY <1>1, <2>1, <2>2
  <2>3. CASE e = i
    BY <1>1, <1>2, <1>4, <1>5, <2>1, <2>3
  <2>4. CASE e # d /\ e # i
    BY <1>1, <2>1, <2>4
  <2> QED
    BY <2>2, <2>3, <2>4
<1>7. G \subseteq AllLinks
  BY <1>1, LinkType
<1> DEFINE L == {}
<1>8. Rebound(s, t, G, L)
  BY <1>6 DEF Rebound
<1> HIDE DEF G, L
<1>9. LinksMoved(s, t, G, L)
  BY <1>7, <1>8, LinksChange
<1> QED
  BY <1>2, <1>3, <1>9 DEF LinksMoved, G, L

LEMMA LinkLinks ==
  ASSUME NEW s, NEW t, NEW d, NEW n, NEW i, LinkStep(s, t, d, n, i)
  PROVE  Links(t) = Links(s) \cup {Link(d, n, i)}
<1>1. /\ d \in Inums /\ n \in Names /\ i \in Inums
      /\ Bound(t.table[d]) = Bound(s.table[d]) \cup {<<n, i>>}
      /\ \A e \in Inums \ {d} : t.table[e] = s.table[e]
  BY DEF LinkStep
<1> DEFINE G == {Link(d, n, i)}
<1>6. \A e \in Inums, m \in Names, j \in Inums :
           <<m, j>> \in Bound(t.table[e])
             <=> <<m, j>> \in Bound(s.table[e]) \/ Link(e, m, j) \in G
  <2> SUFFICES ASSUME NEW e \in Inums, NEW m \in Names, NEW j \in Inums
               PROVE  <<m, j>> \in Bound(t.table[e])
                        <=> <<m, j>> \in Bound(s.table[e]) \/ Link(e, m, j) \in G
    OBVIOUS
  <2>1. Link(e, m, j) \in G <=> e = d /\ m = n /\ j = i
    BY LinkSame
  <2> HIDE DEF G
  <2>2. CASE e = d
    BY <1>1, <2>1, <2>2
  <2>4. CASE e # d
    BY <1>1, <2>1, <2>4
  <2> QED
    BY <2>2, <2>4
<1>7. G \subseteq AllLinks
  BY <1>1, LinkType
<1> DEFINE L == {}
<1>8. Rebound(s, t, G, L)
  BY <1>6 DEF Rebound
<1> HIDE DEF G, L
<1>9. LinksMoved(s, t, G, L)
  BY <1>7, <1>8, LinksChange
<1> QED
  BY <1>9 DEF LinksMoved, G, L

LEMMA UnlinkLinks ==
  ASSUME NEW s, NEW t, NEW d, NEW n, NEW i, UnlinkStep(s, t, d, n, i), Sane(s)
  PROVE  /\ Links(t) = Links(s) \ {Link(d, n, i)}
         /\ Link(d, n, i) \in Links(s)
         /\ d # i /\ s.mode[d] = "dir" /\ s.mode[i] # "free" /\ i # ROOT_INUM
         /\ \A l \in Links(s) : l.dir # i
<1>1. /\ d \in Inums /\ n \in Names /\ i \in Inums /\ <<n, i>> \in Bound(s.table[d])
      /\ s.mode[i] = "dir" => \A m \in Names : Unbound(s, i, m)
      /\ Bound(t.table[d]) = Bound(s.table[d]) \ {<<n, i>>}
      /\ \A e \in Inums \ {d, i} : t.table[e] = s.table[e]
      /\ Roomy(t)
  BY DEF UnlinkStep
<1>2. Link(d, n, i) \in Links(s)
  BY <1>1, LinkFacts
<1>3. d # i /\ s.mode[d] = "dir" /\ s.mode[i] # "free" /\ i # ROOT_INUM
  BY <1>2, NotInItself, LinkDirs, LinkFacts DEF IsDir
<1>4. \A l \in Links(s) : l.dir # i
  <2> SUFFICES ASSUME NEW l \in Links(s), l.dir = i PROVE FALSE
    OBVIOUS
  <2>1. s.mode[i] = "dir" /\ l.name \in Names /\ <<l.name, l.object>> \in Bound(s.table[i])
    BY LinkDirs, LinkFacts DEF IsDir
  <2> QED
    BY <1>1, <2>1 DEF Unbound
<1>5. \A m \in Names, j \in Inums : <<m, j>> \notin Bound(s.table[i])
  <2> SUFFICES ASSUME NEW m \in Names, NEW j \in Inums, <<m, j>> \in Bound(s.table[i]) PROVE FALSE
    OBVIOUS
  <2>1. Link(i, m, j) \in Links(s) /\ Link(i, m, j).dir = i
    BY <1>1, LinkFacts
  <2> QED
    BY <1>4, <2>1
<1>6. \A m \in Names, j \in Inums : <<m, j>> \notin Bound(t.table[i])
  <2>1. CASE s.mode[i] = "dir" /\ s.refs[i] > 1
    (* A directory has one link and so one reference. *)
    <3>1. LinksTo(s, i) = {Link(d, n, i)}
      <4>1. Link(d, n, i) \in LinksTo(s, i)
        BY <1>2, LinkFacts DEF LinksTo
      <4>2. \A l, m \in LinksTo(s, i) : l = m
        BY <2>1 DEF Sane, Placed, LinksTo
      <4> QED
        BY <4>1, <4>2
    <3>2. s.refs[i] = 1
      BY <1>1, <1>3, <3>1, FS_Singleton DEF Sane, Counted
    <3> QED
      BY <2>1, <3>2
  <2>2. CASE s.mode[i] # "dir" /\ s.refs[i] > 1
    <3>1. t.table[i] = s.table[i]
      BY <2>2 DEF UnlinkStep
    <3> QED
      BY <1>5, <3>1
  <2>3. CASE ~ (s.refs[i] > 1)
    <3>1. t.table[i] = <<>>
      BY <2>3 DEF UnlinkStep
    <3>2. Bound(<<>>) = {}
      BY DEF Bound, Live
    <3> QED
      BY <3>1, <3>2
  <2> QED
    BY <2>1, <2>2, <2>3
<1> DEFINE G == {}
           L == {Link(d, n, i)}
<1>8. Rebound(s, t, G, L)
  <2> SUFFICES ASSUME NEW e \in Inums, NEW m \in Names, NEW j \in Inums
               PROVE  <<m, j>> \in Bound(t.table[e])
                        <=> <<m, j>> \in Bound(s.table[e]) /\ Link(e, m, j) \notin L
    BY DEF Rebound
  <2>1. Link(e, m, j) \in L <=> e = d /\ m = n /\ j = i
    BY LinkSame
  <2> HIDE DEF L
  <2>2. CASE e = d
    BY <1>1, <2>1, <2>2
  <2>3. CASE e = i
    BY <1>3, <1>5, <1>6, <2>1, <2>3
  <2>4. CASE e # d /\ e # i
    BY <1>1, <2>1, <2>4
  <2> QED
    BY <2>2, <2>3, <2>4
<1>9. G \subseteq AllLinks
  OBVIOUS
<1> HIDE DEF G, L
<1>10. LinksMoved(s, t, G, L)
  BY <1>8, <1>9, LinksChange
<1> QED
  BY <1>2, <1>3, <1>4, <1>10 DEF LinksMoved, G, L

LEMMA MoveLinks ==
  ASSUME NEW s, NEW t, NEW a, NEW n, NEW d, NEW m, NEW i, MoveStep(s, t, a, n, d, m, i), Sane(s)
  PROVE  /\ Links(t) = (Links(s) \ {Link(a, n, i)}) \cup {Link(d, m, i)}
         /\ Link(a, n, i) \in Links(s)
         /\ Link(d, m, i) \notin Links(s)
         /\ Link(a, n, i) # Link(d, m, i)
         /\ s.mode[i] # "free" /\ i # ROOT_INUM
<1>1. /\ a \in Inums /\ n \in Names /\ d \in Inums /\ m \in Names /\ i \in Inums
      /\ a # i /\ d # i
      /\ <<n, i>> \in Bound(s.table[a])
      /\ Unbound(s, d, m)
      /\ Bound(t.table[i]) = IF s.mode[i] = "dir" THEN WithoutBack(Bound(s.table[i])) ELSE Bound(s.table[i])
      /\ \A e \in Inums \ {i} :
           Bound(t.table[e]) = (Bound(s.table[e]) \cup (IF e = d THEN {<<m, i>>} ELSE {}))
                                 \ (IF e = a THEN {<<n, i>>} ELSE {})
  BY DEF MoveStep
<1>2. Link(a, n, i) \in Links(s)
  BY <1>1, LinkFacts
<1>3. s.mode[i] # "free" /\ i # ROOT_INUM
  BY <1>2, LinkDirs, LinkFacts
<1>4. Link(d, m, i) \notin Links(s)
  BY <1>1, LinkFacts DEF Unbound
<1>5. Link(a, n, i) # Link(d, m, i)
  BY <1>2, <1>4
<1>6. \A o \in Names, j \in Inums : <<o, j>> \in Bound(t.table[i]) <=> <<o, j>> \in Bound(s.table[i])
  <2>1. \A o \in Names : o # DotDot
    BY NamesAssumption
  <2> QED
    BY <1>1, <2>1 DEF WithoutBack
<1> DEFINE G == {Link(d, m, i)}
           L == {Link(a, n, i)}
<1>8. Rebound(s, t, G, L)
  <2> SUFFICES ASSUME NEW e \in Inums, NEW o \in Names, NEW j \in Inums
               PROVE  <<o, j>> \in Bound(t.table[e])
                        <=> /\ <<o, j>> \in Bound(s.table[e]) \/ Link(e, o, j) \in G
                            /\ Link(e, o, j) \notin L
    BY DEF Rebound
  <2>1. /\ Link(e, o, j) \in G <=> e = d /\ o = m /\ j = i
        /\ Link(e, o, j) \in L <=> e = a /\ o = n /\ j = i
    BY LinkSame
  <2> HIDE DEF G, L
  <2>2. CASE e = i
    BY <1>1, <1>6, <2>1, <2>2
  <2>3. CASE e # i
    <3>1. Bound(t.table[e]) = (Bound(s.table[e]) \cup (IF e = d THEN {<<m, i>>} ELSE {}))
                                \ (IF e = a THEN {<<n, i>>} ELSE {})
      BY <1>1, <2>3
    <3>2. <<o, j>> \in (IF e = d THEN {<<m, i>>} ELSE {}) <=> e = d /\ o = m /\ j = i
      OBVIOUS
    <3>3. <<o, j>> \in (IF e = a THEN {<<n, i>>} ELSE {}) <=> e = a /\ o = n /\ j = i
      OBVIOUS
    <3> QED
      BY <2>1, <3>1, <3>2, <3>3
  <2> QED
    BY <2>2, <2>3
<1>9. G \subseteq AllLinks
  BY <1>1, LinkType
<1> HIDE DEF G, L
<1>10. LinksMoved(s, t, G, L)
  BY <1>8, <1>9, LinksChange
<1> QED
  BY <1>2, <1>3, <1>4, <1>5, <1>10 DEF LinksMoved, G, L

(***************************************************************************)
(* The steps keep the tree sane.                                           *)
(***************************************************************************)
LEMMA LinksToMore ==
  ASSUME NEW s, NEW t, NEW l, Links(t) = Links(s) \cup {l}
  PROVE  /\ LinksTo(t, l.object) = LinksTo(s, l.object) \cup {l}
         /\ \A i : i # l.object => LinksTo(t, i) = LinksTo(s, i)
  BY DEF LinksTo

LEMMA LinksToLess ==
  ASSUME NEW s, NEW t, NEW l, Links(t) = Links(s) \ {l}
  PROVE  /\ LinksTo(t, l.object) = LinksTo(s, l.object) \ {l}
         /\ \A i : i # l.object => LinksTo(t, i) = LinksTo(s, i)
  BY DEF LinksTo

LEMMA OneMoreLink ==
  ASSUME NEW s, NEW t, NEW l, Links(t) = Links(s) \cup {l}, l \notin Links(s),
         IsFiniteSet(LinksTo(s, l.object))
  PROVE  /\ IsFiniteSet(LinksTo(t, l.object))
         /\ Cardinality(LinksTo(t, l.object)) = Cardinality(LinksTo(s, l.object)) + 1
<1>1. LinksTo(t, l.object) = LinksTo(s, l.object) \cup {l}
  BY LinksToMore
<1>2. l \notin LinksTo(s, l.object)
  BY DEF LinksTo
<1> QED
  BY <1>1, <1>2, FS_AddElement

LEMMA OneLinkLess ==
  ASSUME NEW s, NEW t, NEW l, Links(t) = Links(s) \ {l}, l \in Links(s),
         IsFiniteSet(LinksTo(s, l.object))
  PROVE  /\ IsFiniteSet(LinksTo(t, l.object))
         /\ Cardinality(LinksTo(t, l.object)) = Cardinality(LinksTo(s, l.object)) - 1
<1>1. LinksTo(t, l.object) = LinksTo(s, l.object) \ {l}
  BY LinksToLess
<1>2. l \in LinksTo(s, l.object)
  BY DEF LinksTo
<1> QED
  BY <1>1, <1>2, FS_RemoveElement

LEMMA MakeSane ==
  ASSUME NEW s, NEW t, NEW d, NEW n, NEW i, NEW k, MakeStep(s, t, d, n, i, k), Sane(s)
  PROVE  Sane(t)
<1> DEFINE l == Link(d, n, i)
<1>1. /\ t \in Images /\ FreeBlocks(t) \in Nat /\ TablesSound(t)
      /\ d \in Inums /\ n \in Names /\ i \in Inums /\ k \in {"file", "dir"}
      /\ s.mode[d] = "dir" /\ s.mode[i] = "free"
      /\ \A e \in Inums \ {i} : /\ t.mode[e] = s.mode[e]
                                /\ t.refs[e] = s.refs[e]
                                /\ t.len[e] = s.len[e]
      /\ t.mode[i] = k /\ t.refs[i] = 1
      /\ Bound(t.table[d]) = Bound(s.table[d]) \cup {<<n, i>>}
      /\ \A e \in Inums \ {d, i} : t.table[e] = s.table[e]
      /\ Bound(t.table[i]) \subseteq {<<Dot, i>>, <<DotDot, d>>}
      /\ k = "file" => Bound(t.table[i]) = {}
  BY DEF MakeStep, Roomy
<1>2. /\ Links(t) = Links(s) \cup {l} /\ LinksTo(s, i) = {} /\ d # i
  BY MakeLinks
<1>3. l.dir = d /\ l.name = n /\ l.object = i
  BY LinkFacts
<1>4. /\ l \notin Links(s)
      /\ l \in Links(t)
      /\ LinksTo(t, i) = {l}
      /\ \A j : j # i => LinksTo(t, j) = LinksTo(s, j)
  <2> HIDE DEF l
  <2> QED
    BY <1>2, <1>3, LinksToMore DEF LinksTo
<1> HIDE DEF l
<1>5. i # ROOT_INUM /\ ROOT_INUM \in Inums
  BY <1>1, InumFacts DEF Sane, Rooted
<1>6. n # Dot /\ n # DotDot
  BY <1>1, NamesAssumption
<1>7. Clean(t)
  <2> SUFFICES ASSUME NEW e \in Inums
               PROVE  /\ t.mode[e] # "dir" => Bound(t.table[e]) = {}
                      /\ t.mode[e] = "free" => t.refs[e] = 0 /\ t.len[e] = 0
    BY DEF Clean
  <2>1. CASE e = i
    BY <1>1, <2>1
  <2>2. CASE e # i
    <3>1. /\ s.mode[e] # "dir" => Bound(s.table[e]) = {}
          /\ s.mode[e] = "free" => s.refs[e] = 0 /\ s.len[e] = 0
      BY DEF Sane, Clean
    <3> QED
      BY <1>1, <2>2, <3>1
  <2> QED
    BY <2>1, <2>2
<1>8. Rooted(t)
  <2>1. /\ s.mode[ROOT_INUM] = "dir" /\ LinksTo(s, ROOT_INUM) = {}
        /\ <<DotDot, ROOT_INUM>> \in Bound(s.table[ROOT_INUM])
    BY DEF Sane, Rooted
  <2>2. <<DotDot, ROOT_INUM>> \in Bound(t.table[ROOT_INUM])
    BY <1>1, <1>5, <2>1
  <2> QED
    BY <1>1, <1>4, <1>5, <2>1, <2>2 DEF Rooted
<1>9. NoneDangles(t)
  <2> SUFFICES ASSUME NEW e \in Inums, NEW j \in Inums, NEW m, <<m, j>> \in Bound(t.table[e])
               PROVE  t.mode[j] # "free"
    BY DEF NoneDangles
  <2>1. \A f \in Inums : s.mode[f] # "free" => t.mode[f] # "free"
    BY <1>1
  <2>2. t.mode[i] # "free" /\ t.mode[d] # "free"
    BY <1>1, <1>2
  <2>3. CASE <<m, j>> \in Bound(s.table[e])
    BY <2>1, <2>3 DEF Sane, NoneDangles
  <2>4. CASE <<m, j>> \notin Bound(s.table[e])
    BY <1>1, <2>2, <2>4
  <2> QED
    BY <2>3, <2>4
<1>10. Counted(t)
  <2> SUFFICES ASSUME NEW j \in Inums \ {ROOT_INUM}
               PROVE  /\ IsFiniteSet(LinksTo(t, j))
                      /\ t.mode[j] # "free" => t.refs[j] = Cardinality(LinksTo(t, j)) /\ t.refs[j] >= 1
    BY DEF Counted
  <2>1. CASE j = i
    <3>1. IsFiniteSet({l}) /\ Cardinality({l}) = 1
      BY FS_Singleton
    <3>2. t.refs[j] = 1 /\ LinksTo(t, j) = {l}
      BY <1>1, <1>4, <2>1
    <3> QED
      BY <3>1, <3>2
  <2>2. CASE j # i
    <3>1. /\ IsFiniteSet(LinksTo(s, j))
          /\ s.mode[j] # "free" => s.refs[j] = Cardinality(LinksTo(s, j)) /\ s.refs[j] >= 1
      BY DEF Sane, Counted
    <3> QED
      BY <1>1, <1>4, <2>2, <3>1
  <2> QED
    BY <2>1, <2>2
<1>11. Placed(t)
  <2> SUFFICES ASSUME NEW a \in Links(t), NEW b \in Links(t), a.object = b.object,
                      t.mode[a.object] = "dir"
               PROVE  a = b
    BY DEF Placed
  <2>1. CASE a.object = i
    <3>1. a \in LinksTo(t, i) /\ b \in LinksTo(t, i)
      BY <2>1 DEF LinksTo
    <3> QED
      BY <1>4, <3>1
  <2>2. CASE a.object # i
    <3>1. a \in Links(s) /\ b \in Links(s)
      BY <1>2, <1>3, <2>2
    <3>2. a.object \in Inums
      BY <3>1, LinkFacts
    <3>3. s.mode[a.object] = "dir"
      BY <1>1, <2>2, <3>2
    <3> QED
      BY <3>1, <3>3 DEF Sane, Placed
  <2> QED
    BY <2>1, <2>2
<1>12. DotsRight(t)
  <2> SUFFICES ASSUME NEW e \in Inums, NEW j \in Inums
               PROVE  /\ <<Dot, j>> \in Bound(t.table[e]) => j = e
                      /\ <<DotDot, j>> \in Bound(t.table[e]) =>
                           (e = ROOT_INUM /\ j = ROOT_INUM) \/ \E m \in Names : Link(j, m, e) \in Links(t)
    BY DEF DotsRight
  <2>0. l = Link(d, n, i)
    BY DEF l
  <2>1. CASE e = i
    <3>0. Dot # DotDot
      BY DEF Dot, DotDot
    <3>1. <<Dot, j>> \in Bound(t.table[i]) => j = i
      BY <1>1, <3>0
    <3>2. <<DotDot, j>> \in Bound(t.table[i]) => j = d
      BY <1>1, <3>0
    <3> QED
      BY <1>1, <1>4, <2>0, <2>1, <3>1, <3>2
  <2>2. CASE e # i
    <3>1. /\ <<Dot, j>> \in Bound(t.table[e]) => <<Dot, j>> \in Bound(s.table[e])
          /\ <<DotDot, j>> \in Bound(t.table[e]) => <<DotDot, j>> \in Bound(s.table[e])
      BY <1>1, <1>6, <2>2
    <3>2. /\ <<Dot, j>> \in Bound(s.table[e]) => j = e
          /\ <<DotDot, j>> \in Bound(s.table[e]) =>
               (e = ROOT_INUM /\ j = ROOT_INUM) \/ \E m \in Names : Link(j, m, e) \in Links(s)
      BY DEF Sane, DotsRight
    <3> QED
      BY <1>2, <3>1, <3>2
  <2> QED
    BY <2>1, <2>2
<1>13. Reached(t)
  <2> SUFFICES ASSUME NEW S \in SUBSET Inums, ROOT_INUM \in S, Closed(t, S)
               PROVE  Allocated(t) \subseteq S
    BY DEF Reached
  <2>1. Closed(s, S)
    BY <1>2 DEF Closed
  <2>2. Allocated(s) \subseteq S
    BY <2>1 DEF Sane, Reached
  <2>3. d \in S
    BY <1>1, <2>2 DEF Allocated
  <2>4. i \in S
    BY <1>3, <1>4, <2>3 DEF Closed
  <2>5. Allocated(t) \subseteq Allocated(s) \cup {i}
    BY <1>1 DEF Allocated
  <2> QED
    BY <2>2, <2>4, <2>5
<1> QED
  BY <1>1, <1>7, <1>8, <1>9, <1>10, <1>11, <1>12, <1>13 DEF Sane

LEMMA LinkSane ==
  ASSUME NEW s, NEW t, NEW d, NEW n, NEW i, LinkStep(s, t, d, n, i), Sane(s)
  PROVE  Sane(t)
<1> DEFINE l == Link(d, n, i)
<1>1. /\ t \in Images /\ FreeBlocks(t) \in Nat /\ TablesSound(t)
      /\ d \in Inums /\ n \in Names /\ i \in Inums
      /\ s.mode[d] = "dir" /\ s.mode[i] = "file"
      /\ Unbound(s, d, n)
      /\ t.mode = s.mode /\ t.len = s.len
      /\ \A e \in Inums \ {i} : t.refs[e] = s.refs[e]
      /\ t.refs[i] = s.refs[i] + 1
      /\ Bound(t.table[d]) = Bound(s.table[d]) \cup {<<n, i>>}
      /\ \A e \in Inums \ {d} : t.table[e] = s.table[e]
  BY DEF LinkStep, Roomy
<1>2. Links(t) = Links(s) \cup {l}
  BY LinkLinks
<1>3. l.dir = d /\ l.name = n /\ l.object = i
  BY LinkFacts
<1>4. l \notin Links(s)
  BY <1>1, LinkFacts DEF Unbound
<1> HIDE DEF l
<1>5. \A j : j # i => LinksTo(t, j) = LinksTo(s, j)
  BY <1>2, <1>3, LinksToMore
<1>6. i # ROOT_INUM /\ ROOT_INUM \in Inums
  BY <1>1, InumFacts DEF Sane, Rooted
<1>7. n # Dot /\ n # DotDot
  BY <1>1, NamesAssumption
<1>8. Clean(t)
  <2> SUFFICES ASSUME NEW e \in Inums
               PROVE  /\ t.mode[e] # "dir" => Bound(t.table[e]) = {}
                      /\ t.mode[e] = "free" => t.refs[e] = 0 /\ t.len[e] = 0
    BY DEF Clean
  <2>1. /\ s.mode[e] # "dir" => Bound(s.table[e]) = {}
        /\ s.mode[e] = "free" => s.refs[e] = 0 /\ s.len[e] = 0
    BY DEF Sane, Clean
  <2> QED
    BY <1>1, <2>1
<1>9. Rooted(t)
  <2>1. /\ s.mode[ROOT_INUM] = "dir" /\ LinksTo(s, ROOT_INUM) = {}
        /\ <<DotDot, ROOT_INUM>> \in Bound(s.table[ROOT_INUM])
    BY DEF Sane, Rooted
  <2>2. <<DotDot, ROOT_INUM>> \in Bound(t.table[ROOT_INUM])
    BY <1>1, <1>6, <2>1
  <2> QED
    BY <1>1, <1>5, <1>6, <2>1, <2>2 DEF Rooted
<1>10. NoneDangles(t)
  <2> SUFFICES ASSUME NEW e \in Inums, NEW j \in Inums, NEW m, <<m, j>> \in Bound(t.table[e])
               PROVE  t.mode[j] # "free"
    BY DEF NoneDangles
  <2>1. CASE <<m, j>> \in Bound(s.table[e])
    BY <1>1, <2>1 DEF Sane, NoneDangles
  <2>2. CASE <<m, j>> \notin Bound(s.table[e])
    BY <1>1, <2>2
  <2> QED
    BY <2>1, <2>2
<1>11. Counted(t)
  <2> SUFFICES ASSUME NEW j \in Inums \ {ROOT_INUM}
               PROVE  /\ IsFiniteSet(LinksTo(t, j))
                      /\ t.mode[j] # "free" => t.refs[j] = Cardinality(LinksTo(t, j)) /\ t.refs[j] >= 1
    BY DEF Counted
  <2>1. /\ IsFiniteSet(LinksTo(s, j))
        /\ s.mode[j] # "free" => s.refs[j] = Cardinality(LinksTo(s, j)) /\ s.refs[j] >= 1
    BY DEF Sane, Counted
  <2>2. CASE j = i
    <3>1. /\ IsFiniteSet(LinksTo(t, i))
          /\ Cardinality(LinksTo(t, i)) = Cardinality(LinksTo(s, i)) + 1
      BY <1>2, <1>3, <1>4, <2>1, <2>2, OneMoreLink
    <3>2. s.refs[i] \in Nat
      BY <1>1, ImageFacts DEF Sane
    <3> QED
      BY <1>1, <2>1, <2>2, <3>1, <3>2
  <2>3. CASE j # i
    BY <1>1, <1>5, <2>1, <2>3
  <2> QED
    BY <2>2, <2>3
<1>12. Placed(t)
  <2> SUFFICES ASSUME NEW a \in Links(t), NEW b \in Links(t), a.object = b.object,
                      t.mode[a.object] = "dir"
               PROVE  a = b
    BY DEF Placed
  <2>1. a \in Links(s) /\ b \in Links(s)
    BY <1>1, <1>2, <1>3
  <2> QED
    BY <1>1, <2>1 DEF Sane, Placed
<1>13. DotsRight(t)
  <2> SUFFICES ASSUME NEW e \in Inums, NEW j \in Inums
               PROVE  /\ <<Dot, j>> \in Bound(t.table[e]) => j = e
                      /\ <<DotDot, j>> \in Bound(t.table[e]) =>
                           (e = ROOT_INUM /\ j = ROOT_INUM) \/ \E m \in Names : Link(j, m, e) \in Links(t)
    BY DEF DotsRight
  <2>1. /\ <<Dot, j>> \in Bound(t.table[e]) => <<Dot, j>> \in Bound(s.table[e])
        /\ <<DotDot, j>> \in Bound(t.table[e]) => <<DotDot, j>> \in Bound(s.table[e])
    BY <1>1, <1>7
  <2>2. /\ <<Dot, j>> \in Bound(s.table[e]) => j = e
        /\ <<DotDot, j>> \in Bound(s.table[e]) =>
             (e = ROOT_INUM /\ j = ROOT_INUM) \/ \E m \in Names : Link(j, m, e) \in Links(s)
    BY DEF Sane, DotsRight
  <2> QED
    BY <1>2, <2>1, <2>2
<1>14. Reached(t)
  <2> SUFFICES ASSUME NEW S \in SUBSET Inums, ROOT_INUM \in S, Closed(t, S)
               PROVE  Allocated(t) \subseteq S
    BY DEF Reached
  <2>1. Closed(s, S)
    BY <1>2 DEF Closed
  <2>2. Allocated(t) = Allocated(s)
    BY <1>1 DEF Allocated
  <2> QED
    BY <2>1, <2>2 DEF Sane, Reached
<1> QED
  BY <1>1, <1>8, <1>9, <1>10, <1>11, <1>12, <1>13, <1>14 DEF Sane

LEMMA UnlinkSane ==
  ASSUME NEW s, NEW t, NEW d, NEW n, NEW i, UnlinkStep(s, t, d, n, i), Sane(s)
  PROVE  Sane(t)
<1> DEFINE l == Link(d, n, i)
<1>1. /\ t \in Images /\ FreeBlocks(t) \in Nat /\ TablesSound(t)
      /\ d \in Inums /\ n \in Names /\ i \in Inums
      /\ \A e \in Inums \ {i} : /\ t.mode[e] = s.mode[e]
                                /\ t.refs[e] = s.refs[e]
                                /\ t.len[e] = s.len[e]
      /\ Bound(t.table[d]) = Bound(s.table[d]) \ {<<n, i>>}
      /\ \A e \in Inums \ {d, i} : t.table[e] = s.table[e]
  BY DEF UnlinkStep, Roomy
<1>2. /\ Links(t) = Links(s) \ {l} /\ l \in Links(s)
      /\ d # i /\ s.mode[d] = "dir" /\ s.mode[i] # "free" /\ i # ROOT_INUM
      /\ \A m \in Links(s) : m.dir # i
  BY UnlinkLinks
<1>3. l.dir = d /\ l.name = n /\ l.object = i
  BY LinkFacts
<1> HIDE DEF l
<1>4. \A j : j # i => LinksTo(t, j) = LinksTo(s, j)
  BY <1>2, <1>3, LinksToLess
<1>5. n # Dot /\ n # DotDot /\ ROOT_INUM \in Inums
  BY <1>1, NamesAssumption, InumFacts
<1>6. /\ s.refs[i] \in Nat /\ s.refs[i] >= 1 /\ IsFiniteSet(LinksTo(s, i))
      /\ s.refs[i] = Cardinality(LinksTo(s, i))
      /\ IsFiniteSet(LinksTo(t, i)) /\ Cardinality(LinksTo(t, i)) = Cardinality(LinksTo(s, i)) - 1
  <2>1. /\ s.refs[i] >= 1 /\ IsFiniteSet(LinksTo(s, i)) /\ s.refs[i] = Cardinality(LinksTo(s, i))
    BY <1>1, <1>2 DEF Sane, Counted
  <2>2. s.refs[i] \in Nat
    BY <1>1, ImageFacts DEF Sane
  <2>3. /\ IsFiniteSet(LinksTo(t, i)) /\ Cardinality(LinksTo(t, i)) = Cardinality(LinksTo(s, i)) - 1
    BY <1>2, <1>3, <2>1, OneLinkLess
  <2> QED
    BY <2>1, <2>2, <2>3
(* A directory has one link, and this was it.                              *)
<1>7. \/ /\ s.refs[i] > 1 /\ t.refs[i] = s.refs[i] - 1 /\ t.mode[i] = s.mode[i]
         /\ s.mode[i] = "file" /\ t.table[i] = s.table[i]
      \/ /\ s.refs[i] = 1 /\ t.refs[i] = 0 /\ t.mode[i] = "free" /\ t.table[i] = <<>> /\ t.len[i] = 0
  <2>1. CASE s.mode[i] = "dir"
    <3>1. LinksTo(s, i) = {l}
      <4>1. l \in LinksTo(s, i)
        BY <1>2, <1>3 DEF LinksTo
      <4>2. \A a, b \in LinksTo(s, i) : a = b
        BY <2>1 DEF Sane, Placed, LinksTo
      <4> QED
        BY <4>1, <4>2
    <3>2. Cardinality({l}) = 1
      BY FS_Singleton
    <3>3. s.refs[i] = 1
      BY <1>6, <3>1, <3>2
    <3>4. ~(s.refs[i] > 1)
      BY <3>3
    <3> QED
      BY <3>3, <3>4 DEF UnlinkStep
  <2>2. CASE s.mode[i] # "dir"
    <3>1. s.mode[i] = "file"
      BY <1>1, <1>2, <2>2, ImageFacts DEF Sane
    <3>2. s.refs[i] > 1 \/ s.refs[i] = 1
      BY <1>6
    <3>3. CASE s.refs[i] > 1
      BY <3>1, <3>3 DEF UnlinkStep
    <3>4. CASE s.refs[i] = 1
      <4>1. ~(s.refs[i] > 1)
        BY <3>4
      <4> QED
        BY <3>4, <4>1 DEF UnlinkStep
    <3> QED
      BY <3>2, <3>3, <3>4
  <2> QED
    BY <2>1, <2>2
<1>8. Bound(<<>>) = {}
  BY DEF Bound, Live
(* Nothing is added, and what i loses is all it has.                       *)
<1>9. \A e \in Inums : Bound(t.table[e]) \subseteq Bound(s.table[e])
  BY <1>1, <1>7, <1>8
<1>10. Clean(t)
  <2> SUFFICES ASSUME NEW e \in Inums
               PROVE  /\ t.mode[e] # "dir" => Bound(t.table[e]) = {}
                      /\ t.mode[e] = "free" => t.refs[e] = 0 /\ t.len[e] = 0
    BY DEF Clean
  <2>1. /\ s.mode[e] # "dir" => Bound(s.table[e]) = {}
        /\ s.mode[e] = "free" => s.refs[e] = 0 /\ s.len[e] = 0
    BY DEF Sane, Clean
  <2>2. CASE e = i
    BY <1>2, <1>7, <1>8, <2>1, <2>2
  <2>3. CASE e # i
    BY <1>1, <1>9, <2>1, <2>3
  <2> QED
    BY <2>2, <2>3
<1>11. Rooted(t)
  <2>1. /\ s.mode[ROOT_INUM] = "dir" /\ LinksTo(s, ROOT_INUM) = {}
        /\ <<DotDot, ROOT_INUM>> \in Bound(s.table[ROOT_INUM])
    BY DEF Sane, Rooted
  <2>2. <<DotDot, ROOT_INUM>> \in Bound(t.table[ROOT_INUM])
    BY <1>1, <1>2, <1>5, <2>1
  <2> QED
    BY <1>1, <1>2, <1>4, <1>5, <2>1, <2>2 DEF Rooted
(* No ".." stands for i: that would be the ".." of a child of i.           *)
<1>12. \A e \in Inums, j \in Inums : \A m : <<m, j>> \in Bound(t.table[e]) /\ j = i /\ t.mode[i] = "free" => FALSE
  <2> SUFFICES ASSUME NEW e \in Inums, NEW m, <<m, i>> \in Bound(t.table[e]), t.mode[i] = "free"
               PROVE  FALSE
    OBVIOUS
  <2>1. LinksTo(t, i) = {}
    <3>1. Cardinality(LinksTo(t, i)) = 0
      BY <1>2, <1>6, <1>7
    <3> QED
      BY <1>6, <3>1, FS_EmptySet
  <2>2. <<m, i>> \in Bound(s.table[e]) /\ e # i
    BY <1>7, <1>8, <1>9
  <2>3. m \in EntryNames
    <3>1. s.table[e] \in Tables
      BY ImageFacts DEF Sane
    <3> QED
      BY <2>2, <3>1, BoundFacts
  <2>4. CASE m \in Names
    <3>1. Link(e, m, i) \in Links(t) /\ Link(e, m, i).object = i
      BY <1>1, <2>4, LinkFacts
    <3> QED
      BY <2>1, <3>1 DEF LinksTo
  <2>5. CASE m = Dot
    BY <1>1, <2>2, <2>5 DEF Sane, DotsRight
  <2>6. CASE m = DotDot
    <3>1. PICK o \in Names : Link(i, o, e) \in Links(s)
      BY <1>1, <1>2, <2>2, <2>6 DEF Sane, DotsRight
    <3>2. Link(i, o, e).dir = i
      BY LinkFacts
    <3> QED
      BY <1>2, <3>1, <3>2
  <2> QED
    BY <2>3, <2>4, <2>5, <2>6 DEF EntryNames
<1>13. NoneDangles(t)
  <2> SUFFICES ASSUME NEW e \in Inums, NEW j \in Inums, NEW m, <<m, j>> \in Bound(t.table[e])
               PROVE  t.mode[j] # "free"
    BY DEF NoneDangles
  <2>1. CASE j = i
    BY <1>12, <2>1
  <2>2. CASE j # i
    <3>1. <<m, j>> \in Bound(s.table[e])
      BY <1>9
    <3>2. s.mode[j] # "free"
      BY <3>1 DEF Sane, NoneDangles
    <3> QED
      BY <1>1, <2>2, <3>2
  <2> QED
    BY <2>1, <2>2
<1>14. Counted(t)
  <2> SUFFICES ASSUME NEW j \in Inums \ {ROOT_INUM}
               PROVE  /\ IsFiniteSet(LinksTo(t, j))
                      /\ t.mode[j] # "free" => t.refs[j] = Cardinality(LinksTo(t, j)) /\ t.refs[j] >= 1
    BY DEF Counted
  <2>1. CASE j = i
    BY <1>6, <1>7, <2>1
  <2>2. CASE j # i
    <3>1. /\ IsFiniteSet(LinksTo(s, j))
          /\ s.mode[j] # "free" => s.refs[j] = Cardinality(LinksTo(s, j)) /\ s.refs[j] >= 1
      BY DEF Sane, Counted
    <3> QED
      BY <1>1, <1>4, <2>2, <3>1
  <2> QED
    BY <2>1, <2>2
<1>15. Placed(t)
  <2> SUFFICES ASSUME NEW a \in Links(t), NEW b \in Links(t), a.object = b.object,
                      t.mode[a.object] = "dir"
               PROVE  a = b
    BY DEF Placed
  <2>1. a \in Links(s) /\ b \in Links(s)
    BY <1>2
  <2>2. a.object \in Inums
    BY <2>1, LinkFacts
  <2>3. s.mode[a.object] = "dir"
    BY <1>1, <1>7, <2>2
  <2> QED
    BY <2>1, <2>3 DEF Sane, Placed
<1>16. DotsRight(t)
  <2> SUFFICES ASSUME NEW e \in Inums, NEW j \in Inums
               PROVE  /\ <<Dot, j>> \in Bound(t.table[e]) => j = e
                      /\ <<DotDot, j>> \in Bound(t.table[e]) =>
                           (e = ROOT_INUM /\ j = ROOT_INUM) \/ \E m \in Names : Link(j, m, e) \in Links(t)
    BY DEF DotsRight
  <2>1. /\ <<Dot, j>> \in Bound(s.table[e]) => j = e
        /\ <<DotDot, j>> \in Bound(s.table[e]) =>
             (e = ROOT_INUM /\ j = ROOT_INUM) \/ \E m \in Names : Link(j, m, e) \in Links(s)
    BY DEF Sane, DotsRight
  <2>2. ASSUME <<DotDot, j>> \in Bound(t.table[e]), NEW m \in Names, Link(j, m, e) \in Links(s)
        PROVE  Link(j, m, e) \in Links(t)
    <3>1. e # i
      <4> SUFFICES ASSUME e = i PROVE FALSE
        OBVIOUS
      <4>1. s.mode[i] = "file"
        BY <1>7, <1>8, <2>2
      <4>2. Bound(s.table[i]) = {}
        BY <1>1, <4>1 DEF Sane, Clean
      <4> QED
        BY <1>9, <2>2, <4>2
    <3>2. Link(j, m, e).object = e
      BY LinkFacts
    <3> QED
      BY <1>2, <1>3, <2>2, <3>1, <3>2
  <2> QED
    BY <1>9, <2>1, <2>2
<1>17. Reached(t)
  <2> SUFFICES ASSUME NEW S \in SUBSET Inums, ROOT_INUM \in S, Closed(t, S)
               PROVE  Allocated(t) \subseteq S
    BY DEF Reached
  <2> DEFINE U == S \cup {i}
  <2>1. Closed(s, U)
    <3> SUFFICES ASSUME NEW m \in Links(s), m.dir \in U PROVE m.object \in U
      BY DEF Closed
    <3>1. m.dir \in S
      BY <1>2
    <3>2. m \in Links(t) \/ m.object = i
      BY <1>2, <1>3
    <3> QED
      BY <3>1, <3>2 DEF Closed
  <2>2. U \in SUBSET Inums /\ ROOT_INUM \in U
    BY <1>1
  <2>3. Allocated(s) \subseteq U
    <3> HIDE DEF U
    <3> QED
      BY <2>1, <2>2 DEF Sane, Reached
  <2>4. Allocated(t) \subseteq Allocated(s)
    BY <1>1, <1>2 DEF Allocated
  <2>5. i \in Allocated(t) => i \in S
    <3> SUFFICES ASSUME i \in Allocated(t) PROVE i \in S
      OBVIOUS
    <3>1. Cardinality(LinksTo(t, i)) >= 1
      BY <1>6, <1>7 DEF Allocated
    <3>2. LinksTo(t, i) # {}
      <4>1. Cardinality({}) = 0
        BY FS_EmptySet
      <4> QED
        BY <3>1, <4>1
    <3>3. PICK m \in Links(t) : m.object = i
      BY <3>2 DEF LinksTo
    <3>4. m \in Links(s)
      BY <1>2, <3>3
    <3>5. m.dir \in Inums /\ s.mode[m.dir] = "dir" /\ m.dir # i
      BY <1>2, <3>4, LinkDirs DEF IsDir
    <3>6. m.dir \in Allocated(s)
      BY <3>5 DEF Allocated
    <3>7. m.dir \in S
      BY <2>3, <3>5, <3>6
    <3> QED
      BY <3>3, <3>7 DEF Closed
  <2> QED
    BY <2>3, <2>4, <2>5
<1> QED
  BY <1>1, <1>10, <1>11, <1>13, <1>14, <1>15, <1>16, <1>17 DEF Sane

LEMMA MoveSane ==
  ASSUME NEW s, NEW t, NEW a, NEW n, NEW d, NEW m, NEW i, MoveStep(s, t, a, n, d, m, i), Sane(s)
  PROVE  Sane(t)
<1> DEFINE k == Link(a, n, i)
           l == Link(d, m, i)
<1>1. /\ t \in Images /\ FreeBlocks(t) \in Nat /\ TablesSound(t)
      /\ a \in Inums /\ n \in Names /\ d \in Inums /\ m \in Names /\ i \in Inums
      /\ a # i /\ d # i
      /\ s.mode[d] = "dir"
      /\ t.mode = s.mode /\ t.refs = s.refs /\ t.len = s.len
      /\ Bound(t.table[i]) = IF s.mode[i] = "dir" THEN WithoutBack(Bound(s.table[i])) ELSE Bound(s.table[i])
      /\ \A e \in Inums \ {i} :
           Bound(t.table[e]) = (Bound(s.table[e]) \cup (IF e = d THEN {<<m, i>>} ELSE {}))
                                 \ (IF e = a THEN {<<n, i>>} ELSE {})
  BY DEF MoveStep, Roomy
<1>2. /\ Links(t) = (Links(s) \ {k}) \cup {l}
      /\ k \in Links(s) /\ l \notin Links(s) /\ k # l
      /\ s.mode[i] # "free" /\ i # ROOT_INUM
  BY MoveLinks
<1>3. /\ k.dir = a /\ k.name = n /\ k.object = i
      /\ l.dir = d /\ l.name = m /\ l.object = i
  BY LinkFacts
<1> HIDE DEF k, l
<1>4. /\ n # Dot /\ n # DotDot /\ m # Dot /\ m # DotDot /\ ROOT_INUM \in Inums
  BY <1>1, NamesAssumption, InumFacts
<1>5. /\ LinksTo(t, i) = (LinksTo(s, i) \ {k}) \cup {l}
      /\ \A j : j # i => LinksTo(t, j) = LinksTo(s, j)
      /\ k \in LinksTo(s, i) /\ l \notin LinksTo(s, i)
  BY <1>2, <1>3 DEF LinksTo
<1>6. \A e \in Inums \ {i} : Bound(t.table[e]) \subseteq Bound(s.table[e]) \cup (IF e = d THEN {<<m, i>>} ELSE {})
  BY <1>1
<1>7. \A x : x \in Bound(t.table[i]) =>
          x \in Bound(s.table[i]) /\ (s.mode[i] = "dir" => x[1] # DotDot)
  BY <1>1 DEF WithoutBack
<1>8. Clean(t)
  <2> SUFFICES ASSUME NEW e \in Inums
               PROVE  /\ t.mode[e] # "dir" => Bound(t.table[e]) = {}
                      /\ t.mode[e] = "free" => t.refs[e] = 0 /\ t.len[e] = 0
    BY DEF Clean
  <2>1. /\ s.mode[e] # "dir" => Bound(s.table[e]) = {}
        /\ s.mode[e] = "free" => s.refs[e] = 0 /\ s.len[e] = 0
    BY DEF Sane, Clean
  <2>2. CASE e = i
    BY <1>1, <2>1, <2>2
  <2>3. CASE e # i
    <3>1. s.mode[e] # "dir" => Bound(t.table[e]) = {}
      BY <1>1, <1>6, <2>1, <2>3
    <3> QED
      BY <1>1, <2>1, <3>1
  <2> QED
    BY <2>2, <2>3
<1>9. Rooted(t)
  <2>1. /\ s.mode[ROOT_INUM] = "dir" /\ LinksTo(s, ROOT_INUM) = {}
        /\ <<DotDot, ROOT_INUM>> \in Bound(s.table[ROOT_INUM])
    BY DEF Sane, Rooted
  <2>2. <<DotDot, ROOT_INUM>> \in Bound(t.table[ROOT_INUM])
    <3>1. Bound(t.table[ROOT_INUM]) = (Bound(s.table[ROOT_INUM]) \cup (IF ROOT_INUM = d THEN {<<m, i>>} ELSE {}))
                                        \ (IF ROOT_INUM = a THEN {<<n, i>>} ELSE {})
      BY <1>1, <1>2, <1>4
    <3>2. <<DotDot, ROOT_INUM>> # <<n, i>>
      BY <1>4
    <3> QED
      BY <2>1, <3>1, <3>2
  <2> QED
    BY <1>1, <1>2, <1>5, <2>1, <2>2 DEF Rooted
<1>10. NoneDangles(t)
  <2> SUFFICES ASSUME NEW e \in Inums, NEW j \in Inums, NEW o, <<o, j>> \in Bound(t.table[e])
               PROVE  t.mode[j] # "free"
    BY DEF NoneDangles
  <2>1. CASE <<o, j>> \in Bound(s.table[e])
    BY <1>1, <2>1 DEF Sane, NoneDangles
  <2>2. CASE <<o, j>> \notin Bound(s.table[e])
    <3>1. j = i
      BY <1>6, <1>7, <2>2
    <3> QED
      BY <1>1, <1>2, <3>1
  <2> QED
    BY <2>1, <2>2
<1>11. Counted(t)
  <2> SUFFICES ASSUME NEW j \in Inums \ {ROOT_INUM}
               PROVE  /\ IsFiniteSet(LinksTo(t, j))
                      /\ t.mode[j] # "free" => t.refs[j] = Cardinality(LinksTo(t, j)) /\ t.refs[j] >= 1
    BY DEF Counted
  <2>1. /\ IsFiniteSet(LinksTo(s, j))
        /\ s.mode[j] # "free" => s.refs[j] = Cardinality(LinksTo(s, j)) /\ s.refs[j] >= 1
    BY DEF Sane, Counted
  <2>2. CASE j = i
    <3> DEFINE R == LinksTo(s, i) \ {k}
    <3>1. IsFiniteSet(R) /\ Cardinality(R) = Cardinality(LinksTo(s, i)) - 1
      BY <1>5, <2>1, <2>2, FS_RemoveElement
    <3>2. l \notin R /\ LinksTo(t, i) = R \cup {l}
      BY <1>5
    <3> HIDE DEF R
    <3>3. IsFiniteSet(R \cup {l}) /\ Cardinality(R \cup {l}) = Cardinality(R) + 1
      BY <3>1, <3>2, FS_AddElement
    <3>4. Cardinality(LinksTo(s, i)) \in Nat
      BY <2>1, <2>2, FS_CardinalityType
    <3>5. IsFiniteSet(LinksTo(t, i)) /\ Cardinality(LinksTo(t, i)) = Cardinality(LinksTo(s, i))
      BY <3>1, <3>2, <3>3, <3>4
    <3> QED
      BY <1>1, <2>1, <2>2, <3>5
  <2>3. CASE j # i
    BY <1>1, <1>5, <2>1, <2>3
  <2> QED
    BY <2>2, <2>3
<1>12. Placed(t)
  <2> SUFFICES ASSUME NEW b \in Links(t), NEW c \in Links(t), b.object = c.object,
                      t.mode[b.object] = "dir"
               PROVE  b = c
    BY DEF Placed
  <2>1. \A x \in Links(s) : x.object = i /\ s.mode[i] = "dir" => x = k
    BY <1>2, <1>3 DEF Sane, Placed
  <2>2. CASE b.object = i
    <3>1. b = l /\ c = l
      BY <1>1, <1>2, <2>1, <2>2
    <3> QED
      BY <3>1
  <2>3. CASE b.object # i
    <3>1. b \in Links(s) /\ c \in Links(s)
      BY <1>2, <1>3, <2>3
    <3> QED
      BY <1>1, <3>1 DEF Sane, Placed
  <2> QED
    BY <2>2, <2>3
<1>13. DotsRight(t)
  <2> SUFFICES ASSUME NEW e \in Inums, NEW j \in Inums
               PROVE  /\ <<Dot, j>> \in Bound(t.table[e]) => j = e
                      /\ <<DotDot, j>> \in Bound(t.table[e]) =>
                           (e = ROOT_INUM /\ j = ROOT_INUM) \/ \E o \in Names : Link(j, o, e) \in Links(t)
    BY DEF DotsRight
  <2>1. /\ <<Dot, j>> \in Bound(s.table[e]) => j = e
        /\ <<DotDot, j>> \in Bound(s.table[e]) =>
             (e = ROOT_INUM /\ j = ROOT_INUM) \/ \E o \in Names : Link(j, o, e) \in Links(s)
    BY DEF Sane, DotsRight
  <2>2. CASE e = i
    <3>1. <<DotDot, j>> \notin Bound(t.table[i])
      <4> SUFFICES ASSUME <<DotDot, j>> \in Bound(t.table[i]) PROVE FALSE
        OBVIOUS
      <4>1. <<DotDot, j>>[1] = DotDot
        OBVIOUS
      <4>2. s.mode[i] # "dir" /\ <<DotDot, j>> \in Bound(s.table[i])
        BY <1>7, <4>1
      <4>3. Bound(s.table[i]) = {}
        BY <1>1, <4>2 DEF Sane, Clean
      <4> QED
        BY <4>2, <4>3
    <3>2. <<Dot, j>> \in Bound(t.table[i]) => j = i
      BY <1>7, <2>1, <2>2
    <3> QED
      BY <2>2, <3>1, <3>2
  <2>3. CASE e # i
    <3>1. /\ <<Dot, j>> \in Bound(t.table[e]) => <<Dot, j>> \in Bound(s.table[e])
          /\ <<DotDot, j>> \in Bound(t.table[e]) => <<DotDot, j>> \in Bound(s.table[e])
      BY <1>4, <1>6, <2>3
    <3>2. ASSUME NEW o \in Names, Link(j, o, e) \in Links(s) PROVE Link(j, o, e) \in Links(t)
      <4>1. Link(j, o, e).object = e
        BY LinkFacts
      <4> QED
        BY <1>2, <1>3, <2>3, <3>2, <4>1
    <3> QED
      BY <2>1, <3>1, <3>2
  <2> QED
    BY <2>2, <2>3
(* The way to d does not lead through i, so it is there after the move.    *)
<1>14. Reached(t)
  <2> SUFFICES ASSUME NEW S \in SUBSET Inums, ROOT_INUM \in S, Closed(t, S)
               PROVE  Allocated(t) \subseteq S
    BY DEF Reached
  <2>1. \A x \in Links(s) : x.dir \in S /\ x.object # i => x.object \in S
    BY <1>2, <1>3 DEF Closed
  <2>2. PICK p \in Seq(Names) :
          /\ Resolve(s, p) = d
          /\ \A q \in Seq(Names) : IsPrefix(q, p) /\ s.mode[i] = "dir" => Resolve(s, q) # i
    BY DEF MoveStep
  <2>3. IsDir(s, Resolve(s, p))
    BY <1>1, <2>2 DEF IsDir
  <2>4. d \in S
    BY <1>1, <2>1, <2>2, <2>3, WayRound
  <2>5. i \in S
    BY <1>2, <1>3, <2>4 DEF Closed
  <2>6. Closed(s, S)
    BY <2>1, <2>5 DEF Closed
  <2>7. Allocated(s) \subseteq S
    BY <2>6 DEF Sane, Reached
  <2> QED
    BY <1>1, <2>7 DEF Allocated
<1> QED
  BY <1>1, <1>8, <1>9, <1>10, <1>11, <1>12, <1>13, <1>14 DEF Sane

(* A file that grows or shrinks has the tables and links it had.           *)
LEMMA LenSane ==
  ASSUME NEW s, NEW t, Sane(s), Roomy(t),
         t.mode = s.mode, t.refs = s.refs, t.table = s.table,
         \A i \in Inums : s.mode[i] = "free" => t.len[i] = s.len[i]
  PROVE  Sane(t) /\ Links(t) = Links(s)
<1>1. Links(t) = Links(s) /\ \A i : LinksTo(t, i) = LinksTo(s, i)
  BY DEF Links, LinksTo
<1>2. TablesSound(t) /\ Rooted(t) /\ NoneDangles(t)
  BY <1>1 DEF Sane, TablesSound, Rooted, NoneDangles
<1>3. Clean(t)
  BY DEF Sane, Clean
<1>4. Counted(t) /\ Placed(t) /\ DotsRight(t)
  BY <1>1 DEF Sane, Counted, Placed, DotsRight
<1>5. Reached(t)
  BY <1>1 DEF Sane, Reached, Closed, Allocated
<1> QED
  BY <1>1, <1>2, <1>3, <1>4, <1>5 DEF Sane, Roomy

(***************************************************************************)
(* The updates of an inode leave the disk the room it had.                 *)
(***************************************************************************)
LEMMA AddRefRoomy ==
  ASSUME NEW s, Roomy(s), NEW i \in Inums, NEW n \in Int, s.refs[i] + n \in Nat
  PROVE  Roomy(AddRef(s, i, n))
<1> DEFINE t == AddRef(s, i, n)
<1>1. s \in Images /\ FreeBlocks(s) \in Nat
  BY DEF Roomy
<1>2. t \in Images /\ t.table = s.table /\ t.len = s.len
  BY <1>1, AddRefFacts
<1> HIDE DEF t
<1>3. \A j \in Inums : BlocksOf(t, j) = BlocksOf(s, j)
  BY <1>2 DEF BlocksOf
<1>4. BlocksInUse(t) = BlocksInUse(s)
  BY <1>3 DEF BlocksInUse
<1>5. Roomy(t)
  BY <1>1, <1>2, <1>4 DEF Roomy, FreeBlocks
<1> QED
  BY <1>5 DEF t

(* Functions of the inodes that agree on every inode are the same.         *)
LEMMA SameFields ==
  ASSUME NEW s \in Images, NEW t \in Images
  PROVE  /\ (\A i \in Inums : t.mode[i] = s.mode[i]) => t.mode = s.mode
         /\ (\A i \in Inums : t.refs[i] = s.refs[i]) => t.refs = s.refs
         /\ (\A i \in Inums : t.len[i] = s.len[i]) => t.len = s.len
<1>1. /\ s.mode \in [Inums -> {"free", "file", "dir"}] /\ t.mode \in [Inums -> {"free", "file", "dir"}]
      /\ s.refs \in [Inums -> Nat] /\ t.refs \in [Inums -> Nat]
      /\ s.len \in [Inums -> Nat] /\ t.len \in [Inums -> Nat]
  BY DEF Images
<1> QED
  BY <1>1

LEMMA EmptiedRoomy ==
  ASSUME NEW s, Roomy(s), NEW t \in Images, NEW i \in Inums,
         \A j \in Inums \ {i} : t.table[j] = s.table[j] /\ t.len[j] = s.len[j],
         t.table[i] = <<>>, t.len[i] = 0
  PROVE  Roomy(t)
<1>1. s \in Images /\ FreeBlocks(s) \in Nat
  BY DEF Roomy
<1>2. \A j \in Inums : /\ BlocksOf(s, j) \in Nat
                       /\ BlocksOf(s, j) = s.len[j] + BlocksFor(Len(s.table[j]))
                       /\ BlocksOf(t, j) = t.len[j] + BlocksFor(Len(t.table[j]))
  BY <1>1, BlocksOfFacts
<1>3. BlocksOf(t, i) = 0
  <2>1. Len(t.table[i]) = 0 /\ t.len[i] = 0
    OBVIOUS
  <2>2. BlocksFor(0) = 0
    BY BlocksForFacts
  <2> QED
    BY <1>2, <2>1, <2>2
<1>4. \A j \in Inums : BlocksOf(t, j) <= BlocksOf(s, j)
  BY <1>2, <1>3
<1>5. FreeBlocks(t) >= FreeBlocks(s) /\ FreeBlocks(t) \in Int
  BY <1>1, <1>4, BlocksGivenBack, FreeBlocksFacts
<1> QED
  BY <1>1, <1>5 DEF Roomy

(* A table that binds nothing and has no hole at the end is empty.         *)
LEMMA EmptyTable ==
  ASSUME NEW d \in Tables, Pruned(d), Bound(d) = {}
  PROVE  d = <<>>
<1> SUFFICES ASSUME d # <<>> PROVE FALSE
  OBVIOUS
<1>1. Len(d) \in Live(d)
  BY DEF Pruned
<1> QED
  BY <1>1 DEF Bound

LEMMA NoEntries ==
  /\ <<>> \in Tables /\ <<>> \in ImageTables
  /\ Live(<<>>) = {} /\ Holes(<<>>) = {}
  /\ Bound(<<>>) = {}
  /\ Sound(<<>>) /\ Pruned(<<>>)
<1>1. Live(<<>>) = {} /\ Holes(<<>>) = {}
  BY DEF Live, Holes
<1>2. <<>> \in Tables /\ <<>> \in ImageTables
  BY DEF Tables, ImageTables
<1> QED
  BY <1>1, <1>2 DEF Bound, Sound, Unique, Unhidden, DotsFirst, Pruned

(* A path to nothing, in a directory that exists, is of a name that is not *)
(* bound there.                                                            *)
LEMMA NothingThere ==
  ASSUME NEW s, Sane(s), NEW p \in Seq(Names), p # <<>>, IsDir(s, Parent(s, p)),
         ~(Resolve(s, p) >= 0)
  PROVE  Unbound(s, Parent(s, p), Last(p))
<1>1. s \in Images /\ UniqueTables(s)
  BY SaneTables
<1> DEFINE d == Parent(s, p)
<1>2. d \in Inums
  BY DEF IsDir
<1> SUFFICES ASSUME NEW j, <<Last(p), j>> \in Bound(s.table[d]) PROVE FALSE
  BY DEF Unbound
<1>3. j \in Inums
  BY <1>1, <1>2, ImageFacts, ImageTableFacts
<1>4. Resolve(s, p) = j
  BY <1>1, <1>3, ResolveStep
<1> QED
  BY <1>3, <1>4, InumFacts

(***************************************************************************)
(* storage_mknod.                                                          *)
(***************************************************************************)

(* The images directory_init leaves for a new inode.                       *)
Initialised(s, k) ==
  LET i == Min(FreeInums(s))
      a == AllocInode(s, k)
  IN IF k = "dir" THEN {SetTable(a, i, out.table) : out \in Adds(<<>>, Dot, i, Room(a))} ELSE {a}

(* What directory_init leaves: a new inode of that mode, with at most ".". *)
NewInode(s, b, i, k) ==
  /\ Roomy(b) /\ TablesSound(b)
  /\ i \in Inums /\ s.mode[i] = "free"
  /\ b.mode[i] = k /\ b.refs[i] = 0 /\ b.len[i] = 0
  /\ \A j \in Inums \ {i} : /\ b.mode[j] = s.mode[j] /\ b.refs[j] = s.refs[j]
                            /\ b.len[j] = s.len[j] /\ b.table[j] = s.table[j]
  /\ Bound(b.table[i]) \subseteq {<<Dot, i>>} /\ Holes(b.table[i]) = {}
  /\ k = "file" => b.table[i] = <<>>

LEMMA InitialisedFacts ==
  ASSUME NEW s, Sane(s), FreeInums(s) # {}, NEW k \in {"file", "dir"}, NEW b \in Initialised(s, k)
  PROVE  NewInode(s, b, Min(FreeInums(s)), k)
<1> DEFINE i == Min(FreeInums(s))
<1> DEFINE a == AllocInode(s, k)
<1>0. s \in Images /\ FreeBlocks(s) \in Nat /\ Roomy(s) /\ TablesSound(s)
  BY DEF Sane, Roomy
<1>1. /\ i \in Inums /\ s.mode[i] = "free" /\ a \in Images
      /\ a.mode[i] = k /\ a.refs[i] = 0 /\ a.table[i] = <<>> /\ a.len[i] = 0
      /\ \A j \in Inums \ {i} : /\ a.mode[j] = s.mode[j] /\ a.refs[j] = s.refs[j]
                                /\ a.len[j] = s.len[j] /\ a.table[j] = s.table[j]
  BY <1>0, AllocInodeFacts
<1>2. b \in IF k = "dir" THEN {SetTable(a, i, out.table) : out \in Adds(<<>>, Dot, i, Room(a))} ELSE {a}
  BY DEF Initialised
<1> HIDE DEF a, i
<1>3. Roomy(a)
  BY <1>0, <1>1, EmptiedRoomy
<1>4. TablesSound(a)
  BY <1>0, <1>1, NoEntries DEF TablesSound
<1>5. CASE k = "file"
  <2>1. b = a
    BY <1>2, <1>5
  <2> QED
    BY <1>1, <1>3, <1>4, <1>5, <2>1, NoEntries DEF NewInode, i
<1>6. CASE k = "dir"
  <2>1. PICK out \in Adds(<<>>, Dot, i, Room(a)) : b = SetTable(a, i, out.table)
    BY <1>2, <1>6
  <2> DEFINE e == out.table
             none == <<>>
  <2>2. /\ none \in Tables /\ Sound(none) /\ Pruned(none) /\ Live(none) = {} /\ Holes(none) = {}
        /\ Bound(none) = {} /\ a.table[i] = none
        /\ Dot \in Names \cup {Dot, DotDot} /\ i \in Nat /\ Room(a) \in BOOLEAN
        /\ out \in Adds(none, Dot, i, Room(a))
    BY <1>1, <2>1, NoEntries, InumFacts DEF Room
  <2> HIDE DEF none
  <2>3. Live(none) \cap Named(none, Dot) = {}
    BY <2>2
  <2>4. e \in ImageTables /\ Roomy(SetTable(a, i, e))
    BY <1>1, <1>3, <2>2, <2>3, AddToTable
  <2>5. Unique(e) /\ Unhidden(e) /\ Pruned(e) /\ (Dot # DotDot => DotsFirst(e))
    BY <2>2, <2>3, AddSound
  <2>6. Dot # DotDot
    BY DEF Dot, DotDot
  <2>7. Bound(e) \subseteq {<<Dot, i>>}
    BY <2>2, <2>3, AddBinds
  <2>8. Holes(e) = {}
    BY <2>2, AddWithoutHoles
  <2> HIDE DEF e
  <2>9. /\ Roomy(b)
        /\ b.mode = a.mode /\ b.refs = a.refs /\ b.len = a.len
        /\ \A j \in Inums : b.table[j] = IF j = i THEN e ELSE a.table[j]
    BY <1>1, <2>1, <2>4, SetTableFacts DEF e
  <2>10. TablesSound(b)
    BY <1>1, <1>4, <2>5, <2>6, <2>9 DEF TablesSound, Sound
  <2> QED
    BY <1>1, <1>6, <2>7, <2>8, <2>9, <2>10 DEF NewInode, i
<1> QED
  BY <1>5, <1>6

(* The outcomes of storage_mknod: an answer that changed nothing, or a new *)
(* inode with its name.                                                    *)
LEMMA MknodMakes ==
  ASSUME NEW s, Sane(s), NEW p \in Seq(Names), p # <<>>, IsDir(s, Parent(s, p)),
         NEW k \in {"file", "dir"}, NEW out \in MknodOutcomes(s, p, k)
  PROVE  \/ out.rv \in {"+EEXIST", "ENOTDIR", "ENOSPC", "EEXIST", "ENAMETOOLONG"} /\ out.fs = s
         \/ out.rv = "ok" /\ \E i \in Inums : MakeStep(s, out.fs, Parent(s, p), Last(p), i, k)
<1> DEFINE found == Resolve(s, p)
           d == Parent(s, p)
           n == Last(p)
           i == Min(FreeInums(s))
<1>0. s \in Images /\ UniqueTables(s) /\ TablesSound(s)
  BY SaneTables DEF Sane
<1>1. found \in Inums \cup Errors
  BY <1>0, ResolveFacts
<1>2. d \in Inums /\ s.mode[d] = "dir" /\ n \in Names
  BY PathFacts DEF IsDir
<1>3. CASE found >= 0
  <2>1. out \in {Result("+EEXIST", s)}
    BY <1>3 DEF MknodOutcomes, ENOTDIR, ENOENT
  <2> QED
    BY <2>1 DEF Result
<1>4. CASE found = ENOTDIR
  <2>1. out \in {Result("ENOTDIR", s)}
    BY <1>4 DEF MknodOutcomes, ENOTDIR, ENOENT
  <2> QED
    BY <2>1 DEF Result
<1>5. CASE found = ENOENT /\ FreeInums(s) = {}
  <2>1. out \in {Result("ENOSPC", s)}
    BY <1>5 DEF MknodOutcomes, ENOTDIR, ENOENT
  <2> QED
    BY <2>1 DEF Result
<1>6. CASE found = ENOENT /\ FreeInums(s) # {}
  <2>1. out \in {IF o.rv = "ok" THEN Result("ok", AddRef(o.fs, i, 1)) ELSE Result(o.rv, FreeInode(o.fs, i))
                 : o \in UNION {AddEntry(b, d, n, i) : b \in Initialised(s, k)}}
    BY <1>6 DEF MknodOutcomes, Initialised, ENOTDIR, ENOENT
  <2>2. PICK o \in UNION {AddEntry(b, d, n, i) : b \in Initialised(s, k)} :
          out = IF o.rv = "ok" THEN Result("ok", AddRef(o.fs, i, 1)) ELSE Result(o.rv, FreeInode(o.fs, i))
    BY <2>1
  <2>3. PICK b \in Initialised(s, k) : o \in AddEntry(b, d, n, i)
    BY <2>2
  <2>4. /\ Roomy(b) /\ TablesSound(b)
        /\ i \in Inums /\ s.mode[i] = "free"
        /\ b.mode[i] = k /\ b.refs[i] = 0 /\ b.len[i] = 0
        /\ \A j \in Inums \ {i} : /\ b.mode[j] = s.mode[j] /\ b.refs[j] = s.refs[j]
                                  /\ b.len[j] = s.len[j] /\ b.table[j] = s.table[j]
        /\ Bound(b.table[i]) \subseteq {<<Dot, i>>} /\ Holes(b.table[i]) = {}
        /\ k = "file" => b.table[i] = <<>>
    <3>1. NewInode(s, b, i, k)
      BY <1>6, InitialisedFacts
    <3> HIDE DEF i, d, n, found
    <3> QED
      BY <3>1 DEF NewInode
  <2>5. Unbound(s, d, n)
    <3>1. ~(found >= 0)
      BY <1>6 DEF ENOENT
    <3> QED
      BY <3>1, NothingThere
  <2>6. d # i
    BY <1>2, <2>4
  <2>7. b \in Images
    BY <2>4 DEF Roomy
  <2> HIDE DEF found, d, n, i
  <2>8. \A j \in Inums : <<n, j>> \notin Bound(b.table[d])
    BY <1>2, <2>4, <2>5, <2>6 DEF Unbound
  <2>9. \/ o.rv \in {"ENAMETOOLONG", "EEXIST", "ENOSPC"} /\ o.fs = b
        \/ o.rv = "ok" /\ Added(b, o.fs, d, n, i)
    BY <1>2, <2>3, <2>4, <2>6, <2>8, AddEntryFacts
  <2>10. CASE o.rv \in {"ENAMETOOLONG", "EEXIST", "ENOSPC"} /\ o.fs = b
    (* The inode goes back as it was taken. *)
    <3>1. out = Result(o.rv, FreeInode(b, i))
      BY <2>2, <2>10
    <3>2. s.refs[i] = 0 /\ s.len[i] = 0 /\ Bound(s.table[i]) = {}
      BY <2>4 DEF Sane, Clean
    <3>3. s.table[i] = <<>>
      BY <1>0, <2>4, <3>2, EmptyTable, ImageFacts DEF TablesSound
    <3> DEFINE f == FreeInode(b, i)
    <3>4. /\ f \in Images
          /\ f.mode[i] = "free" /\ f.refs[i] = 0 /\ f.table[i] = <<>> /\ f.len[i] = 0
          /\ \A j \in Inums \ {i} : /\ f.mode[j] = b.mode[j] /\ f.refs[j] = b.refs[j]
                                    /\ f.len[j] = b.len[j] /\ f.table[j] = b.table[j]
      BY <2>4, <2>7, FreeInodeFacts
    <3> HIDE DEF f
    <3>5. \A j \in Inums : /\ f.mode[j] = s.mode[j] /\ f.refs[j] = s.refs[j]
                           /\ f.table[j] = s.table[j] /\ f.len[j] = s.len[j]
      BY <2>4, <3>2, <3>3, <3>4
    <3>6. f = s
      BY <1>0, <3>4, <3>5, SameImage
    <3> QED
      BY <2>10, <3>1, <3>6 DEF Result, f
  <2>11. CASE o.rv = "ok" /\ Added(b, o.fs, d, n, i)
    <3> DEFINE u == o.fs
               t == AddRef(u, i, 1)
    <3>1. out = Result("ok", t)
      BY <2>2, <2>11
    <3>2. /\ Roomy(u) /\ SameButTables(b, u)
          /\ \A e \in Inums : Unique(u.table[e]) /\ Unhidden(u.table[e]) /\ Pruned(u.table[e])
          /\ \A e \in Inums \ {i} : DotsFirst(u.table[e])
          /\ Bound(u.table[d]) = Bound(b.table[d]) \cup {<<n, i>>}
          /\ \A e \in Inums \ {d, i} : u.table[e] = b.table[e]
          /\ ~IsDir(b, i) => u.table[i] = b.table[i]
          /\ Bound(u.table[i]) \subseteq Bound(b.table[i]) \cup {<<DotDot, d>>}
          /\ (Holes(b.table[i]) = {} /\ \A x \in Live(b.table[i]) : b.table[i][x].name = Dot)
               => DotsFirst(u.table[i])
      BY <2>11 DEF Added, BackEntry
    <3> HIDE DEF u
    <3>3. u \in Images /\ u.mode = b.mode /\ u.refs = b.refs /\ u.len = b.len
      BY <3>2 DEF Roomy, SameButTables
    <3>4. u.refs[i] + 1 \in Nat
      BY <2>4, <3>3
    <3>5. Roomy(t)
      BY <2>4, <3>2, <3>4, AddRefRoomy
    <3>6. /\ t.mode = u.mode /\ t.table = u.table /\ t.len = u.len
          /\ \A j \in Inums : t.refs[j] = IF j = i THEN u.refs[i] + 1 ELSE u.refs[j]
      BY <2>4, <3>3, <3>4, AddRefFacts
    <3> HIDE DEF t
    <3>7. DotsFirst(u.table[i])
      <4>1. \A x \in Live(b.table[i]) : b.table[i][x].name = Dot
        <5> SUFFICES ASSUME NEW x \in Live(b.table[i]) PROVE b.table[i][x].name = Dot
          OBVIOUS
        <5>1. <<b.table[i][x].name, b.table[i][x].inum>> \in Bound(b.table[i])
          BY DEF Bound
        <5>2. <<b.table[i][x].name, b.table[i][x].inum>> = <<Dot, i>>
          BY <2>4, <5>1
        <5> QED
          BY <5>2
      <4> QED
        BY <2>4, <3>2, <4>1
    <3>8. TablesSound(t)
      BY <3>2, <3>6, <3>7 DEF TablesSound, Sound
    <3>9. k = "file" => Bound(t.table[i]) = {}
      BY <2>4, <3>2, <3>6, NoEntries DEF IsDir
    <3>10. Bound(t.table[i]) \subseteq {<<Dot, i>>, <<DotDot, d>>}
      BY <2>4, <3>2, <3>6
    <3>11. /\ t.mode[i] = k /\ t.refs[i] = 1 /\ t.len[i] = 0
           /\ \A e \in Inums \ {i} : t.mode[e] = s.mode[e] /\ t.refs[e] = s.refs[e] /\ t.len[e] = s.len[e]
      BY <2>4, <3>3, <3>6
    <3>12. /\ Bound(t.table[d]) = Bound(s.table[d]) \cup {<<n, i>>}
           /\ \A e \in Inums \ {d, i} : t.table[e] = s.table[e]
      BY <1>2, <2>4, <2>6, <3>2, <3>6
    <3>13. MakeStep(s, t, d, n, i, k)
      BY <1>2, <2>4, <2>5, <3>5, <3>8, <3>9, <3>10, <3>11, <3>12 DEF MakeStep
    <3> QED
      BY <2>4, <3>1, <3>13 DEF Result, d, n
  <2> QED
    BY <2>9, <2>10, <2>11
<1>7. \A j \in Inums : j >= 0
  BY InumFacts
<1> QED
  BY <1>1, <1>3, <1>4, <1>5, <1>6, <1>7 DEF Errors

(***************************************************************************)
(* storage_link and storage_unlink.                                        *)
(***************************************************************************)
LinkedBy(s, t, d, n, i) == \E u : Added(s, u, d, n, i) /\ t = AddRef(u, i, 1)

LEMMA LinkAdds ==
  ASSUME NEW s, Sane(s), NEW from \in Seq(Names), NEW to \in Seq(Names), to # <<>>,
         IsDir(s, Parent(s, to)), Resolve(s, from) # Parent(s, to),
         NEW out \in LinkOutcomes(s, from, to)
  PROVE  \/ out.rv \in {"ENOENT", "EEXIST", "ENOSPC", "ENAMETOOLONG"} /\ out.fs = s
         \/ /\ out.rv = "ok"
            /\ Resolve(s, from) \in Inums
            /\ Unbound(s, Parent(s, to), Last(to))
            /\ LinkedBy(s, out.fs, Parent(s, to), Last(to), Resolve(s, from))
<1> DEFINE i == Resolve(s, from)
           d == Parent(s, to)
           n == Last(to)
<1>0. s \in Images /\ UniqueTables(s) /\ TablesSound(s) /\ Roomy(s)
  BY SaneTables DEF Sane, Roomy
<1>1. i \in Inums \cup Errors
  BY <1>0, ResolveFacts
<1>2. d \in Inums /\ n \in Names
  BY PathFacts DEF IsDir
<1>3. /\ \A j \in Inums : j >= 0 /\ ~(j < 0)
      /\ \A j \in Errors : j < 0
  BY InumFacts, ErrorFacts
<1>4. CASE i < 0
  <2>1. out \in {Result("ENOENT", s)}
    BY <1>4 DEF LinkOutcomes
  <2> QED
    BY <2>1 DEF Result
<1>5. CASE ~(i < 0) /\ Resolve(s, to) >= 0
  <2>1. out \in {Result("EEXIST", s)}
    BY <1>5 DEF LinkOutcomes
  <2> QED
    BY <2>1 DEF Result
<1>6. CASE ~(i < 0) /\ ~(Resolve(s, to) >= 0)
  <2>1. ~(d < 0)
    BY <1>2, <1>3
  <2>2. PICK o \in AddEntry(s, d, n, i) :
          out = IF o.rv = "ok" THEN Result("ok", AddRef(o.fs, i, 1)) ELSE o
    BY <1>6, <2>1 DEF LinkOutcomes
  <2>3. i \in Inums
    BY <1>1, <1>3, <1>6
  <2>4. Unbound(s, d, n)
    BY <1>6, NothingThere
  <2> HIDE DEF i, d, n
  <2>5. d # i
    BY DEF i, d
  <2>6. \A j \in Inums : <<n, j>> \notin Bound(s.table[d])
    BY <2>4 DEF Unbound
  <2>7. \/ o.rv \in {"ENAMETOOLONG", "EEXIST", "ENOSPC"} /\ o.fs = s
        \/ o.rv = "ok" /\ Added(s, o.fs, d, n, i)
    BY <1>0, <1>2, <2>2, <2>3, <2>5, <2>6, AddEntryFacts
  <2>8. CASE o.rv \in {"ENAMETOOLONG", "EEXIST", "ENOSPC"} /\ o.fs = s
    BY <2>2, <2>8
  <2>9. CASE o.rv = "ok" /\ Added(s, o.fs, d, n, i)
    <3>1. out = Result("ok", AddRef(o.fs, i, 1))
      BY <2>2, <2>9
    <3>2. out.rv = "ok" /\ out.fs = AddRef(o.fs, i, 1)
      BY <3>1 DEF Result
    <3>3. LinkedBy(s, out.fs, d, n, i)
      BY <2>9, <3>2 DEF LinkedBy
    <3> QED
      BY <2>3, <2>4, <3>2, <3>3 DEF i, d, n
  <2> QED
    BY <2>7, <2>8, <2>9
<1> QED
  BY <1>4, <1>5, <1>6

(* What the image is after a link: the tables as directory_add_entry left  *)
(* them, and a reference more.                                             *)
HasLink(s, t, d, n, i) ==
  /\ Roomy(t)
  /\ t.mode = s.mode /\ t.len = s.len
  /\ \A e \in Inums : t.refs[e] = IF e = i THEN s.refs[i] + 1 ELSE s.refs[e]
  /\ \A e \in Inums : Unique(t.table[e]) /\ Unhidden(t.table[e]) /\ Pruned(t.table[e])
  /\ \A e \in Inums \ {i} : DotsFirst(t.table[e])
  /\ Bound(t.table[d]) = Bound(s.table[d]) \cup {<<n, i>>}
  /\ \A e \in Inums \ {d, i} : t.table[e] = s.table[e]
  /\ ~IsDir(s, i) => t.table[i] = s.table[i]
  /\ \/ Bound(t.table[i]) = Bound(s.table[i])
     \/ Bound(t.table[i]) = Bound(s.table[i]) \cup BackEntry(d)

LEMMA LinkedFacts ==
  ASSUME NEW s, Sane(s), NEW t, NEW d \in Inums, NEW n \in Names, NEW i \in Inums,
         LinkedBy(s, t, d, n, i)
  PROVE  HasLink(s, t, d, n, i)
<1>1. PICK u : Added(s, u, d, n, i) /\ t = AddRef(u, i, 1)
  BY DEF LinkedBy
<1>2. Roomy(u) /\ u \in Images /\ u.mode = s.mode /\ u.refs = s.refs /\ u.len = s.len
  BY <1>1 DEF Added, SameButTables, Roomy
<1>3. u.refs[i] + 1 \in Nat
  <2>1. u.refs[i] \in Nat
    BY <1>2, ImageFacts
  <2> QED
    BY <2>1
<1>4. Roomy(t)
  BY <1>1, <1>2, <1>3, AddRefRoomy
<1>5. /\ t.mode = u.mode /\ t.table = u.table /\ t.len = u.len
      /\ \A j \in Inums : t.refs[j] = IF j = i THEN u.refs[i] + 1 ELSE u.refs[j]
  BY <1>1, <1>2, <1>3, AddRefFacts
<1> QED
  BY <1>1, <1>2, <1>4, <1>5 DEF Added, HasLink

LEMMA HardlinkLinks ==
  ASSUME NEW s, Sane(s), NEW t, NEW d, IsDir(s, d), NEW n \in Names, NEW i \in Inums,
         s.mode[i] = "file", Unbound(s, d, n), LinkedBy(s, t, d, n, i)
  PROVE  LinkStep(s, t, d, n, i)
<1>1. d \in Inums /\ s.mode[d] = "dir" /\ ~IsDir(s, i)
  BY DEF IsDir
<1>2. /\ Roomy(t)
      /\ t.mode = s.mode /\ t.len = s.len
      /\ \A e \in Inums : t.refs[e] = IF e = i THEN s.refs[i] + 1 ELSE s.refs[e]
      /\ \A e \in Inums : Unique(t.table[e]) /\ Unhidden(t.table[e]) /\ Pruned(t.table[e])
      /\ \A e \in Inums \ {i} : DotsFirst(t.table[e])
      /\ Bound(t.table[d]) = Bound(s.table[d]) \cup {<<n, i>>}
      /\ \A e \in Inums \ {d, i} : t.table[e] = s.table[e]
      /\ t.table[i] = s.table[i]
  BY <1>1, LinkedFacts DEF HasLink
<1>3. DotsFirst(t.table[i])
  BY <1>2 DEF Sane, TablesSound, Sound
<1>4. TablesSound(t)
  BY <1>2, <1>3 DEF TablesSound, Sound
<1> QED
  BY <1>1, <1>2, <1>4 DEF LinkStep

(* What storage_unlink leaves of inode i once its entry is gone.           *)
Released(s, u, i) == IF s.refs[i] > 1 THEN AddRef(u, i, -1) ELSE FreeInode(AddRef(u, i, -1), i)
UnlinkedBy(s, t, d, n, i) == \E u : Dropped(s, u, d, n, i) /\ t = Released(s, u, i)

(* storage_rename calls storage_unlink on an image that has one link too   *)
(* many, in which a directory may have two "..".                           *)
LEMMA UnlinkRemoves ==
  ASSUME NEW s, Roomy(s),
         NEW p \in Seq(Names), p # <<>>, NEW d \in Inums, NEW i \in Inums, d # i,
         Resolve(s, p) = i, Parent(s, p) = d, <<Last(p), i>> \in Bound(s.table[d]),
         \A e \in Inums : Unique(s.table[e]) /\ Unhidden(s.table[e]) /\ Pruned(s.table[e]),
         \A e \in Inums \ {i} : DotsFirst(s.table[e]),
         NEW out \in UnlinkOutcomes(s, p)
  PROVE  \/ out.rv = "abort" /\ Roomy(out.fs)
         \/ /\ out.rv \in {"ok", "EPERM"}
            /\ s.refs[i] > 1 => out.rv = "ok"
            /\ UnlinkedBy(s, out.fs, d, Last(p), i)
<1> DEFINE n == Last(p)
           o == RemoveEntry(s, d, n)
           u == o.fs
           t == AddRef(u, i, -1)
<1>1. ~(i < 0) /\ n \in Names
  BY InumFacts, PathFacts
<1>2. \/ o.rv = "abort" /\ Roomy(o.fs)
      \/ o.rv = "ok" /\ Dropped(s, o.fs, d, n, i)
  <2> HIDE DEF n
  <2>1. <<n, i>> \in Bound(s.table[d])
    BY DEF n
  <2> QED
    BY <1>1, <2>1, RemoveEntryFacts
<1>3. /\ o.rv # "ok" => out \in {o}
      /\ o.rv = "ok" /\ t.refs[i] > 0 /\ ~(t.refs[i] <= 0) => out \in {Result("ok", t)}
      /\ o.rv = "ok" /\ t.refs[i] <= 0 /\ ~(t.refs[i] > 0) => out \in {Result(v, FreeInode(t, i)) : v \in FreeAnswers}
  <2> HIDE DEF n
  <2>1. out \in CASE o.rv # "ok" -> {o}
                  [] o.rv = "ok" /\ t.refs[i] > 0 -> {Result("ok", t)}
                  [] o.rv = "ok" /\ t.refs[i] <= 0 -> {Result(v, FreeInode(t, i)) : v \in FreeAnswers}
    BY <1>1 DEF UnlinkOutcomes, n
  <2> HIDE DEF o, t
  <2> QED
    BY <2>1
<1> HIDE DEF n, o
<1>4. CASE o.rv = "abort" /\ Roomy(o.fs)
  BY <1>3, <1>4
<1>5. CASE o.rv = "ok" /\ Dropped(s, u, d, n, i)
  <2>1. u \in Images /\ u.refs = s.refs
    BY <1>5 DEF Dropped, Roomy, SameButTables
  <2>2. t.refs[i] = s.refs[i] - 1
    BY <2>1 DEF AddRef, Images
  <2>3. s.refs[i] \in Nat
    BY ImageFacts DEF Roomy
  <2> HIDE DEF t, u
  <2>4. CASE s.refs[i] > 1
    <3>0. t.refs[i] > 0 /\ ~(t.refs[i] <= 0)
      BY <2>2, <2>3, <2>4
    <3>1. out \in {Result("ok", t)}
      BY <1>3, <1>5, <3>0
    <3>2. out.rv = "ok" /\ out.fs = Released(s, u, i)
      BY <2>4, <3>1 DEF Result, Released, t
    <3> QED
      BY <1>5, <3>2 DEF UnlinkedBy, n
  <2>5. CASE ~(s.refs[i] > 1)
    <3>0. t.refs[i] <= 0 /\ ~(t.refs[i] > 0)
      BY <2>2, <2>3, <2>5
    <3>1. out \in {Result(v, FreeInode(t, i)) : v \in FreeAnswers}
      BY <1>3, <1>5, <3>0
    <3>2. out.rv \in {"ok", "EPERM"} /\ out.fs = Released(s, u, i)
      BY <2>5, <3>1 DEF Result, Released, t, FreeAnswers
    <3> QED
      BY <1>5, <2>5, <3>2 DEF UnlinkedBy, n
  <2> QED
    BY <2>4, <2>5
<1> QED
  BY <1>2, <1>4, <1>5

LEMMA ReleasedFacts ==
  ASSUME NEW s, Roomy(s), NEW u, Roomy(u), SameButTables(s, u), NEW i \in Inums, s.refs[i] >= 1,
         NEW t, t = Released(s, u, i)
  PROVE  /\ Roomy(t)
         /\ \A e \in Inums \ {i} : /\ t.mode[e] = s.mode[e] /\ t.refs[e] = s.refs[e]
                                   /\ t.len[e] = s.len[e] /\ t.table[e] = u.table[e]
         /\ s.refs[i] > 1 => /\ t.refs[i] = s.refs[i] - 1 /\ t.mode[i] = s.mode[i]
                             /\ t.len[i] = s.len[i] /\ t.table[i] = u.table[i]
         /\ ~(s.refs[i] > 1) => t.refs[i] = 0 /\ t.mode[i] = "free" /\ t.table[i] = <<>> /\ t.len[i] = 0
<1> DEFINE v == AddRef(u, i, -1)
<1>1. u \in Images /\ u.mode = s.mode /\ u.refs = s.refs /\ u.len = s.len
  BY DEF Roomy, SameButTables
<1>2. s.refs[i] \in Nat
  BY ImageFacts DEF Roomy
<1>3. u.refs[i] + (-1) \in Nat /\ -1 \in Int
  BY <1>1, <1>2
<1>4. Roomy(v)
  BY <1>3, AddRefRoomy
<1>5. /\ v.mode = u.mode /\ v.table = u.table /\ v.len = u.len
      /\ \A j \in Inums : v.refs[j] = IF j = i THEN u.refs[i] + (-1) ELSE u.refs[j]
  BY <1>1, <1>3, AddRefFacts
<1>6. v \in Images
  BY <1>4 DEF Roomy
<1> DEFINE w == FreeInode(v, i)
<1>7. /\ w \in Images
      /\ w.mode[i] = "free" /\ w.refs[i] = 0 /\ w.table[i] = <<>> /\ w.len[i] = 0
      /\ \A j \in Inums \ {i} : /\ w.mode[j] = v.mode[j] /\ w.refs[j] = v.refs[j]
                                /\ w.table[j] = v.table[j] /\ w.len[j] = v.len[j]
  <2> HIDE DEF v
  <2> QED
    BY <1>6, FreeInodeFacts
<1>8. Roomy(w)
  <2> HIDE DEF w, v
  <2> QED
    BY <1>4, <1>7, EmptiedRoomy
<1>9. t = IF s.refs[i] > 1 THEN v ELSE w
  BY DEF Released
<1> HIDE DEF v, w
<1>10. CASE s.refs[i] > 1
  BY <1>1, <1>2, <1>4, <1>5, <1>9, <1>10
<1>11. CASE ~(s.refs[i] > 1)
  BY <1>1, <1>5, <1>7, <1>8, <1>9, <1>11
<1> QED
  BY <1>10, <1>11

LEMMA UnlinkUnlinks ==
  ASSUME NEW s, Sane(s), NEW t, NEW d \in Inums, NEW n \in Names, NEW i \in Inums,
         <<n, i>> \in Bound(s.table[d]),
         s.mode[i] = "dir" => \A m \in Names : Unbound(s, i, m),
         UnlinkedBy(s, t, d, n, i)
  PROVE  UnlinkStep(s, t, d, n, i)
<1>0. Link(d, n, i) \in Links(s)
  BY LinkFacts
<1>1. d # i /\ i # ROOT_INUM /\ s.mode[i] # "free"
  BY <1>0, NotInItself, LinkDirs, LinkFacts
<1>2. s.refs[i] >= 1 /\ Roomy(s) /\ TablesSound(s)
  BY <1>1 DEF Sane, Counted, Roomy
<1>3. PICK u : Dropped(s, u, d, n, i) /\ t = Released(s, u, i)
  BY DEF UnlinkedBy
<1>4. /\ Roomy(u) /\ SameButTables(s, u) /\ TablesSound(u)
      /\ Bound(u.table[d]) = Bound(s.table[d]) \ {<<n, i>>}
      /\ \A e \in Inums \ {d, i} : u.table[e] = s.table[e]
      /\ ~IsDir(s, i) => u.table[i] = s.table[i]
  BY <1>2, <1>3 DEF Dropped, TablesSound, Sound
<1>5. /\ Roomy(t)
      /\ \A e \in Inums \ {i} : /\ t.mode[e] = s.mode[e] /\ t.refs[e] = s.refs[e]
                                /\ t.len[e] = s.len[e] /\ t.table[e] = u.table[e]
      /\ s.refs[i] > 1 => /\ t.refs[i] = s.refs[i] - 1 /\ t.mode[i] = s.mode[i]
                          /\ t.len[i] = s.len[i] /\ t.table[i] = u.table[i]
      /\ ~(s.refs[i] > 1) => t.refs[i] = 0 /\ t.mode[i] = "free" /\ t.table[i] = <<>> /\ t.len[i] = 0
  BY <1>2, <1>3, <1>4, ReleasedFacts
<1>6. TablesSound(t)
  <2> SUFFICES ASSUME NEW e \in Inums PROVE Sound(t.table[e]) /\ Pruned(t.table[e])
    BY DEF TablesSound
  <2>1. t.table[e] = u.table[e] \/ t.table[e] = <<>>
    BY <1>5
  <2> QED
    BY <1>4, <2>1, NoEntries DEF TablesSound
<1>7. s.mode[i] # "dir" /\ s.refs[i] > 1 => t.table[i] = s.table[i]
  BY <1>4, <1>5 DEF IsDir
<1> QED
  BY <1>1, <1>4, <1>5, <1>6, <1>7 DEF UnlinkStep

(* The outcomes of storage_unlink on a file, and of storage_rmdir's call   *)
(* of it on an empty directory.                                            *)
LEMMA UnlinkOutcome ==
  ASSUME NEW s, Sane(s), NEW p \in Seq(Names), p # <<>>,
         IsDir(s, Resolve(s, p)) => \A m \in Names : Unbound(s, Resolve(s, p), m),
         NEW out \in UnlinkOutcomes(s, p)
  PROVE  \/ out.rv = "ENOENT" /\ out.fs = s
         \/ out.rv = "abort" /\ Roomy(out.fs)
         \/ /\ out.rv \in {"ok", "EPERM"}
            /\ UnlinkStep(s, out.fs, Parent(s, p), Last(p), Resolve(s, p))
<1> DEFINE i == Resolve(s, p)
           d == Parent(s, p)
           n == Last(p)
<1>0. s \in Images /\ UniqueTables(s) /\ Roomy(s)
  BY SaneTables DEF Sane, Roomy
<1>1. i \in Inums \cup Errors
  BY <1>0, ResolveFacts
<1>2. CASE i < 0
  <2>1. out \in {Result("ENOENT", s)}
    BY <1>2 DEF UnlinkOutcomes
  <2> QED
    BY <2>1 DEF Result
<1>3. CASE ~(i < 0)
  <2>1. i \in Inums
    BY <1>1, <1>3, ErrorFacts
  <2>2. Link(d, n, i) \in Links(s) /\ d \in Inums /\ n \in Names
    BY <2>1, LastLink
  <2>3. <<n, i>> \in Bound(s.table[d]) /\ d # i
    BY <2>2, LinkFacts, NotInItself
  <2>4. /\ \A e \in Inums : Unique(s.table[e]) /\ Unhidden(s.table[e]) /\ Pruned(s.table[e])
        /\ \A e \in Inums : DotsFirst(s.table[e])
    BY DEF Sane, TablesSound, Sound
  <2>5. \/ out.rv = "abort" /\ Roomy(out.fs)
        \/ out.rv \in {"ok", "EPERM"} /\ UnlinkedBy(s, out.fs, d, n, i)
    BY <1>0, <2>1, <2>2, <2>3, <2>4, UnlinkRemoves
  <2>6. s.mode[i] = "dir" => \A m \in Names : Unbound(s, i, m)
    BY <2>1 DEF IsDir
  <2>7. UnlinkedBy(s, out.fs, d, n, i) => UnlinkStep(s, out.fs, d, n, i)
    BY <2>1, <2>2, <2>3, <2>6, UnlinkUnlinks
  <2> QED
    BY <2>5, <2>7
<1> QED
  BY <1>2, <1>3

(***************************************************************************)
(* storage_rename.                                                         *)
(***************************************************************************)

(* The link and the unlink make one move, because the way to the old name  *)
(* and the way to the new one are as before when the unlink walks them.    *)
LEMMA RenameMoves ==
  ASSUME NEW s, Sane(s), NEW from \in Seq(Names), from # <<>>, NEW to \in Seq(Names), to # <<>>,
         IsDir(s, Parent(s, to)), ~IsPrefix(from, to),
         NEW out \in RenameOutcomes(s, from, to)
  PROVE  \/ out.rv \in {"ENOENT", "EEXIST", "ENOSPC", "ENAMETOOLONG"} /\ out.fs = s
         \/ out.rv = "abort" /\ Roomy(out.fs)
         \/ /\ out.rv = "ok"
            /\ MoveStep(s, out.fs, Parent(s, from), Last(from), Parent(s, to), Last(to), Resolve(s, from))
<1> DEFINE i == Resolve(s, from)
           a == Parent(s, from)
           n == Last(from)
           d == Parent(s, to)
           m == Last(to)
<1>0. s \in Images /\ UniqueTables(s) /\ TablesSound(s)
  BY SaneTables DEF Sane
<1>1. /\ d \in Inums /\ s.mode[d] = "dir" /\ m \in Names /\ n \in Names
      /\ Front(to) \in Seq(Names) /\ Front(from) \in Seq(Names) /\ Resolve(s, Front(to)) = d
  BY PathFacts DEF IsDir, Parent
<1>2. i # d
  <2> SUFFICES ASSUME i = d PROVE FALSE
    OBVIOUS
  <2>1. IsDir(s, Resolve(s, from)) /\ Resolve(s, from) = Resolve(s, Front(to))
    BY <1>1
  <2>2. from = Front(to)
    BY <1>1, <2>1, OneWay
  <2>3. IsPrefix(from, Front(to))
    BY <2>2, PrefixSelf
  <2> QED
    BY <2>3, PrefixOfParent
<1>3. PICK linked \in LinkOutcomes(s, from, to) :
        out \in IF linked.rv # "ok" THEN {linked}
                ELSE UNION {
                  IF o.rv \in {"ok", "abort"} THEN {o}
                  ELSE {Result(o.rv, undone.fs) : undone \in UnlinkOutcomes(o.fs, to)}
                  : o \in UnlinkOutcomes(linked.fs, from)}
  BY DEF RenameOutcomes
<1>4. \/ linked.rv \in {"ENOENT", "EEXIST", "ENOSPC", "ENAMETOOLONG"} /\ linked.fs = s
      \/ linked.rv = "ok" /\ i \in Inums /\ Unbound(s, d, m) /\ LinkedBy(s, linked.fs, d, m, i)
  BY <1>2, LinkAdds
<1>5. CASE linked.rv \in {"ENOENT", "EEXIST", "ENOSPC", "ENAMETOOLONG"} /\ linked.fs = s
  <2>1. out = linked
    BY <1>3, <1>5
  <2> QED
    BY <1>5, <2>1
<1>6. CASE linked.rv = "ok" /\ i \in Inums /\ Unbound(s, d, m) /\ LinkedBy(s, linked.fs, d, m, i)
  <2> DEFINE v == linked.fs
  <2>1. /\ Roomy(v)
        /\ v.mode = s.mode /\ v.len = s.len
        /\ \A e \in Inums : v.refs[e] = IF e = i THEN s.refs[i] + 1 ELSE s.refs[e]
        /\ \A e \in Inums : Unique(v.table[e]) /\ Unhidden(v.table[e]) /\ Pruned(v.table[e])
        /\ \A e \in Inums \ {i} : DotsFirst(v.table[e])
        /\ Bound(v.table[d]) = Bound(s.table[d]) \cup {<<m, i>>}
        /\ \A e \in Inums \ {d, i} : v.table[e] = s.table[e]
        /\ ~IsDir(s, i) => v.table[i] = s.table[i]
        /\ \/ Bound(v.table[i]) = Bound(s.table[i])
           \/ Bound(v.table[i]) = Bound(s.table[i]) \cup BackEntry(d)
    <3> HIDE DEF i, a, n, d, m, v
    <3>1. LinkedBy(s, v, d, m, i) /\ i \in Inums
      BY <1>6 DEF v
    <3>2. HasLink(s, v, d, m, i)
      BY <1>1, <3>1, LinkedFacts
    <3> QED
      BY <3>2 DEF HasLink
  <2>2. /\ Link(a, n, i) \in Links(s) /\ IsDir(s, a) /\ a \in Inums
        /\ s.mode[i] # "free" /\ i # ROOT_INUM
    BY <1>6, LastLink
  <2>3. <<n, i>> \in Bound(s.table[a]) /\ a # i
    BY <2>2, LinkFacts, NotInItself
  <2>4. s.refs[i] >= 1 /\ s.refs[i] \in Nat
    BY <1>0, <1>6, <2>2, ImageFacts DEF Sane, Counted
  <2>5. v \in Images /\ UniqueTables(v)
    BY <2>1 DEF Roomy, UniqueTables
  <2>6. \A e \in Inums : IsDir(s, e) => IsDir(v, e) /\ Bound(s.table[e]) \subseteq Bound(v.table[e])
    BY <2>1 DEF IsDir
  <2> HIDE DEF v
  <2>7. Resolve(v, from) = i
    BY <1>0, <1>6, <2>5, <2>6, ResolveKept
  <2>8. Parent(v, from) = a
    BY <1>0, <1>1, <2>2, <2>5, <2>6, ResolveKept DEF Parent
  <2>9. <<n, i>> \in Bound(v.table[a])
    BY <2>2, <2>3, <2>6
  <2> HIDE DEF i, a, n, d, m
  <2>10. PICK o \in UnlinkOutcomes(v, from) :
           out \in IF o.rv \in {"ok", "abort"} THEN {o}
                   ELSE {Result(o.rv, undone.fs) : undone \in UnlinkOutcomes(o.fs, to)}
    BY <1>3, <1>6 DEF v
  <2>11. v.refs[i] > 1 /\ v.refs[i] >= 1
    BY <1>6, <2>1, <2>4
  <2>12. \/ o.rv = "abort" /\ Roomy(o.fs)
         \/ o.rv = "ok" /\ UnlinkedBy(v, o.fs, a, n, i)
    <3>1. <<Last(from), i>> \in Bound(v.table[a])
      BY <2>9 DEF n
    <3> QED
      BY <1>6, <2>1, <2>2, <2>3, <2>7, <2>8, <2>11, <3>1, UnlinkRemoves DEF n
  <2>13. out = o
    BY <2>10, <2>12
  <2>14. CASE o.rv = "abort" /\ Roomy(o.fs)
    BY <2>13, <2>14
  <2>15. CASE o.rv = "ok" /\ UnlinkedBy(v, o.fs, a, n, i)
    <3> DEFINE t == o.fs
    <3>1. PICK u : Dropped(v, u, a, n, i) /\ t = Released(v, u, i)
      BY <2>15 DEF UnlinkedBy
    <3>2. /\ Roomy(u) /\ SameButTables(v, u)
          /\ IsDir(v, i) \/ DotsFirst(v.table[i]) => TablesSound(u)
          /\ Bound(u.table[a]) = Bound(v.table[a]) \ {<<n, i>>}
          /\ \A e \in Inums \ {a, i} : u.table[e] = v.table[e]
          /\ ~IsDir(v, i) => u.table[i] = v.table[i]
          /\ IsDir(v, i) => Bound(u.table[i]) = WithoutBack(Bound(v.table[i]))
      BY <3>1 DEF Dropped
    <3> HIDE DEF t
    <3>3. /\ Roomy(t)
          /\ \A e \in Inums \ {i} : /\ t.mode[e] = v.mode[e] /\ t.refs[e] = v.refs[e]
                                    /\ t.len[e] = v.len[e] /\ t.table[e] = u.table[e]
          /\ t.refs[i] = v.refs[i] - 1 /\ t.mode[i] = v.mode[i]
          /\ t.len[i] = v.len[i] /\ t.table[i] = u.table[i]
      BY <1>6, <2>1, <2>11, <3>1, <3>2, ReleasedFacts
    <3>4. TablesSound(u)
      <4>1. IsDir(v, i) <=> IsDir(s, i)
        BY <2>1 DEF IsDir
      <4>2. ~IsDir(s, i) => DotsFirst(v.table[i])
        BY <1>0, <1>6, <2>1 DEF TablesSound, Sound
      <4> QED
        BY <3>2, <4>1, <4>2
    <3>5. TablesSound(t)
      BY <3>3, <3>4 DEF TablesSound
    <3>6. t.mode = s.mode /\ t.refs = s.refs /\ t.len = s.len
      <4>1. t \in Images
        BY <3>3 DEF Roomy
      <4>2. \A e \in Inums : t.mode[e] = s.mode[e] /\ t.len[e] = s.len[e]
        BY <2>1, <3>3
      <4>3. \A e \in Inums \ {i} : t.refs[e] = s.refs[e]
        BY <2>1, <3>3
      <4>4. t.refs[i] = s.refs[i]
        <5>1. v.refs[i] = s.refs[i] + 1
          BY <1>6, <2>1
        <5>2. t.refs[i] = v.refs[i] - 1
          BY <3>3
        <5> QED
          BY <2>4, <5>1, <5>2
      <4>5. \A e \in Inums : t.refs[e] = s.refs[e]
        BY <4>3, <4>4
      <4> HIDE DEF t
      <4> QED
        BY <1>0, <4>1, <4>2, <4>5, SameFields
    <3>7. Bound(t.table[i]) = IF s.mode[i] = "dir" THEN WithoutBack(Bound(s.table[i])) ELSE Bound(s.table[i])
      <4>1. IsDir(v, i) <=> s.mode[i] = "dir"
        BY <1>6, <2>1 DEF IsDir
      <4>2. IsDir(s, i) <=> s.mode[i] = "dir"
        BY <1>6 DEF IsDir
      <4>3. WithoutBack(Bound(v.table[i])) = WithoutBack(Bound(s.table[i]))
        <5>1. \A x \in BackEntry(d) : x[1] = DotDot
          BY DEF BackEntry
        <5> QED
          BY <2>1, <5>1 DEF WithoutBack
      <4> QED
        BY <2>1, <3>2, <3>3, <4>1, <4>2, <4>3
    <3>8. ASSUME NEW e \in Inums \ {i}
          PROVE  Bound(t.table[e]) = (Bound(s.table[e]) \cup (IF e = d THEN {<<m, i>>} ELSE {}))
                                       \ (IF e = a THEN {<<n, i>>} ELSE {})
      <4>1. Bound(v.table[e]) = Bound(s.table[e]) \cup (IF e = d THEN {<<m, i>>} ELSE {})
        BY <2>1
      <4>2. Bound(u.table[e]) = Bound(v.table[e]) \ (IF e = a THEN {<<n, i>>} ELSE {})
        BY <3>2
      <4>3. t.table[e] = u.table[e]
        BY <3>3
      <4> QED
        BY <4>1, <4>2, <4>3
    <3>9. \E p \in Seq(Names) :
            /\ Resolve(s, p) = d
            /\ \A q \in Seq(Names) : IsPrefix(q, p) /\ s.mode[i] = "dir" => Resolve(s, q) # i
      <4>1. ASSUME NEW q \in Seq(Names), IsPrefix(q, Front(to)), s.mode[i] = "dir", Resolve(s, q) = i
            PROVE  FALSE
        <5>1. IsDir(s, Resolve(s, q)) /\ Resolve(s, q) = Resolve(s, from)
          BY <1>6, <4>1 DEF IsDir, i
        <5>2. q = from
          BY <5>1, OneWay
        <5> QED
          BY <4>1, <5>2, PrefixOfParent
      <4> QED
        BY <1>1, <4>1
    <3>10. MoveStep(s, t, a, n, d, m, i)
      BY <1>1, <1>2, <1>6, <2>2, <2>3, <3>3, <3>5, <3>6, <3>7, <3>8, <3>9 DEF MoveStep
    <3> QED
      BY <2>13, <2>15, <3>10 DEF t, a, n, d, m, i
  <2> QED
    BY <2>12, <2>14, <2>15
<1> QED
  BY <1>4, <1>5, <1>6

(***************************************************************************)
(* storage_rmdir, storage_truncate, storage_write and storage_init.        *)
(***************************************************************************)
LEMMA RmdirOutcome ==
  ASSUME NEW s, Sane(s), NEW p \in Seq(Names), p # <<>>, NEW out \in RmdirOutcomes(s, p)
  PROVE  \/ out.rv \in {"ENOENT", "ENOTDIR", "ENOTEMPTY"} /\ out.fs = s
         \/ out.rv = "abort" /\ Roomy(out.fs)
         \/ /\ out.rv \in {"ok", "EPERM"}
            /\ \E d, n, i : UnlinkStep(s, out.fs, d, n, i)
<1> DEFINE i == Resolve(s, p)
<1>1. \/ out = Result(LookupError(i), s)
      \/ out = Result("ENOTDIR", s)
      \/ out = Result("ENOTEMPTY", s)
      \/ IsDir(s, i) /\ IsEmpty(s.table[i]) /\ out \in UnlinkOutcomes(s, p)
  BY DEF RmdirOutcomes
<1>2. CASE out = Result(LookupError(i), s)
  BY <1>2 DEF Result, LookupError
<1>3. CASE out = Result("ENOTDIR", s) \/ out = Result("ENOTEMPTY", s)
  BY <1>3 DEF Result
<1>4. CASE IsDir(s, i) /\ IsEmpty(s.table[i]) /\ out \in UnlinkOutcomes(s, p)
  <2>1. \A m \in Names : Unbound(s, i, m)
    <3> SUFFICES ASSUME NEW m \in Names, NEW j, <<m, j>> \in Bound(s.table[i]) PROVE FALSE
      BY DEF Unbound
    <3>1. PICK k \in Live(s.table[i]) : s.table[i][k].name = m
      BY DEF Bound
    <3>2. m \in {Dot, DotDot}
      BY <1>4, <3>1 DEF IsEmpty
    <3> QED
      BY <3>2, NamesAssumption
  <2> QED
    BY <1>4, <2>1, UnlinkOutcome
<1> QED
  BY <1>1, <1>2, <1>3, <1>4

SizeStep(s, t, i) ==
  /\ Roomy(t)
  /\ i \in Inums /\ s.mode[i] = "file"
  /\ t.mode = s.mode /\ t.refs = s.refs /\ t.table = s.table
  /\ \A j \in Inums \ {i} : t.len[j] = s.len[j]
  /\ [t EXCEPT !.len = s.len] = s

Resized(s, i, n) == [s EXCEPT !.len[i] = n]

LEMMA SizedFacts ==
  ASSUME NEW s, Roomy(s), NEW i \in Inums, s.mode[i] = "file",
         NEW n \in Nat, n - s.len[i] <= FreeBlocks(s)
  PROVE  SizeStep(s, Resized(s, i, n), i)
<1> DEFINE t == Resized(s, i, n)
<1>0. s \in Images /\ FreeBlocks(s) \in Nat
  BY DEF Roomy
<1>1. /\ t \in Images
      /\ t.mode = s.mode /\ t.refs = s.refs /\ t.table = s.table
      /\ \A j \in Inums : t.len[j] = IF j = i THEN n ELSE s.len[j]
  BY <1>0 DEF Images, Resized
<1>2. [t EXCEPT !.len = s.len] = s
  BY <1>0 DEF Images, Resized
<1> HIDE DEF t
<1>3. s.len[i] \in Nat /\ t.len[i] = n
  BY <1>0, <1>1, ImageFacts
<1>4. \A j \in Inums : /\ BlocksOf(t, j) = t.len[j] + BlocksFor(Len(t.table[j]))
                       /\ BlocksOf(s, j) = s.len[j] + BlocksFor(Len(s.table[j]))
                       /\ BlocksFor(Len(s.table[j])) \in Nat /\ s.len[j] \in Nat
  <2> SUFFICES ASSUME NEW j \in Inums
               PROVE  /\ BlocksOf(t, j) = t.len[j] + BlocksFor(Len(t.table[j]))
                      /\ BlocksOf(s, j) = s.len[j] + BlocksFor(Len(s.table[j]))
                      /\ BlocksFor(Len(s.table[j])) \in Nat /\ s.len[j] \in Nat
    OBVIOUS
  <2>1. Len(s.table[j]) \in Nat
    BY <1>0, ImageFacts, TableFacts
  <2>2. BlocksFor(Len(s.table[j])) \in Nat
    BY <2>1, BlocksForFacts
  <2> QED
    BY <1>0, <1>1, <2>2, BlocksOfFacts, ImageFacts
<1>5. FreeBlocks(t) \in Nat
  <2>1. CASE s.len[i] <= n
    <3>1. \A j \in Inums \ {i} : BlocksOf(t, j) = BlocksOf(s, j)
      <4> SUFFICES ASSUME NEW j \in Inums \ {i} PROVE BlocksOf(t, j) = BlocksOf(s, j)
        OBVIOUS
      <4>1. t.len[j] = s.len[j] /\ t.table[j] = s.table[j]
        BY <1>1
      <4> QED
        BY <1>4, <4>1
    <3>2. BlocksOf(t, i) - BlocksOf(s, i) = n - s.len[i] /\ BlocksOf(s, i) <= BlocksOf(t, i)
      <4>1. t.table[i] = s.table[i] /\ t.len[i] = n
        BY <1>1
      <4> QED
        BY <1>4, <2>1, <4>1
    <3>3. FreeBlocks(t) = FreeBlocks(s) - (BlocksOf(t, i) - BlocksOf(s, i))
      BY <1>0, <1>1, <3>1, <3>2, BlocksTaken
    <3> QED
      BY <1>0, <1>3, <3>2, <3>3
  <2>2. CASE ~(s.len[i] <= n)
    <3>1. \A j \in Inums : BlocksOf(t, j) <= BlocksOf(s, j)
      BY <1>1, <1>3, <1>4, <2>2
    <3>2. FreeBlocks(t) >= FreeBlocks(s) /\ FreeBlocks(t) \in Int
      BY <1>0, <1>1, <3>1, BlocksGivenBack, FreeBlocksFacts
    <3> QED
      BY <1>0, <3>2
  <2> QED
    BY <2>1, <2>2
<1> QED
  BY <1>1, <1>2, <1>5 DEF Roomy, SizeStep, t

LEMMA GrownFacts ==
  ASSUME NEW s, Roomy(s), NEW i \in Inums, s.mode[i] = "file", NEW n \in Nat,
         NEW out, out = Grown(s, i, n)
  PROVE  /\ out.rv \in {"ok", "ENOSPC"}
         /\ SizeStep(s, out.fs, i)
<1>0. s \in Images /\ FreeBlocks(s) \in Nat /\ s.len[i] \in Nat
  BY ImageFacts DEF Roomy
<1>1. CASE n - s.len[i] <= FreeBlocks(s)
  <2>1. out = Result("ok", [s EXCEPT !.len[i] = n])
    BY <1>1 DEF Grown
  <2>2. out.rv = "ok" /\ out.fs = Resized(s, i, n)
    BY <2>1 DEF Result, Resized
  <2> QED
    BY <1>1, <2>2, SizedFacts
<1>2. CASE ~(n - s.len[i] <= FreeBlocks(s))
  <2> DEFINE m == s.len[i] + FreeBlocks(s)
  <2>1. out = Result("ENOSPC", [s EXCEPT !.len[i] = m])
    BY <1>2 DEF Grown
  <2>2. out.rv = "ENOSPC" /\ out.fs = Resized(s, i, m)
    BY <2>1 DEF Result, Resized
  <2>3. m \in Nat /\ m - s.len[i] <= FreeBlocks(s)
    BY <1>0
  <2> HIDE DEF m
  <2> QED
    BY <2>2, <2>3, SizedFacts
<1> QED
  BY <1>1, <1>2

LEMMA SizeSane ==
  ASSUME NEW s, Sane(s), NEW t, NEW i, SizeStep(s, t, i)
  PROVE  Sane(t) /\ Links(t) = Links(s)
<1>1. \A j \in Inums : s.mode[j] = "free" => t.len[j] = s.len[j]
  BY DEF SizeStep
<1> QED
  BY <1>1, LenSane DEF SizeStep

LEMMA TruncateSizes ==
  ASSUME NEW s, Sane(s), NEW p \in Seq(Names), p # <<>>, ~IsDir(s, Resolve(s, p)), NEW n \in Nat,
         NEW out \in TruncateOutcomes(s, p, n)
  PROVE  \/ out.rv \in {"ENOENT", "ENOTDIR", "ok"} /\ out.fs = s
         \/ /\ out.rv \in {"positive", "ENOSPC"}
            /\ \E i : SizeStep(s, out.fs, i)
<1> DEFINE i == Resolve(s, p)
<1>0. s \in Images /\ UniqueTables(s) /\ Roomy(s)
  BY SaneTables DEF Sane, Roomy
<1>1. i \in Inums \cup Errors
  BY <1>0, ResolveFacts
<1>2. CASE i < 0
  <2>1. out = Result(LookupError(i), s)
    BY <1>2 DEF TruncateOutcomes
  <2> QED
    BY <2>1 DEF Result, LookupError
<1>3. CASE ~(i < 0)
  <2>1. i \in Inums
    BY <1>1, <1>3, ErrorFacts
  <2>2. s.mode[i] = "file" /\ s.len[i] \in Nat
    BY <1>0, <2>1, LastLink, ImageFacts DEF IsDir
  <2>3. \/ out = Result("ok", s)
        \/ n < s.len[i] /\ out = Result("positive", [s EXCEPT !.len[i] = n])
        \/ out = IF Grown(s, i, n).rv = "ok" THEN Result("positive", Grown(s, i, n).fs) ELSE Grown(s, i, n)
    BY <1>3 DEF TruncateOutcomes
  <2> HIDE DEF i
  <2>4. CASE out = Result("ok", s)
    BY <2>4 DEF Result
  <2>5. CASE n < s.len[i] /\ out = Result("positive", [s EXCEPT !.len[i] = n])
    <3>1. out.rv = "positive" /\ out.fs = Resized(s, i, n)
      BY <2>5 DEF Result, Resized
    <3>2. n - s.len[i] <= FreeBlocks(s)
      BY <1>0, <2>2, <2>5 DEF Roomy
    <3>3. SizeStep(s, out.fs, i)
      BY <1>0, <2>1, <2>2, <3>1, <3>2, SizedFacts
    <3> QED
      BY <3>1, <3>3
  <2>6. CASE out = IF Grown(s, i, n).rv = "ok" THEN Result("positive", Grown(s, i, n).fs) ELSE Grown(s, i, n)
    <3> DEFINE o == Grown(s, i, n)
    <3>1. o.rv \in {"ok", "ENOSPC"} /\ SizeStep(s, o.fs, i)
      BY <1>0, <2>1, <2>2, GrownFacts
    <3> HIDE DEF o
    <3>2. out = IF o.rv = "ok" THEN Result("positive", o.fs) ELSE o
      BY <2>6 DEF o
    <3>3. out.fs = o.fs /\ out.rv \in {"positive", "ENOSPC"}
      BY <3>1, <3>2 DEF Result
    <3> QED
      BY <3>1, <3>3
  <2> QED
    BY <2>3, <2>4, <2>5, <2>6
<1> QED
  BY <1>2, <1>3

LEMMA WriteSizes ==
  ASSUME NEW s, Sane(s), NEW p \in Seq(Names), NEW n \in Nat, NEW out \in WriteOutcomes(s, p, n)
  PROVE  \/ out.rv \in {"ENOENT", "ENOTDIR", "EISDIR", "ok"} /\ out.fs = s
         \/ /\ out.rv \in {"ok", "ENOSPC"}
            /\ \E i : SizeStep(s, out.fs, i)
<1> DEFINE i == Resolve(s, p)
<1>0. s \in Images /\ UniqueTables(s) /\ Roomy(s)
  BY SaneTables DEF Sane, Roomy
<1>1. i \in Inums \cup Errors
  BY <1>0, ResolveFacts
<1>2. \/ out = Result(LookupError(i), s)
      \/ out = Result("EISDIR", s)
      \/ out = Result("ok", s)
      \/ ~(i < 0) /\ ~IsDir(s, i) /\ out = Grown(s, i, n)
  BY DEF WriteOutcomes
<1>3. CASE out = Result(LookupError(i), s)
  BY <1>3 DEF Result, LookupError
<1>4. CASE out = Result("EISDIR", s) \/ out = Result("ok", s)
  BY <1>4 DEF Result
<1>5. CASE ~(i < 0) /\ ~IsDir(s, i) /\ out = Grown(s, i, n)
  <2>1. i \in Inums
    BY <1>1, <1>5, ErrorFacts
  <2>2. p # <<>>
    <3> SUFFICES ASSUME p = <<>> PROVE FALSE
      OBVIOUS
    <3>1. i = ROOT_INUM
      BY ResolveUnfold
    <3> QED
      BY <1>5, <2>1, <3>1 DEF Sane, Rooted, IsDir
  <2>3. s.mode[i] = "file"
    BY <1>0, <1>5, <2>1, <2>2, LastLink, ImageFacts DEF IsDir
  <2> HIDE DEF i
  <2>4. out.rv \in {"ok", "ENOSPC"} /\ SizeStep(s, out.fs, i)
    BY <1>0, <1>5, <2>1, <2>3, GrownFacts
  <2> QED
    BY <2>4
<1> QED
  BY <1>2, <1>3, <1>4, <1>5

(* The root's ".." is there, and an add of ".." finds it before it finds a *)
(* hole it could reuse.                                                    *)
LEMMA RemountChangesNothing ==
  ASSUME NEW s, Sane(s), NEW out \in InitOutcomes(s)
  PROVE  out.rv = "ok" /\ out.fs = s
<1>0. s \in Images /\ ROOT_INUM \in Inums /\ TablesSound(s) /\ Room(s) \in BOOLEAN
  BY InumFacts DEF Sane, Room
<1> DEFINE d == s.table[ROOT_INUM]
<1>1. d \in Tables /\ d \in ImageTables /\ DotsFirst(d) /\ ROOT_INUM \in Nat
  BY <1>0, ImageFacts, InumFacts DEF TablesSound, Sound
<1>2. <<DotDot, ROOT_INUM>> \in Bound(d)
  BY DEF Sane, Rooted
<1>3. PICK a \in Adds(d, DotDot, ROOT_INUM, Room(s)) : out = Result("ok", SetTable(s, ROOT_INUM, a.table))
  BY DEF InitOutcomes
<1> HIDE DEF d
<1>4. AddStop(d, DotDot) \in Named(d, DotDot) \/ Live(d) \cap Named(d, DotDot) = {}
  BY <1>1, DotDotStop
<1>5. a.table = d
  BY <1>0, <1>1, <1>2, <1>3, <1>4, AddBinds
<1>6. SetTable(s, ROOT_INUM, d) = s
  BY <1>0, <1>1, SetTableFacts DEF d
<1> QED
  BY <1>3, <1>5, <1>6 DEF Result

(***************************************************************************)
(* The invariant.                                                          *)
(***************************************************************************)
IInv ==
  /\ rv \in Answers
  /\ Roomy(fs)
  /\ rv # "abort" => Sane(fs)

(* A root with its two entries, on a disk that has room for them.          *)
LEMMA NewRoot ==
  ASSUME NEW d, d = <<Entry(Dot, ROOT_INUM), Entry(DotDot, ROOT_INUM)>>
  PROVE  /\ d \in Tables /\ d \in ImageTables /\ Len(d) = 2
         /\ Sound(d) /\ Pruned(d)
         /\ Bound(d) = {<<Dot, ROOT_INUM>>, <<DotDot, ROOT_INUM>>}
<1>1. Dot \in EntryNames /\ DotDot \in EntryNames /\ ROOT_INUM \in Nat /\ ROOT_INUM \in Inums
  BY InumFacts DEF EntryNames
<1>2. /\ Entry(Dot, ROOT_INUM) \in EntryType /\ Entry(DotDot, ROOT_INUM) \in EntryType
      /\ Entry(Dot, ROOT_INUM).name = Dot /\ Entry(DotDot, ROOT_INUM).name = DotDot
      /\ Entry(Dot, ROOT_INUM).inum = ROOT_INUM /\ Entry(DotDot, ROOT_INUM).inum = ROOT_INUM
  BY <1>1, NewEntry
<1>3. /\ d \in Tables /\ Len(d) = 2
      /\ d[1] = Entry(Dot, ROOT_INUM) /\ d[2] = Entry(DotDot, ROOT_INUM)
  BY <1>2 DEF Tables
<1>4. 1 \in Live(d) /\ 2 \in Live(d)
  <2>1. 1 \in 1 .. Len(d) /\ 2 \in 1 .. Len(d)
    BY <1>3
  <2>2. d[1].inum \in Nat /\ d[2].inum \in Nat
    BY <1>1, <1>2, <1>3
  <2> QED
    BY <1>3, <2>1, <2>2, UseFacts
<1>5. Live(d) = {1, 2} /\ Holes(d) = {}
  BY <1>3, <1>4, TableFacts
<1>6. d[1].name = Dot /\ d[2].name = DotDot /\ Dot # DotDot
  BY <1>2, <1>3 DEF Dot, DotDot
<1>7. Unique(d) /\ Unhidden(d) /\ DotsFirst(d)
  BY <1>5, <1>6 DEF Unique, Unhidden, DotsFirst
<1>8. Bound(d) = {<<Dot, ROOT_INUM>>, <<DotDot, ROOT_INUM>>}
  BY <1>2, <1>3, <1>5 DEF Bound
<1>9. d \in ImageTables
  <2>1. \A n, i : <<n, i>> \in Bound(d) => i \in Inums
    BY <1>1, <1>8
  <2> QED
    BY <1>3, <2>1, ImageTableFacts
<1> QED
  BY <1>3, <1>4, <1>7, <1>8, <1>9 DEF Sound, Pruned

LEMMA TwoEntries == BlocksFor(2) <= DATA_BLOCKS /\ BlocksFor(2) \in Nat
<1>1. ENTRIES_PER_BLOCK \in Nat \ {0} /\ DATA_BLOCKS \in Nat \ {0}
  BY NamesAssumption, StorageAssumption
<1>2. BlocksFor(0) = 0 /\ BlocksFor(1) \in Nat /\ BlocksFor(2) \in Nat
  BY BlocksForFacts
<1>3. BlocksFor(0 + 1) = IF 0 % ENTRIES_PER_BLOCK = 0 THEN BlocksFor(0) + 1 ELSE BlocksFor(0)
  BY BlocksForFacts
<1>4. BlocksFor(1 + 1) = IF 1 % ENTRIES_PER_BLOCK = 0 THEN BlocksFor(1) + 1 ELSE BlocksFor(1)
  BY BlocksForFacts
<1>5. BlocksFor(1) <= 1
  BY <1>2, <1>3
<1>6. BlocksFor(2) <= BlocksFor(1) + 1
  BY <1>2, <1>4
<1>7. CASE DATA_BLOCKS >= 2
  BY <1>1, <1>2, <1>5, <1>6, <1>7
<1>8. CASE ENTRIES_PER_BLOCK >= 2
  <2>1. 1 % ENTRIES_PER_BLOCK = 1
    BY <1>1, <1>8
  <2>2. BlocksFor(2) = BlocksFor(1)
    BY <1>4, <2>1
  <2> QED
    BY <1>1, <1>2, <1>5, <2>2
<1> QED
  BY <1>7, <1>8, StorageAssumption

LEMMA InitSane == Init => IInv
<1> SUFFICES ASSUME Init PROVE IInv
  OBVIOUS
<1> DEFINE d == <<Entry(Dot, ROOT_INUM), Entry(DotDot, ROOT_INUM)>>
           s == fs
<1>0. ROOT_INUM \in Inums
  BY InumFacts
<1>1. /\ d \in Tables /\ d \in ImageTables /\ Len(d) = 2
      /\ Sound(d) /\ Pruned(d)
      /\ Bound(d) = {<<Dot, ROOT_INUM>>, <<DotDot, ROOT_INUM>>}
  BY NewRoot
<1>2. <<>> \in ImageTables
  BY NoEntries
<1> HIDE DEF d
<1>3. /\ s = [mode |-> [i \in Inums |-> IF i = ROOT_INUM THEN "dir" ELSE "free"],
              refs |-> [i \in Inums |-> 0],
              table |-> [i \in Inums |-> IF i = ROOT_INUM THEN d ELSE <<>>],
              len |-> [i \in Inums |-> 0]]
      /\ rv = "ok"
  BY DEF Init, d
<1> HIDE DEF s
<1>4. s \in Images
  BY <1>1, <1>2, <1>3 DEF Images, ImageTables
<1>5. \A i \in Inums : /\ s.mode[i] = IF i = ROOT_INUM THEN "dir" ELSE "free"
                       /\ s.refs[i] = 0 /\ s.len[i] = 0
                       /\ s.table[i] = IF i = ROOT_INUM THEN d ELSE <<>>
  BY <1>3
<1>6. \A i \in Inums : Bound(s.table[i]) = IF i = ROOT_INUM THEN {<<Dot, ROOT_INUM>>, <<DotDot, ROOT_INUM>>} ELSE {}
  BY <1>1, <1>5, NoEntries
<1>7. Links(s) = {}
  <2> SUFFICES ASSUME NEW l \in Links(s) PROVE FALSE
    OBVIOUS
  <2>1. l.dir \in Inums /\ l.name \in Names /\ <<l.name, l.object>> \in Bound(s.table[l.dir])
    BY LinkFacts
  <2>2. l.name = Dot \/ l.name = DotDot
    BY <1>6, <2>1
  <2> QED
    BY <2>1, <2>2, NamesAssumption
<1>8. \A i : LinksTo(s, i) = {}
  BY <1>7 DEF LinksTo
<1>9. FreeBlocks(s) \in Nat
  <2> DEFINE e == SetTable(s, ROOT_INUM, <<>>)
  <2>1. /\ e \in Images /\ e.len = s.len
        /\ \A j \in Inums : e.table[j] = IF j = ROOT_INUM THEN <<>> ELSE s.table[j]
    BY <1>0, <1>2, <1>4, SetTableFacts
  <2> HIDE DEF e
  <2>2. \A i \in Inums : BlocksOf(e, i) = 0
    <3> SUFFICES ASSUME NEW i \in Inums PROVE BlocksOf(e, i) = 0
      OBVIOUS
    <3>1. e.len[i] = 0 /\ Len(e.table[i]) = 0
      BY <1>5, <2>1
    <3> QED
      BY <2>1, <3>1, BlocksOfFacts, BlocksForFacts
  <2>3. BlocksInUse(e) = {}
    <3>1. \A i \in Inums : 1 .. BlocksOf(e, i) = {}
      BY <2>2
    <3>2. \A x : x \notin BlocksInUse(e)
      BY <3>1, UsedIs
    <3> QED
      BY <3>2
  <2>4. FreeBlocks(e) = DATA_BLOCKS
    BY <2>3, FS_EmptySet, StorageAssumption DEF FreeBlocks
  <2>5. BlocksOf(s, ROOT_INUM) = BlocksFor(2)
    <3>1. BlocksOf(s, ROOT_INUM) = s.len[ROOT_INUM] + BlocksFor(Len(s.table[ROOT_INUM]))
      BY <1>0, <1>4, BlocksOfFacts
    <3>2. s.len[ROOT_INUM] = 0 /\ s.table[ROOT_INUM] = d /\ Len(d) = 2
      BY <1>0, <1>1, <1>5
    <3> QED
      BY <3>1, <3>2, TwoEntries
  <2>6. \A j \in Inums \ {ROOT_INUM} : BlocksOf(s, j) = BlocksOf(e, j)
    BY <2>1 DEF BlocksOf
  <2>7. FreeBlocks(s) = FreeBlocks(e) - (BlocksOf(s, ROOT_INUM) - BlocksOf(e, ROOT_INUM))
    <3>1. BlocksOf(e, ROOT_INUM) <= BlocksOf(s, ROOT_INUM)
      BY <1>0, <2>2, <2>5, TwoEntries
    <3> QED
      BY <1>0, <1>4, <2>1, <2>6, <3>1, BlocksTaken
  <2> QED
    BY <1>0, <2>2, <2>4, <2>5, <2>7, TwoEntries, StorageAssumption
<1>10. TablesSound(s)
  BY <1>1, <1>5, NoEntries DEF TablesSound
<1>11. Clean(s)
  BY <1>5, <1>6 DEF Clean
<1>12. Rooted(s)
  BY <1>0, <1>5, <1>6, <1>8 DEF Rooted
<1>13. NoneDangles(s)
  <2> SUFFICES ASSUME NEW e \in Inums, NEW i \in Inums, NEW n, <<n, i>> \in Bound(s.table[e])
               PROVE  s.mode[i] # "free"
    BY DEF NoneDangles
  <2>1. i = ROOT_INUM
    BY <1>6
  <2> QED
    BY <1>0, <1>5, <2>1
<1>14. Counted(s)
  <2>1. IsFiniteSet({})
    BY FS_EmptySet
  <2> QED
    BY <1>5, <1>8, <2>1 DEF Counted
<1>15. Placed(s)
  BY <1>7 DEF Placed
<1>16. DotsRight(s)
  BY <1>6 DEF DotsRight
<1>17. Reached(s)
  BY <1>5 DEF Reached, Allocated
<1>18. Sane(s) /\ Roomy(s)
  BY <1>4, <1>9, <1>10, <1>11, <1>12, <1>13, <1>14, <1>15, <1>16, <1>17 DEF Sane, Roomy
<1> QED
  BY <1>3, <1>18 DEF IInv, Answers, s

(***************************************************************************)
(* What a handler does: refuse or change nothing, kill the daemon, change  *)
(* the tree, or change the size of a file.                                 *)
(***************************************************************************)
TreeStep(s, t) ==
  \/ \E d, n, i, k : MakeStep(s, t, d, n, i, k)
  \/ \E d, n, i : LinkStep(s, t, d, n, i)
  \/ \E d, n, i : UnlinkStep(s, t, d, n, i)
  \/ \E a, n, d, m, i : MoveStep(s, t, a, n, d, m, i)

Does(v, s, t) ==
  \/ v \in Answers \ {"abort"} /\ t = s
  \/ v = "abort" /\ Roomy(t)
  \/ v \in {"ok", "EPERM"} /\ TreeStep(s, t)
  \/ v \in {"ok", "positive", "ENOSPC"} /\ \E i : SizeStep(s, t, i)

LEMMA TreeStepSane ==
  ASSUME NEW s, NEW t, Sane(s), TreeStep(s, t)
  PROVE  Sane(t)
  BY MakeSane, LinkSane, UnlinkSane, MoveSane DEF TreeStep

LEMMA HandlerDoes ==
  ASSUME Sane(fs), Next
  PROVE  Does(rv', fs, fs')
<1> USE PathsAreNames DEF Answers
<1>1. ASSUME NEW p \in Paths, NEW k \in {"file", "dir"}, Mknod(p, k) PROVE Does(rv', fs, fs')
  <2>1. p \in Seq(Names) /\ p # <<>> /\ IsDir(fs, Parent(fs, p))
    BY <1>1 DEF Mknod, ParentIsDir
  <2>2. PICK out \in MknodOutcomes(fs, p, k) : fs' = out.fs /\ rv' = out.rv
    BY <1>1 DEF Mknod, Answer
  <2> QED
    BY <2>1, <2>2, MknodMakes DEF Does, TreeStep
<1>2. ASSUME NEW from \in Paths, NEW to \in Paths, Hardlink(from, to) PROVE Does(rv', fs, fs')
  <2>1. /\ from \in Seq(Names) /\ to \in Seq(Names) /\ from # <<>> /\ to # <<>>
        /\ IsDir(fs, Parent(fs, to)) /\ ~IsDir(fs, Resolve(fs, from))
    BY <1>2 DEF Hardlink, ParentIsDir, NotDir
  <2>2. PICK out \in LinkOutcomes(fs, from, to) : fs' = out.fs /\ rv' = out.rv
    BY <1>2 DEF Hardlink, Answer
  <2>3. \/ out.rv \in {"ENOENT", "EEXIST", "ENOSPC", "ENAMETOOLONG"} /\ out.fs = fs
        \/ /\ out.rv = "ok"
           /\ Resolve(fs, from) \in Inums
           /\ Unbound(fs, Parent(fs, to), Last(to))
           /\ LinkedBy(fs, out.fs, Parent(fs, to), Last(to), Resolve(fs, from))
    BY <2>1, <2>2, LinkAdds
  <2>4. ASSUME Resolve(fs, from) \in Inums PROVE fs.mode[Resolve(fs, from)] = "file"
    <3>1. fs.mode[Resolve(fs, from)] # "free"
      BY <2>1, <2>4, LastLink
    <3>2. fs.mode[Resolve(fs, from)] # "dir"
      BY <2>1, <2>4 DEF IsDir
    <3> QED
      BY <2>4, <3>1, <3>2, ImageFacts DEF Sane
  <2>5. Last(to) \in Names
    BY <2>1, PathFacts
  <2> QED
    BY <2>1, <2>2, <2>3, <2>4, <2>5, HardlinkLinks DEF Does, TreeStep
<1>3. ASSUME NEW p \in Paths, Unlink(p) PROVE Does(rv', fs, fs')
  <2>1. p \in Seq(Names) /\ p # <<>> /\ ~IsDir(fs, Resolve(fs, p))
    BY <1>3 DEF Unlink, NotDir
  <2>2. PICK out \in UnlinkOutcomes(fs, p) : fs' = out.fs /\ rv' = out.rv
    BY <1>3 DEF Unlink, Answer
  <2> QED
    BY <2>1, <2>2, UnlinkOutcome DEF Does, TreeStep
<1>4. ASSUME NEW from \in Paths, NEW to \in Paths, Rename(from, to) PROVE Does(rv', fs, fs')
  <2>1. /\ from \in Seq(Names) /\ to \in Seq(Names) /\ from # <<>> /\ to # <<>>
        /\ IsDir(fs, Parent(fs, to)) /\ ~IsPrefix(from, to)
    BY <1>4 DEF Rename, MayRename, ParentIsDir
  <2>2. PICK out \in RenameOutcomes(fs, from, to) : fs' = out.fs /\ rv' = out.rv
    BY <1>4 DEF Rename, Answer
  <2> QED
    BY <2>1, <2>2, RenameMoves DEF Does, TreeStep
<1>5. ASSUME NEW p \in Paths, Rmdir(p) PROVE Does(rv', fs, fs')
  <2>1. p \in Seq(Names) /\ p # <<>>
    BY <1>5 DEF Rmdir
  <2>2. PICK out \in RmdirOutcomes(fs, p) : fs' = out.fs /\ rv' = out.rv
    BY <1>5 DEF Rmdir, Answer
  <2> QED
    BY <2>1, <2>2, RmdirOutcome DEF Does, TreeStep
<1>6. ASSUME NEW p \in Paths, NEW n \in 0 .. MaxFileBlocks, Truncate(p, n) PROVE Does(rv', fs, fs')
  <2>1. p \in Seq(Names) /\ p # <<>> /\ ~IsDir(fs, Resolve(fs, p)) /\ n \in Nat
    BY <1>6 DEF Truncate, NotDir
  <2>2. PICK out \in TruncateOutcomes(fs, p, n) : fs' = out.fs /\ rv' = out.rv
    BY <1>6 DEF Truncate, Answer
  <2> QED
    BY <2>1, <2>2, TruncateSizes DEF Does
<1>7. ASSUME NEW p \in Paths, NEW n \in 1 .. MaxFileBlocks, Write(p, n) PROVE Does(rv', fs, fs')
  <2>1. p \in Seq(Names) /\ n \in Nat
    BY <1>7
  <2>2. PICK out \in WriteOutcomes(fs, p, n) : fs' = out.fs /\ rv' = out.rv
    BY <1>7 DEF Write, Answer
  <2> QED
    BY <2>1, <2>2, WriteSizes DEF Does
<1>8. ASSUME Remount PROVE Does(rv', fs, fs')
  <2>2. PICK out \in InitOutcomes(fs) : fs' = out.fs /\ rv' = out.rv
    BY <1>8 DEF Remount, Answer
  <2> QED
    BY <2>2, RemountChangesNothing DEF Does
<1> QED
  BY <1>1, <1>2, <1>3, <1>4, <1>5, <1>6, <1>7, <1>8 DEF Next

LEMMA NextIInv == IInv /\ [Next]_vars => IInv'
<1> SUFFICES ASSUME IInv, [Next]_vars PROVE IInv'
  OBVIOUS
<1>1. CASE UNCHANGED vars
  <2>1. fs' = fs /\ rv' = rv
    BY <1>1 DEF vars
  <2> QED
    BY <2>1 DEF IInv
<1>2. CASE Next
  <2>1. rv # "abort"
    BY <1>2 DEF Next, Mknod, Hardlink, Unlink, Rename, Rmdir, Truncate, Write, Remount, Answer
  <2>2. Sane(fs) /\ Roomy(fs)
    BY <2>1 DEF IInv
  <2>3. Does(rv', fs, fs')
    BY <1>2, <2>2, HandlerDoes
  <2>4. rv' \in Answers /\ Roomy(fs') /\ (rv' # "abort" => Sane(fs'))
    <3>1. CASE rv' \in Answers \ {"abort"} /\ fs' = fs
      BY <2>2, <3>1
    <3>2. CASE rv' = "abort" /\ Roomy(fs')
      BY <3>2 DEF Answers
    <3>3. CASE rv' \in {"ok", "EPERM"} /\ TreeStep(fs, fs')
      <4>1. Sane(fs')
        BY <2>2, <3>3, TreeStepSane
      <4> QED
        BY <3>3, <4>1 DEF Answers, Sane, Roomy
    <3>4. CASE rv' \in {"ok", "positive", "ENOSPC"} /\ \E i : SizeStep(fs, fs', i)
      <4>1. Sane(fs')
        BY <2>2, <3>4, SizeSane
      <4> QED
        BY <3>4, <4>1 DEF Answers, Sane, Roomy
    <3> QED
      BY <2>3, <3>1, <3>2, <3>3, <3>4 DEF Does
  <2> QED
    BY <2>4 DEF IInv, Answers
<1> QED
  BY <1>1, <1>2

(***************************************************************************)
(* The entries of the tables and the links they make.                      *)
(***************************************************************************)
SlotLink(s, x) == Link(x[1], s.table[x[1]][x[2]].name, s.table[x[1]][x[2]].inum)

LEMMA SlotFacts ==
  ASSUME NEW s, Sane(s)
  PROVE  /\ \A x \in Slots(s) : SlotLink(s, x) \in Links(s)
         /\ \A x, y \in Slots(s) : SlotLink(s, x) = SlotLink(s, y) => x = y
         /\ \A l \in Links(s) : \E x \in Slots(s) : SlotLink(s, x) = l
<1>0. s \in Images
  BY DEF Sane
<1>1. \A x : x \in Slots(s) <=>
           \E d \in Dirs(s) : \E k \in Live(s.table[d]) :
             x = <<d, k>> /\ s.table[d][k].name \notin {Dot, DotDot}
  BY DEF Slots
<1>2. ASSUME NEW d \in Inums, NEW k \in Live(s.table[d])
      PROVE  /\ <<s.table[d][k].name, s.table[d][k].inum>> \in Bound(s.table[d])
             /\ s.table[d][k].name \in EntryNames
             /\ s.table[d][k].inum \in Inums
  <2>1. <<s.table[d][k].name, s.table[d][k].inum>> \in Bound(s.table[d])
    BY DEF Bound
  <2>2. s.table[d] \in Tables /\ s.table[d] \in ImageTables
    BY <1>0, ImageFacts
  <2> QED
    BY <2>1, <2>2, BoundFacts, ImageTableFacts
<1>3. \A n \in EntryNames : n \notin {Dot, DotDot} => n \in Names
  BY DEF EntryNames
<1>4. ASSUME NEW x \in Slots(s) PROVE SlotLink(s, x) \in Links(s)
  <2>1. PICK d \in Dirs(s) : \E k \in Live(s.table[d]) :
             x = <<d, k>> /\ s.table[d][k].name \notin {Dot, DotDot}
    BY <1>1
  <2>2. PICK k \in Live(s.table[d]) : x = <<d, k>> /\ s.table[d][k].name \notin {Dot, DotDot}
    BY <2>1
  <2>3. d \in Inums
    BY DEF Dirs
  <2>4. /\ <<s.table[d][k].name, s.table[d][k].inum>> \in Bound(s.table[d])
        /\ s.table[d][k].name \in Names /\ s.table[d][k].inum \in Inums
    BY <1>2, <1>3, <2>2, <2>3
  <2>5. SlotLink(s, x) = Link(d, s.table[d][k].name, s.table[d][k].inum)
    BY <2>2 DEF SlotLink
  <2> QED
    BY <2>3, <2>4, <2>5, LinkFacts
<1>5. ASSUME NEW x \in Slots(s), NEW y \in Slots(s), SlotLink(s, x) = SlotLink(s, y)
      PROVE  x = y
  <2>1. PICK d \in Dirs(s) : \E k \in Live(s.table[d]) : x = <<d, k>>
    BY <1>1
  <2>2. PICK k \in Live(s.table[d]) : x = <<d, k>>
    BY <2>1
  <2>3. PICK e \in Dirs(s) : \E j \in Live(s.table[e]) : y = <<e, j>>
    BY <1>1
  <2>4. PICK j \in Live(s.table[e]) : y = <<e, j>>
    BY <2>3
  <2>5. d = e /\ s.table[d][k].name = s.table[e][j].name
    BY <1>5, <2>2, <2>4, LinkSame DEF SlotLink
  <2>6. Unique(s.table[d])
    BY DEF Sane, TablesSound, Sound, Dirs
  <2> QED
    BY <2>2, <2>4, <2>5, <2>6 DEF Unique
<1>6. ASSUME NEW l \in Links(s) PROVE \E x \in Slots(s) : SlotLink(s, x) = l
  <2> DEFINE d == l.dir
  <2>1. /\ l = Link(d, l.name, l.object) /\ d \in Inums /\ l.name \in Names
        /\ <<l.name, l.object>> \in Bound(s.table[d])
    BY LinkFacts
  <2>2. s.table[d] \in Tables
    BY <1>0, <2>1, ImageFacts
  <2>3. PICK k \in Live(s.table[d]) : s.table[d][k].name = l.name /\ s.table[d][k].inum = l.object
    BY <2>1, <2>2, BoundFacts
  <2>4. d \in Dirs(s)
    BY LinkDirs DEF IsDir, Dirs
  <2>5. l.name \notin {Dot, DotDot}
    BY <2>1, NamesAssumption
  <2>6. <<d, k>> \in Slots(s)
    BY <1>1, <2>3, <2>4, <2>5
  <2>7. SlotLink(s, <<d, k>>) = l
    BY <2>1, <2>3 DEF SlotLink
  <2> QED
    BY <2>6, <2>7
<1> QED
  BY <1>4, <1>5, <1>6

LEMMA SlotsAreLinks ==
  ASSUME NEW s, Sane(s)
  PROVE  {SlotLink(s, x) : x \in Slots(s)} = Links(s)
  BY SlotFacts

(* An inode has as many entries as links.                                  *)
LEMMA SlotsCounted ==
  ASSUME NEW s, Sane(s), NEW i, IsFiniteSet(LinksTo(s, i))
  PROVE  /\ IsFiniteSet(SlotsOf(s, i))
         /\ Cardinality(SlotsOf(s, i)) = Cardinality(LinksTo(s, i))
<1>1. \A x \in Slots(s) : SlotLink(s, x).object = s.table[x[1]][x[2]].inum
  BY DEF SlotLink, Link
<1> DEFINE Of(l) == CHOOSE x \in Slots(s) : SlotLink(s, x) = l
           f == [l \in LinksTo(s, i) |-> Of(l)]
<1>2. ASSUME NEW l \in LinksTo(s, i) PROVE Of(l) \in SlotsOf(s, i) /\ SlotLink(s, Of(l)) = l
  <2>1. l \in Links(s) /\ l.object = i
    BY DEF LinksTo
  <2>2. Of(l) \in Slots(s) /\ SlotLink(s, Of(l)) = l
    BY <2>1, SlotFacts
  <2> HIDE DEF Of
  <2> QED
    BY <1>1, <2>1, <2>2 DEF SlotsOf
<1> HIDE DEF Of
<1>3. \A l, m \in LinksTo(s, i) : f[l] = f[m] => l = m
  BY <1>2
<1>4. ASSUME NEW x \in SlotsOf(s, i) PROVE \E l \in LinksTo(s, i) : f[l] = x
  <2>1. x \in Slots(s) /\ s.table[x[1]][x[2]].inum = i
    BY DEF SlotsOf
  <2> DEFINE l == SlotLink(s, x)
  <2>2. l \in LinksTo(s, i)
    BY <1>1, <2>1, SlotFacts DEF LinksTo
  <2>3. Of(l) = x
    <3>1. Of(l) \in Slots(s) /\ SlotLink(s, Of(l)) = l
      BY <1>2, <2>2 DEF SlotsOf
    <3> QED
      BY <2>1, <3>1, SlotFacts
  <2> QED
    BY <2>2, <2>3
<1>5. f \in [LinksTo(s, i) -> SlotsOf(s, i)]
  BY <1>2
<1>6. f \in Bijection(LinksTo(s, i), SlotsOf(s, i))
  BY <1>3, <1>4, <1>5 DEF Bijection, Injection, Surjection, IsInjective
<1>7. ExistsBijection(LinksTo(s, i), SlotsOf(s, i))
  BY <1>6 DEF ExistsBijection
<1> QED
  BY <1>7, FS_Bijection

(***************************************************************************)
(* What holds of the tree between two handlers.                            *)
(***************************************************************************)
LEMMA SaneCounts ==
  ASSUME NEW s, Sane(s), NEW i \in Allocated(s) \ {ROOT_INUM}
  PROVE  s.refs[i] = Cardinality(SlotsOf(s, i)) /\ s.refs[i] >= 1
<1>1. i \in Inums /\ s.mode[i] # "free"
  BY DEF Allocated
<1>2. IsFiniteSet(LinksTo(s, i)) /\ s.refs[i] = Cardinality(LinksTo(s, i)) /\ s.refs[i] >= 1
  BY <1>1 DEF Sane, Counted
<1> QED
  BY <1>2, SlotsCounted

LEMMA SaneEntries ==
  ASSUME NEW s, Sane(s), NEW d \in Dirs(s), NEW k \in Live(s.table[d])
  PROVE  s.table[d][k].inum \in Allocated(s)
<1>1. d \in Inums /\ s \in Images
  BY DEF Dirs, Sane
<1>2. <<s.table[d][k].name, s.table[d][k].inum>> \in Bound(s.table[d])
  BY DEF Bound
<1>3. s.table[d][k].inum \in Inums
  BY <1>1, <1>2, ImageFacts, ImageTableFacts
<1>4. s.mode[s.table[d][k].inum] # "free"
  BY <1>1, <1>2, <1>3 DEF Sane, NoneDangles
<1> QED
  BY <1>3, <1>4 DEF Allocated

LEMMA SaneDots ==
  ASSUME NEW s, Sane(s), NEW d \in Dirs(s)
  PROVE  /\ LookupInum(s.table[d], Dot) \in {d, Unused}
         /\ \/ LookupInum(s.table[d], DotDot) = Unused
            \/ d = ROOT_INUM /\ LookupInum(s.table[d], DotDot) = ROOT_INUM
            \/ \E x \in SlotsOf(s, d) : x[1] = LookupInum(s.table[d], DotDot)
<1>1. d \in Inums /\ s \in Images
  BY DEF Dirs, Sane
<1>2. s.table[d] \in Tables /\ s.table[d] \in ImageTables /\ Unique(s.table[d])
  BY <1>1, ImageFacts DEF Sane, TablesSound, Sound
<1>3. \A n : LookupInum(s.table[d], n) = Unused \/ <<n, LookupInum(s.table[d], n)>> \in Bound(s.table[d])
  BY <1>2, LookupBound
<1>4. \A n, i : <<n, i>> \in Bound(s.table[d]) => i \in Inums
  BY <1>2, ImageTableFacts
<1>5. LookupInum(s.table[d], Dot) \in {d, Unused}
  BY <1>1, <1>3, <1>4 DEF Sane, DotsRight
<1> DEFINE i == LookupInum(s.table[d], DotDot)
<1>6. i = Unused \/ (<<DotDot, i>> \in Bound(s.table[d]) /\ i \in Inums)
  BY <1>3, <1>4
<1> HIDE DEF i
<1>7. CASE <<DotDot, i>> \in Bound(s.table[d]) /\ i \in Inums
  <2>1. (d = ROOT_INUM /\ i = ROOT_INUM) \/ \E n \in Names : Link(i, n, d) \in Links(s)
    BY <1>1, <1>7 DEF Sane, DotsRight
  <2>2. ASSUME NEW n \in Names, Link(i, n, d) \in Links(s) PROVE \E x \in SlotsOf(s, d) : x[1] = i
    <3>1. PICK x \in Slots(s) : SlotLink(s, x) = Link(i, n, d)
      BY <2>2, SlotFacts
    <3>2. x[1] = i /\ s.table[x[1]][x[2]].inum = d
      BY <3>1, LinkSame DEF SlotLink
    <3> QED
      BY <3>2 DEF SlotsOf
  <2> QED
    BY <1>5, <2>1, <2>2 DEF i
<1> QED
  BY <1>5, <1>6, <1>7 DEF i

LEMMA SaneReach ==
  ASSUME NEW s, Sane(s), NEW S \in SUBSET Inums, ROOT_INUM \in S, ClosedUnderLinks(s, S)
  PROVE  Allocated(s) \subseteq S
<1>1. Closed(s, S)
  <2> SUFFICES ASSUME NEW l \in Links(s), l.dir \in S PROVE l.object \in S
    BY DEF Closed
  <2>1. PICK x \in Slots(s) : SlotLink(s, x) = l
    BY SlotFacts
  <2>2. l.dir = x[1] /\ l.object = s.table[x[1]][x[2]].inum
    BY <2>1 DEF SlotLink, Link
  <2> QED
    BY <2>1, <2>2 DEF ClosedUnderLinks
<1> QED
  BY <1>1 DEF Sane, Reached

LEMMA SanePlace ==
  ASSUME NEW s, Sane(s), NEW d \in Dirs(s)
  PROVE  Cardinality(SlotsOf(s, d)) <= 1
<1>1. \A x, y \in SlotsOf(s, d) : x = y
  <2> SUFFICES ASSUME NEW x \in SlotsOf(s, d), NEW y \in SlotsOf(s, d) PROVE x = y
    OBVIOUS
  <2>1. x \in Slots(s) /\ y \in Slots(s) /\ SlotLink(s, x).object = d /\ SlotLink(s, y).object = d
    BY DEF SlotsOf, SlotLink, Link
  <2>2. SlotLink(s, x) \in Links(s) /\ SlotLink(s, y) \in Links(s)
    BY <2>1, SlotFacts
  <2>3. SlotLink(s, x) = SlotLink(s, y)
    BY <2>1, <2>2 DEF Sane, Placed, Dirs
  <2> QED
    BY <2>1, <2>3, SlotFacts
<1>2. CASE SlotsOf(s, d) = {}
  BY <1>2, FS_EmptySet
<1>3. CASE SlotsOf(s, d) # {}
  <2>1. PICK x \in SlotsOf(s, d) : TRUE
    BY <1>3
  <2>2. SlotsOf(s, d) = {x}
    BY <1>1, <2>1
  <2>3. Cardinality({x}) = 1
    BY FS_Singleton
  <2> QED
    BY <2>2, <2>3
<1> QED
  BY <1>2, <1>3

(* Every call leaves the tree sane, unless it kills the daemon.            *)
THEOREM StorageInvariant == Spec => []IInv
<1>1. Init => IInv
  BY InitSane
<1>2. IInv /\ [Next]_vars => IInv'
  BY NextIInv
<1> QED
  BY <1>1, <1>2, PTL DEF Spec

(* The image has its type and never holds more blocks than the disk has,   *)
(* whatever calls filled it, refused for lack of room half way or not.     *)
THEOREM ImageTyped == Spec => []TypeOK
<1>1. IInv => TypeOK
  BY DEF IInv, TypeOK, Roomy
<1> QED
  BY <1>1, StorageInvariant, PTL

(* The reference count of an inode is the number of its names: no sequence *)
(* of links, unlinks, renames and failed calls moves them apart, so no     *)
(* inode is freed that has a name and none is kept that has none.          *)
THEOREM RefsCount == Spec => []RefsCountLinks
<1>1. IInv => RefsCountLinks
  BY SaneCounts DEF IInv, RefsCountLinks
<1> QED
  BY <1>1, StorageInvariant, PTL

(* No entry stands for a free inode: what inode_get asserts holds.         *)
THEOREM NothingDangles == Spec => []NoDanglingEntry
<1>1. IInv => NoDanglingEntry
  BY SaneEntries DEF IInv, NoDanglingEntry
<1> QED
  BY <1>1, StorageInvariant, PTL

(* "." is the directory and ".." its parent, if there is one at all, after *)
(* any number of renames.                                                  *)
THEOREM DotsHold == Spec => []DotsAreRight
<1>1. IInv => DotsAreRight
  BY SaneDots DEF IInv, DotsAreRight
<1> QED
  BY <1>1, StorageInvariant, PTL

(* Every inode in use is reached from the root.                            *)
THEOREM NothingIsLost == Spec => []NoOrphan
<1>1. IInv => NoOrphan
  BY SaneReach DEF IInv, NoOrphan
<1> QED
  BY <1>1, StorageInvariant, PTL

(* A directory never has two names.                                        *)
THEOREM DirectoriesHaveOnePlace == Spec => []OnePlace
<1>1. IInv => OnePlace
  BY SanePlace DEF IInv, OnePlace
<1> QED
  BY <1>1, StorageInvariant, PTL

(* An answer that is an error leaves the image as it was: storage_mknod    *)
(* and storage_rename undo what they did before they failed.               *)
THEOREM FailedCallsUndone == Spec => ErrorChangesNothing
<1>1. IInv /\ [Next]_vars =>
        [rv' \notin {"ok", "positive", "EPERM", "abort"} =>
           fs' = fs \/ (rv' = "ENOSPC" /\ [fs' EXCEPT !.len = fs.len] = fs)]_vars
  <2> SUFFICES ASSUME IInv, Next, rv' \notin {"ok", "positive", "EPERM", "abort"}
               PROVE  fs' = fs \/ (rv' = "ENOSPC" /\ [fs' EXCEPT !.len = fs.len] = fs)
    OBVIOUS
  <2>1. Sane(fs)
    BY DEF IInv, Next, Mknod, Hardlink, Unlink, Rename, Rmdir, Truncate, Write, Remount, Answer
  <2>2. Does(rv', fs, fs')
    BY <2>1, HandlerDoes
  <2> QED
    BY <2>2 DEF Does, SizeStep
<1> QED
  BY <1>1, StorageInvariant, PTL DEF Spec, ErrorChangesNothing

(* Mounting an image again changes nothing: the root's ".." is where       *)
(* directory_init_root would add it.                                       *)
THEOREM RemountIsSafe == Spec => RemountKeeps
<1>1. IInv /\ [Next]_vars => [Remount => fs' = fs]_vars
  <2> SUFFICES ASSUME IInv, Remount PROVE fs' = fs
    OBVIOUS
  <2>1. Sane(fs)
    BY DEF IInv, Remount, Answer
  <2>2. PICK out \in InitOutcomes(fs) : fs' = out.fs
    BY DEF Remount, Answer
  <2> QED
    BY <2>1, <2>2, RemountChangesNothing
<1> QED
  BY <1>1, StorageInvariant, PTL DEF Spec, RemountKeeps

(***************************************************************************)
(* The tree that FileTree is about.                                        *)
(***************************************************************************)
Kinds(s) == [i \in Allocated(s) |-> s.mode[i]]
SlotLinks(s) == {SlotLink(s, x) : x \in Slots(s)}

LEMMA TreeActions ==
  /\ Tree!Init <=> Kinds(fs) = [o \in {ROOT_INUM} |-> "dir"] /\ SlotLinks(fs) = {}
  /\ Tree!Gained = {l \in SlotLinks(fs') \ SlotLinks(fs) :
                      l.dir \in DOMAIN Kinds(fs) /\ l.name \in Names /\ l.object \in Inums}
  /\ Tree!Lost = SlotLinks(fs) \ SlotLinks(fs')
  /\ Tree!Existing = DOMAIN Kinds(fs)
  /\ \A d, n : Tree!Free(d, n) <=>
       Kinds(fs)[d] = "dir" /\ ~ \E l \in SlotLinks(fs) : l.dir = d /\ l.name = n
  /\ \A l, k : Tree!Make(l, k) <=>
       /\ Tree!Free(l.dir, l.name)
       /\ l.object \notin DOMAIN Kinds(fs)
       /\ Kinds(fs') = [x \in DOMAIN Kinds(fs) \cup {l.object} |->
                          IF x = l.object THEN k ELSE Kinds(fs)[x]]
       /\ SlotLinks(fs') = SlotLinks(fs) \cup {l}
  /\ \A l : Tree!AddLink(l) <=>
       /\ Tree!Free(l.dir, l.name)
       /\ Kinds(fs)[l.object] = "file"
       /\ SlotLinks(fs') = SlotLinks(fs) \cup {l}
       /\ Kinds(fs') = Kinds(fs)
  /\ \A l : Tree!RemoveLink(l) <=>
       /\ SlotLinks(fs') = SlotLinks(fs) \ {l}
       /\ Kinds(fs') = [x \in DOMAIN Kinds(fs) \
                              (IF {m \in SlotLinks(fs) : m.object = l.object} = {l} THEN {l.object} ELSE {})
                          |-> Kinds(fs)[x]]
       /\ Kinds(fs)[l.object] = "dir" => {m \in SlotLinks(fs) : m.dir = l.object} = {}
  /\ \A l, m : Tree!Move(l, m) <=>
       /\ l.object = m.object
       /\ Tree!Free(m.dir, m.name)
       /\ SlotLinks(fs') = (SlotLinks(fs) \ {l}) \cup {m}
       /\ Kinds(fs') = Kinds(fs)
BY DEF Kinds, SlotLinks, SlotLink, Link, Tree!Init, Tree!Gained, Tree!Lost, Tree!Existing, Tree!Free,
       Tree!Make, Tree!AddLink, Tree!RemoveLink, Tree!Move, Tree!LinksOf, Tree!LinksIn

LEMMA KindsFacts ==
  ASSUME NEW s, Sane(s)
  PROVE  /\ SlotLinks(s) = Links(s)
         /\ DOMAIN Kinds(s) = Allocated(s)
         /\ \A i \in Allocated(s) : Kinds(s)[i] = s.mode[i]
  BY SlotsAreLinks DEF SlotLinks, Kinds

(* A name that is not bound in a directory is free there.                  *)
LEMMA UnboundIsFree ==
  ASSUME Sane(fs), NEW d \in Inums, fs.mode[d] = "dir", NEW n, Unbound(fs, d, n)
  PROVE  Tree!Free(d, n)
<1>1. d \in Allocated(fs) /\ Kinds(fs)[d] = "dir"
  BY KindsFacts DEF Allocated
<1>2. ASSUME NEW l \in Links(fs), l.dir = d, l.name = n PROVE FALSE
  <2>1. <<n, l.object>> \in Bound(fs.table[d])
    BY <1>2, LinkFacts
  <2> QED
    BY <2>1 DEF Unbound
<1> QED
  BY <1>1, <1>2, KindsFacts, TreeActions

(* A link that was not there and is between objects of the tree is gained. *)
LEMMA NewLinkGained ==
  ASSUME Sane(fs), Sane(fs'), NEW d \in Allocated(fs), NEW n \in Names, NEW i \in Inums,
         Unbound(fs, d, n), Link(d, n, i) \in Links(fs')
  PROVE  Link(d, n, i) \in Tree!Gained
<1>1. Link(d, n, i) \notin Links(fs)
  BY LinkFacts DEF Unbound
<1>2. /\ SlotLinks(fs) = Links(fs) /\ SlotLinks(fs') = Links(fs')
      /\ DOMAIN Kinds(fs) = Allocated(fs)
  BY KindsFacts
<1> HIDE DEF SlotLinks
<1>3. Link(d, n, i).dir = d /\ Link(d, n, i).name = n /\ Link(d, n, i).object = i
  BY LinkFacts
<1> DEFINE l == Link(d, n, i)
<1> HIDE DEF l
<1>4. l \in Tree!Gained
  BY <1>1, <1>2, <1>3, TreeActions DEF l
<1> QED
  BY <1>4 DEF l

LEMMA MakeIsMake ==
  ASSUME Sane(fs), Sane(fs'), NEW d, NEW n, NEW i, NEW k, MakeStep(fs, fs', d, n, i, k)
  PROVE  Tree!Next
<1>1. /\ d \in Inums /\ n \in Names /\ i \in Inums /\ k \in {"file", "dir"}
      /\ fs.mode[d] = "dir" /\ fs.mode[i] = "free" /\ Unbound(fs, d, n)
      /\ \A e \in Inums \ {i} : fs'.mode[e] = fs.mode[e]
      /\ fs'.mode[i] = k
  BY DEF MakeStep
<1>2. Links(fs') = Links(fs) \cup {Link(d, n, i)}
  BY MakeLinks
<1> DEFINE l == Link(d, n, i)
<1>3. l.dir = d /\ l.name = n /\ l.object = i
  BY LinkFacts
<1>4. l \in Tree!Gained
  BY <1>1, <1>2, NewLinkGained DEF Allocated
<1> HIDE DEF l
<1>5. Allocated(fs') = Allocated(fs) \cup {i} /\ i \notin Allocated(fs)
  BY <1>1 DEF Allocated
<1>6. Kinds(fs') = [x \in DOMAIN Kinds(fs) \cup {l.object} |-> IF x = l.object THEN k ELSE Kinds(fs)[x]]
  <2>1. \A x \in Allocated(fs) : fs'.mode[x] = fs.mode[x]
    BY <1>1, <1>5 DEF Allocated
  <2>2. DOMAIN Kinds(fs) = Allocated(fs) /\ \A x \in Allocated(fs) : Kinds(fs)[x] = fs.mode[x]
    BY KindsFacts
  <2> QED
    BY <1>1, <1>3, <1>5, <2>1, <2>2 DEF Kinds
<1>7. SlotLinks(fs') = SlotLinks(fs) \cup {l}
  BY <1>2, KindsFacts DEF l
<1>8. Tree!Free(l.dir, l.name) /\ l.object \notin DOMAIN Kinds(fs)
  BY <1>1, <1>3, <1>5, UnboundIsFree, KindsFacts
<1>9. Tree!Make(l, k)
  BY <1>6, <1>7, <1>8, TreeActions
<1> QED
  BY <1>1, <1>4, <1>9 DEF Tree!Next

LEMMA LinkIsAddLink ==
  ASSUME Sane(fs), Sane(fs'), NEW d, NEW n, NEW i, LinkStep(fs, fs', d, n, i)
  PROVE  Tree!Next
<1>1. /\ d \in Inums /\ n \in Names /\ i \in Inums
      /\ fs.mode[d] = "dir" /\ fs.mode[i] = "file" /\ Unbound(fs, d, n)
      /\ fs'.mode = fs.mode
  BY DEF LinkStep
<1>2. Links(fs') = Links(fs) \cup {Link(d, n, i)}
  BY LinkLinks
<1> DEFINE l == Link(d, n, i)
<1>3. l.dir = d /\ l.name = n /\ l.object = i
  BY LinkFacts
<1>4. l \in Tree!Gained
  BY <1>1, <1>2, NewLinkGained DEF Allocated
<1> HIDE DEF l
<1>5. Kinds(fs') = Kinds(fs)
  BY <1>1 DEF Kinds, Allocated
<1>6. SlotLinks(fs') = SlotLinks(fs) \cup {l}
  BY <1>2, KindsFacts DEF l
<1>7. Tree!Free(l.dir, l.name) /\ l.object \in Allocated(fs)
  BY <1>1, <1>3, UnboundIsFree DEF Allocated
<1>8. Tree!AddLink(l) /\ l.object \in Tree!Existing
  BY <1>1, <1>3, <1>5, <1>6, <1>7, TreeActions, KindsFacts
<1> QED
  BY <1>4, <1>8 DEF Tree!Next

LEMMA UnlinkIsRemoveLink ==
  ASSUME Sane(fs), Sane(fs'), NEW d, NEW n, NEW i, UnlinkStep(fs, fs', d, n, i)
  PROVE  Tree!Next
<1>1. /\ i \in Inums
      /\ \A e \in Inums \ {i} : fs'.mode[e] = fs.mode[e]
      /\ fs.refs[i] > 1 => fs'.mode[i] = fs.mode[i]
      /\ ~(fs.refs[i] > 1) => fs'.mode[i] = "free"
  BY DEF UnlinkStep
<1> DEFINE l == Link(d, n, i)
<1>2. /\ Links(fs') = Links(fs) \ {l} /\ l \in Links(fs)
      /\ fs.mode[i] # "free" /\ i # ROOT_INUM
      /\ \A m \in Links(fs) : m.dir # i
  BY UnlinkLinks
<1>3. l.object = i
  BY LinkFacts
<1> HIDE DEF l
<1>4. l \in Tree!Lost
  BY <1>2, KindsFacts, TreeActions
<1>5. fs.refs[i] > 1 <=> LinksTo(fs, i) # {l}
  <2>1. /\ IsFiniteSet(LinksTo(fs, i))
        /\ fs.refs[i] = Cardinality(LinksTo(fs, i)) /\ fs.refs[i] >= 1
    BY <1>1, <1>2 DEF Sane, Counted
  <2>2. Cardinality(LinksTo(fs, i)) \in Nat
    BY <2>1, FS_CardinalityType
  <2>3. l \in LinksTo(fs, i)
    BY <1>2, <1>3 DEF LinksTo
  <2>4. Cardinality(LinksTo(fs, i)) = 1 <=> \E x : LinksTo(fs, i) = {x}
    BY <2>1, FS_Singleton
  <2>5. (\E x : LinksTo(fs, i) = {x}) <=> LinksTo(fs, i) = {l}
    BY <2>3
  <2> QED
    BY <2>1, <2>2, <2>4, <2>5
<1>6. {m \in SlotLinks(fs) : m.object = l.object} = LinksTo(fs, i)
  BY <1>3, KindsFacts DEF LinksTo
<1> DEFINE gone == IF LinksTo(fs, i) = {l} THEN {i} ELSE {}
<1>7. Allocated(fs') = Allocated(fs) \ gone
  BY <1>1, <1>2, <1>5 DEF Allocated
<1>8. Kinds(fs') = [x \in DOMAIN Kinds(fs) \ gone |-> Kinds(fs)[x]]
  <2>1. \A x \in Allocated(fs) \ gone : fs'.mode[x] = fs.mode[x]
    BY <1>1, <1>5 DEF Allocated
  <2>2. DOMAIN Kinds(fs) = Allocated(fs) /\ \A x \in Allocated(fs) : Kinds(fs)[x] = fs.mode[x]
    BY KindsFacts
  <2> QED
    BY <1>7, <2>1, <2>2 DEF Kinds
<1>9. SlotLinks(fs') = SlotLinks(fs) \ {l} /\ {m \in SlotLinks(fs) : m.dir = l.object} = {}
  BY <1>2, <1>3, KindsFacts
<1>10. Tree!RemoveLink(l)
  BY <1>3, <1>6, <1>8, <1>9, TreeActions
<1> QED
  BY <1>4, <1>10 DEF Tree!Next

LEMMA MoveIsMove ==
  ASSUME Sane(fs), Sane(fs'), NEW a, NEW n, NEW d, NEW m, NEW i, MoveStep(fs, fs', a, n, d, m, i)
  PROVE  Tree!Next
<1>1. /\ d \in Inums /\ m \in Names /\ i \in Inums
      /\ fs.mode[d] = "dir" /\ Unbound(fs, d, m)
      /\ fs'.mode = fs.mode
  BY DEF MoveStep
<1> DEFINE l == Link(a, n, i)
           g == Link(d, m, i)
<1>2. Links(fs') = (Links(fs) \ {l}) \cup {g} /\ l \in Links(fs) /\ l # g
  BY MoveLinks
<1>3. l.object = i /\ g.object = i /\ g.dir = d /\ g.name = m
  BY LinkFacts
<1>4. g \in Tree!Gained
  BY <1>1, <1>2, NewLinkGained DEF Allocated
<1> HIDE DEF l, g
<1>5. l \in Tree!Lost
  BY <1>2, KindsFacts, TreeActions
<1>6. Kinds(fs') = Kinds(fs)
  BY <1>1 DEF Kinds, Allocated
<1>7. SlotLinks(fs') = (SlotLinks(fs) \ {l}) \cup {g}
  BY <1>2, KindsFacts
<1>8. Tree!Free(g.dir, g.name)
  BY <1>1, <1>3, UnboundIsFree
<1>9. Tree!Move(l, g)
  BY <1>3, <1>6, <1>7, <1>8, TreeActions
<1> QED
  BY <1>4, <1>5, <1>9 DEF Tree!Next

(* The tree is the same if nothing but sizes changed.                      *)
LEMMA SameTree ==
  ASSUME fs'.mode = fs.mode, fs'.table = fs.table
  PROVE  UNCHANGED Tree!vars
  BY DEF Tree!vars, Slots, Dirs, Allocated

(* storage.c implements FileTree: every call that answers makes one change *)
(* of the links, one that the tree allows, or none.                        *)
THEOREM StorageImplementsTree == Spec => TreeSpec
<1>1. IInv /\ Init => Tree!Init
  <2> SUFFICES ASSUME IInv, Init PROVE Tree!Init
    OBVIOUS
  <2>1. /\ fs.mode = [i \in Inums |-> IF i = ROOT_INUM THEN "dir" ELSE "free"]
        /\ Sane(fs)
    BY DEF Init, IInv
  <2>2. Allocated(fs) = {ROOT_INUM}
    BY <2>1, InumFacts DEF Allocated
  <2>3. Kinds(fs) = [o \in {ROOT_INUM} |-> "dir"]
    BY <2>1, <2>2 DEF Kinds, Allocated
  <2>4. Links(fs) = {}
    <3> SUFFICES ASSUME NEW l \in Links(fs) PROVE FALSE
      OBVIOUS
    <3>1. fs.mode[l.object] # "free" /\ l.object # ROOT_INUM /\ l.object \in Inums
      BY <2>1, LinkDirs, LinkFacts
    <3> QED
      BY <3>1, <2>1
  <2> QED
    BY <2>1, <2>3, <2>4, KindsFacts, TreeActions
<1>2. IInv /\ [Next]_vars => [fs' = fs \/ rv' = "abort" \/ Tree!Next]_(Tree!vars)
  <2> SUFFICES ASSUME IInv, [Next]_vars, fs' # fs, rv' # "abort"
               PROVE  Tree!Next \/ UNCHANGED Tree!vars
    OBVIOUS
  <2>1. Next
    BY DEF vars
  <2>2. Sane(fs)
    BY <2>1 DEF IInv, Next, Mknod, Hardlink, Unlink, Rename, Rmdir, Truncate, Write, Remount, Answer
  <2>3. Does(rv', fs, fs')
    BY <2>1, <2>2, HandlerDoes
  <2>4. CASE TreeStep(fs, fs')
    <3>1. Sane(fs')
      BY <2>2, <2>4, TreeStepSane
    <3> QED
      BY <2>2, <2>4, <3>1, MakeIsMake, LinkIsAddLink, UnlinkIsRemoveLink, MoveIsMove DEF TreeStep
  <2>5. CASE \E i : SizeStep(fs, fs', i)
    BY <2>5, SameTree DEF SizeStep
  <2> QED
    BY <2>3, <2>4, <2>5 DEF Does
<1> QED
  BY <1>1, <1>2, StorageInvariant, PTL DEF Spec, TreeSpec

(***************************************************************************)
(* Where paths lead after a step.                                          *)
(***************************************************************************)
LEMMA ProperPrefix ==
  ASSUME NEW p \in Seq(Names), p # <<>>, NEW q \in Seq(Names), IsPrefix(q, p)
  PROVE  q = p \/ IsPrefix(q, Front(p))
<1>1. /\ Len(p) \in Nat /\ Len(q) \in Nat
      /\ Front(p) \in Seq(Names) /\ Len(Front(p)) = Len(p) - 1
      /\ \A k \in 1 .. Len(p) - 1 : Front(p)[k] = p[k]
  BY PathFacts
<1>2. Len(q) <= Len(p) /\ \A k \in 1 .. Len(q) : q[k] = p[k]
  BY PrefixFacts
<1>3. CASE Len(q) = Len(p)
  <2>1. q = p
    BY <1>2, <1>3, SeqEqual
  <2> QED
    BY <2>1
<1>4. CASE Len(q) <= Len(p) - 1
  <2>1. \A k \in 1 .. Len(q) : q[k] = Front(p)[k]
    BY <1>1, <1>2, <1>4
  <2> QED
    BY <1>1, <1>4, <2>1, PrefixFacts
<1> QED
  BY <1>1, <1>2, <1>3, <1>4

(* The way to a directory passes directories only.                         *)
LEMMA WayIsDirs ==
  ASSUME NEW s, Sane(s), NEW p \in Seq(Names), IsDir(s, Resolve(s, p)),
         NEW q \in Seq(Names), IsPrefix(q, p)
  PROVE  IsDir(s, Resolve(s, q))
<1> DEFINE B == {r \in Seq(Names) : IsDir(s, Resolve(s, r)) /\ IsPrefix(q, r)}
<1> SUFFICES ASSUME ~IsDir(s, Resolve(s, q)) PROVE FALSE
  OBVIOUS
<1>1. PICK r \in B : r # <<>> => Front(r) \notin B
  <2>1. B \subseteq Seq(Names) /\ B # {}
    OBVIOUS
  <2> HIDE DEF B
  <2> QED
    BY <2>1, ShortestPath
<1>2. r \in Seq(Names) /\ IsDir(s, Resolve(s, r)) /\ IsPrefix(q, r)
  OBVIOUS
<1>3. q # r
  BY <1>2
<1>4. r # <<>>
  <2> SUFFICES ASSUME r = <<>> PROVE FALSE
    OBVIOUS
  <2>1. Len(q) <= Len(r)
    BY <1>2, PrefixFacts
  <2>2. Len(r) = 0 /\ Len(q) \in Nat
    OBVIOUS
  <2>3. q = <<>>
    BY <2>1, <2>2
  <2> QED
    BY <1>3, <2>3
<1>5. IsPrefix(q, Front(r))
  BY <1>2, <1>3, <1>4, ProperPrefix
<1>6. Resolve(s, r) \in Inums
  BY <1>2 DEF IsDir
<1>7. IsDir(s, Parent(s, r)) /\ Front(r) \in Seq(Names)
  BY <1>2, <1>4, <1>6, LastLink
<1> QED
  BY <1>1, <1>4, <1>5, <1>7 DEF Parent

(* A path that does not pass i leads where it led when only names for i    *)
(* are added or go.                                                        *)
Avoids(s, p, i) == \A q \in Seq(Names) : IsPrefix(q, p) => Resolve(s, q) # i
KeepsOthers(s, t, i) ==
  /\ \A d \in Inums : IsDir(s, d) /\ d # i => IsDir(t, d)
  /\ \A d, j \in Inums : \A n \in Names :
       <<n, j>> \in Bound(s.table[d]) /\ d # i /\ j # i => <<n, j>> \in Bound(t.table[d])

LEMMA ResolveAway ==
  ASSUME NEW s, Sane(s), NEW t, Sane(t), NEW i, KeepsOthers(s, t, i),
         NEW p \in Seq(Names), Resolve(s, p) \in Inums, Avoids(s, p, i)
  PROVE  Resolve(t, p) = Resolve(s, p)
<1> DEFINE B == {r \in Seq(Names) : /\ Resolve(s, r) \in Inums /\ Avoids(s, r, i)
                                    /\ Resolve(t, r) # Resolve(s, r)}
<1>0. s \in Images /\ UniqueTables(s) /\ t \in Images /\ UniqueTables(t)
  BY SaneTables
<1> SUFFICES ASSUME B # {} PROVE FALSE
  OBVIOUS
<1>1. PICK r \in B : r # <<>> => Front(r) \notin B
  <2>1. B \subseteq Seq(Names)
    OBVIOUS
  <2> HIDE DEF B
  <2> QED
    BY <2>1, ShortestPath
<1>2. r \in Seq(Names) /\ Resolve(s, r) \in Inums /\ Avoids(s, r, i) /\ Resolve(t, r) # Resolve(s, r)
  OBVIOUS
<1>3. r # <<>>
  BY <1>2, ResolveUnfold
<1> DEFINE d == Parent(s, r)
           j == Resolve(s, r)
<1>4. IsDir(s, d) /\ <<Last(r), j>> \in Bound(s.table[d]) /\ Front(r) \in Seq(Names) /\ Last(r) \in Names
  BY <1>0, <1>2, <1>3, ResolveStep
<1>5. d \in Inums
  BY <1>4 DEF IsDir
<1>6. Avoids(s, Front(r), i)
  BY <1>2, <1>3, <1>4, PrefixOfParent DEF Avoids
<1>7. Parent(t, r) = d
  BY <1>1, <1>3, <1>4, <1>5, <1>6 DEF Parent
<1>8. d # i /\ j # i
  <2>1. IsPrefix(r, r) /\ IsPrefix(Front(r), Front(r))
    BY <1>2, <1>4, PrefixSelf
  <2> QED
    BY <1>2, <1>4, <1>6, <2>1 DEF Parent, Avoids
<1>9. IsDir(t, d) /\ <<Last(r), j>> \in Bound(t.table[d])
  BY <1>2, <1>4, <1>5, <1>8 DEF KeepsOthers
<1>10. Resolve(t, r) = j
  BY <1>0, <1>2, <1>3, <1>7, <1>9, ResolveStep
<1> QED
  BY <1>2, <1>10

(* A name that is not bound is not found.                                  *)
LEMMA NotFound ==
  ASSUME NEW s, Sane(s), NEW p \in Seq(Names), p # <<>>, IsDir(s, Parent(s, p)),
         Unbound(s, Parent(s, p), Last(p))
  PROVE  Resolve(s, p) = ENOENT
<1> DEFINE d == Parent(s, p)
           n == Last(p)
           i == LookupInum(s.table[d], n)
<1>1. d \in Inums /\ s \in Images /\ UniqueTables(s)
  BY SaneTables DEF IsDir
<1>2. s.table[d] \in Tables /\ Unique(s.table[d])
  BY <1>1, ImageFacts DEF UniqueTables
<1>3. i = Unused
  <2> HIDE DEF d, n
  <2>1. i # Unused => <<n, i>> \in Bound(s.table[d])
    BY <1>2, LookupBound
  <2> QED
    BY <2>1 DEF Unbound, d, n
<1>4. InumIn(s, d, n) = ENOENT
  <2>1. d \in Nat
    BY <1>1, InumFacts
  <2> QED
    BY <1>3, <2>1 DEF InumIn, Unused
<1> QED
  BY <1>4, ResolveUnfold DEF Parent

(* storage_mknod *)
LEMMA MakeFinds ==
  ASSUME NEW s, Sane(s), NEW p \in Seq(Names), p # <<>>, IsDir(s, Parent(s, p)), NEW t, NEW i, NEW k,
         MakeStep(s, t, Parent(s, p), Last(p), i, k)
  PROVE  Resolve(t, p) = i /\ i \in FreeInums(s) /\ t.mode[i] = k
<1> DEFINE d == Parent(s, p)
           n == Last(p)
<1>1. /\ d \in Inums /\ i \in Inums /\ s.mode[d] = "dir" /\ s.mode[i] = "free"
      /\ \A e \in Inums \ {i} : t.mode[e] = s.mode[e]
      /\ t.mode[i] = k
      /\ Bound(t.table[d]) = Bound(s.table[d]) \cup {<<n, i>>}
      /\ \A e \in Inums \ {d, i} : t.table[e] = s.table[e]
  BY DEF MakeStep
<1>2. Sane(t)
  BY MakeSane
<1>3. s \in Images /\ UniqueTables(s) /\ t \in Images /\ UniqueTables(t)
  BY <1>2, SaneTables
<1>4. ASSUME NEW e \in Inums, IsDir(s, e)
      PROVE  IsDir(t, e) /\ Bound(s.table[e]) \subseteq Bound(t.table[e])
  BY <1>1, <1>4 DEF IsDir
<1>5. Front(p) \in Seq(Names)
  BY PathFacts
<1>6. Resolve(t, Front(p)) = d
  BY <1>1, <1>3, <1>4, <1>5, ResolveKept DEF Parent
<1>7. IsDir(t, d) /\ <<n, i>> \in Bound(t.table[d])
  BY <1>1, <1>4
<1>8. Resolve(t, p) = i
  <2>1. Parent(t, p) = d
    BY <1>6 DEF Parent
  <2> HIDE DEF d, n
  <2>2. IsDir(t, Parent(t, p)) /\ <<n, i>> \in Bound(t.table[Parent(t, p)])
    BY <1>7, <2>1, Zenon
  <2> QED
    BY <1>1, <1>3, <2>2, ResolveStep DEF n
<1> QED
  BY <1>1, <1>8 DEF FreeInums, Allocated

(* storage_link *)
LEMMA LinkFinds ==
  ASSUME NEW s, Sane(s), NEW from \in Seq(Names), NEW to \in Seq(Names), to # <<>>, IsDir(s, Parent(s, to)),
         NEW t, LinkStep(s, t, Parent(s, to), Last(to), Resolve(s, from))
  PROVE  Resolve(t, from) = Resolve(s, from) /\ Resolve(t, to) = Resolve(s, from)
<1> DEFINE d == Parent(s, to)
           n == Last(to)
           i == Resolve(s, from)
<1>1. /\ d \in Inums /\ i \in Inums
      /\ t.mode = s.mode
      /\ Bound(t.table[d]) = Bound(s.table[d]) \cup {<<n, i>>}
      /\ \A e \in Inums \ {d} : t.table[e] = s.table[e]
  BY DEF LinkStep
<1>2. Sane(t)
  BY LinkSane
<1>3. s \in Images /\ UniqueTables(s) /\ t \in Images /\ UniqueTables(t)
  BY <1>2, SaneTables
<1>4. ASSUME NEW e \in Inums, IsDir(s, e)
      PROVE  IsDir(t, e) /\ Bound(s.table[e]) \subseteq Bound(t.table[e])
  BY <1>1, <1>4 DEF IsDir
<1>5. Front(to) \in Seq(Names)
  BY PathFacts
<1>6. Resolve(t, Front(to)) = d /\ Resolve(t, from) = i
  BY <1>1, <1>3, <1>4, <1>5, ResolveKept DEF Parent
<1>7. IsDir(t, d) /\ <<n, i>> \in Bound(t.table[d])
  BY <1>1, <1>4
<1>8. Resolve(t, to) = i
  <2>1. Parent(t, to) = d
    BY <1>6 DEF Parent
  <2> HIDE DEF i, d
  <2>2. IsDir(t, Parent(t, to)) /\ <<n, i>> \in Bound(t.table[Parent(t, to)])
    BY <1>7, <2>1
  <2> QED
    BY <1>1, <1>3, <2>2, ResolveStep
<1> QED
  BY <1>6, <1>8

(* storage_unlink of a file *)
LEMMA UnlinkHides ==
  ASSUME NEW s, Sane(s), NEW p \in Seq(Names), p # <<>>, ~IsDir(s, Resolve(s, p)),
         NEW t, UnlinkStep(s, t, Parent(s, p), Last(p), Resolve(s, p))
  PROVE  Resolve(t, p) = ENOENT
<1> DEFINE d == Parent(s, p)
           n == Last(p)
           i == Resolve(s, p)
<1>1. /\ d \in Inums /\ n \in Names /\ i \in Inums
      /\ <<n, i>> \in Bound(s.table[d])
      /\ \A e \in Inums \ {i} : t.mode[e] = s.mode[e]
      /\ Bound(t.table[d]) = Bound(s.table[d]) \ {<<n, i>>}
      /\ \A e \in Inums \ {d, i} : t.table[e] = s.table[e]
  BY DEF UnlinkStep
<1>2. Sane(t)
  BY UnlinkSane
<1>3. s.mode[d] = "dir" /\ d # i
  BY UnlinkLinks
<1>4. Front(p) \in Seq(Names) /\ IsDir(s, Resolve(s, Front(p)))
  BY <1>1, <1>3, PathFacts DEF Parent, IsDir
<1>5. Avoids(s, Front(p), i)
  <2>1. \A q \in Seq(Names) : IsPrefix(q, Front(p)) => IsDir(s, Resolve(s, q))
    BY <1>4, WayIsDirs
  <2> QED
    BY <2>1 DEF Avoids
<1>6. Resolve(t, Front(p)) = d
  <2>1. KeepsOthers(s, t, i)
    <3>1. \A e \in Inums : IsDir(s, e) /\ e # i => IsDir(t, e)
      BY <1>1 DEF IsDir
    <3>2. \A e, j \in Inums : \A m \in Names :
            <<m, j>> \in Bound(s.table[e]) /\ e # i /\ j # i => <<m, j>> \in Bound(t.table[e])
      BY <1>1
    <3> HIDE DEF i
    <3> QED
      BY <3>1, <3>2 DEF KeepsOthers
  <2>2. Resolve(s, Front(p)) = d /\ d \in Inums
    BY <1>1 DEF Parent
  <2> HIDE DEF i, d
  <2>3. Resolve(t, Front(p)) = Resolve(s, Front(p))
    BY <1>2, <1>4, <1>5, <2>1, <2>2, ResolveAway
  <2> QED
    BY <2>2, <2>3
<1>7. IsDir(t, d)
  BY <1>1, <1>3 DEF IsDir
<1>8. Unbound(t, d, n)
  <2> SUFFICES ASSUME NEW j, <<n, j>> \in Bound(t.table[d]) PROVE FALSE
    BY DEF Unbound
  <2>1. <<n, j>> \in Bound(s.table[d]) /\ j # i
    BY <1>1
  <2>2. Unique(s.table[d]) /\ s.table[d] \in Tables
    BY <1>1, ImageFacts DEF Sane, TablesSound, Sound
  <2> QED
    BY <1>1, <2>1, <2>2 DEF Unique, Bound
<1> QED
  BY <1>2, <1>6, <1>7, <1>8, NotFound DEF Parent

(* storage_rename *)
LEMMA MoveFinds ==
  ASSUME NEW s, Sane(s), NEW from \in Seq(Names), from # <<>>, NEW to \in Seq(Names), to # <<>>,
         ~IsPrefix(from, to), NEW t,
         MoveStep(s, t, Parent(s, from), Last(from), Parent(s, to), Last(to), Resolve(s, from))
  PROVE  Resolve(t, from) = ENOENT /\ Resolve(t, to) = Resolve(s, from)
<1> DEFINE a == Parent(s, from)
           n == Last(from)
           d == Parent(s, to)
           m == Last(to)
           i == Resolve(s, from)
<1>1. /\ a \in Inums /\ n \in Names /\ d \in Inums /\ m \in Names /\ i \in Inums
      /\ a # i /\ d # i /\ s.mode[d] = "dir"
      /\ <<n, i>> \in Bound(s.table[a])
      /\ Unbound(s, d, m)
      /\ t.mode = s.mode
      /\ \A e \in Inums \ {i} :
           Bound(t.table[e]) = (Bound(s.table[e]) \cup (IF e = d THEN {<<m, i>>} ELSE {}))
                                 \ (IF e = a THEN {<<n, i>>} ELSE {})
  BY DEF MoveStep
<1>2. Sane(t)
  BY MoveSane
<1>3. s.mode[a] = "dir"
  <2>1. Link(a, n, i) \in Links(s)
    BY <1>1, LinkFacts
  <2> QED
    BY <2>1, LinkDirs, LinkFacts DEF IsDir
<1>4. Front(from) \in Seq(Names) /\ Front(to) \in Seq(Names)
  BY PathFacts
<1>5. IsDir(s, Resolve(s, Front(from))) /\ IsDir(s, Resolve(s, Front(to)))
  BY <1>1, <1>3 DEF Parent, IsDir
<1>6. ASSUME NEW p \in Seq(Names), IsDir(s, Resolve(s, p)), ~IsPrefix(from, p)
      PROVE  Resolve(t, p) = Resolve(s, p)
  <2>1. Avoids(s, p, i)
    <3>1. ASSUME NEW q \in Seq(Names), IsPrefix(q, p) PROVE Resolve(s, q) # i
      <4>1. IsDir(s, Resolve(s, q))
        BY <1>6, <3>1, WayIsDirs
      <4>2. Resolve(s, q) = Resolve(s, from) => q = from
        BY <4>1, OneWay
      <4> QED
        BY <1>6, <3>1, <4>2
    <3> HIDE DEF i
    <3> QED
      BY <3>1 DEF Avoids
  <2>2. KeepsOthers(s, t, i)
    <3>1. \A e \in Inums : IsDir(s, e) /\ e # i => IsDir(t, e)
      BY <1>1 DEF IsDir
    <3>2. \A e, j \in Inums : \A o \in Names :
            <<o, j>> \in Bound(s.table[e]) /\ e # i /\ j # i => <<o, j>> \in Bound(t.table[e])
      BY <1>1
    <3> HIDE DEF i
    <3> QED
      BY <3>1, <3>2 DEF KeepsOthers
  <2>3. Resolve(s, p) \in Inums
    BY <1>6 DEF IsDir
  <2> HIDE DEF i
  <2> QED
    BY <1>2, <2>1, <2>2, <2>3, ResolveAway
<1>7. ~IsPrefix(from, Front(from)) /\ ~IsPrefix(from, Front(to))
  <2>1. ~IsPrefix(from, Front(to))
    BY PrefixOfParent
  <2>2. Len(Front(from)) = Len(from) - 1 /\ Len(from) \in Nat
    BY PathFacts
  <2>3. ~IsPrefix(from, Front(from))
    BY <1>4, <2>2, PrefixFacts
  <2> QED
    BY <2>1, <2>3
<1>8. Resolve(t, Front(from)) = a /\ Resolve(t, Front(to)) = d
  BY <1>4, <1>5, <1>6, <1>7 DEF Parent
<1>9. IsDir(t, a) /\ IsDir(t, d)
  BY <1>1, <1>3 DEF IsDir
<1>10. Unbound(t, a, n)
  <2> SUFFICES ASSUME NEW j, <<n, j>> \in Bound(t.table[a]) PROVE FALSE
    BY DEF Unbound
  <2>1. <<n, j>> # <<n, i>>
        /\ (<<n, j>> \in Bound(s.table[a]) \/ (a = d /\ <<n, j>> = <<m, i>>))
    BY <1>1
  <2>2. <<n, j>> \in Bound(s.table[a]) /\ j # i
    BY <2>1
  <2>3. Unique(s.table[a]) /\ s.table[a] \in Tables
    BY <1>1, ImageFacts DEF Sane, TablesSound, Sound
  <2> QED
    BY <1>1, <2>2, <2>3 DEF Unique, Bound
<1>11. <<m, i>> \in Bound(t.table[d])
  <2>1. ~(d = a /\ <<m, i>> = <<n, i>>)
    BY <1>1 DEF Unbound
  <2> QED
    BY <1>1, <2>1
<1>12. Resolve(t, from) = ENOENT
  BY <1>2, <1>8, <1>9, <1>10, NotFound DEF Parent
<1>13. Resolve(t, to) = i
  <2>1. t \in Images /\ UniqueTables(t)
    BY <1>2, SaneTables
  <2> QED
    BY <1>1, <1>8, <1>9, <1>11, <2>1, ResolveStep DEF Parent
<1> QED
  BY <1>12, <1>13

(* A handler that answers success has done what it was asked: whatever     *)
(* holes and stale names the tables hold, the path of a new inode, of a    *)
(* new link and of a renamed file or directory finds it, and the path that *)
(* was unlinked or renamed finds nothing.                                  *)
THEOREM SuccessTakesEffect == Spec => []Effects
<1>1. ASSUME Sane(fs), NEW p \in Paths, NEW k \in {"file", "dir"}, ParentIsDir(p),
             NEW out \in MknodOutcomes(fs, p, k), out.rv = "ok"
      PROVE  Made(p, k, out)
  <2>1. p \in Seq(Names) /\ p # <<>> /\ IsDir(fs, Parent(fs, p))
    BY <1>1, PathsAreNames DEF ParentIsDir
  <2>2. PICK i \in Inums : MakeStep(fs, out.fs, Parent(fs, p), Last(p), i, k)
    BY <1>1, <2>1, MknodMakes
  <2> QED
    BY <1>1, <2>1, <2>2, MakeFinds DEF Made
<1>2. ASSUME Sane(fs), NEW from \in Paths, NEW to \in Paths, NotDir(from), ParentIsDir(to),
             NEW out \in LinkOutcomes(fs, from, to), out.rv = "ok"
      PROVE  StandsFor(out.fs, Resolve(fs, from), from) /\ StandsFor(out.fs, Resolve(fs, from), to)
  <2> DEFINE i == Resolve(fs, from)
             d == Parent(fs, to)
             n == Last(to)
  <2>1. /\ from \in Seq(Names) /\ from # <<>> /\ ~IsDir(fs, i)
        /\ to \in Seq(Names) /\ to # <<>> /\ IsDir(fs, d)
    BY <1>2, PathsAreNames DEF ParentIsDir, NotDir
  <2>2. i \in Inums /\ Unbound(fs, d, n) /\ LinkedBy(fs, out.fs, d, n, i)
    BY <1>2, <2>1, LinkAdds
  <2>3. fs.mode[i] = "file"
    <3>1. fs.mode[i] # "free"
      BY <1>2, <2>1, <2>2, LastLink
    <3> QED
      BY <1>2, <2>1, <2>2, <3>1, ImageFacts DEF Sane, IsDir
  <2>4. n \in Names
    BY <2>1, PathFacts
  <2>5. LinkStep(fs, out.fs, d, n, i)
    BY <1>2, <2>1, <2>2, <2>3, <2>4, HardlinkLinks
  <2> QED
    BY <1>2, <2>1, <2>5, LinkFinds DEF StandsFor
<1>3. ASSUME Sane(fs), NEW from \in Paths, NEW to \in Paths, MayRename(from, to),
             NEW out \in RenameOutcomes(fs, from, to), out.rv = "ok"
      PROVE  StandsFor(out.fs, ENOENT, from) /\ StandsFor(out.fs, Resolve(fs, from), to)
  <2>1. /\ from \in Seq(Names) /\ from # <<>> /\ to \in Seq(Names) /\ to # <<>>
        /\ IsDir(fs, Parent(fs, to)) /\ ~IsPrefix(from, to)
    BY <1>3, PathsAreNames DEF MayRename, ParentIsDir
  <2>2. MoveStep(fs, out.fs, Parent(fs, from), Last(from), Parent(fs, to), Last(to), Resolve(fs, from))
    BY <1>3, <2>1, RenameMoves
  <2> QED
    BY <1>3, <2>1, <2>2, MoveFinds DEF StandsFor
<1>4. ASSUME Sane(fs), NEW p \in Paths, NotDir(p), NEW out \in UnlinkOutcomes(fs, p), out.rv = "ok"
      PROVE  StandsFor(out.fs, ENOENT, p)
  <2>1. p \in Seq(Names) /\ p # <<>> /\ ~IsDir(fs, Resolve(fs, p))
    BY <1>4, PathsAreNames DEF NotDir
  <2>2. UnlinkStep(fs, out.fs, Parent(fs, p), Last(p), Resolve(fs, p))
    BY <1>4, <2>1, UnlinkOutcome
  <2> QED
    BY <1>4, <2>1, <2>2, UnlinkHides DEF StandsFor
<1>5. IInv => Effects
  BY <1>1, <1>2, <1>3, <1>4 DEF IInv, Effects
<1> QED
  BY <1>5, StorageInvariant, PTL

(***************************************************************************)
(* readdir.                                                                *)
(***************************************************************************)
LEMMA AppendPath ==
  ASSUME NEW p \in Seq(Names), NEW n \in Names
  PROVE  /\ Append(p, n) \in Seq(Names) /\ Append(p, n) # <<>>
         /\ Front(Append(p, n)) = p /\ Last(Append(p, n)) = n
<1> DEFINE q == Append(p, n)
<1>1. /\ q \in Seq(Names) /\ Len(q) = Len(p) + 1 /\ Len(p) \in Nat /\ q[Len(p) + 1] = n
      /\ \A k \in 1 .. Len(p) : q[k] = p[k]
  OBVIOUS
<1> HIDE DEF q
<1>2. q # <<>>
  BY <1>1
<1>3. /\ Front(q) \in Seq(Names) /\ Len(Front(q)) = Len(p) /\ Last(q) = n
      /\ \A k \in 1 .. Len(p) : Front(q)[k] = q[k]
  <2>1. /\ Front(q) \in Seq(Names) /\ Len(Front(q)) = Len(q) - 1 /\ Last(q) = q[Len(q)]
        /\ \A k \in 1 .. Len(q) - 1 : Front(q)[k] = q[k]
    BY <1>1, <1>2, PathFacts
  <2>2. Len(q) - 1 = Len(p)
    BY <1>1
  <2> QED
    BY <1>1, <2>1, <2>2
<1>4. Front(q) = p
  BY <1>1, <1>3
<1> QED
  BY <1>1, <1>2, <1>3, <1>4 DEF q

\* a name below a directory is found when the directory binds it
LEMMA FoundBelow ==
  ASSUME Sane(fs), NEW p \in Seq(Names), NEW d \in Inums, Resolve(fs, p) = d, IsDir(fs, d), NEW n \in Names
  PROVE  /\ Resolve(fs, Append(p, n)) >= 0 <=> \E i : <<n, i>> \in Bound(fs.table[d])
         /\ Resolve(fs, Append(p, n)) >= 0 =>
              /\ Resolve(fs, Append(p, n)) \in Inums
              /\ Link(d, n, Resolve(fs, Append(p, n))) \in Links(fs)
<1> DEFINE q == Append(p, n)
           r == Resolve(fs, q)
<1>1. q \in Seq(Names) /\ q # <<>> /\ Front(q) = p /\ Last(q) = n
  BY AppendPath
<1>2. fs \in Images /\ UniqueTables(fs)
  BY SaneTables
<1> HIDE DEF q
<1>3. r \in Inums \cup Errors /\ (r >= 0 <=> r \in Inums)
  <2>1. r \in Inums \cup Errors
    BY <1>1, <1>2, ResolveFacts
  <2> HIDE DEF r
  <2>2. \A e \in Errors : ~(e >= 0)
    BY ErrorFacts
  <2>3. \A i \in Inums : i >= 0
    BY InumFacts
  <2> QED
    BY <2>1, <2>2, <2>3
<1>4. Parent(fs, q) = d
  BY <1>1 DEF Parent
<1>5. \A i \in Inums : r = i <=> <<n, i>> \in Bound(fs.table[d])
  BY <1>1, <1>2, <1>4, ResolveStep
<1>6. \A i : <<n, i>> \in Bound(fs.table[d]) => i \in Inums
  BY <1>2, ImageFacts, ImageTableFacts
<1>7. r \in Inums => Link(d, n, r) \in Links(fs)
  BY <1>5, LinkFacts
<1> HIDE DEF r
<1>8. r >= 0 <=> \E i : <<n, i>> \in Bound(fs.table[d])
  BY <1>3, <1>5, <1>6
<1> QED
  BY <1>3, <1>7, <1>8 DEF r, q

(* readdir shows every name that a lookup by path finds, each once and no  *)
(* other, and getattr of that path shows it with a link: listing and       *)
(* lookup walk the same table in different ways, one stops at the first    *)
(* entry in use with a name, the other shows all entries in use.           *)
THEOREM ListingsAgree == Spec => []ReaddirShowsLookups
<1>1. ASSUME Sane(fs), NEW p \in Paths, IsDir(fs, Resolve(fs, p)), NEW shown, shown = Readdir(fs, p)
      PROVE  /\ {shown[k].name : k \in DOMAIN shown} \ {Dot, DotDot} =
                  {n \in Names : Resolve(fs, Append(p, n)) >= 0}
             /\ \A j, k \in DOMAIN shown : shown[j].name = shown[k].name => j = k
             /\ \A k \in DOMAIN shown : shown[k].name \in Names =>
                  Stat(fs, Append(p, shown[k].name)).nlink > 0
  <2> DEFINE d == Resolve(fs, p)
             l == List(fs.table[d])
  <2>1. p \in Seq(Names) /\ d \in Inums /\ IsDir(fs, d)
    BY <1>1, PathsAreNames DEF IsDir
  <2> HIDE DEF d
  <2>2. fs.table[d] \in Tables /\ Unique(fs.table[d])
    BY <1>1, <2>1, ImageFacts, SaneTables DEF UniqueTables
  <2>3. /\ l \in Seq(EntryNames)
        /\ \A n : (\E j \in DOMAIN l : l[j] = n) <=> \E i : <<n, i>> \in Bound(fs.table[d])
        /\ \A i, j \in DOMAIN l : l[i] = l[j] => i = j
    BY <2>2, ListFacts
  <2>4. /\ DOMAIN shown = DOMAIN l
        /\ \A k \in DOMAIN shown : shown[k].name = l[k]
    BY <1>1 DEF Readdir, d
  <2> HIDE DEF l
  <2>5. \A n \in Names : Resolve(fs, Append(p, n)) >= 0 <=> \E i : <<n, i>> \in Bound(fs.table[d])
    BY <1>1, <2>1, FoundBelow DEF d
  <2>6. \A k \in DOMAIN l : l[k] \in EntryNames
    BY <2>3
  <2>7. ASSUME NEW n
        PROVE  n \in {shown[k].name : k \in DOMAIN shown} \ {Dot, DotDot}
                 <=> n \in {m \in Names : Resolve(fs, Append(p, m)) >= 0}
    <3>1. n \in {shown[k].name : k \in DOMAIN shown} <=> \E i : <<n, i>> \in Bound(fs.table[d])
      <4>1. n \in {shown[k].name : k \in DOMAIN shown} <=> \E k \in DOMAIN shown : shown[k].name = n
        OBVIOUS
      <4>2. (\E k \in DOMAIN shown : shown[k].name = n) <=> \E k \in DOMAIN l : l[k] = n
        BY <2>4
      <4> QED
        BY <2>3, <4>1, <4>2
    <3>2. n \in {shown[k].name : k \in DOMAIN shown} => n \in EntryNames
      BY <2>4, <2>6
    <3>3. n \in EntryNames /\ n \notin {Dot, DotDot} => n \in Names
      BY DEF EntryNames
    <3>4. n \in Names => n \notin {Dot, DotDot}
      BY NamesAssumption
    <3> QED
      BY <2>5, <3>1, <3>2, <3>3, <3>4
  <2>8. ASSUME NEW k \in DOMAIN shown, shown[k].name \in Names
        PROVE  Stat(fs, Append(p, shown[k].name)).nlink > 0
    <3> DEFINE n == shown[k].name
               i == Resolve(fs, Append(p, n))
    <3>1. n \in Names /\ i >= 0
      BY <2>3, <2>4, <2>5, <2>8
    <3>2. i \in Inums /\ Link(d, n, i) \in Links(fs)
      BY <1>1, <2>1, <3>1, FoundBelow DEF d
    <3> HIDE DEF i
    <3>3. fs.mode[i] # "free" /\ i # ROOT_INUM
      BY <1>1, <3>2, LinkDirs, LinkFacts
    <3>4. fs.refs[i] \in Nat /\ fs.refs[i] >= 1
      BY <1>1, <3>2, <3>3, ImageFacts DEF Sane, Counted
    <3>5. Stat(fs, Append(p, n)).nlink = fs.refs[i]
      BY DEF Stat, i
    <3> QED
      BY <3>4, <3>5
  <2> QED
    BY <2>3, <2>4, <2>7, <2>8
<1>2. IInv => ReaddirShowsLookups
  BY <1>1 DEF IInv, ReaddirShowsLookups
<1> QED
  BY <1>2, StorageInvariant, PTL

=============================================================================
