-------------------------- MODULE InodeCrashProofs --------------------------
(***************************************************************************)
(* Proofs that a killed daemon leaves the files whole (CrashKeepsFiles)    *)
(* and loses little (LeakIsSmall).                                         *)
(*                                                                         *)
(* After a crash the image holds marked blocks and inodes that belong to   *)
(* nobody, so the invariant of Inode, which speaks of every marked inode,  *)
(* is gone.  What remains is said of the inodes the files reach: On(nx,    *)
(* fs) is their set, and Healthy says of an image and a set of files that  *)
(* they are disjoint lists of marked inodes which hold the blocks they     *)
(* need.  It has no name for the call in progress, so it can be asserted   *)
(* between any two stores of inode.c, and there is one lemma for each kind *)
(* of store: mark or unmark a block, write a slot or a size, mark or       *)
(* unmark an inode, reset one, link one, cut one off.  A step of the       *)
(* daemon and the images a crash leaves within it are then sequences of    *)
(* stores (in an order of the proof's choice where the code's own order    *)
(* passes through a state that is not healthy: inode_shrink's).  A crash   *)
(* in inode_shrink is harmless to the other files because the file it      *)
(* shrinks can be forgotten first: Forget.                                 *)
(***************************************************************************)
EXTENDS InodeCrash, InodeProofs

(***************************************************************************)
(* The inodes the files reach.                                             *)
(***************************************************************************)
Nodes(nx, f) == {ChainOf(nx, f)[n] : n \in 1 .. Len(ChainOf(nx, f))}
On(nx, fs) == UNION {Nodes(nx, f) : f \in fs}

\* the chains of the files fs are disjoint, and they end
Forest(nx, fs) == Linked(nx, On(nx, fs), fs)

LEMMA OnIs ==
  ASSUME NEW nx, NEW fs, NEW i
  PROVE  i \in On(nx, fs) <=> \E f \in fs : i \in Nodes(nx, f)
  BY DEF On

LEMMA NodesAre ==
  ASSUME NEW nx, NEW f, NEW c, ChainOf(nx, f) = c, NEW i
  PROVE  i \in Nodes(nx, f) <=> \E n \in 1 .. Len(c) : c[n] = i
  BY DEF Nodes

LEMMA NodesFacts ==
  ASSUME NEW nx, NEW fs, Forest(nx, fs), NEW f \in fs
  PROVE  f \in Nodes(nx, f) /\ Nodes(nx, f) \subseteq On(nx, fs) /\ On(nx, fs) \subseteq Inums
<1> DEFINE c == ChainOf(nx, f)
<1>1. c[1] = f /\ Len(c) >= 1 /\ Len(c) \in Nat
  BY FileChainFacts DEF Forest, FileChain
<1> HIDE DEF c
<1>2. 1 \in 1 .. Len(c)
  BY <1>1
<1>3. f \in Nodes(nx, f)
  BY <1>1, <1>2 DEF Nodes, c
<1>4. On(nx, fs) \subseteq Inums
  BY DEF Forest, Linked
<1> QED
  BY <1>3, <1>4, OnIs

LEMMA NodesApart ==
  ASSUME NEW nx, NEW fs, Forest(nx, fs), NEW f \in fs, NEW g \in fs, NEW i,
         i \in Nodes(nx, f), i \in Nodes(nx, g)
  PROVE  f = g
<1>1. PICK n \in 1 .. Len(ChainOf(nx, f)) : ChainOf(nx, f)[n] = i
  BY DEF Nodes
<1>2. PICK m \in 1 .. Len(ChainOf(nx, g)) : ChainOf(nx, g)[m] = i
  BY DEF Nodes
<1> QED
  BY <1>1, <1>2, ChainsApart DEF Forest

\* the next inode of an inode of a file is of the same file and no file itself
LEMMA NextNode ==
  ASSUME NEW nx, NEW fs, Forest(nx, fs), NEW f \in fs, NEW i \in Nodes(nx, f), nx[i] # None
  PROVE  nx[i] \in Nodes(nx, f) /\ nx[i] \notin fs
<1> DEFINE c == ChainOf(nx, f)
<1>1. PICK n \in 1 .. Len(c) : c[n] = i
  BY DEF Nodes
<1>2. /\ Len(c) \in Nat /\ nx[c[Len(c)]] = None
      /\ \A k \in 1 .. Len(c) - 1 : c[k + 1] = nx[c[k]]
  BY FileChainFacts DEF Forest, FileChain
<1> HIDE DEF c
<1>3. n # Len(c)
  BY <1>1, <1>2
<1>4. n \in 1 .. Len(c) - 1 /\ n + 1 \in 1 .. Len(c)
  BY <1>2, <1>3
<1>5. c[n + 1] = nx[i]
  BY <1>1, <1>2, <1>4
<1>6. nx[i] \in Nodes(nx, f)
  BY <1>4, <1>5 DEF Nodes, c
<1>7. i \in On(nx, fs)
  BY OnIs
<1> QED
  BY <1>6, <1>7 DEF Forest, Linked

\* the last inode is the one without a next
LEMMA LastNode ==
  ASSUME NEW nx, NEW fs, Forest(nx, fs), NEW f \in fs, NEW i \in Nodes(nx, f), nx[i] = None
  PROVE  i = ChainOf(nx, f)[Len(ChainOf(nx, f))]
<1>1. PICK n \in 1 .. Len(ChainOf(nx, f)) : ChainOf(nx, f)[n] = i
  BY DEF Nodes
<1> QED
  BY <1>1, EndOfChain DEF Forest

\* what happens off the files is nothing to them
LEMMA SameForest ==
  ASSUME NEW nx, NEW ny \in [Inums -> Int], NEW fs, Forest(nx, fs),
         \A i \in On(nx, fs) : ny[i] = nx[i]
  PROVE  /\ Forest(ny, fs) /\ On(ny, fs) = On(nx, fs)
         /\ \A f \in fs : Nodes(ny, f) = Nodes(nx, f)
<1> DEFINE sz == [i \in Inums |-> 0]
<1>1. sz \in [Inums -> Int]
  OBVIOUS
<1>2. ASSUME NEW f \in fs PROVE ChainOf(ny, f) = ChainOf(nx, f)
  <2>1. Nodes(nx, f) \subseteq On(nx, fs)
    BY NodesFacts
  <2>2. \A k \in 1 .. Len(ChainOf(nx, f)) : ChainOf(nx, f)[k] \in On(nx, fs)
    BY <2>1 DEF Nodes
  <2>3. Frozen(nx, sz, ny, sz, ChainOf(nx, f))
    BY <2>2 DEF Frozen
  <2> HIDE DEF sz
  <2> QED
    BY <1>1, <2>3, Untouched DEF Forest
<1>3. \A f \in fs : Nodes(ny, f) = Nodes(nx, f)
  BY <1>2 DEF Nodes
<1>4. On(ny, fs) = On(nx, fs)
  BY <1>3 DEF On
<1>5. Forest(ny, fs)
  BY <1>4 DEF Forest, Linked
<1> QED
  BY <1>3, <1>4, <1>5

\* a file less
LEMMA FewerFiles ==
  ASSUME NEW nx, NEW fs, Forest(nx, fs), NEW f \in fs
  PROVE  /\ Forest(nx, fs \ {f}) /\ On(nx, fs \ {f}) \subseteq On(nx, fs)
         /\ \A i \in Nodes(nx, f) : i \notin On(nx, fs \ {f})
<1> DEFINE T == On(nx, fs \ {f})
<1>1. T \subseteq On(nx, fs)
  BY DEF On
<1>2. \A i \in Nodes(nx, f) : i \notin T
  BY NodesApart, OnIs
<1>3. \A i \in T : nx[i] # None => nx[i] \in T \ (fs \ {f})
  <2> SUFFICES ASSUME NEW i \in T, nx[i] # None PROVE nx[i] \in T \ (fs \ {f})
    OBVIOUS
  <2>1. PICK g \in fs \ {f} : i \in Nodes(nx, g)
    BY OnIs
  <2>2. nx[i] \in Nodes(nx, g) /\ nx[i] \notin fs
    BY <2>1, NextNode
  <2> QED
    BY <2>2, OnIs
<1>4. fs \ {f} \subseteq T
  BY NodesFacts, OnIs
<1>5. Forest(nx, fs \ {f})
  BY <1>1, <1>3, <1>4 DEF Forest, Linked
<1> QED
  BY <1>1, <1>2, <1>5

\* a file more
LEMMA MoreFiles ==
  ASSUME NEW nx, NEW fs, Forest(nx, fs), NEW i \in Inums \ On(nx, fs), nx[i] = None
  PROVE  /\ Forest(nx, fs \cup {i}) /\ On(nx, fs \cup {i}) = On(nx, fs) \cup {i}
         /\ Nodes(nx, i) = {i}
<1> DEFINE sz == [j \in Inums |-> 0]
<1>1. sz \in [Inums -> Int] /\ nx \in [Inums -> Int]
  BY DEF Forest, Linked
<1>2. Created(nx, sz, i, nx, sz)
  BY <1>1 DEF Created
<1> HIDE DEF sz
<1>3. ChainOf(nx, i) = <<i>>
  <2>1. Linked(nx, On(nx, fs), fs)
    BY DEF Forest
  <2> QED
    BY <1>1, <1>2, <2>1, NewChain
<1>4. Nodes(nx, i) = {i}
  <2>1. Len(<<i>>) = 1 /\ <<i>>[1] = i /\ 1 .. 1 = {1}
    OBVIOUS
  <2> QED
    BY <1>3, <2>1 DEF Nodes
<1>5. On(nx, fs \cup {i}) = On(nx, fs) \cup {i}
  BY <1>4 DEF On
<1>6. i \notin On(nx, fs) /\ fs \subseteq On(nx, fs)
  BY DEF Forest, Linked
<1>7. Forest(nx, fs \cup {i})
  BY <1>5, <1>6 DEF Forest, Linked
<1> QED
  BY <1>4, <1>5, <1>7

\* an inode more on the chain of f
\* the value at one argument changes
Put(nx, i, v, ny) == ny \in [Inums -> Int] /\ ny[i] = v /\ \A j \in Inums : j # i => ny[j] = nx[j]

LEMMA PutIs ==
  ASSUME NEW nx \in [Inums -> Int], NEW i \in Inums, NEW v \in Int, NEW ny
  PROVE  Put(nx, i, v, ny) <=> ny = [nx EXCEPT ![i] = v]
  BY DEF Put

LEMMA MoreNodes ==
  ASSUME NEW nx, NEW fs, Forest(nx, fs), NEW f \in fs, NEW l \in Nodes(nx, f), nx[l] = None,
         NEW i \in Inums \ On(nx, fs), nx[i] = None,
         NEW ny, Put(nx, l, i, ny)
  PROVE  /\ Forest(ny, fs) /\ On(ny, fs) = On(nx, fs) \cup {i}
         /\ i \in Nodes(ny, f)
<1> DEFINE sz == [j \in Inums |-> 0]
           c == ChainOf(nx, f)
<1>1. /\ sz \in [Inums -> Int] /\ nx \in [Inums -> Int] /\ l \in On(nx, fs) /\ l \in Inums
      /\ i \in Int /\ None \notin Inums
  BY NodesFacts, SizesAssumption DEF Forest, Linked, Inums, None
<1>2. l = c[Len(c)]
  BY LastNode
<1>3. ny = [nx EXCEPT ![l] = i, ![i] = None]
  <2>1. ny = [nx EXCEPT ![l] = i]
    BY <1>1, PutIs
  <2> QED
    BY <1>1, <2>1
<1>4. LongerBy(nx, sz, fs, f, l, i, ny, sz)
  <2>1. Appended(nx, sz, l, i, ny, sz)
    BY <1>3 DEF Appended
  <2> HIDE DEF sz
  <2> QED
    BY <1>1, <1>2, <2>1, Lengthen DEF Forest
<1>5. c \in Seq(Inums) /\ Len(c) \in Nat
  BY FileChainFacts DEF Forest, FileChain
<1>6. ChainOf(ny, f) = Append(c, i)
  BY <1>4 DEF LongerBy
<1>7. Nodes(ny, f) = Nodes(nx, f) \cup {i}
  <2> HIDE DEF c
  <2>1. /\ Len(Append(c, i)) = Len(c) + 1 /\ Append(c, i)[Len(c) + 1] = i
        /\ \A k \in 1 .. Len(c) : Append(c, i)[k] = c[k]
    BY <1>5
  <2>2. 1 .. Len(c) + 1 = (1 .. Len(c)) \cup {Len(c) + 1}
    BY <1>5
  <2> DEFINE d == Append(c, i)
  <2>3. \A j : (\E n \in 1 .. Len(d) : d[n] = j) <=> j = i \/ \E n \in 1 .. Len(c) : c[n] = j
    BY <2>1, <2>2
  <2>d. ChainOf(ny, f) = d
    BY <1>6
  <2> HIDE DEF d
  <2>4. \A j : j \in Nodes(ny, f) <=> \E n \in 1 .. Len(d) : d[n] = j
    BY <2>d, NodesAre
  <2>5. \A j : j \in Nodes(nx, f) <=> \E n \in 1 .. Len(c) : c[n] = j
    BY NodesAre DEF c
  <2> QED
    BY <2>3, <2>4, <2>5
<1>8. \A g \in fs : g # f => Nodes(ny, g) = Nodes(nx, g)
  BY <1>4 DEF LongerBy, Nodes
<1>9. On(ny, fs) = On(nx, fs) \cup {i}
  BY <1>7, <1>8 DEF On
<1>10. i \notin On(nx, fs) /\ fs \subseteq On(nx, fs)
  BY DEF Forest, Linked
<1>11. Forest(ny, fs)
  <2>1. /\ ny \in [Inums -> Int] /\ ny[l] = i /\ ny[i] = None
        /\ \A j \in Inums : j # l => ny[j] = nx[j]
    BY <1>1 DEF Put
  <2> DEFINE T == On(nx, fs)
             U == T \cup {i}
  <2> HIDE DEF T, U
  <2>2. /\ T \subseteq Inums /\ i \notin T /\ fs \subseteq T /\ i \in Inums /\ l \in T
        /\ \A j \in T : nx[j] # None => nx[j] \in T \ fs
        /\ \A j, k \in T : nx[j] = nx[k] /\ nx[j] # None => j = k
    BY <1>1, <1>10 DEF Forest, Linked, T
  <2>3. U \subseteq Inums /\ fs \subseteq U
    BY <2>2 DEF U
  <2>4. \A j \in U : ny[j] # None => ny[j] \in U \ fs
    BY <2>1, <2>2 DEF U
  <2>5. \A j, k \in U : ny[j] = ny[k] /\ ny[j] # None => j = k
    BY <2>1, <2>2 DEF U
  <2>6. On(ny, fs) = U
    BY <1>9 DEF U, T
  <2> QED
    BY <2>1, <2>3, <2>4, <2>5, <2>6 DEF Forest, Linked
<1> QED
  BY <1>7, <1>9, <1>11

\* the last inode of the chain of f less
LEMMA FewerNodes ==
  ASSUME NEW nx, NEW fs, Forest(nx, fs), NEW f \in fs, NEW l \in Nodes(nx, f), l # f, nx[l] = None,
         NEW p \in On(nx, fs), nx[p] = l, NEW ny, Put(nx, p, None, ny)
  PROVE  /\ Forest(ny, fs) /\ On(ny, fs) = On(nx, fs) \ {l}
<1> DEFINE sz == [j \in Inums |-> 0]
           c == ChainOf(nx, f)
<1>1. /\ sz \in [Inums -> Int] /\ nx \in [Inums -> Int] /\ l \in On(nx, fs) /\ l \in Inums
      /\ p \in Inums /\ None \notin Inums /\ None \in Int
  BY NodesFacts, SizesAssumption DEF Forest, Linked, Inums, None
<1>2. l = c[Len(c)]
  BY LastNode
<1>4. ShorterBy(nx, sz, fs, f, l, ny, sz)
  <2>1. CutOff(nx, sz, On(nx, fs), l, ny, sz)
    BY <1>1, PutIs DEF CutOff
  <2> HIDE DEF sz
  <2> QED
    BY <1>1, <1>2, <2>1, Shorten DEF Forest
<1>5. /\ c \in Seq(Inums) /\ Len(c) \in Nat /\ Len(c) >= 1
      /\ \A k, m \in 1 .. Len(c) : c[k] = c[m] => k = m
  BY FileChainFacts DEF Forest, FileChain
<1>6. ChainOf(ny, f) = SubSeq(c, 1, Len(c) - 1)
  BY <1>4 DEF ShorterBy
<1>7. Nodes(ny, f) = Nodes(nx, f) \ {l}
  <2> HIDE DEF c
  <2>0. Len(c) - 1 \in Nat /\ Len(c) - 1 <= Len(c) /\ Len(c) \in 1 .. Len(c)
    BY <1>5
  <2>1. /\ Len(SubSeq(c, 1, Len(c) - 1)) = Len(c) - 1
        /\ \A k \in 1 .. Len(c) - 1 : SubSeq(c, 1, Len(c) - 1)[k] = c[k]
    BY <1>5, <2>0, Prefix
  <2>2. 1 .. Len(c) - 1 = (1 .. Len(c)) \ {Len(c)}
    BY <1>5
  <2>3. c[Len(c)] = l
    BY <1>2 DEF c
  <2>4. \A j : (\E n \in 1 .. Len(c) - 1 : c[n] = j) <=> j # l /\ \E n \in 1 .. Len(c) : c[n] = j
    BY <1>5, <2>0, <2>2, <2>3
  <2> DEFINE d == SubSeq(c, 1, Len(c) - 1)
  <2>d. ChainOf(ny, f) = d /\ Len(d) = Len(c) - 1 /\ \A k \in 1 .. Len(c) - 1 : d[k] = c[k]
    BY <1>6, <2>1 DEF c
  <2> HIDE DEF d
  <2>5. \A j : j \in Nodes(ny, f) <=> \E n \in 1 .. Len(d) : d[n] = j
    BY <2>d, NodesAre
  <2>6. \A j : j \in Nodes(nx, f) <=> \E n \in 1 .. Len(c) : c[n] = j
    BY NodesAre DEF c
  <2>7. \A j : (\E n \in 1 .. Len(d) : d[n] = j) <=> \E n \in 1 .. Len(c) - 1 : c[n] = j
    BY <2>d
  <2> QED
    BY <2>4, <2>5, <2>6, <2>7
<1>8. \A g \in fs : g # f => Nodes(ny, g) = Nodes(nx, g) /\ l \notin Nodes(nx, g)
  <2>1. \A g \in fs : g # f => Nodes(ny, g) = Nodes(nx, g)
    BY <1>4 DEF ShorterBy, Nodes
  <2>2. \A g \in fs : g # f => l \notin Nodes(nx, g)
    BY NodesApart
  <2> QED
    BY <2>1, <2>2
<1>9. On(ny, fs) = On(nx, fs) \ {l}
  <2>1. \A j : j \in On(ny, fs) <=> \E g \in fs : j \in Nodes(ny, g)
    BY OnIs
  <2>2. \A j : j \in On(nx, fs) <=> \E g \in fs : j \in Nodes(nx, g)
    BY OnIs
  <2> QED
    BY <1>7, <1>8, <2>1, <2>2
<1>10. l \notin fs
  BY <1>8, NodesFacts
<1>11. Forest(ny, fs)
  <2>1. ny \in [Inums -> Int] /\ ny[p] = None /\ \A j \in Inums : j # p => ny[j] = nx[j]
    BY DEF Put
  <2>2. \A j \in On(nx, fs) : nx[j] = l => j = p
    BY <1>1 DEF Forest, Linked
  <2> QED
    BY <1>1, <1>9, <1>10, <2>1, <2>2 DEF Forest, Linked
<1> QED
  BY <1>9, <1>11

(***************************************************************************)
(* A healthy image.                                                        *)
(***************************************************************************)

\* what the values of the disk's variables look like
Disk(bm, im, sz, bl, nx) ==
  /\ bm \subseteq Bnums
  /\ im \subseteq Inums
  /\ sz \in [Inums -> Int]
  /\ bl \in [Inums -> [Slots -> Int]]
  /\ nx \in [Inums -> Int]

\* the inodes T hold marked data blocks, none of them twice
Marked(bm, bl, T) == \A i \in T, k \in Slots : bl[i][k] # None => bl[i][k] \in bm \cap DataBlocks
HeldOnce(bl, T) ==
  \A i, j \in T, k, l \in Slots : bl[i][k] # None /\ bl[i][k] = bl[j][l] => i = j /\ k = l

\* inode i holds the blocks for s bytes, and all it can if it has a next
Backs(bl, nx, i, s) ==
  /\ BytesToBlocks(s) \in 0 .. INODE_LOCAL_BLOCK_CAP
  /\ \A k \in Slots : k < BytesToBlocks(s) => bl[i][k] # None
  /\ nx[i] # None => s = MaxLocalSize

Healthy(bm, im, sz, bl, nx, fs) ==
  /\ Disk(bm, im, sz, bl, nx)
  /\ Forest(nx, fs)
  /\ On(nx, fs) \subseteq im
  /\ Marked(bm, bl, On(nx, fs))
  /\ HeldOnce(bl, On(nx, fs))
  /\ \A i \in On(nx, fs) : Backs(bl, nx, i, sz[i])

\* no slot of the inodes T has the block
Spare(bl, T, b) == \A i \in T, k \in Slots : bl[i][k] # b

(***************************************************************************)
(* The stores of inode.c.                                                  *)
(***************************************************************************)
LEMMA MarkBlock ==
  ASSUME NEW bm, NEW im, NEW sz, NEW bl, NEW nx, NEW fs, Healthy(bm, im, sz, bl, nx, fs),
         NEW b \in Bnums
  PROVE  Healthy(bm \cup {b}, im, sz, bl, nx, fs)
  BY DEF Healthy, Disk, Marked

LEMMA UnmarkBlock ==
  ASSUME NEW bm, NEW im, NEW sz, NEW bl, NEW nx, NEW fs, Healthy(bm, im, sz, bl, nx, fs),
         NEW b, Spare(bl, On(nx, fs), b)
  PROVE  Healthy(bm \ {b}, im, sz, bl, nx, fs)
  BY DEF Healthy, Disk, Marked, Spare

LEMMA MarkInode ==
  ASSUME NEW bm, NEW im, NEW sz, NEW bl, NEW nx, NEW fs, Healthy(bm, im, sz, bl, nx, fs),
         NEW i \in Inums
  PROVE  Healthy(bm, im \cup {i}, sz, bl, nx, fs)
  BY DEF Healthy, Disk

LEMMA UnmarkInode ==
  ASSUME NEW bm, NEW im, NEW sz, NEW bl, NEW nx, NEW fs, Healthy(bm, im, sz, bl, nx, fs),
         NEW i, i \notin On(nx, fs)
  PROVE  Healthy(bm, im \ {i}, sz, bl, nx, fs)
  BY DEF Healthy, Disk

LEMMA SetSize ==
  ASSUME NEW bm, NEW im, NEW sz, NEW bl, NEW nx, NEW fs, Healthy(bm, im, sz, bl, nx, fs),
         NEW i \in Inums, NEW s \in Int, i \in On(nx, fs) => Backs(bl, nx, i, s)
  PROVE  Healthy(bm, im, [sz EXCEPT ![i] = s], bl, nx, fs)
<1> DEFINE sy == [sz EXCEPT ![i] = s]
<1>1. On(nx, fs) \subseteq Inums
  BY DEF Healthy, Forest, Linked
<1>2. sy \in [Inums -> Int] /\ sy[i] = s /\ \A j \in Inums : j # i => sy[j] = sz[j]
  BY DEF Healthy, Disk
<1> HIDE DEF sy
<1>3. \A j \in On(nx, fs) : Backs(bl, nx, j, sy[j])
  BY <1>1, <1>2 DEF Healthy
<1> QED
  BY <1>2, <1>3 DEF Healthy, Disk, sy

LEMMA EmptySlot ==
  ASSUME NEW bm, NEW im, NEW sz, NEW bl, NEW nx, NEW fs, Healthy(bm, im, sz, bl, nx, fs),
         NEW i \in Inums, NEW k \in Slots,
         i \in On(nx, fs) => BytesToBlocks(sz[i]) <= k
  PROVE  Healthy(bm, im, sz, [bl EXCEPT ![i][k] = None], nx, fs)
<1> DEFINE by == [bl EXCEPT ![i][k] = None]
<1>1. On(nx, fs) \subseteq Inums /\ sz \in [Inums -> Int] /\ k \in Int
  BY SizesAssumption DEF Healthy, Disk, Forest, Linked, Slots
<1>2. /\ by \in [Inums -> [Slots -> Int]] /\ by[i][k] = None
      /\ \A j \in Inums, l \in Slots : j # i \/ l # k => by[j][l] = bl[j][l]
  BY DEF Healthy, Disk, None
<1> HIDE DEF by
<1>3. Marked(bm, by, On(nx, fs))
  BY <1>1, <1>2 DEF Healthy, Marked
<1>4. HeldOnce(by, On(nx, fs))
  BY <1>1, <1>2 DEF Healthy, HeldOnce
<1>5. ASSUME NEW j \in On(nx, fs) PROVE Backs(by, nx, j, sz[j])
  <2>1. Backs(bl, nx, j, sz[j]) /\ sz[j] \in Int /\ BytesToBlocks(sz[j]) \in Int
    BY <1>1, BlocksInt DEF Healthy
  <2>2. \A l \in Slots : l < BytesToBlocks(sz[j]) => j # i \/ l # k
    BY <1>1, <2>1
  <2> QED
    BY <1>1, <1>2, <2>1, <2>2 DEF Backs
<1> QED
  BY <1>2, <1>3, <1>4, <1>5 DEF Healthy, Disk, by

LEMMA FillSlot ==
  ASSUME NEW bm, NEW im, NEW sz, NEW bl, NEW nx, NEW fs, Healthy(bm, im, sz, bl, nx, fs),
         NEW i \in Inums, NEW k \in Slots, NEW b \in bm \cap DataBlocks, b # None,
         Spare(bl, On(nx, fs), b)
  PROVE  Healthy(bm, im, sz, [bl EXCEPT ![i][k] = b], nx, fs)
<1> DEFINE by == [bl EXCEPT ![i][k] = b]
<1>1. On(nx, fs) \subseteq Inums /\ b \in Int
  BY SizesAssumption DEF Healthy, Disk, Forest, Linked, DataBlocks
<1>2. /\ by \in [Inums -> [Slots -> Int]] /\ by[i][k] = b
      /\ \A j \in Inums, l \in Slots : j # i \/ l # k => by[j][l] = bl[j][l]
  BY <1>1 DEF Healthy, Disk
<1> HIDE DEF by
<1>3. Marked(bm, by, On(nx, fs))
  BY <1>1, <1>2 DEF Healthy, Marked
<1>4. HeldOnce(by, On(nx, fs))
  BY <1>1, <1>2 DEF Healthy, HeldOnce, Spare
<1>5. ASSUME NEW j \in On(nx, fs) PROVE Backs(by, nx, j, sz[j])
  <2>1. Backs(bl, nx, j, sz[j])
    BY DEF Healthy
  <2>2. \A l \in Slots : bl[j][l] # None => by[j][l] # None
    BY <1>1, <1>2
  <2> QED
    BY <2>1, <2>2 DEF Backs
<1> QED
  BY <1>2, <1>3, <1>4, <1>5 DEF Healthy, Disk, by

\* inode_reset of inode i
Reset(sz, bl, nx, i, sy, by, ny) ==
  sy = [sz EXCEPT ![i] = 0] /\ by = [bl EXCEPT ![i] = EmptySlots] /\ ny = [nx EXCEPT ![i] = None]

\* nothing to the files if they do not reach it
LEMMA ResetInode ==
  ASSUME NEW bm, NEW im, NEW sz, NEW bl, NEW nx, NEW fs, Healthy(bm, im, sz, bl, nx, fs),
         NEW i \in Inums \ On(nx, fs), NEW sy, NEW by, NEW ny, Reset(sz, bl, nx, i, sy, by, ny)
  PROVE  /\ Healthy(bm, im, sy, by, ny, fs)
         /\ On(ny, fs) = On(nx, fs)
<1>1. On(nx, fs) \subseteq Inums /\ EmptySlots \in [Slots -> Int]
  BY DEF Healthy, Forest, Linked, EmptySlots, None
<1>2. /\ sy \in [Inums -> Int] /\ by \in [Inums -> [Slots -> Int]] /\ ny \in [Inums -> Int]
      /\ \A j \in On(nx, fs) : sy[j] = sz[j] /\ by[j] = bl[j] /\ ny[j] = nx[j]
  BY <1>1 DEF Healthy, Disk, None, Reset
<1>3. Forest(ny, fs) /\ On(ny, fs) = On(nx, fs)
  <2>1. Forest(nx, fs)
    BY DEF Healthy
  <2>2. ny \in [Inums -> Int]
    BY <1>2
  <2>3. \A j \in On(nx, fs) : ny[j] = nx[j]
    BY <1>2
  <2> QED
    BY <2>1, <2>2, <2>3, SameForest
<1>4. Marked(bm, by, On(nx, fs)) /\ HeldOnce(by, On(nx, fs))
  BY <1>2 DEF Healthy, Marked, HeldOnce
<1>5. \A j \in On(nx, fs) : Backs(by, ny, j, sy[j])
  BY <1>2 DEF Healthy, Backs
<1>6. Healthy(bm, im, sy, by, ny, fs)
  BY <1>2, <1>3, <1>4, <1>5 DEF Healthy, Disk
<1> QED
  BY <1>3, <1>6

\* an inode as inode_reset leaves it
Empty(sz, bl, nx, i) == sz[i] = 0 /\ bl[i] = EmptySlots /\ nx[i] = None

LEMMA EmptyBacks ==
  ASSUME NEW sz, NEW bl, NEW nx, NEW i, Empty(sz, bl, nx, i)
  PROVE  Backs(bl, nx, i, sz[i]) /\ \A k \in Slots : bl[i][k] = None
<1>1. BytesToBlocks(0) = 0
  BY BlocksOfMultiple, SizesAssumption
<1>2. \A k \in Slots : ~ (k < 0)
  BY SizesAssumption DEF Slots
<1>3. 0 \in 0 .. INODE_LOCAL_BLOCK_CAP
  BY SizesAssumption
<1>4. \A k \in Slots : bl[i][k] = None
  BY DEF Empty, EmptySlots
<1> QED
  BY <1>1, <1>2, <1>3, <1>4 DEF Empty, Backs

\* inode_grow gives the last inode of a file the new child
LEMMA LinkChild ==
  ASSUME NEW bm, NEW im, NEW sz, NEW bl, NEW nx, NEW fs, Healthy(bm, im, sz, bl, nx, fs),
         NEW f \in fs, NEW l \in Nodes(nx, f), nx[l] = None, sz[l] = MaxLocalSize,
         NEW i \in im \ On(nx, fs), Empty(sz, bl, nx, i)
  PROVE  /\ Healthy(bm, im, sz, bl, [nx EXCEPT ![l] = i], fs)
         /\ On([nx EXCEPT ![l] = i], fs) = On(nx, fs) \cup {i}
         /\ i \in Nodes([nx EXCEPT ![l] = i], f)
<1> DEFINE ny == [nx EXCEPT ![l] = i]
           T == On(nx, fs)
<1>1. /\ T \subseteq Inums /\ l \in T /\ l # i /\ i \in Inums /\ i \in Int /\ i \notin T /\ T \subseteq im
      /\ nx \in [Inums -> Int] /\ Forest(nx, fs) /\ nx[i] = None
  <2>1. Forest(nx, fs) /\ T \subseteq im /\ im \subseteq Inums /\ nx \in [Inums -> Int]
    BY DEF Healthy, Disk
  <2>2. l \in T
    BY <2>1, NodesFacts
  <2>3. i \in Int
    BY <2>1, SizesAssumption DEF Inums
  <2> QED
    BY <2>1, <2>2, <2>3 DEF Empty
<1>2. ny \in [Inums -> Int] /\ \A j \in Inums : j # l => ny[j] = nx[j]
  BY <1>1
<1>3. Forest(ny, fs) /\ On(ny, fs) = T \cup {i} /\ i \in Nodes(ny, f)
  <2>1. Put(nx, l, i, ny)
    BY <1>1, <1>2 DEF Put
  <2>2. Forest(nx, fs) /\ i \in Inums \ On(nx, fs) /\ nx[i] = None
    BY <1>1
  <2> HIDE DEF ny
  <2> QED
    BY <2>1, <2>2, MoreNodes
<1> HIDE DEF ny, T
<1>4. \A k \in Slots : bl[i][k] = None
  BY EmptyBacks
<1>5. Marked(bm, bl, T \cup {i}) /\ HeldOnce(bl, T \cup {i})
  BY <1>4 DEF Healthy, Marked, HeldOnce, T
<1>6. ASSUME NEW j \in T \cup {i} PROVE Backs(bl, ny, j, sz[j])
  <2>1. Backs(bl, nx, j, sz[j])
    BY EmptyBacks DEF Healthy, T
  <2> QED
    BY <1>1, <1>2, <2>1 DEF Backs
<1>7. Healthy(bm, im, sz, bl, ny, fs)
  BY <1>1, <1>2, <1>3, <1>5, <1>6 DEF Healthy, Disk
<1> QED
  BY <1>3, <1>7 DEF ny, T

\* inode_shrink cuts the last inode off
LEMMA CutChild ==
  ASSUME NEW bm, NEW im, NEW sz, NEW bl, NEW nx, NEW fs, Healthy(bm, im, sz, bl, nx, fs),
         NEW f \in fs, NEW l \in Nodes(nx, f), nx[l] = None, l # f,
         NEW p \in On(nx, fs), nx[p] = l
  PROVE  /\ Healthy(bm, im, sz, bl, [nx EXCEPT ![p] = None], fs)
         /\ On([nx EXCEPT ![p] = None], fs) = On(nx, fs) \ {l}
<1> DEFINE ny == [nx EXCEPT ![p] = None]
           T == On(nx, fs)
<1>1. /\ T \subseteq Inums /\ T \subseteq im /\ nx \in [Inums -> Int] /\ Forest(nx, fs)
  BY DEF Healthy, Disk, Forest, Linked
<1>2. ny \in [Inums -> Int] /\ ny[p] = None /\ \A j \in Inums : j # p => ny[j] = nx[j]
  BY <1>1 DEF None
<1>3. Forest(ny, fs) /\ On(ny, fs) = T \ {l}
  <2>1. Put(nx, p, None, ny)
    BY <1>1, <1>2 DEF Put
  <2>2. Forest(nx, fs)
    BY <1>1
  <2> HIDE DEF ny
  <2> QED
    BY <2>1, <2>2, FewerNodes
<1> HIDE DEF ny, T
<1>4. Marked(bm, bl, T \ {l}) /\ HeldOnce(bl, T \ {l})
  BY DEF Healthy, Marked, HeldOnce, T
<1>5. ASSUME NEW j \in T \ {l} PROVE Backs(bl, ny, j, sz[j])
  <2>1. Backs(bl, nx, j, sz[j])
    BY DEF Healthy, T
  <2> QED
    BY <1>1, <1>2, <2>1 DEF Backs
<1>6. Healthy(bm, im, sz, bl, ny, fs)
  BY <1>1, <1>2, <1>3, <1>4, <1>5 DEF Healthy, Disk
<1> QED
  BY <1>3, <1>6 DEF ny, T

\* inode_alloc's inode becomes a file
LEMMA NewFile ==
  ASSUME NEW bm, NEW im, NEW sz, NEW bl, NEW nx, NEW fs, Healthy(bm, im, sz, bl, nx, fs),
         NEW i \in im \ On(nx, fs), Empty(sz, bl, nx, i)
  PROVE  /\ Healthy(bm, im, sz, bl, nx, fs \cup {i})
         /\ On(nx, fs \cup {i}) = On(nx, fs) \cup {i}
<1> DEFINE T == On(nx, fs)
<1>1. T \subseteq im /\ Forest(nx, fs) /\ i \in Inums /\ i \notin T /\ nx[i] = None
  BY DEF Healthy, Disk, Empty
<1>2. Forest(nx, fs \cup {i}) /\ On(nx, fs \cup {i}) = T \cup {i}
  <2>1. Forest(nx, fs) /\ i \in Inums \ On(nx, fs) /\ nx[i] = None
    BY <1>1
  <2> QED
    BY <2>1, MoreFiles
<1> HIDE DEF T
<1>3. \A k \in Slots : bl[i][k] = None
  BY EmptyBacks
<1>4. Marked(bm, bl, T \cup {i}) /\ HeldOnce(bl, T \cup {i})
  BY <1>3 DEF Healthy, Marked, HeldOnce, T
<1>5. \A j \in T \cup {i} : Backs(bl, nx, j, sz[j])
  BY EmptyBacks DEF Healthy, T
<1>6. Healthy(bm, im, sz, bl, nx, fs \cup {i})
  BY <1>1, <1>2, <1>4, <1>5 DEF Healthy
<1> QED
  BY <1>2, <1>6 DEF T

\* a file that is given up: its inodes stay marked, its blocks too
LEMMA Forget ==
  ASSUME NEW bm, NEW im, NEW sz, NEW bl, NEW nx, NEW fs, Healthy(bm, im, sz, bl, nx, fs),
         NEW f \in fs
  PROVE  /\ Healthy(bm, im, sz, bl, nx, fs \ {f})
         /\ On(nx, fs \ {f}) \subseteq On(nx, fs)
         /\ \A i \in Nodes(nx, f) : i \notin On(nx, fs \ {f})
<1> DEFINE T == On(nx, fs)
           U == On(nx, fs \ {f})
<1>1. /\ Forest(nx, fs \ {f}) /\ U \subseteq T /\ \A i \in Nodes(nx, f) : i \notin U
  BY FewerFiles DEF Healthy
<1> HIDE DEF T, U
<1>2. Marked(bm, bl, U) /\ HeldOnce(bl, U) /\ \A j \in U : Backs(bl, nx, j, sz[j])
  BY <1>1 DEF Healthy, Marked, HeldOnce, T
<1>3. Healthy(bm, im, sz, bl, nx, fs \ {f})
  BY <1>1, <1>2 DEF Healthy, T, U
<1> QED
  BY <1>1, <1>3 DEF T, U

(***************************************************************************)
(* The invariant.                                                          *)
(***************************************************************************)

\* the call is on the chain of its own file
CallType ==
  /\ pc \in {"idle", "total", "grow", "shrink", "clear", "fault", "abort"}
  /\ op \in {"none", "truncate", "write", "free"}
  /\ pc # "idle" => op # "none" /\ top \in files /\ cur \in Nodes(next, top)
  /\ pc = "shrink" => op \in {"truncate", "free"}
  /\ pc = "clear" => op = "free"
  /\ arg \in Int
  /\ left \in Int
  /\ rv \in {"ok", "ENOSPC"}
  /\ torn \in BOOLEAN

Whole == Healthy(blockMap, inodeMap, size, blocks, next, files) /\ CallType

\* the file whose shrinking was interrupted is not looked at again
Damaged ==
  /\ Healthy(blockMap, inodeMap, size, blocks, next, files \ {victim})
  /\ victim \notin On(next, files \ {victim})

CrashIInv == IF victim = None THEN Whole ELSE Damaged

LEMMA WholeFacts ==
  ASSUME Whole
  PROVE  /\ blockMap \subseteq Bnums /\ inodeMap \subseteq Inums
         /\ size \in [Inums -> Int] /\ blocks \in [Inums -> [Slots -> Int]] /\ next \in [Inums -> Int]
         /\ Forest(next, files) /\ files \subseteq On(next, files)
         /\ On(next, files) \subseteq inodeMap /\ None \notin Inums
         /\ \A i \in Inums : i \in Int /\ i >= 0
  BY SizesAssumption DEF Whole, Healthy, Disk, Forest, Linked, Inums, None

LEMMA CurFacts ==
  ASSUME Whole, pc # "idle"
  PROVE  /\ top \in files /\ cur \in Nodes(next, top) /\ cur \in On(next, files) /\ cur \in Inums
         /\ cur \in inodeMap /\ size[cur] \in Int /\ left \in Int /\ UsedBlocks(cur) \in Int
         /\ Backs(blocks, next, cur, size[cur])
         /\ next[cur] >= 0 => next[cur] \in Nodes(next, top)
         /\ next[cur] < 0 => next[cur] = None
<1>1. top \in files /\ cur \in Nodes(next, top) /\ left \in Int
  BY DEF Whole, CallType
<1>2. Forest(next, files)
  BY WholeFacts
<1>3. cur \in On(next, files)
  BY <1>1, <1>2, NodesFacts
<1>4. cur \in Inums /\ cur \in inodeMap /\ size[cur] \in Int
  BY <1>3, WholeFacts
<1>5. Backs(blocks, next, cur, size[cur])
  BY <1>3 DEF Whole, Healthy
<1>6. next[cur] # None => next[cur] \in Nodes(next, top) /\ next[cur] >= 0
  <2> SUFFICES ASSUME next[cur] # None
               PROVE  next[cur] \in Nodes(next, top) /\ next[cur] >= 0
    OBVIOUS
  <2>1. next[cur] \in Nodes(next, top)
    BY <1>1, <1>2, NextNode
  <2>2. next[cur] \in Inums
    BY <1>1, <1>2, <2>1, NodesFacts
  <2> QED
    BY <2>1, <2>2, WholeFacts
<1>7. next[cur] \in Int /\ ~ (None >= 0)
  BY <1>4, WholeFacts DEF None
<1>8. UsedBlocks(cur) \in Int
  BY <1>4, BlocksInt DEF UsedBlocks
<1> QED
  BY <1>1, <1>3, <1>4, <1>5, <1>6, <1>7, <1>8

LEMMA WholeAtLast ==
  ASSUME Whole, AtLastToGrow \/ AtLastToShrink
  PROVE  /\ pc # "idle" /\ top \in files /\ cur \in Nodes(next, top) /\ cur \in On(next, files) /\ cur \in Inums
         /\ size[cur] \in Int /\ left \in Int /\ left >= 1 /\ next[cur] = None
         /\ UsedBlocks(cur) \in 0 .. INODE_LOCAL_BLOCK_CAP
         /\ \A k \in Slots : k < UsedBlocks(cur) => blocks[cur][k] # None
         /\ pc = "shrink" => op \in {"truncate", "free"}
<1>1. pc # "idle" /\ left >= 1 /\ next[cur] < 0
  BY DEF AtLastToGrow, AtLastToShrink, Shrinkable
<1> QED
  BY <1>1, CurFacts DEF Backs, UsedBlocks, Whole, CallType

(***************************************************************************)
(* The steps of the daemon.                                                *)
(***************************************************************************)
LEMMA WholeKept ==
  ASSUME Whole, UNCHANGED <<disk, files>>, CallType'
  PROVE  Whole'
  BY DEF Whole, disk

LEMMA Returns ==
  ASSUME Whole, NEW v \in {"ok", "ENOSPC"}, Return(v), torn' \in BOOLEAN
  PROVE  CallType'
  BY DEF Return, CallType

LEMMA BeginWhole ==
  ASSUME Whole, NEW o \in {"truncate", "write", "free"}, NEW f \in files, NEW n \in Int, Begin(o, f, n)
  PROVE  Whole'
<1>1. f \in Nodes(next, f)
  BY WholeFacts, NodesFacts
<1>2. CallType'
  BY <1>1 DEF Whole, Begin, CallType, disk
<1> QED
  BY <1>2, WholeKept DEF Begin

LEMMA MoveWhole ==
  ASSUME Whole, AddSize \/ Walk \/ SizeKnown
  PROVE  Whole'
<1>1. CASE AddSize
  <2>1. next[cur] \in Nodes(next, top) /\ size[cur] \in Int /\ left \in Int
    BY <1>1, CurFacts DEF AddSize
  <2>2. CallType'
    BY <1>1, <2>1 DEF Whole, CallType, AddSize, disk
  <2> QED
    BY <1>1, <2>2, WholeKept DEF AddSize
<1>2. CASE Walk
  <2>1. next[cur] \in Nodes(next, top)
    BY <1>2, CurFacts DEF Walk
  <2>2. CallType'
    BY <1>2, <2>1 DEF Whole, CallType, Walk, disk
  <2> QED
    BY <1>2, <2>2, WholeKept DEF Walk
<1>3. CASE SizeKnown
  <2> DEFINE delta == ToInt(arg - (left + size[cur]))
  <2>1. size[cur] \in Int /\ left \in Int /\ arg \in Int /\ top \in files /\ op # "none"
    BY <1>3, CurFacts DEF Whole, CallType, SizeKnown
  <2>2. delta \in Int /\ ToInt(-delta) \in Int
    <3>1. arg - (left + size[cur]) \in Int
      BY <2>1
    <3>2. delta \in Int
      BY <3>1, ToIntInt
    <3>3. -delta \in Int
      BY <3>2
    <3> QED
      BY <3>2, <3>3, ToIntInt
  <2>3. top \in Nodes(next, top)
    BY <2>1, WholeFacts, NodesFacts
  <2> HIDE DEF delta
  <2>4. /\ pc' \in {"grow", "shrink"} /\ left' \in Int /\ cur' = top
        /\ pc' = "shrink" => op \in {"truncate", "free"}
        /\ UNCHANGED <<disk, files, op, top, arg, rv, torn>>
    BY <1>3, <2>1, <2>2 DEF SizeKnown, StartGrow, StartShrink, delta
  <2>5. CallType'
    BY <2>1, <2>3, <2>4 DEF Whole, CallType, disk
  <2> QED
    BY <2>4, <2>5, WholeKept
<1> QED
  BY <1>1, <1>2, <1>3

LEMMA StopWhole ==
  ASSUME Whole, AllocNoInode \/ GrowDone \/ GrowNoBlock \/ ShrinkDone \/ ShrinkUndefined
  PROVE  Whole'
<1>1. CASE GrowDone \/ GrowNoBlock
  <2>1. torn' \in BOOLEAN
    BY <1>1 DEF Whole, CallType, GrowDone, GrowNoBlock
  <2>2. CallType'
    BY <1>1, <2>1, Returns DEF GrowDone, GrowNoBlock
  <2> QED
    BY <1>1, <2>2, WholeKept DEF GrowDone, GrowNoBlock
<1>2. CASE AllocNoInode
  <2>1. CallType'
    BY <1>2 DEF Whole, CallType, AllocNoInode, disk, call
  <2> QED
    BY <1>2, <2>1, WholeKept DEF AllocNoInode
<1>3. CASE ShrinkDone
  <2>1. CallType'
    BY <1>3 DEF Whole, CallType, ShrinkDone, ShrinkReturn, Return, disk
  <2> QED
    BY <1>3, <2>1, WholeKept DEF ShrinkDone
<1>4. CASE ShrinkUndefined
  <2>1. CallType'
    BY <1>4 DEF Whole, CallType, ShrinkUndefined, AtLastToShrink, disk
  <2> QED
    BY <1>4, <2>1, WholeKept DEF ShrinkUndefined
<1> QED
  BY <1>1, <1>2, <1>3, <1>4

\* only the size of the last inode changes, the blocks it needs do not
LEMMA ResizeWhole ==
  ASSUME Whole, GrowInPlace \/ GrowNoInode \/ ShrinkInPlace
  PROVE  Whole'
<1>1. AtLastToGrow \/ AtLastToShrink
  BY DEF GrowInPlace, GrowNoInode, ShrinkInPlace
<1>2. /\ cur \in On(next, files) /\ cur \in Inums /\ size[cur] \in Int /\ left \in Int /\ next[cur] = None
      /\ UsedBlocks(cur) \in 0 .. INODE_LOCAL_BLOCK_CAP
      /\ \A k \in Slots : k < UsedBlocks(cur) => blocks[cur][k] # None
  BY <1>1, WholeAtLast
<1>3. PICK s \in Int : /\ size' = [size EXCEPT ![cur] = s] /\ BytesToBlocks(s) = UsedBlocks(cur)
                       /\ UNCHANGED <<blockMap, inodeMap, blocks, next, files, torn>>
  <2>1. CASE GrowInPlace
    <3>1. size[cur] + left \in Int
      BY <1>2
    <3>2. /\ size' = [size EXCEPT ![cur] = size[cur] + left]
          /\ BytesToBlocks(size[cur] + left) = UsedBlocks(cur)
          /\ UNCHANGED <<blockMap, inodeMap, blocks, next, files, torn>>
      BY <2>1 DEF GrowInPlace, FitsInUsedBlocks
    <3> QED
      BY <3>1, <3>2
  <2>2. CASE ShrinkInPlace
    <3>1. size[cur] - left \in Int
      BY <1>2
    <3>2. /\ size' = [size EXCEPT ![cur] = size[cur] - left]
          /\ BytesToBlocks(size[cur] - left) = UsedBlocks(cur)
          /\ UNCHANGED <<blockMap, inodeMap, blocks, next, files, torn>>
      BY <2>2 DEF ShrinkInPlace, KeepsUsedBlocks
    <3> QED
      BY <3>1, <3>2
  <2>3. CASE GrowNoInode
    <3>1. UsedBlocks(cur) = INODE_LOCAL_BLOCK_CAP
      BY <1>2, <2>3, SizesAssumption DEF GrowNoInode
    <3>2. MaxLocalSize \in Int /\ BytesToBlocks(MaxLocalSize) = INODE_LOCAL_BLOCK_CAP
      BY BlocksOfMaxLocalSize
    <3> QED
      BY <2>3, <3>1, <3>2 DEF GrowNoInode
  <2> QED
    BY <2>1, <2>2, <2>3
<1>4. Backs(blocks, next, cur, s)
  BY <1>2, <1>3 DEF Backs
<1>5. Healthy(blockMap, inodeMap, [size EXCEPT ![cur] = s], blocks, next, files)
  BY <1>2, <1>4, SetSize DEF Whole
<1>6. CallType'
  <2>1. CASE GrowInPlace \/ GrowNoInode
    <3>1. torn' \in BOOLEAN
      BY <1>3 DEF Whole, CallType
    <3> QED
      BY <2>1, <3>1, Returns DEF GrowInPlace, GrowNoInode
  <2>2. CASE ShrinkInPlace
    BY <1>3, <2>2 DEF Whole, CallType, ShrinkInPlace, ShrinkReturn, AtLastToShrink, Return
  <2> QED
    BY <2>1, <2>2
<1> QED
  BY <1>3, <1>5, <1>6 DEF Whole

(***************************************************************************)
(* Taking a block: bit, slot, size.                                        *)
(***************************************************************************)
LEMMA TakeBlock ==
  ASSUME Whole, AtLastToGrow, ~FitsInUsedBlocks, UsedBlocks(cur) < INODE_LOCAL_BLOCK_CAP,
         NEW b \in DataBlocks \ blockMap, NEW bl, bl = [blocks EXCEPT ![cur][UsedBlocks(cur)] = b]
  PROVE  /\ Healthy(blockMap \cup {b}, inodeMap, size, blocks, next, files)
         /\ Healthy(blockMap \cup {b}, inodeMap, size, bl, next, files)
         /\ size[cur] + MIN(BLOCK_SIZE, left) \in Int
         /\ Healthy(blockMap \cup {b}, inodeMap, [size EXCEPT ![cur] = size[cur] + MIN(BLOCK_SIZE, left)],
                    bl, next, files)
<1> DEFINE u == UsedBlocks(cur)
           s == size[cur] + MIN(BLOCK_SIZE, left)
           bm == blockMap \cup {b}
<1>1. /\ cur \in On(next, files) /\ cur \in Inums /\ size[cur] \in Int /\ left \in Int /\ left >= 1
      /\ next[cur] = None /\ u \in Slots /\ u \in Int
      /\ \A k \in Slots : k < u => blocks[cur][k] # None
  BY WholeAtLast, SizesAssumption DEF Slots
<1>2. b \in Bnums /\ b # None /\ b \in bm \cap DataBlocks
  BY SizesAssumption DEF DataBlocks, Bnums, None
<1>3. Healthy(bm, inodeMap, size, blocks, next, files)
  BY <1>2, MarkBlock DEF Whole
<1>4. Spare(blocks, On(next, files), b)
  BY <1>2 DEF Whole, Healthy, Marked, Spare
<1>5. Healthy(bm, inodeMap, size, bl, next, files)
  <2> HIDE DEF bm, u
  <2>1. bl = [blocks EXCEPT ![cur][u] = b]
    BY DEF u
  <2>2. Healthy(bm, inodeMap, size, [blocks EXCEPT ![cur][u] = b], next, files)
    BY <1>1, <1>2, <1>3, <1>4, FillSlot
  <2> QED
    BY <2>1, <2>2
<1>6. s \in Int /\ BytesToBlocks(s) \in {u, u + 1} /\ BytesToBlocks(s) \in 0 .. INODE_LOCAL_BLOCK_CAP
  <2>1. BytesToBlocks(size[cur] + left) # BytesToBlocks(size[cur]) /\ BytesToBlocks(size[cur]) >= 0
    BY <1>1, SizesAssumption DEF FitsInUsedBlocks, UsedBlocks, Slots
  <2>2. s \in Int /\ BytesToBlocks(s) \in {u, u + 1}
    BY <1>1, <2>1, GrowByBlock DEF UsedBlocks
  <2> QED
    BY <1>1, <2>2, SizesAssumption DEF Slots
<1>7. Backs(bl, next, cur, s)
  <2>1. blocks \in [Inums -> [Slots -> Int]]
    BY WholeFacts
  <2>2. bl[cur][u] = b /\ \A k \in Slots : k # u => bl[cur][k] = blocks[cur][k]
    BY <1>1, <2>1
  <2>3. \A k \in Slots : k \in Int
    BY SizesAssumption DEF Slots
  <2>4. \A k \in Slots : k < BytesToBlocks(s) => k < u \/ k = u
    BY <1>1, <1>6, <2>3
  <2> HIDE DEF s, u
  <2>5. \A k \in Slots : k < BytesToBlocks(s) => bl[cur][k] # None
    BY <1>1, <1>2, <2>2, <2>4
  <2> QED
    BY <1>1, <1>6, <2>5 DEF Backs
<1>8. Healthy(bm, inodeMap, [size EXCEPT ![cur] = s], bl, next, files)
  <2> HIDE DEF s, bm
  <2> QED
    BY <1>1, <1>5, <1>6, <1>7, SetSize
<1> QED
  BY <1>3, <1>5, <1>6, <1>8

LEMMA GrowBlockWhole ==
  ASSUME Whole, GrowBlock
  PROVE  Whole'
<1>1. /\ AtLastToGrow /\ ~FitsInUsedBlocks /\ UsedBlocks(cur) < INODE_LOCAL_BLOCK_CAP
      /\ size' = [size EXCEPT ![cur] = size[cur] + MIN(BLOCK_SIZE, left)]
      /\ left' = left - BLOCK_SIZE
      /\ UNCHANGED <<inodeMap, next, files, pc, op, top, cur, arg, rv, torn>>
  BY DEF GrowBlock
<1>2. PICK b \in Bnums : BlockAlloc(b) /\ blocks' = [blocks EXCEPT ![cur][UsedBlocks(cur)] = b]
  BY DEF GrowBlock
<1>3. b \in DataBlocks \ blockMap /\ blockMap' = blockMap \cup {b}
  BY <1>2 DEF BlockAlloc
<1>4. Healthy(blockMap \cup {b}, inodeMap, [size EXCEPT ![cur] = size[cur] + MIN(BLOCK_SIZE, left)],
              blocks', next, files)
  BY <1>1, <1>2, <1>3, TakeBlock
<1>5. left' \in Int
  BY <1>1, WholeAtLast, SizesAssumption
<1>6. CallType'
  BY <1>1, <1>5 DEF Whole, CallType
<1> QED
  BY <1>1, <1>3, <1>4, <1>6 DEF Whole

(***************************************************************************)
(* Taking an inode: inode_reset, bit, and for a child the next before it.  *)
(***************************************************************************)
LEMMA TakeInode ==
  ASSUME NEW bm, NEW im, NEW sz, NEW bl, NEW nx, NEW fs, Healthy(bm, im, sz, bl, nx, fs),
         NEW i \in Inums \ im, NEW sy, NEW by, NEW ny, Reset(sz, bl, nx, i, sy, by, ny)
  PROVE  /\ Healthy(bm, im, sy, by, ny, fs)
         /\ Healthy(bm, im \cup {i}, sy, by, ny, fs)
         /\ i \in (im \cup {i}) \ On(ny, fs) /\ Empty(sy, by, ny, i)
<1>1. i \notin On(nx, fs) /\ sz \in [Inums -> Int] /\ bl \in [Inums -> [Slots -> Int]] /\ nx \in [Inums -> Int]
  BY DEF Healthy, Disk
<1>2. Empty(sy, by, ny, i)
  BY <1>1 DEF Empty, Reset
<1>3. Healthy(bm, im, sy, by, ny, fs) /\ On(ny, fs) = On(nx, fs)
  BY <1>1, ResetInode
<1>4. Healthy(bm, im \cup {i}, sy, by, ny, fs)
  BY <1>3, MarkInode
<1> QED
  BY <1>1, <1>2, <1>3, <1>4

LEMMA AllocWhole ==
  ASSUME Whole, Alloc
  PROVE  Whole'
<1>1. PICK i \in Inums : /\ FirstFreeInum(i)
                         /\ inodeMap' = inodeMap \cup {i}
                         /\ size' = [size EXCEPT ![i] = 0]
                         /\ blocks' = [blocks EXCEPT ![i] = EmptySlots]
                         /\ next' = [next EXCEPT ![i] = None]
                         /\ files' = files \cup {i}
  BY DEF Alloc
<1>2. i \in Inums \ inodeMap
  BY <1>1 DEF FirstFreeInum
<1>3. /\ pc = "idle" /\ rv' = "ok" /\ UNCHANGED <<blockMap, pc, op, top, cur, arg, left, torn>>
  BY DEF Alloc, call
<1>4. /\ Healthy(blockMap, inodeMap', size', blocks', next', files)
      /\ i \in inodeMap' \ On(next', files) /\ Empty(size', blocks', next', i)
  <2>1. Reset(size, blocks, next, i, size', blocks', next')
    BY <1>1 DEF Reset
  <2> QED
    BY <1>1, <1>2, <2>1, TakeInode DEF Whole
<1>5. Healthy(blockMap, inodeMap', size', blocks', next', files \cup {i})
  BY <1>4, NewFile
<1>6. CallType'
  BY <1>3 DEF Whole, CallType
<1> QED
  BY <1>1, <1>3, <1>5, <1>6 DEF Whole

\* the last inode of a file with every slot used, filled up
LEMMA FillInode ==
  ASSUME Whole, AtLastToGrow, UsedBlocks(cur) >= INODE_LOCAL_BLOCK_CAP
  PROVE  /\ Healthy(blockMap, inodeMap, [size EXCEPT ![cur] = MaxLocalSize], blocks, next, files)
         /\ cur \in Inums /\ cur \in inodeMap /\ MaxLocalSize \in Int
<1>1. /\ cur \in On(next, files) /\ cur \in Inums
      /\ UsedBlocks(cur) = INODE_LOCAL_BLOCK_CAP
      /\ \A k \in Slots : k < UsedBlocks(cur) => blocks[cur][k] # None
  BY WholeAtLast, SizesAssumption
<1>2. MaxLocalSize \in Int /\ BytesToBlocks(MaxLocalSize) = INODE_LOCAL_BLOCK_CAP
  BY BlocksOfMaxLocalSize
<1>3. Backs(blocks, next, cur, MaxLocalSize)
  BY <1>1, <1>2, SizesAssumption DEF Backs
<1> QED
  BY <1>1, <1>2, <1>3, SetSize, WholeFacts DEF Whole

LEMMA GrowChildWhole ==
  ASSUME Whole, GrowChild
  PROVE  Whole'
<1>1. /\ AtLastToGrow /\ UsedBlocks(cur) >= INODE_LOCAL_BLOCK_CAP
      /\ left' = left - (MaxLocalSize - size[cur])
      /\ UNCHANGED <<blockMap, files, pc, op, top, arg, rv, torn>>
  BY DEF GrowChild
<1>2. PICK i \in Inums : /\ FirstFreeInum(i)
                         /\ inodeMap' = inodeMap \cup {i}
                         /\ size' = [size EXCEPT ![cur] = MaxLocalSize, ![i] = 0]
                         /\ blocks' = [blocks EXCEPT ![i] = EmptySlots]
                         /\ next' = [next EXCEPT ![cur] = i, ![i] = None]
                         /\ cur' = i
  BY DEF GrowChild
<1> DEFINE full == [size EXCEPT ![cur] = MaxLocalSize]
           nx == [next EXCEPT ![i] = None]
<1>3. i \in Inums \ inodeMap
  BY <1>2 DEF FirstFreeInum
<1>4. /\ Healthy(blockMap, inodeMap, full, blocks, next, files)
      /\ cur \in Inums /\ cur \in inodeMap /\ MaxLocalSize \in Int
  BY <1>1, FillInode
<1>5. /\ pc # "idle" /\ top \in files /\ cur \in Nodes(next, top) /\ next[cur] = None /\ size[cur] \in Int
      /\ left \in Int
  BY <1>1, WholeAtLast
<1>6. size \in [Inums -> Int] /\ next \in [Inums -> Int] /\ i \in Int /\ i # cur
  BY <1>3, <1>4, WholeFacts
<1>7. size' = [full EXCEPT ![i] = 0] /\ next' = [nx EXCEPT ![cur] = i] /\ nx[cur] = None /\ size'[cur] = MaxLocalSize
  BY <1>2, <1>4, <1>5, <1>6
<1> HIDE DEF full, nx
<1>8. /\ Healthy(blockMap, inodeMap', size', blocks', nx, files)
      /\ i \in inodeMap' \ On(nx, files) /\ Empty(size', blocks', nx, i)
      /\ Nodes(nx, top) = Nodes(next, top)
  <2>1. Reset(full, blocks, next, i, size', blocks', nx)
    BY <1>2, <1>7 DEF nx, Reset
  <2>2. /\ Healthy(blockMap, inodeMap \cup {i}, size', blocks', nx, files)
        /\ i \in (inodeMap \cup {i}) \ On(nx, files) /\ Empty(size', blocks', nx, i)
    BY <1>3, <1>4, <2>1, TakeInode
  <2>3. Nodes(nx, top) = Nodes(next, top)
    <3>1. nx \in [Inums -> Int] /\ \A j \in Inums : j # i => nx[j] = next[j]
      BY <1>6 DEF nx, None
    <3>2. Forest(next, files) /\ On(next, files) \subseteq Inums /\ i \notin On(next, files)
      BY <1>3, WholeFacts
    <3>3. \A j \in On(next, files) : nx[j] = next[j]
      BY <3>1, <3>2
    <3> QED
      BY <1>5, <3>1, <3>2, <3>3, SameForest
  <2> QED
    BY <1>2, <1>5, <2>2, <2>3
<1>9. Healthy(blockMap, inodeMap', size', blocks', next', files) /\ i \in Nodes(next', top)
  BY <1>5, <1>7, <1>8, LinkChild
<1>10. left' \in Int
  BY <1>1, <1>4, <1>5
<1>11. CallType'
  BY <1>1, <1>2, <1>9, <1>10 DEF Whole, CallType
<1> QED
  BY <1>1, <1>9, <1>11 DEF Whole

(***************************************************************************)
(* Giving a block back: size, slot, bit, and for a child that is left      *)
(* empty its bit and the next before it.                                   *)
(***************************************************************************)
LEMMA DropFacts ==
  ASSUME Whole, AtLastToShrink, LastSlot \in Slots
  PROVE  /\ pc # "idle" /\ top \in files /\ cur \in Nodes(next, top) /\ cur \in On(next, files)
         /\ cur \in Inums /\ next[cur] = None /\ size[cur] \in Int /\ left \in Int
         /\ size[cur] - DecreaseSize = BLOCK_SIZE * LastSlot
         /\ size[cur] - DecreaseSize \in Int /\ DecreaseSize \in Int
         /\ BytesToBlocks(size[cur] - DecreaseSize) = LastSlot
         /\ blocks[cur][LastSlot] # None
         /\ op \in {"truncate", "free"}
<1>1. /\ pc # "idle" /\ top \in files /\ cur \in Nodes(next, top) /\ cur \in On(next, files)
      /\ cur \in Inums /\ next[cur] = None /\ size[cur] \in Int /\ left \in Int
      /\ \A k \in Slots : k < UsedBlocks(cur) => blocks[cur][k] # None
      /\ UsedBlocks(cur) \in Int /\ op \in {"truncate", "free"}
  BY WholeAtLast, SizesAssumption DEF AtLastToShrink
<1>2. LastSlot \in Nat /\ LastSlot < UsedBlocks(cur) /\ BLOCK_SIZE \in Int
  BY <1>1, SizesAssumption DEF LastSlot, Slots
<1>3. BLOCK_SIZE * LastSlot \in Int
  BY <1>2
<1>4. size[cur] - DecreaseSize = BLOCK_SIZE * LastSlot /\ DecreaseSize \in Int
  BY <1>1, <1>3 DEF DecreaseSize
<1>5. BytesToBlocks(BLOCK_SIZE * LastSlot) = LastSlot
  BY <1>2, BlocksOfMultiple
<1> QED
  BY <1>1, <1>2, <1>3, <1>4, <1>5

LEMMA DropBlock ==
  ASSUME Whole, AtLastToShrink, LastSlot \in Slots, NEW sz, NEW bl,
         sz = [size EXCEPT ![cur] = size[cur] - DecreaseSize],
         bl = [blocks EXCEPT ![cur][LastSlot] = None]
  PROVE  Healthy(blockMap \ {blocks[cur][LastSlot]}, inodeMap, sz, bl, next, files)
<1> DEFINE k == LastSlot
           b == blocks[cur][k]
<1>1. /\ cur \in On(next, files) /\ cur \in Inums /\ next[cur] = None
      /\ size[cur] - DecreaseSize \in Int /\ BytesToBlocks(size[cur] - DecreaseSize) = k
      /\ k \in Slots /\ b # None
  BY DropFacts
<1>2. size \in [Inums -> Int] /\ blocks \in [Inums -> [Slots -> Int]] /\ On(next, files) \subseteq Inums
  BY WholeFacts, NodesFacts
<1>3. /\ BytesToBlocks(size[cur]) \in 0 .. INODE_LOCAL_BLOCK_CAP
      /\ \A l \in Slots : l < BytesToBlocks(size[cur]) => blocks[cur][l] # None
  BY <1>1 DEF Whole, Healthy, Backs
<1>4. k = BytesToBlocks(size[cur]) - 1
  BY DEF LastSlot, UsedBlocks
<1> HIDE DEF k
<1>5. Backs(blocks, next, cur, size[cur] - DecreaseSize)
  <2>1. k \in 0 .. INODE_LOCAL_BLOCK_CAP /\ \A l \in Slots : l < k => l < BytesToBlocks(size[cur])
    BY <1>3, <1>4, <1>1, SizesAssumption DEF Slots
  <2> QED
    BY <1>1, <1>3, <2>1 DEF Backs
<1>6. Healthy(blockMap, inodeMap, sz, blocks, next, files)
  BY <1>1, <1>5, SetSize DEF Whole
<1>7. sz[cur] = size[cur] - DecreaseSize /\ k \in Int
  BY <1>1, <1>2, SizesAssumption DEF Slots
<1>8. BytesToBlocks(sz[cur]) <= k
  BY <1>1, <1>7
<1>9. bl = [blocks EXCEPT ![cur][k] = None]
  BY DEF k
<1>10. Healthy(blockMap, inodeMap, sz, bl, next, files)
  <2>1. Healthy(blockMap, inodeMap, sz, [blocks EXCEPT ![cur][k] = None], next, files)
    <3>1. cur \in Inums /\ k \in Slots /\ (cur \in On(next, files) => BytesToBlocks(sz[cur]) <= k)
      BY <1>1, <1>8
    <3> QED
      BY <1>6, <3>1, EmptySlot
  <2> QED
    BY <1>9, <2>1
<1>11. Spare(bl, On(next, files), b)
  <2>1. \A i \in On(next, files), l \in Slots : blocks[i][l] = b => i = cur /\ l = k
    BY <1>1 DEF Whole, Healthy, HeldOnce
  <2>2. /\ bl[cur][k] = None
        /\ \A i \in On(next, files), l \in Slots : i # cur \/ l # k => bl[i][l] = blocks[i][l]
    BY <1>1, <1>2, <1>9
  <2> HIDE DEF b
  <2> QED
    BY <1>1, <2>1, <2>2 DEF Spare
<1>12. Healthy(blockMap \ {b}, inodeMap, sz, bl, next, files)
  BY <1>10, <1>11, UnmarkBlock
<1> QED
  BY <1>12 DEF b, k

LEMMA DropLastWhole ==
  ASSUME Whole, DropLastBlock
  PROVE  /\ Healthy(blockMap', inodeMap, size', blocks', next, files)
         /\ top \in files /\ cur \in Nodes(next, top) /\ cur \in Inums /\ next[cur] = None
         /\ pc = "shrink" /\ op \in {"truncate", "free"} /\ left' \in Int /\ cur' = top
         /\ UNCHANGED <<files, pc, op, top, arg, rv, torn>>
<1>1. /\ AtLastToShrink /\ LastSlot \in Slots
      /\ blockMap' = blockMap \ {blocks[cur][LastSlot]}
      /\ blocks' = [blocks EXCEPT ![cur][LastSlot] = None]
      /\ size' = [size EXCEPT ![cur] = size[cur] - DecreaseSize]
      /\ left' = left - DecreaseSize
      /\ cur' = top /\ UNCHANGED <<files, pc, op, top, arg, rv, torn>>
  BY DEF DropLastBlock, BlockFree
<1>2. Healthy(blockMap \ {blocks[cur][LastSlot]}, inodeMap, size', blocks', next, files)
  BY <1>1, DropBlock
<1> QED
  BY <1>1, <1>2, DropFacts DEF AtLastToShrink

LEMMA ShrinkBlockWhole ==
  ASSUME Whole, ShrinkBlock
  PROVE  Whole'
<1>1. DropLastBlock /\ UNCHANGED <<inodeMap, next>>
  BY DEF ShrinkBlock
<1>2. top \in Nodes(next, top)
  BY <1>1, DropLastWhole, WholeFacts, NodesFacts
<1>3. CallType'
  BY <1>1, <1>2, DropLastWhole DEF Whole, CallType
<1> QED
  BY <1>1, <1>3, DropLastWhole DEF Whole

(* inode_second_to_last_child finds the predecessor on the chain itself.   *)
LEMMA InodesOfIs ==
  ASSUME NEW fs, Forest(next, fs), NEW F \in SUBSET fs
  PROVE  InodesOf(F) = On(next, F)
<1>1. \A f \in F : {Chain(f)[n] : n \in DOMAIN Chain(f)} = Nodes(next, f)
  <2> TAKE f \in F
  <2>1. ChainOf(next, f) \in Seq(Inums)
    BY FileChainFacts DEF Forest, FileChain
  <2>2. DOMAIN ChainOf(next, f) = 1 .. Len(ChainOf(next, f))
    BY <2>1
  <2> QED
    BY <2>2, ChainIs DEF Nodes
<1> QED
  BY <1>1 DEF InodesOf, On

LEMMA ShrinkChildWhole ==
  ASSUME Whole, ShrinkChild, FromHead
  PROVE  Whole'
<1>1. DropLastBlock /\ next[top] >= 0 /\ inodeMap' = inodeMap \ {cur}
  BY DEF ShrinkChild, DropsWholeChild
<1>2. PICK p \in inodeMap : next[p] = cur /\ next' = [next EXCEPT ![p] = None]
  BY DEF ShrinkChild
<1>3. /\ Healthy(blockMap', inodeMap, size', blocks', next, files)
      /\ top \in files /\ cur \in Nodes(next, top) /\ cur \in Inums /\ next[cur] = None
      /\ pc = "shrink" /\ op \in {"truncate", "free"} /\ left' \in Int /\ cur' = top
      /\ UNCHANGED <<files, pc, op, top, arg, rv, torn>>
  BY <1>1, DropLastWhole
<1>4. /\ next \in [Inums -> Int] /\ p \in Inums /\ cur # None /\ cur # top /\ Forest(next, files)
  BY <1>1, <1>2, <1>3, WholeFacts DEF None
<1>5. p \in On(next, files)
  <2>1. \A i \in Inums \ InodesOf({top}) : next'[i] = next[i]
    BY <1>3 DEF FromHead
  <2>2. next'[p] # next[p]
    BY <1>2, <1>4
  <2>3. p \in InodesOf({top})
    BY <1>4, <2>1, <2>2
  <2>4. InodesOf({top}) = On(next, {top})
    BY <1>3, <1>4, InodesOfIs
  <2> QED
    BY <1>3, <2>3, <2>4, OnIs
<1>6. /\ Healthy(blockMap', inodeMap, size', blocks', next', files)
      /\ On(next', files) = On(next, files) \ {cur}
  <2>1. Healthy(blockMap', inodeMap, size', blocks', [next EXCEPT ![p] = None], files)
    BY <1>2, <1>3, <1>4, <1>5, CutChild
  <2>2. On(next', files) = On(next, files) \ {cur}
    <3>1. Put(next, p, None, next')
      BY <1>2, <1>4 DEF Put, None
    <3> QED
      BY <1>2, <1>3, <1>4, <1>5, <3>1, FewerNodes
  <2> QED
    BY <1>2, <2>1, <2>2
<1>7. Healthy(blockMap', inodeMap', size', blocks', next', files)
  BY <1>1, <1>6, UnmarkInode
<1>8. top \in Nodes(next', top)
  BY <1>3, <1>6, NodesFacts DEF Healthy
<1>9. CallType'
  BY <1>3, <1>8 DEF Whole, CallType
<1> QED
  BY <1>3, <1>7, <1>9 DEF Whole

LEMMA ReleaseWhole ==
  ASSUME Whole, Release
  PROVE  Whole'
<1>1. /\ pc # "idle" /\ top \in files
  BY DEF Release, Whole, CallType
<1>2. CASE size[top] = 0
  <2>1. /\ inodeMap' = inodeMap \ {top} /\ files' = files \ {top} /\ Return("ok")
        /\ UNCHANGED <<blockMap, size, blocks, next, torn>>
    BY <1>2 DEF Release
  <2>2. /\ Healthy(blockMap, inodeMap, size, blocks, next, files \ {top})
        /\ \A i \in Nodes(next, top) : i \notin On(next, files \ {top})
    BY <1>1, Forget DEF Whole
  <2>3. top \notin On(next, files \ {top})
    BY <1>1, <2>2, WholeFacts, NodesFacts
  <2>4. Healthy(blockMap, inodeMap \ {top}, size, blocks, next, files \ {top})
    BY <2>2, <2>3, UnmarkInode
  <2>5. CallType'
    BY <2>1, Returns DEF Whole, CallType
  <2> QED
    BY <2>1, <2>4, <2>5 DEF Whole
<1>3. CASE size[top] # 0
  <2>1. /\ pc' = "abort"
        /\ UNCHANGED <<inodeMap, files, op, top, cur, arg, left, rv, blockMap, size, blocks, next, torn>>
    BY <1>3 DEF Release
  <2>2. CallType'
    BY <1>1, <2>1 DEF Whole, CallType
  <2> QED
    BY <2>1, <2>2, WholeKept DEF disk
<1> QED
  BY <1>2, <1>3

(***************************************************************************)
(* The next daemon's image.                                                *)
(***************************************************************************)

\* the image m is this one
AnImage(bm, im, sz, bl, nx) == [blockMap |-> bm, inodeMap |-> im, size |-> sz, blocks |-> bl, next |-> nx]
ImageIs(m, bm, im, sz, bl, nx) ==
  m.blockMap = bm /\ m.inodeMap = im /\ m.size = sz /\ m.blocks = bl /\ m.next = nx

LEMMA AnImageIs ==
  ASSUME NEW bm, NEW im, NEW sz, NEW bl, NEW nx, NEW m, m = AnImage(bm, im, sz, bl, nx)
  PROVE  ImageIs(m, bm, im, sz, bl, nx)
  BY DEF AnImage, ImageIs

LEMMA FreshImage ==
  ASSUME NEW bm, NEW im, NEW sz, NEW bl, NEW nx, NEW i
  PROVE  Fresh(AnImage(bm, im, sz, bl, nx), i)
           = AnImage(bm, im, [sz EXCEPT ![i] = 0], [bl EXCEPT ![i] = EmptySlots], [nx EXCEPT ![i] = None])
<1> DEFINE a == AnImage(bm, im, sz, bl, nx)
           sy == [sz EXCEPT ![i] = 0]
           by == [bl EXCEPT ![i] = EmptySlots]
           d == AnImage(bm, im, sy, bl, nx)
           e == AnImage(bm, im, sy, by, nx)
<1>1. [a EXCEPT !.size[i] = 0] = d
  BY DEF AnImage
<1>2. [d EXCEPT !.blocks[i] = EmptySlots] = e
  BY DEF AnImage
<1>3. [e EXCEPT !.next[i] = None] = AnImage(bm, im, sy, by, [nx EXCEPT ![i] = None])
  BY DEF AnImage
<1> HIDE DEF a, d, e
<1>4. Fresh(a, i) = AnImage(bm, im, sy, by, [nx EXCEPT ![i] = None])
  BY <1>1, <1>2, <1>3 DEF Fresh
<1> QED
  BY <1>4 DEF a

LEMMA RestartWhole ==
  ASSUME Whole, NEW m, Restart(m), torn' \in BOOLEAN,
         Healthy(m.blockMap, m.inodeMap, m.size, m.blocks, m.next, files')
  PROVE  Whole'
<1>1. Healthy(blockMap', inodeMap', size', blocks', next', files')
  BY DEF Restart
<1>2. CallType'
  BY Returns DEF Restart
<1> QED
  BY <1>1, <1>2 DEF Whole

LEMMA CrashBetweenWhole ==
  ASSUME Whole, CrashBetween
  PROVE  Whole'
<1>1. /\ pc # "idle" /\ top \in files /\ Restart(Image) /\ files' = FilesLeft /\ torn' \in BOOLEAN
  BY DEF Whole, CallType, CrashBetween
<1>2. Healthy(blockMap, inodeMap, size, blocks, next, files')
  BY <1>1, Forget DEF Whole, FilesLeft
<1>3. ImageIs(Image, blockMap, inodeMap, size, blocks, next)
  BY DEF ImageIs, Image
<1> QED
  BY <1>1, <1>2, <1>3, RestartWhole DEF ImageIs

LEMMA BlockImages ==
  ASSUME NEW b, NEW m \in GrowBlockImages(b)
  PROVE  \/ ImageIs(m, blockMap \cup {b}, inodeMap, size, blocks, next)
         \/ ImageIs(m, blockMap \cup {b}, inodeMap, size, [blocks EXCEPT ![cur][UsedBlocks(cur)] = b], next)
  BY DEF GrowBlockImages, Image, ImageIs

LEMMA ChildImages ==
  ASSUME NEW i, NEW m \in GrowChildImages(i)
  PROVE  \/ ImageIs(m, blockMap, inodeMap, [size EXCEPT ![cur] = MaxLocalSize], blocks, next)
         \/ \E im \in {inodeMap, inodeMap \cup {i}} :
              ImageIs(m, blockMap, im, [[size EXCEPT ![cur] = MaxLocalSize] EXCEPT ![i] = 0],
                      [blocks EXCEPT ![i] = EmptySlots], [next EXCEPT ![i] = None])
<1> DEFINE full == [size EXCEPT ![cur] = MaxLocalSize]
           sy == [full EXCEPT ![i] = 0]
           by == [blocks EXCEPT ![i] = EmptySlots]
           ny == [next EXCEPT ![i] = None]
           a == AnImage(blockMap, inodeMap, full, blocks, next)
           d == AnImage(blockMap, inodeMap, sy, by, ny)
           e == AnImage(blockMap, inodeMap \cup {i}, sy, by, ny)
<1>1. [Image EXCEPT !.size[cur] = MaxLocalSize] = a
  BY DEF Image, AnImage
<1>2. Fresh(a, i) = d
  <2> HIDE DEF full
  <2> QED
    BY FreshImage
<1>3. [d EXCEPT !.inodeMap = @ \cup {i}] = e
  BY DEF AnImage
<1>4. m \in {a, d, e}
  <2> HIDE DEF a, d, e
  <2> QED
    BY <1>1, <1>2, <1>3 DEF GrowChildImages
<1>5. ImageIs(a, blockMap, inodeMap, full, blocks, next)
  BY AnImageIs
<1>6. ImageIs(d, blockMap, inodeMap, sy, by, ny) /\ ImageIs(e, blockMap, inodeMap \cup {i}, sy, by, ny)
  BY AnImageIs
<1> HIDE DEF a, d, e, full, sy, by, ny
<1>7. \/ ImageIs(m, blockMap, inodeMap, full, blocks, next)
      \/ \E im \in {inodeMap, inodeMap \cup {i}} : ImageIs(m, blockMap, im, sy, by, ny)
  BY <1>4, <1>5, <1>6
<1> QED
  BY <1>7 DEF full, sy, by, ny

LEMMA CrashInGrowWhole ==
  ASSUME Whole, CrashInGrow
  PROVE  Whole'
<1>1. PICK m \in GrowImages : Restart(m)
  BY DEF CrashInGrow
<1>2. files' = files /\ torn' \in BOOLEAN
  BY DEF CrashInGrow, Whole, CallType
<1>3. AtLastToGrow /\ ~FitsInUsedBlocks
  BY <1>1 DEF GrowImages
<1>4. Healthy(m.blockMap, m.inodeMap, m.size, m.blocks, m.next, files)
  <2>1. CASE UsedBlocks(cur) < INODE_LOCAL_BLOCK_CAP
    <3>1. PICK b \in FirstFreeBlocks : m \in GrowBlockImages(b)
      BY <1>1, <1>3, <2>1 DEF GrowImages
    <3>2. b \in DataBlocks \ blockMap
      BY DEF FirstFreeBlocks, FreeBlocks
    <3> DEFINE bl == [blocks EXCEPT ![cur][UsedBlocks(cur)] = b]
    <3>3. /\ Healthy(blockMap \cup {b}, inodeMap, size, blocks, next, files)
          /\ Healthy(blockMap \cup {b}, inodeMap, size, bl, next, files)
      BY <1>3, <2>1, <3>2, TakeBlock
    <3>4. \/ ImageIs(m, blockMap \cup {b}, inodeMap, size, blocks, next)
          \/ ImageIs(m, blockMap \cup {b}, inodeMap, size, bl, next)
      BY <3>1, BlockImages
    <3> HIDE DEF bl
    <3> QED
      BY <3>3, <3>4 DEF ImageIs
  <2>2. CASE ~ (UsedBlocks(cur) < INODE_LOCAL_BLOCK_CAP)
    <3>1. PICK i \in FreeInums : m \in GrowChildImages(i)
      BY <1>1, <1>3, <2>2 DEF GrowImages
    <3>2. i \in Inums \ inodeMap
      BY DEF FreeInums, FirstFreeInum
    <3> DEFINE full == [size EXCEPT ![cur] = MaxLocalSize]
               sy == [full EXCEPT ![i] = 0]
               by == [blocks EXCEPT ![i] = EmptySlots]
               ny == [next EXCEPT ![i] = None]
    <3>3. UsedBlocks(cur) >= INODE_LOCAL_BLOCK_CAP
      BY <1>3, <2>2, WholeAtLast, SizesAssumption
    <3>4. Healthy(blockMap, inodeMap, full, blocks, next, files)
      BY <1>3, <3>3, FillInode
    <3>5. Reset(full, blocks, next, i, sy, by, ny)
      BY DEF Reset
    <3>6. \/ ImageIs(m, blockMap, inodeMap, full, blocks, next)
          \/ \E im \in {inodeMap, inodeMap \cup {i}} : ImageIs(m, blockMap, im, sy, by, ny)
      BY <3>1, ChildImages
    <3> HIDE DEF full, sy, by, ny
    <3>7. /\ Healthy(blockMap, inodeMap, sy, by, ny, files)
          /\ Healthy(blockMap, inodeMap \cup {i}, sy, by, ny, files)
      BY <3>2, <3>4, <3>5, TakeInode
    <3> QED
      BY <3>4, <3>6, <3>7 DEF ImageIs
  <2> QED
    BY <2>1, <2>2
<1> QED
  BY <1>1, <1>2, <1>4, RestartWhole

LEMMA AllocImages ==
  ASSUME NEW i, NEW m \in {Fresh(Image, i), [Fresh(Image, i) EXCEPT !.inodeMap = @ \cup {i}]}
  PROVE  \E im \in {inodeMap, inodeMap \cup {i}} :
           ImageIs(m, blockMap, im, [size EXCEPT ![i] = 0], [blocks EXCEPT ![i] = EmptySlots],
                   [next EXCEPT ![i] = None])
<1> DEFINE sy == [size EXCEPT ![i] = 0]
           by == [blocks EXCEPT ![i] = EmptySlots]
           ny == [next EXCEPT ![i] = None]
           d == AnImage(blockMap, inodeMap, sy, by, ny)
           e == AnImage(blockMap, inodeMap \cup {i}, sy, by, ny)
<1>1. Image = AnImage(blockMap, inodeMap, size, blocks, next)
  BY DEF Image, AnImage
<1>2. Fresh(Image, i) = d
  BY <1>1, FreshImage
<1>3. [d EXCEPT !.inodeMap = @ \cup {i}] = e
  BY DEF AnImage
<1>4. m \in {d, e}
  <2> HIDE DEF d, e
  <2> QED
    BY <1>2, <1>3
<1>5. ImageIs(d, blockMap, inodeMap, sy, by, ny) /\ ImageIs(e, blockMap, inodeMap \cup {i}, sy, by, ny)
  BY AnImageIs
<1> HIDE DEF d, e, sy, by, ny
<1>6. \E im \in {inodeMap, inodeMap \cup {i}} : ImageIs(m, blockMap, im, sy, by, ny)
  BY <1>4, <1>5
<1> QED
  BY <1>6 DEF sy, by, ny

LEMMA CrashInAllocWhole ==
  ASSUME Whole, CrashInAlloc
  PROVE  Whole'
<1>1. PICK i \in FreeInums :
        \E m \in {Fresh(Image, i), [Fresh(Image, i) EXCEPT !.inodeMap = @ \cup {i}]} : Restart(m)
  BY DEF CrashInAlloc
<1>2. PICK m \in {Fresh(Image, i), [Fresh(Image, i) EXCEPT !.inodeMap = @ \cup {i}]} : Restart(m)
  BY <1>1
<1>3. files' = files /\ torn' \in BOOLEAN
  BY DEF CrashInAlloc, Whole, CallType
<1>4. i \in Inums \ inodeMap
  BY DEF FreeInums, FirstFreeInum
<1> DEFINE sy == [size EXCEPT ![i] = 0]
           by == [blocks EXCEPT ![i] = EmptySlots]
           ny == [next EXCEPT ![i] = None]
<1>5. Reset(size, blocks, next, i, sy, by, ny)
  BY DEF Reset
<1>6. \E im \in {inodeMap, inodeMap \cup {i}} : ImageIs(m, blockMap, im, sy, by, ny)
  BY AllocImages
<1> HIDE DEF sy, by, ny
<1>7. /\ Healthy(blockMap, inodeMap, sy, by, ny, files)
      /\ Healthy(blockMap, inodeMap \cup {i}, sy, by, ny, files)
  BY <1>4, <1>5, TakeInode DEF Whole
<1>8. Healthy(m.blockMap, m.inodeMap, m.size, m.blocks, m.next, files)
  BY <1>6, <1>7 DEF ImageIs
<1> QED
  BY <1>2, <1>3, <1>8, RestartWhole

LEMMA DropImages ==
  ASSUME NEW m \in ShrinkImages
  PROVE  /\ AtLastToShrink /\ ~ (LastSlot < 0)
         /\ \E im \in {inodeMap, inodeMap \ {cur}}, sz \in {size, [size EXCEPT ![cur] = size[cur] - DecreaseSize]},
               by \in {blocks, [blocks EXCEPT ![cur][LastSlot] = None]} :
              ImageIs(m, blockMap \ {blocks[cur][LastSlot]}, im, sz, by, next)
<1> DEFINE k == LastSlot
           bm == blockMap \ {blocks[cur][k]}
           sz == [size EXCEPT ![cur] = size[cur] - DecreaseSize]
           bl == [blocks EXCEPT ![cur][k] = None]
           a == AnImage(bm, inodeMap, size, blocks, next)
           d == AnImage(bm, inodeMap, size, bl, next)
           e == AnImage(bm, inodeMap, sz, bl, next)
           g == AnImage(bm, inodeMap \ {cur}, sz, bl, next)
<1>1. [Image EXCEPT !.blockMap = @ \ {blocks[cur][k]}] = a
  BY DEF Image, AnImage
<1>2. [a EXCEPT !.blocks[cur][k] = None] = d
  BY DEF AnImage
<1>3. [d EXCEPT !.size[cur] = @ - DecreaseSize] = e
  BY DEF AnImage
<1>4. [e EXCEPT !.inodeMap = @ \ {cur}] = g
  BY DEF AnImage
<1>5. AtLastToShrink /\ ~ (LastSlot < 0) /\ m \in {a, d, e, g}
  <2> HIDE DEF a, d, e, g
  <2> QED
    BY <1>1, <1>2, <1>3, <1>4 DEF ShrinkImages
<1>6. /\ ImageIs(a, bm, inodeMap, size, blocks, next) /\ ImageIs(d, bm, inodeMap, size, bl, next)
      /\ ImageIs(e, bm, inodeMap, sz, bl, next) /\ ImageIs(g, bm, inodeMap \ {cur}, sz, bl, next)
  BY AnImageIs
<1> HIDE DEF a, d, e, g, bm, sz, bl
<1>7. \E im \in {inodeMap, inodeMap \ {cur}}, sy \in {size, sz}, by \in {blocks, bl} :
         ImageIs(m, bm, im, sy, by, next)
  BY <1>5, <1>6
<1> QED
  BY <1>5, <1>7 DEF bm, sz, bl

(* The file that was being shrunk is forgotten before anything else: what  *)
(* the stores then touch is no other file's.                               *)
LEMMA CrashInShrinkWhole ==
  ASSUME Whole, victim = None, CrashInShrink
  PROVE  CrashIInv'
<1>1. PICK m \in ShrinkImages : Restart(m)
  BY DEF CrashInShrink
<1>2. /\ files' = FilesLeft /\ victim' = (IF op = "free" THEN None ELSE top) /\ UNCHANGED torn
  BY DEF CrashInShrink
<1> DEFINE bl == [blocks EXCEPT ![cur][LastSlot] = None]
           s == size[cur] - DecreaseSize
           b == blocks[cur][LastSlot]
           fs == files \ {top}
<1>3. /\ AtLastToShrink /\ ~ (LastSlot < 0)
      /\ \E im \in {inodeMap, inodeMap \ {cur}}, sz \in {size, [size EXCEPT ![cur] = s]}, by \in {blocks, bl} :
           ImageIs(m, blockMap \ {b}, im, sz, by, next)
  BY DropImages
<1>4. LastSlot \in Slots
  BY <1>3, WholeAtLast, SizesAssumption DEF LastSlot, Slots
<1>5. /\ top \in files /\ cur \in Nodes(next, top) /\ cur \in On(next, files) /\ cur \in Inums
      /\ s \in Int /\ b # None
  BY <1>3, <1>4, DropFacts
<1>6. /\ Healthy(blockMap, inodeMap, size, blocks, next, fs)
      /\ On(next, fs) \subseteq On(next, files) /\ \A i \in Nodes(next, top) : i \notin On(next, fs)
  BY <1>5, Forget DEF Whole
<1>7. cur \notin On(next, fs) /\ top \notin On(next, fs)
  BY <1>5, <1>6, WholeFacts, NodesFacts
<1>8. Spare(blocks, On(next, fs), b)
  <2>1. \A i \in On(next, files), k \in Slots : blocks[i][k] = b => i = cur
    BY <1>4, <1>5 DEF Whole, Healthy, HeldOnce
  <2> HIDE DEF b, fs
  <2> QED
    BY <1>6, <1>7, <2>1 DEF Spare
<1>9. Healthy(blockMap \ {b}, inodeMap, size, blocks, next, fs)
  BY <1>6, <1>8, UnmarkBlock
<1>10. \A im \in {inodeMap, inodeMap \ {cur}} : Healthy(blockMap \ {b}, im, size, blocks, next, fs)
  BY <1>7, <1>9, UnmarkInode
<1>11. \A im \in {inodeMap, inodeMap \ {cur}}, by \in {blocks, bl} :
         Healthy(blockMap \ {b}, im, size, by, next, fs)
  <2> SUFFICES ASSUME NEW im \in {inodeMap, inodeMap \ {cur}}
               PROVE  Healthy(blockMap \ {b}, im, size, bl, next, fs)
    BY <1>10
  <2>1. Healthy(blockMap \ {b}, im, size, blocks, next, fs)
    BY <1>10
  <2> HIDE DEF b, fs
  <2>2. Healthy(blockMap \ {b}, im, size, [blocks EXCEPT ![cur][LastSlot] = None], next, fs)
    BY <1>4, <1>5, <1>7, <2>1, EmptySlot
  <2> QED
    BY <2>2
<1> HIDE DEF bl, s, b, fs
<1>12. \A im \in {inodeMap, inodeMap \ {cur}}, by \in {blocks, bl} :
         Healthy(blockMap \ {b}, im, [size EXCEPT ![cur] = s], by, next, fs)
  BY <1>5, <1>7, <1>11, SetSize
<1>13. Healthy(m.blockMap, m.inodeMap, m.size, m.blocks, m.next, fs) /\ m.next = next
  BY <1>3, <1>11, <1>12 DEF ImageIs
<1>14. CASE op = "free"
  <2>1. files' = fs /\ victim' = None /\ torn' \in BOOLEAN
    BY <1>2, <1>14 DEF FilesLeft, fs, Whole, CallType
  <2>2. Whole'
    BY <1>1, <1>13, <2>1, RestartWhole
  <2> QED
    BY <2>1, <2>2 DEF CrashIInv
<1>15. CASE op # "free"
  <2>1. files' \ {victim'} = fs /\ victim' = top /\ top # None
    BY <1>2, <1>5, <1>15, WholeFacts DEF FilesLeft, fs
  <2>2. /\ blockMap' = m.blockMap /\ inodeMap' = m.inodeMap /\ size' = m.size /\ blocks' = m.blocks
        /\ next' = next
    BY <1>1, <1>13 DEF Restart
  <2>3. Damaged'
    BY <1>7, <1>13, <2>1, <2>2 DEF Damaged
  <2> QED
    BY <2>1, <2>3 DEF CrashIInv
<1> QED
  BY <1>14, <1>15

(***************************************************************************)
(* The theorem.                                                            *)
(***************************************************************************)
LEMMA InitWhole ==
  ASSUME CrashInit
  PROVE  CrashIInv
<1>1. On(next, files) = {}
  BY DEF CrashInit, Init, On
<1>2. CallType
  <2>1. /\ pc = "idle" /\ op = "none" /\ rv = "ok" /\ arg = 0 /\ left = 0 /\ torn = FALSE
    BY DEF CrashInit, Init
  <2>2. torn \in BOOLEAN
    BY <2>1
  <2> QED
    BY <2>1, <2>2 DEF CallType
<1>3. Disk(blockMap, inodeMap, size, blocks, next)
  BY SizesAssumption DEF CrashInit, Init, Disk, Bnums
<1>4. Forest(next, files)
  BY <1>1, <1>3 DEF CrashInit, Init, Forest, Linked, Disk
<1>5. Healthy(blockMap, inodeMap, size, blocks, next, files)
  BY <1>1, <1>3, <1>4 DEF Healthy, Marked, HeldOnce
<1> QED
  BY <1>2, <1>5 DEF CrashInit, CrashIInv, Whole

LEMMA RunningWhole ==
  ASSUME Whole, Running
  PROVE  Whole'
<1>1. Next /\ FromHead
  BY DEF Running
<1>2. CASE Caller
  <2>1. CASE Alloc
    BY <2>1, AllocWhole
  <2>2. CASE AllocNoInode
    BY <2>2, StopWhole
  <2>3. ASSUME NEW f \in files, NEW n \in 0 .. MaxFileSize, Truncate(f, n) PROVE Whole'
    BY <2>3, BeginWhole DEF Truncate
  <2>4. ASSUME NEW f \in files, NEW n \in 1 .. MaxFileSize, Write(f, n) PROVE Whole'
    BY <2>4, BeginWhole DEF Write
  <2>5. ASSUME NEW f \in files, Free(f) PROVE Whole'
    BY <2>5, BeginWhole DEF Free
  <2> QED
    BY <1>2, <2>1, <2>2, <2>3, <2>4, <2>5 DEF Caller
<1>3. CASE Daemon
  <2>1. CASE AddSize \/ SizeKnown \/ Walk
    BY <2>1, MoveWhole
  <2>2. CASE GrowDone \/ GrowNoBlock \/ ShrinkDone \/ ShrinkUndefined
    BY <2>2, StopWhole
  <2>3. CASE GrowInPlace \/ GrowNoInode \/ ShrinkInPlace
    BY <2>3, ResizeWhole
  <2>4. CASE GrowBlock
    BY <2>4, GrowBlockWhole
  <2>5. CASE GrowChild
    BY <2>5, GrowChildWhole
  <2>6. CASE ShrinkBlock
    BY <2>6, ShrinkBlockWhole
  <2>7. CASE ShrinkChild
    BY <1>1, <2>7, ShrinkChildWhole
  <2>8. CASE Release
    BY <2>8, ReleaseWhole
  <2> QED
    BY <1>3, <2>1, <2>2, <2>3, <2>4, <2>5, <2>6, <2>7, <2>8 DEF Daemon
<1> QED
  BY <1>1, <1>2, <1>3 DEF Next

LEMMA CrashNextWhole ==
  ASSUME CrashIInv, [CrashNext]_crashVars
  PROVE  CrashIInv'
<1>1. CASE CrashNext
  <2>1. victim = None /\ Whole
    BY <1>1 DEF CrashNext, CrashIInv
  <2>2. CASE Running
    BY <2>1, <2>2, RunningWhole DEF Running, CrashIInv
  <2>3. CASE CrashBetween
    BY <2>1, <2>3, CrashBetweenWhole DEF CrashBetween, CrashIInv
  <2>4. CASE CrashInGrow
    BY <2>1, <2>4, CrashInGrowWhole DEF CrashInGrow, CrashIInv
  <2>5. CASE CrashInShrink
    BY <2>1, <2>5, CrashInShrinkWhole
  <2>6. CASE CrashInAlloc
    BY <2>1, <2>6, CrashInAllocWhole DEF CrashInAlloc, CrashIInv
  <2> QED
    BY <1>1, <2>2, <2>3, <2>4, <2>5, <2>6 DEF CrashNext, Crash
<1>2. CASE UNCHANGED crashVars
  BY <1>2 DEF crashVars, vars, disk, call, CrashIInv, Whole, Damaged, CallType
<1> QED
  BY <1>1, <1>2

LEMMA CrashInvariant == CrashSpec => []CrashIInv
<1>1. CrashInit => CrashIInv
  BY InitWhole
<1>2. CrashIInv /\ [CrashNext]_crashVars => CrashIInv'
  BY CrashNextWhole
<1> QED
  BY <1>1, <1>2, PTL DEF CrashSpec

(* The invariant says CrashKeepsFiles of the files it speaks of.           *)
LEMMA HealthyIsSound ==
  ASSUME CrashIInv
  PROVE  CrashKeepsFiles
<1> DEFINE F == files \ {victim}
           T == On(next, F)
<1>1. Healthy(blockMap, inodeMap, size, blocks, next, F) /\ victim \notin T
  <2>1. CASE victim = None
    <3>1. Whole
      BY <2>1 DEF CrashIInv
    <3>2. None \notin files /\ None \notin On(next, files)
      BY <3>1, WholeFacts
    <3>3. F = files
      BY <2>1, <3>2
    <3> QED
      BY <2>1, <3>1, <3>2, <3>3 DEF Whole
  <2>2. CASE victim # None
    BY <2>2 DEF CrashIInv, Damaged
  <2> QED
    BY <2>1, <2>2
<1>2. Forest(next, F) /\ T \subseteq inodeMap
  BY <1>1 DEF Healthy
<1>3. InodesOf(F) = T
  BY <1>2, InodesOfIs
<1>4. \A i \in T : next[i] # None => next[i] \in T /\ next[i] \notin files
  <2> SUFFICES ASSUME NEW i \in T, next[i] # None PROVE next[i] \in T /\ next[i] \notin files
    OBVIOUS
  <2>1. PICK f \in F : i \in Nodes(next, f)
    BY OnIs
  <2>2. next[i] \in Nodes(next, f) /\ next[i] \notin F
    BY <1>2, <2>1, NextNode
  <2>3. next[i] \in T
    BY <2>2, OnIs
  <2> QED
    BY <1>1, <2>2, <2>3
<1> HIDE DEF F, T
<1>5. /\ \A i, j \in T, k, l \in Slots :
           Holds(i, k) /\ Holds(j, l) /\ blocks[i][k] = blocks[j][l] => i = j /\ k = l
      /\ \A i \in T, k \in Slots : Holds(i, k) => blocks[i][k] \in blockMap \cap DataBlocks
  BY <1>1 DEF Healthy, HeldOnce, Marked, Holds, T
<1>6. \A i \in T : /\ \A k \in Slots : k < UsedBlocks(i) => Holds(i, k)
                   /\ next[i] # None => size[i] = MaxLocalSize
  BY <1>1 DEF Healthy, Backs, Holds, UsedBlocks, T
<1>7. \A i, j \in T : next[i] = next[j] /\ next[i] # None => i = j
  BY <1>2 DEF Forest, Linked, T
<1>8. Sound(F)
  BY <1>2, <1>3, <1>4, <1>5, <1>6, <1>7 DEF Sound
<1> QED
  BY <1>8 DEF CrashKeepsFiles, F

(* However often the daemon is killed, and between whichever two stores of *)
(* inode.c, no two slots of the files hold one block, what a file holds is *)
(* marked, what its size needs it holds, and the chains are disjoint lists *)
(* of marked inodes, for every file but one whose truncation was           *)
(* interrupted half way.                                                   *)
THEOREM CrashesKeepFiles == CrashSpec => []CrashKeepsFiles
<1>1. CrashIInv => CrashKeepsFiles
  BY HealthyIsSound
<1> QED
  BY <1>1, CrashInvariant, PTL

(***************************************************************************)
(* What a kill loses.                                                      *)
(***************************************************************************)

\* the blocks the inodes T need, and what is marked and belongs to nobody
Wanted(sz, bl, T) ==
  {bl[x[1]][x[2]] : x \in {y \in T \X Slots : y[2] < BytesToBlocks(sz[y[1]])}}
LostBlocks(bm, sz, bl, T) == (bm \cap DataBlocks) \ Wanted(sz, bl, T)
LostInodes(im, T) == im \ T

LEMMA LeakedIs ==
  Forest(next, files) =>
    Leaked = Cardinality(LostBlocks(blockMap, size, blocks, On(next, files)))
             + Cardinality(LostInodes(inodeMap, On(next, files)))
<1> SUFFICES ASSUME Forest(next, files)
             PROVE  Leaked = Cardinality(LostBlocks(blockMap, size, blocks, On(next, files)))
                             + Cardinality(LostInodes(inodeMap, On(next, files)))
  OBVIOUS
<1>1. InodesOf(files) = On(next, files)
  BY InodesOfIs
<1>2. Needed = Wanted(size, blocks, On(next, files))
  BY <1>1 DEF Needed, Wanted, UsedBlocks
<1> QED
  BY <1>1, <1>2 DEF Leaked, LostBlocks, LostInodes

LEMMA WantedIs ==
  ASSUME NEW sz, NEW bl, NEW T, NEW b
  PROVE  b \in Wanted(sz, bl, T)
           <=> \E i \in T, k \in Slots : k < BytesToBlocks(sz[i]) /\ bl[i][k] = b
<1>1. ASSUME b \in Wanted(sz, bl, T)
      PROVE  \E i \in T, k \in Slots : k < BytesToBlocks(sz[i]) /\ bl[i][k] = b
  <2>1. PICK x \in T \X Slots : x[2] < BytesToBlocks(sz[x[1]]) /\ bl[x[1]][x[2]] = b
    BY <1>1 DEF Wanted
  <2>2. x[1] \in T /\ x[2] \in Slots
    OBVIOUS
  <2> QED
    BY <2>1, <2>2
<1>2. ASSUME NEW i \in T, NEW k \in Slots, k < BytesToBlocks(sz[i]), bl[i][k] = b
      PROVE  b \in Wanted(sz, bl, T)
  <2> DEFINE x == <<i, k>>
  <2>1. x \in T \X Slots /\ x[1] = i /\ x[2] = k
    OBVIOUS
  <2> HIDE DEF x
  <2>2. x \in {y \in T \X Slots : y[2] < BytesToBlocks(sz[y[1]])}
    BY <1>2, <2>1
  <2>3. bl[x[1]][x[2]] = b
    BY <1>2, <2>1
  <2> QED
    BY <2>2, <2>3 DEF Wanted
<1> QED
  BY <1>1, <1>2

\* at most one thing more is lost
LEMMA OneMoreLost ==
  ASSUME NEW A, NEW B, NEW C, NEW D, NEW x, IsFiniteSet(A), IsFiniteSet(C),
         \/ B \subseteq A \cup {x} /\ D \subseteq C
         \/ B \subseteq A /\ D \subseteq C \cup {x}
  PROVE  Cardinality(B) + Cardinality(D) <= Cardinality(A) + Cardinality(C) + 1
<1>1. ASSUME NEW S, NEW T, IsFiniteSet(S), T \subseteq S
      PROVE  Cardinality(T) \in Nat /\ Cardinality(S) \in Nat /\ Cardinality(T) <= Cardinality(S)
  <2>1. IsFiniteSet(T) /\ Cardinality(T) <= Cardinality(S)
    BY <1>1, FS_Subset
  <2> QED
    BY <1>1, <2>1, FS_CardinalityType
<1>2. ASSUME NEW S, IsFiniteSet(S)
      PROVE  IsFiniteSet(S \cup {x}) /\ Cardinality(S \cup {x}) <= Cardinality(S) + 1
  <2>1. /\ IsFiniteSet(S \cup {x})
        /\ Cardinality(S \cup {x}) = IF x \in S THEN Cardinality(S) ELSE Cardinality(S) + 1
    BY <1>2, FS_AddElement
  <2>2. Cardinality(S) \in Nat
    BY <1>2, FS_CardinalityType
  <2> QED
    BY <2>1, <2>2
<1>3. CASE B \subseteq A \cup {x} /\ D \subseteq C
  <2>1. /\ Cardinality(B) \in Nat /\ Cardinality(A \cup {x}) \in Nat
        /\ Cardinality(B) <= Cardinality(A \cup {x})
        /\ Cardinality(A \cup {x}) <= Cardinality(A) + 1
    BY <1>1, <1>2, <1>3
  <2>2. Cardinality(D) \in Nat /\ Cardinality(C) \in Nat /\ Cardinality(D) <= Cardinality(C)
    BY <1>1, <1>3
  <2>3. Cardinality(A) \in Nat
    BY FS_CardinalityType
  <2> QED
    BY <2>1, <2>2, <2>3
<1>4. CASE B \subseteq A /\ D \subseteq C \cup {x}
  <2>1. /\ Cardinality(D) \in Nat /\ Cardinality(C \cup {x}) \in Nat
        /\ Cardinality(D) <= Cardinality(C \cup {x})
        /\ Cardinality(C \cup {x}) <= Cardinality(C) + 1
    BY <1>1, <1>2, <1>4
  <2>2. Cardinality(B) \in Nat /\ Cardinality(A) \in Nat /\ Cardinality(B) <= Cardinality(A)
    BY <1>1, <1>4
  <2>3. Cardinality(C) \in Nat
    BY FS_CardinalityType
  <2> QED
    BY <2>1, <2>2, <2>3
<1> QED
  BY <1>3, <1>4

(* One kill marks one block or one inode, and the blocks the files need    *)
(* and that stay marked are where they were.                               *)
LEMMA LittleLost ==
  ASSUME Whole, NEW m, Restart(m), files' = files, NEW x,
         m.next \in [Inums -> Int], \A i \in On(next, files) : m.next[i] = next[i],
         \A i \in On(next, files), k \in Slots :
           k < UsedBlocks(i) /\ blocks[i][k] \in m.blockMap
             => k < BytesToBlocks(m.size[i]) /\ m.blocks[i][k] = blocks[i][k],
         \/ m.blockMap \subseteq blockMap \cup {x} /\ m.inodeMap \subseteq inodeMap
         \/ m.blockMap \subseteq blockMap /\ m.inodeMap \subseteq inodeMap \cup {x}
  PROVE  Leaked' <= Leaked + 1
<1> DEFINE T == On(next, files)
           A == LostBlocks(blockMap, size, blocks, T)
           B == LostBlocks(blockMap', size', blocks', T)
           C == LostInodes(inodeMap, T)
           D == LostInodes(inodeMap', T)
<1>1. /\ blockMap' = m.blockMap /\ inodeMap' = m.inodeMap /\ size' = m.size
      /\ blocks' = m.blocks /\ next' = m.next
  BY DEF Restart
<1>2. Forest(next, files) /\ Forest(next', files) /\ On(next', files) = T
  <2>1. Forest(next, files)
    BY WholeFacts
  <2> QED
    BY <1>1, <2>1, SameForest
<1>3. Leaked = Cardinality(A) + Cardinality(C)
  BY <1>2, LeakedIs
<1>4. Leaked' = Cardinality(B) + Cardinality(D)
  <2>1. Forest(next, files)' => (Leaked = Cardinality(LostBlocks(blockMap, size, blocks, On(next, files)))
             + Cardinality(LostInodes(inodeMap, On(next, files))))'
    BY LeakedIs, PTL
  <2> QED
    BY <1>2, <2>1
<1>5. \A b \in B : b \in blockMap => b \in A
  <2> SUFFICES ASSUME NEW b \in B, b \in blockMap, b \notin A PROVE FALSE
    OBVIOUS
  <2>1. b \in m.blockMap /\ b \in DataBlocks /\ b \notin Wanted(m.size, m.blocks, T)
    BY <1>1 DEF LostBlocks
  <2>2. b \in Wanted(size, blocks, T)
    BY <2>1 DEF LostBlocks
  <2>3. PICK i \in T, k \in Slots : k < BytesToBlocks(size[i]) /\ blocks[i][k] = b
    BY <2>2, WantedIs
  <2>4. k < BytesToBlocks(m.size[i]) /\ m.blocks[i][k] = b
    BY <2>1, <2>3 DEF UsedBlocks
  <2>5. b \in Wanted(m.size, m.blocks, T)
    BY <2>4, WantedIs
  <2> QED
    BY <2>1, <2>5
<1>6. \A b \in B : b \in blockMap'
  BY DEF LostBlocks
<1>7. IsFiniteSet(A) /\ IsFiniteSet(C)
  <2>1. IsFiniteSet(Bnums) /\ IsFiniteSet(Inums)
    <3>1. BLOCK_COUNT - 1 \in Int /\ MAX_INODE_COUNT - 1 \in Int
      BY SizesAssumption
    <3>2. IsFiniteSet(0 .. BLOCK_COUNT - 1) /\ IsFiniteSet(0 .. MAX_INODE_COUNT - 1)
      BY <3>1, FS_Interval
    <3> QED
      BY <3>2 DEF Bnums, Inums
  <2>2. A \subseteq Bnums /\ C \subseteq Inums
    BY WholeFacts DEF LostBlocks, LostInodes
  <2> QED
    BY <2>1, <2>2, FS_Subset
<1>8. \/ B \subseteq A \cup {x} /\ D \subseteq C
      \/ B \subseteq A /\ D \subseteq C \cup {x}
  <2>1. CASE m.blockMap \subseteq blockMap \cup {x} /\ m.inodeMap \subseteq inodeMap
    <3>1. B \subseteq A \cup {x}
      BY <1>1, <1>5, <1>6, <2>1
    <3>2. D \subseteq C
      BY <1>1, <2>1 DEF LostInodes
    <3> QED
      BY <3>1, <3>2
  <2>2. CASE m.blockMap \subseteq blockMap /\ m.inodeMap \subseteq inodeMap \cup {x}
    <3>1. B \subseteq A
      BY <1>1, <1>5, <1>6, <2>2
    <3>2. D \subseteq C \cup {x}
      BY <1>1, <2>2 DEF LostInodes
    <3> QED
      BY <3>1, <3>2
  <2> QED
    BY <2>1, <2>2
<1> HIDE DEF A, B, C, D
<1> QED
  BY <1>3, <1>4, <1>7, <1>8, OneMoreLost

LEMMA BetweenLoses ==
  ASSUME Whole, CrashBetween, op # "free"
  PROVE  Leaked' <= Leaked + 1
<1>1. Restart(Image) /\ files' = files
  BY DEF CrashBetween, FilesLeft
<1>2. ImageIs(Image, blockMap, inodeMap, size, blocks, next)
  BY DEF ImageIs, Image
<1>3. next \in [Inums -> Int]
  BY WholeFacts
<1> QED
  BY <1>1, <1>2, <1>3, LittleLost DEF ImageIs, UsedBlocks

\* an inode that is reset is none of the files'
LEMMA ResetLoses ==
  ASSUME Whole, NEW m, Restart(m), files' = files, NEW i \in Inums \ inodeMap, NEW sz,
         sz \in [Inums -> Int],
         \A j \in On(next, files), k \in Slots : k < UsedBlocks(j) => k < BytesToBlocks(sz[j]),
         \E im \in {inodeMap, inodeMap \cup {i}} :
           ImageIs(m, blockMap, im, [sz EXCEPT ![i] = 0], [blocks EXCEPT ![i] = EmptySlots],
                   [next EXCEPT ![i] = None])
  PROVE  Leaked' <= Leaked + 1
<1> DEFINE T == On(next, files)
<1>1. /\ m.blockMap = blockMap /\ m.inodeMap \subseteq inodeMap \cup {i}
      /\ m.size = [sz EXCEPT ![i] = 0] /\ m.blocks = [blocks EXCEPT ![i] = EmptySlots]
      /\ m.next = [next EXCEPT ![i] = None]
  BY DEF ImageIs
<1>2. /\ next \in [Inums -> Int] /\ blocks \in [Inums -> [Slots -> Int]]
      /\ \A j \in T : j \in Inums /\ j # i
  BY WholeFacts
<1>3. m.next \in [Inums -> Int] /\ \A j \in T : m.next[j] = next[j]
  BY <1>1, <1>2 DEF None
<1>4. \A j \in T : m.size[j] = sz[j] /\ m.blocks[j] = blocks[j]
  BY <1>1, <1>2
<1>5. \A j \in T, k \in Slots :
        k < UsedBlocks(j) /\ blocks[j][k] \in m.blockMap
          => k < BytesToBlocks(m.size[j]) /\ m.blocks[j][k] = blocks[j][k]
  BY <1>4
<1>6. m.blockMap \subseteq blockMap /\ m.inodeMap \subseteq inodeMap \cup {i}
  BY <1>1
<1> QED
  BY <1>3, <1>5, <1>6, LittleLost

LEMMA GrowLoses ==
  ASSUME Whole, CrashInGrow
  PROVE  Leaked' <= Leaked + 1
<1>1. PICK m \in GrowImages : Restart(m)
  BY DEF CrashInGrow
<1>2. files' = files
  BY DEF CrashInGrow
<1>3. AtLastToGrow /\ ~FitsInUsedBlocks
  BY <1>1 DEF GrowImages
<1>4. /\ next \in [Inums -> Int] /\ size \in [Inums -> Int] /\ blocks \in [Inums -> [Slots -> Int]]
      /\ On(next, files) \subseteq Inums /\ cur \in Inums
      /\ UsedBlocks(cur) \in 0 .. INODE_LOCAL_BLOCK_CAP
  BY <1>3, WholeFacts, WholeAtLast
<1>5. CASE UsedBlocks(cur) < INODE_LOCAL_BLOCK_CAP
  <2>1. PICK b \in FirstFreeBlocks : m \in GrowBlockImages(b)
    BY <1>1, <1>3, <1>5 DEF GrowImages
  <2> DEFINE u == UsedBlocks(cur)
             bl == [blocks EXCEPT ![cur][u] = b]
  <2>2. \/ ImageIs(m, blockMap \cup {b}, inodeMap, size, blocks, next)
        \/ ImageIs(m, blockMap \cup {b}, inodeMap, size, bl, next)
    BY <2>1, BlockImages
  <2>3. \A j \in Inums, k \in Slots : k < UsedBlocks(j) => bl[j][k] = blocks[j][k]
    <3> SUFFICES ASSUME NEW j \in Inums, NEW k \in Slots, k < UsedBlocks(j)
                 PROVE  bl[j][k] = blocks[j][k]
      OBVIOUS
    <3>1. j # cur \/ k # u
      BY <1>4, SizesAssumption DEF Slots
    <3> HIDE DEF u
    <3> QED
      BY <1>4, <3>1
  <2> HIDE DEF bl, u
  <2>4. /\ m.blockMap = blockMap \cup {b} /\ m.inodeMap = inodeMap /\ m.size = size /\ m.next = next
        /\ m.blocks = blocks \/ m.blocks = bl
    BY <2>2 DEF ImageIs
  <2>5. \A j \in On(next, files), k \in Slots :
          k < UsedBlocks(j) /\ blocks[j][k] \in m.blockMap
            => k < BytesToBlocks(m.size[j]) /\ m.blocks[j][k] = blocks[j][k]
    BY <1>4, <2>3, <2>4 DEF UsedBlocks
  <2>6. m.blockMap \subseteq blockMap \cup {b} /\ m.inodeMap \subseteq inodeMap
    BY <2>4
  <2>7. m.next \in [Inums -> Int] /\ \A j \in On(next, files) : m.next[j] = next[j]
    BY <1>4, <2>4
  <2> QED
    BY <1>1, <1>2, <2>5, <2>6, <2>7, LittleLost
<1>6. CASE ~ (UsedBlocks(cur) < INODE_LOCAL_BLOCK_CAP)
  <2>1. PICK i \in FreeInums : m \in GrowChildImages(i)
    BY <1>1, <1>3, <1>6 DEF GrowImages
  <2>2. i \in Inums \ inodeMap
    BY DEF FreeInums, FirstFreeInum
  <2> DEFINE full == [size EXCEPT ![cur] = MaxLocalSize]
  <2>3. \/ ImageIs(m, blockMap, inodeMap, full, blocks, next)
        \/ \E im \in {inodeMap, inodeMap \cup {i}} :
             ImageIs(m, blockMap, im, [full EXCEPT ![i] = 0], [blocks EXCEPT ![i] = EmptySlots],
                     [next EXCEPT ![i] = None])
    BY <2>1, ChildImages
  <2>4. full \in [Inums -> Int] /\ \A j \in Inums : full[j] = IF j = cur THEN MaxLocalSize ELSE size[j]
    BY <1>4, SizesAssumption DEF MaxLocalSize
  <2>5. BytesToBlocks(MaxLocalSize) = INODE_LOCAL_BLOCK_CAP
    BY BlocksOfMultiple, SizesAssumption DEF MaxLocalSize
  <2> HIDE DEF full
  <2>6. \A j \in On(next, files), k \in Slots : k < UsedBlocks(j) => k < BytesToBlocks(full[j])
    <3> SUFFICES ASSUME NEW j \in On(next, files), NEW k \in Slots, k < UsedBlocks(j)
                 PROVE  k < BytesToBlocks(full[j])
      OBVIOUS
    <3>1. k < INODE_LOCAL_BLOCK_CAP
      BY SizesAssumption DEF Slots
    <3> QED
      BY <1>4, <2>4, <2>5, <3>1 DEF UsedBlocks
  <2>7. CASE ImageIs(m, blockMap, inodeMap, full, blocks, next)
    BY <1>1, <1>2, <1>4, <2>6, <2>7, LittleLost DEF ImageIs
  <2> QED
    BY <1>1, <1>2, <2>2, <2>3, <2>4, <2>6, <2>7, ResetLoses
<1> QED
  BY <1>5, <1>6

LEMMA AllocLoses ==
  ASSUME Whole, CrashInAlloc
  PROVE  Leaked' <= Leaked + 1
<1>1. PICK i \in FreeInums :
        \E m \in {Fresh(Image, i), [Fresh(Image, i) EXCEPT !.inodeMap = @ \cup {i}]} : Restart(m)
  BY DEF CrashInAlloc
<1>2. PICK m : /\ m \in {Fresh(Image, i), [Fresh(Image, i) EXCEPT !.inodeMap = @ \cup {i}]}
               /\ Restart(m)
  BY <1>1
<1>3. files' = files /\ i \in Inums \ inodeMap
  BY DEF CrashInAlloc, FreeInums, FirstFreeInum
<1>4. \E im \in {inodeMap, inodeMap \cup {i}} :
        ImageIs(m, blockMap, im, [size EXCEPT ![i] = 0], [blocks EXCEPT ![i] = EmptySlots],
                [next EXCEPT ![i] = None])
  BY <1>2, AllocImages
<1>5. size \in [Inums -> Int]
  BY WholeFacts
<1>6. \A j \in On(next, files), k \in Slots : k < UsedBlocks(j) => k < BytesToBlocks(size[j])
  BY DEF UsedBlocks
<1>7. Restart(m)
  BY <1>2
<1> QED
  BY <1>3, <1>4, <1>5, <1>6, <1>7, ResetLoses

\* the block inode_shrink takes is not marked any more
LEMMA ShrinkLoses ==
  ASSUME Whole, CrashInShrink, op # "free"
  PROVE  Leaked' <= Leaked + 1
<1>1. PICK m \in ShrinkImages : Restart(m)
  BY DEF CrashInShrink
<1>2. files' = files
  BY DEF CrashInShrink, FilesLeft
<1> DEFINE bl == [blocks EXCEPT ![cur][LastSlot] = None]
           s == size[cur] - DecreaseSize
           sy == [size EXCEPT ![cur] = s]
           b == blocks[cur][LastSlot]
<1>3. /\ AtLastToShrink /\ ~ (LastSlot < 0)
      /\ \E im \in {inodeMap, inodeMap \ {cur}}, sz \in {size, sy}, by \in {blocks, bl} :
           ImageIs(m, blockMap \ {b}, im, sz, by, next)
  BY DropImages
<1>4. LastSlot \in Slots /\ UsedBlocks(cur) \in 0 .. INODE_LOCAL_BLOCK_CAP
      /\ LastSlot = UsedBlocks(cur) - 1
  BY <1>3, WholeAtLast, SizesAssumption DEF LastSlot, Slots
<1>5. cur \in Inums /\ s \in Int /\ BytesToBlocks(s) = LastSlot
  BY <1>3, <1>4, DropFacts
<1>6. /\ next \in [Inums -> Int] /\ size \in [Inums -> Int] /\ blocks \in [Inums -> [Slots -> Int]]
      /\ On(next, files) \subseteq Inums
  BY WholeFacts
<1>7. \A j \in On(next, files), k \in Slots :
        k < UsedBlocks(j) /\ blocks[j][k] # b
          => /\ k < BytesToBlocks(sy[j]) /\ k < BytesToBlocks(size[j])
             /\ bl[j][k] = blocks[j][k]
  <2> SUFFICES ASSUME NEW j \in On(next, files), NEW k \in Slots, k < UsedBlocks(j), blocks[j][k] # b
               PROVE  /\ k < BytesToBlocks(sy[j]) /\ k < BytesToBlocks(size[j])
                      /\ bl[j][k] = blocks[j][k]
    OBVIOUS
  <2>1. j # cur \/ k # LastSlot
    OBVIOUS
  <2>2. bl[j][k] = blocks[j][k]
    BY <1>4, <1>6, <2>1
  <2>3. sy[j] = IF j = cur THEN s ELSE size[j]
    BY <1>5, <1>6
  <2>4. j = cur => k < LastSlot
    BY <1>4, <2>1, SizesAssumption DEF Slots
  <2> HIDE DEF bl, s, sy, b
  <2> QED
    BY <1>5, <2>2, <2>3, <2>4 DEF UsedBlocks
<1> HIDE DEF bl, s, sy, b
<1>8. /\ m.blockMap = blockMap \ {b} /\ m.inodeMap \subseteq inodeMap /\ m.next = next
      /\ m.size \in {size, sy} /\ m.blocks \in {blocks, bl}
  BY <1>3 DEF ImageIs
<1>9. \A j \in On(next, files), k \in Slots :
        k < UsedBlocks(j) /\ blocks[j][k] \in m.blockMap
          => k < BytesToBlocks(m.size[j]) /\ m.blocks[j][k] = blocks[j][k]
  BY <1>7, <1>8
<1>10. m.blockMap \subseteq blockMap \cup {b}
  BY <1>8
<1> QED
  BY <1>1, <1>2, <1>6, <1>8, <1>9, <1>10, LittleLost

LEMMA StepLosesLittle ==
  ASSUME CrashIInv, [CrashNext]_crashVars
  PROVE  [crashes' # crashes /\ op # "free" => Leaked' <= Leaked + 1]_crashVars
<1> SUFFICES ASSUME crashes' # crashes, op # "free" PROVE Leaked' <= Leaked + 1
  OBVIOUS
<1>1. CrashNext
  BY DEF crashVars
<1>2. Whole /\ Crash
  BY <1>1 DEF CrashNext, CrashIInv, Running
<1> QED
  BY <1>2, BetweenLoses, GrowLoses, AllocLoses, ShrinkLoses DEF Crash

(* A daemon killed between whichever two stores loses at most one block or *)
(* one inode, however much earlier kills have lost, unless it was freeing  *)
(* a file.                                                                 *)
THEOREM KillsLoseLittle == CrashSpec => LeakIsSmall
<1>1. CrashIInv /\ [CrashNext]_crashVars
        => [crashes' # crashes /\ op # "free" => Leaked' <= Leaked + 1]_crashVars
  BY StepLosesLittle
<1> QED
  BY <1>1, CrashInvariant, PTL DEF CrashSpec, LeakIsSmall
=============================================================================
