------------------------------ MODULE Storage ------------------------------
(***************************************************************************)
(* The handlers of storage.c that change the tree or the size of a file.   *)
(*                                                                         *)
(* The daemon is single threaded, so one handler is one action.  Handlers  *)
(* that call each other (storage_rename calls storage_link and then        *)
(* storage_unlink) are operators from a state of the image to the set of   *)
(* their outcomes: an answer and the state it leaves.  Directories are the *)
(* tables of Directory.  Files are a number of blocks, and no file needs   *)
(* a second inode (Inode has that part); space runs out exactly.           *)
(***************************************************************************)
EXTENDS Directory, SequencesExt

CONSTANTS
  MAX_INODE_COUNT,  \* inodes of the inode table
  DATA_BLOCKS,      \* blocks of the disk that are not reserved
  MaxFileBlocks,    \* bound: the largest file asked for, in blocks
  MaxDepth,         \* bound: components of a path
  MaxEntries        \* bound: entries of a directory

(* storage_init on a new image has room for the two entries of the root.   *)
ASSUME StorageAssumption ==
  /\ MAX_INODE_COUNT \in Nat \ {0}
  /\ DATA_BLOCKS \in Nat \ {0}
  /\ ENTRIES_PER_BLOCK >= 2 \/ DATA_BLOCKS >= 2
  /\ MaxFileBlocks \in Nat
  /\ MaxDepth \in Nat
  /\ MaxEntries \in Nat

Inums == 0 .. MAX_INODE_COUNT - 1
ROOT_INUM == 0
ENOENT == -2
ENOTDIR == -20

(* A path is the sequence of its components.  The kernel looks up one      *)
(* after the other: it passes no "." and no "..", and nothing under a name *)
(* that a lookup cannot find.                                              *)
Paths == {p \in UNION {[1 .. n -> Names] : n \in 0 .. MaxDepth} :
            \A k \in 1 .. Len(p) - 1 : p[k] \notin LongNames}

VARIABLES
  fs,  \* the image: mode, refs, table and len of every inode
  rv   \* what the last handler answered, "abort" if it killed the daemon

vars == <<fs, rv>>

(***************************************************************************)
(* The image.                                                              *)
(***************************************************************************)
Allocated(s) == {i \in Inums : s.mode[i] # "free"}
IsDir(s, i) == i \in Inums /\ s.mode[i] = "dir"
Dirs(s) == {i \in Inums : s.mode[i] = "dir"}

BlocksOf(s, i) == s.len[i] + (Len(s.table[i]) + ENTRIES_PER_BLOCK - 1) \div ENTRIES_PER_BLOCK
BlocksInUse(s) == UNION {{i} \X (1 .. BlocksOf(s, i)) : i \in Inums}
FreeBlocks(s) == DATA_BLOCKS - Cardinality(BlocksInUse(s))
Room(s) == FreeBlocks(s) > 0

SetTable(s, i, d) == [s EXCEPT !.table[i] = d]
AddRefOnly(s, i, n) == [s EXCEPT !.refs[i] = n]
AddRef(s, i, n) == [s EXCEPT !.refs[i] = @ + n]

(* inode_alloc and the mode storage_mknod gives the inode                  *)
FreeInums(s) == Inums \ Allocated(s)
AllocInode(s, k) ==
  LET i == Min(FreeInums(s))
  IN [s EXCEPT !.mode[i] = k, !.refs[i] = 0, !.table[i] = <<>>, !.len[i] = 0]

(* inode_free *)
FreeInodeMarked(s, i) == [s EXCEPT !.refs[i] = 0, !.table[i] = <<>>, !.len[i] = 0]
FreeInode(s, i) == [s EXCEPT !.mode[i] = "free", !.refs[i] = 0, !.table[i] = <<>>, !.len[i] = 0]

Result(v, s) == [rv |-> v, fs |-> s]

(***************************************************************************)
(* Paths: storage_inum_for_path and storage_path_parent_child.             *)
(***************************************************************************)
InumIn(s, d, n) ==
  LET i == LookupInum(s.table[d], n) IN
  IF d < 0 THEN d ELSE IF ~IsDir(s, d) THEN ENOTDIR ELSE IF i < 0 THEN ENOENT ELSE i

Resolve(s, p) ==
  LET walk[k \in 0 .. Len(p)] == IF k = 0 THEN ROOT_INUM ELSE InumIn(s, walk[k - 1], p[k])
  IN walk[Len(p)]

Parent(s, p) == Resolve(s, Front(p))

LookupError(i) == IF i = ENOTDIR THEN "ENOTDIR" ELSE "ENOENT"

(***************************************************************************)
(* directory.c with the back entries.                                      *)
(***************************************************************************)

(* directory_add_entry(d, n, i, TRUE); what the ".." answers is ignored.   *)
AddEntry(s, d, n, i) ==
  UNION {
    LET t == SetTable(s, d, out.table) IN
    IF out.rv = "ok" /\ IsDir(s, i)
      THEN {Result("ok", SetTable(t, i, back.table)) : back \in Adds(t.table[i], DotDot, d, Room(t))}
      ELSE {Result(out.rv, t)}
    : out \in Adds(s.table[d], n, i, Room(s))}

(* directory_remove_entry(d, n, TRUE): the entry is unused before ".." is  *)
(* removed, and pruned after.                                              *)
RemoveEntryOneWay(s, d, n) ==
  LET out == Removed(s.table[d], n) IN Result(out.rv, SetTable(s, d, out.table))
RemoveEntry(s, d, n) ==
  LET t == s.table[d]
      k == RemoveStop(t, n) IN
  IF k \notin Live(t) THEN Result(Removed(t, n).rv, s)
  ELSE LET i == t[k].inum
           marked == SetTable(s, d, MarkUnused(t, n))
           back == Removed(marked.table[i], DotDot) IN
       IF ~IsDir(s, i) THEN Result("ok", SetTable(s, d, Prune(marked.table[d])))
       ELSE IF back.rv = "abort" THEN Result("abort", marked)
       ELSE Result("ok", SetTable(SetTable(marked, i, back.table), d, Prune(marked.table[d])))

(***************************************************************************)
(* The handlers.                                                           *)
(***************************************************************************)

(* storage_mknod. directory_init ignores that it may fail; EEXIST is       *)
(* answered as a positive number.                                          *)
MknodOutcomes(s, p, k) ==
  LET found == Resolve(s, p) IN
  CASE found >= 0 -> {Result("+EEXIST", s)}
    [] found = ENOTDIR -> {Result("ENOTDIR", s)}
    [] found = ENOENT /\ FreeInums(s) = {} -> {Result("ENOSPC", s)}
    [] found = ENOENT /\ FreeInums(s) # {} ->
         LET i == Min(FreeInums(s))
             a == AllocInode(s, k)
             inits == IF k = "dir"
                        THEN {SetTable(a, i, out.table) : out \in Adds(<<>>, Dot, i, Room(a))}
                        ELSE {a}
         IN {IF out.rv = "ok" THEN Result("ok", AddRef(out.fs, i, 1))
                              ELSE Result(out.rv, FreeInode(out.fs, i))
             : out \in UNION {AddEntry(b, Parent(s, p), Last(p), i) : b \in inits}}

(* storage_link *)
LinkOutcomes(s, from, to) ==
  LET i == Resolve(s, from)
      d == Parent(s, to) IN
  IF i < 0 THEN {Result("ENOENT", s)}
  ELSE IF Resolve(s, to) >= 0 THEN {Result("EEXIST", s)}
  ELSE IF d < 0 THEN {Result(LookupError(d), s)}
  ELSE {IF out.rv = "ok" THEN Result("ok", AddRef(out.fs, i, 1)) ELSE out
        : out \in AddEntry(s, d, Last(to), i)}

(* inode_free ends without a return: what storage_unlink then tests is     *)
(* what the last printf left, negative if standard output failed.          *)
FreeAnswers == {"ok", "EPERM"}

(* storage_unlink *)
UnlinkOutcomes(s, p) ==
  LET i == Resolve(s, p) IN
  IF i < 0 THEN {Result("ENOENT", s)}
  ELSE LET out == RemoveEntry(s, Parent(s, p), Last(p))
           t == AddRef(out.fs, i, -1) IN
       CASE out.rv # "ok" -> {out}
         [] out.rv = "ok" /\ t.refs[i] > 0 -> {Result("ok", t)}
         [] out.rv = "ok" /\ t.refs[i] <= 0 -> {Result(v, FreeInode(t, i)) : v \in FreeAnswers}

(* storage_rename *)
RenameLinks(s, from, to) == LinkOutcomes(s, from, to)
RenameOutcomes(s, from, to) ==
  UNION {
    IF linked.rv # "ok" THEN {linked}
    ELSE UNION {
      IF out.rv \in {"ok", "abort"} THEN {out}
      ELSE {Result(out.rv, undone.fs) : undone \in UnlinkOutcomes(out.fs, to)}
      : out \in UnlinkOutcomes(linked.fs, from)}
    : linked \in LinkOutcomes(s, from, to)}

(* storage_rmdir *)
RmdirOutcomes(s, p) ==
  LET i == Resolve(s, p) IN
  IF i < 0 THEN {Result(LookupError(i), s)}
  ELSE IF ~IsDir(s, i) THEN {Result("ENOTDIR", s)}
  ELSE IF ~IsEmpty(s.table[i]) THEN {Result("ENOTEMPTY", s)}
  ELSE UnlinkOutcomes(s, p)

(* storage_stat, of what it fills in that is kept here                     *)
Stat(s, p) == LET i == Resolve(s, p) IN [ino |-> i, mode |-> s.mode[i], nlink |-> s.refs[i]]

(* nufs_readdir: storage_list, then for every name a storage_stat, but of  *)
(* the path of the directory.                                              *)
Readdir(s, p) ==
  LET listed == List(s.table[Resolve(s, p)])
  IN [k \in DOMAIN listed |-> [name |-> listed[k], stat |-> Stat(s, p)]]

(* inode_grow of inode i to n blocks: what fits stays when the disk fills. *)
GrownAlways(s, i, n) == Result("ok", [s EXCEPT !.len[i] = n])
Grown(s, i, n) ==
  IF n - s.len[i] <= FreeBlocks(s) THEN Result("ok", [s EXCEPT !.len[i] = n])
  ELSE Result("ENOSPC", [s EXCEPT !.len[i] = @ + FreeBlocks(s)])

(* storage_truncate passes on what inode_grow_zero and inode_shrink        *)
(* return, which on success is the number of bytes.                        *)
TruncateOutcomes(s, p, n) ==
  LET i == Resolve(s, p) IN
  IF i < 0 THEN {Result(LookupError(i), s)}
  ELSE IF n = s.len[i] THEN {Result("ok", s)}
  ELSE IF n < s.len[i] THEN {Result("positive", [s EXCEPT !.len[i] = n])}
  ELSE LET out == Grown(s, i, n) IN
       {IF out.rv = "ok" THEN Result("positive", out.fs) ELSE out}

(* storage_write up to the end of block n                                  *)
WriteOutcomes(s, p, n) ==
  LET i == Resolve(s, p) IN
  IF i < 0 THEN {Result(LookupError(i), s)}
  ELSE IF IsDir(s, i) THEN {Result("EISDIR", s)}
  ELSE IF n <= s.len[i] THEN {Result("ok", s)}
  ELSE {Grown(s, i, n)}

(* storage_init on an image that has a root directory                      *)
InitAnew(s) ==
  {Result("ok", SetTable(s, ROOT_INUM, <<Entry(Dot, ROOT_INUM), Entry(DotDot, ROOT_INUM)>>))}
InitOutcomes(s) ==
  {Result("ok", SetTable(s, ROOT_INUM, out.table))
   : out \in Adds(s.table[ROOT_INUM], DotDot, ROOT_INUM, Room(s))}

(***************************************************************************)
(* What the kernel has checked before it calls the daemon: the parent of a *)
(* new name is a directory, hard links and unlink are not for directories, *)
(* the root stays, and no directory moves into itself.                     *)
(***************************************************************************)
ParentIsDir(p) == p # <<>> /\ IsDir(fs, Parent(fs, p))
NotDir(p) == p # <<>> /\ ~IsDir(fs, Resolve(fs, p))
MayRename(from, to) ==
  /\ from # <<>>
  /\ ParentIsDir(to)
  /\ ~IsPrefix(from, to)
  /\ ~IsPrefix(to, from)

(* The bound on directories, for the state after a call.                   *)
Bounded(s) == \A i \in Inums : Len(s.table[i]) <= MaxEntries

Answer(outcomes) ==
  /\ rv # "abort"
  /\ \E out \in outcomes :
       /\ Bounded(out.fs)
       /\ fs' = out.fs
       /\ rv' = out.rv

Mknod(p, k) == ParentIsDir(p) /\ Answer(MknodOutcomes(fs, p, k))
Hardlink(from, to) == NotDir(from) /\ ParentIsDir(to) /\ Answer(LinkOutcomes(fs, from, to))
Unlink(p) == NotDir(p) /\ Answer(UnlinkOutcomes(fs, p))
Rename(from, to) == MayRename(from, to) /\ Answer(RenameOutcomes(fs, from, to))
Rmdir(p) == p # <<>> /\ Answer(RmdirOutcomes(fs, p))
Truncate(p, n) == NotDir(p) /\ Answer(TruncateOutcomes(fs, p, n))
Write(p, n) == Answer(WriteOutcomes(fs, p, n))
Remount == Answer(InitOutcomes(fs))

(* storage_init on a new image                                             *)
Init ==
  /\ fs = [mode |-> [i \in Inums |-> IF i = ROOT_INUM THEN "dir" ELSE "free"],
           refs |-> [i \in Inums |-> 0],
           table |-> [i \in Inums |->
                        IF i = ROOT_INUM
                          THEN <<Entry(Dot, ROOT_INUM), Entry(DotDot, ROOT_INUM)>>
                          ELSE <<>>],
           len |-> [i \in Inums |-> 0]]
  /\ rv = "ok"

Next ==
  \/ \E p \in Paths, k \in {"file", "dir"} : Mknod(p, k)
  \/ \E from, to \in Paths : Hardlink(from, to)
  \/ \E p \in Paths : Unlink(p)
  \/ \E from, to \in Paths : Rename(from, to)
  \/ \E p \in Paths : Rmdir(p)
  \/ \E p \in Paths, n \in 0 .. MaxFileBlocks : Truncate(p, n)
  \/ \E p \in Paths, n \in 1 .. MaxFileBlocks : Write(p, n)
  \/ Remount

Spec == Init /\ [][Next]_vars

(***************************************************************************)
(* Properties.  They say nothing of the image an abort leaves behind.      *)
(***************************************************************************)
Answers == {"ok", "+EEXIST", "EEXIST", "ENOTDIR", "ENOENT", "ENOSPC", "ENAMETOOLONG",
            "ENOTEMPTY", "EISDIR", "EPERM", "positive", "abort"}

(* An image: what every inode is, its links, its table and its blocks.     *)
Images == [mode : [Inums -> {"free", "file", "dir"}],
           refs : [Inums -> Nat],
           table : [Inums -> Seq([name : EntryNames, inum : Inums \cup {Unused}])],
           len : [Inums -> Nat]]

(* The image has its type and never holds more blocks than the disk has.   *)
TypeOK ==
  /\ fs \in Images
  /\ FreeBlocks(fs) \in Nat
  /\ rv \in Answers

(* The links of the tree: the entries in use but for "." and "..".         *)
Slots(s) ==
  UNION {{<<d, k>> : k \in {l \in Live(s.table[d]) : s.table[d][l].name \notin {Dot, DotDot}}}
         : d \in Dirs(s)}
SlotsOf(s, i) == {x \in Slots(s) : s.table[x[1]][x[2]].inum = i}

(* refs counts the names of an inode, and every inode but the root's has   *)
(* one: storage_link, storage_unlink and storage_mknod keep the counter    *)
(* and the tables in step, also when they give up half way.                *)
RefsCountLinks ==
  rv # "abort" =>
    \A i \in Allocated(fs) \ {ROOT_INUM} :
      /\ fs.refs[i] = Cardinality(SlotsOf(fs, i))
      /\ fs.refs[i] >= 1

(* No entry, "." and ".." included, stands for an inode that is free: so   *)
(* inode_get's assertion holds on every path.                              *)
NoDanglingEntry ==
  rv # "abort" =>
    \A d \in Dirs(fs) : \A k \in Live(fs.table[d]) : fs.table[d][k].inum \in Allocated(fs)

(* "." is the directory itself, and ".." where there is one is the         *)
(* directory that has it as a child, however often it was moved.           *)
DotsAreRight ==
  rv # "abort" =>
    \A d \in Dirs(fs) :
      /\ LookupInum(fs.table[d], Dot) \in {d, Unused}
      /\ \/ LookupInum(fs.table[d], DotDot) = Unused
         \/ d = ROOT_INUM /\ LookupInum(fs.table[d], DotDot) = ROOT_INUM
         \/ \E x \in SlotsOf(fs, d) : x[1] = LookupInum(fs.table[d], DotDot)

(* Every inode can be reached from the root: no handler loses a subtree.   *)
(* What has the root and every object linked from what it has, has all.    *)
ClosedUnderLinks(s, S) ==
  \A x \in Slots(s) : x[1] \in S => s.table[x[1]][x[2]].inum \in S
NoOrphan ==
  rv # "abort" =>
    \A S \in SUBSET Inums : ROOT_INUM \in S /\ ClosedUnderLinks(fs, S) => Allocated(fs) \subseteq S

(* A directory has one place in the tree.                                  *)
OnePlace == rv # "abort" => \A d \in Dirs(fs) : Cardinality(SlotsOf(fs, d)) <= 1

(* A handler that answers an error has changed nothing: storage_mknod      *)
(* gives back the inode, storage_rename undoes the link, and only a write  *)
(* or truncate that runs out of space keeps the bytes it got.              *)
ErrorChangesNothing ==
  [][rv' \notin {"ok", "positive", "EPERM", "abort"} =>
       fs' = fs \/ (rv' = "ENOSPC" /\ [fs' EXCEPT !.len = fs.len] = fs)]_vars

(* Mounting an image again leaves it as it was.                            *)
RemountKeeps == [][Remount => fs' = fs]_vars

(* The assertions of inode_get and inode_exists hold.                      *)
NoAbort == rv # "abort"

(* readdir shows every name that a lookup by path finds, each once and no  *)
(* other, and getattr of that path then shows it with a link, whatever *)
(* holes and stale names the table holds and wherever it was moved.        *)
ReaddirShowsLookups ==
  rv # "abort" =>
    \A p \in Paths : IsDir(fs, Resolve(fs, p)) =>
      LET shown == Readdir(fs, p) IN
      /\ {shown[k].name : k \in DOMAIN shown} \ {Dot, DotDot} =
           {n \in Names : Resolve(fs, Append(p, n)) >= 0}
      /\ \A j, k \in DOMAIN shown : shown[j].name = shown[k].name => j = k
      /\ \A k \in DOMAIN shown : shown[k].name \in Names =>
           Stat(fs, Append(p, shown[k].name)).nlink > 0

(* A handler that answers success has done what it was asked, whatever     *)
(* holes and stale names the tables on the way hold: the new path stands   *)
(* for a new inode, the new link for the old one, the old path for none.   *)
StandsFor(s, i, p) == Resolve(s, p) = i
Made(p, k, out) ==
  LET i == Resolve(out.fs, p) IN i \in FreeInums(fs) /\ out.fs.mode[i] = k
Effects ==
  rv # "abort" =>
    /\ \A p \in Paths, k \in {"file", "dir"} : ParentIsDir(p) =>
         \A out \in MknodOutcomes(fs, p, k) : out.rv = "ok" => Made(p, k, out)
    /\ \A from, to \in Paths :
         /\ NotDir(from) /\ ParentIsDir(to) =>
              \A out \in LinkOutcomes(fs, from, to) : out.rv = "ok" =>
                StandsFor(out.fs, Resolve(fs, from), from) /\ StandsFor(out.fs, Resolve(fs, from), to)
         /\ MayRename(from, to) =>
              \A out \in RenameOutcomes(fs, from, to) : out.rv = "ok" =>
                StandsFor(out.fs, ENOENT, from) /\ StandsFor(out.fs, Resolve(fs, from), to)
    /\ \A p \in Paths : NotDir(p) =>
         \A out \in UnlinkOutcomes(fs, p) : out.rv = "ok" => StandsFor(out.fs, ENOENT, p)

(* storage.c implements a tree of objects and links.                       *)
Tree == INSTANCE FileTree WITH
  Objects <- Inums,
  Root <- ROOT_INUM,
  LinkNames <- Names,
  kind <- [i \in Allocated(fs) |-> fs.mode[i]],
  links <- {[dir |-> x[1], name |-> fs.table[x[1]][x[2]].name,
             object |-> fs.table[x[1]][x[2]].inum] : x \in Slots(fs)}
TreeSpec == Tree!Init /\ [][fs' = fs \/ rv' = "abort" \/ Tree!Next]_(Tree!vars)
=============================================================================
