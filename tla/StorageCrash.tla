---------------------------- MODULE StorageCrash ----------------------------
(***************************************************************************)
(* The handlers of storage.c with a daemon that can die between their      *)
(* stores, killed or at one of its own assertions, and is mounted again.   *)
(*                                                                         *)
(* Each ...Images operator has the images a handler passes through before  *)
(* the last one, which is an outcome of Storage.  The stores inside the    *)
(* inode layer are those of InodeCrash and are not repeated here.          *)
(*                                                                         *)
(* A name is owed by an inode that does not count it in refs.  A handler   *)
(* that adds a name counts it last, so it owes it for a while; only a      *)
(* crash makes that last.  An image in which an entry stands for a free    *)
(* inode is not followed further, because using that entry is an           *)
(* assertion, nor is one in which a directory has two names, which the     *)
(* kernel takes for two directories, nor one in which a hole stands in     *)
(* front of a directory's "..".  A directory made while the disk is full   *)
(* has no ".", so a name can be its first entry, and a crash in a rename   *)
(* can leave a ".." behind that name; when the name has been removed, a    *)
(* second rename gives the hole, with its stale name, to the parent.       *)
(***************************************************************************)
EXTENDS Storage

CONSTANTS
  MaxKills,   \* bound: how often the daemon is killed
  MaxAborts   \* bound: how often it is mounted again after an assertion

ASSUME CrashAssumption == MaxKills \in Nat /\ MaxAborts \in Nat

VARIABLES
  kills,   \* how often it was killed
  aborts,  \* how often it was mounted again after an assertion
  owed     \* history: names crashes have left uncounted, for every inode

crashVars == <<vars, kills, aborts, owed>>

NamesOf(s, i) == Cardinality(SlotsOf(s, i))
Missing(s) == [i \in Inums |-> Max({0, NamesOf(s, i) - s.refs[i]})]
Owes(s) == [i \in Inums |-> Max({owed[i], Missing(s)[i]})]

(***************************************************************************)
(* The images of each handler.                                             *)
(***************************************************************************)

(* What a new entry may hold: an entry some directory once had, or zeros.   *)
(* Entries made up of the bytes of a deleted file are left out.            *)
StaleEntries ==
  [name : Names \ LongNames, inum : (Inums \cup {Unused}) \ {ROOT_INUM}]
  \cup [name : {Dot, DotDot}, inum : Inums \cup {Unused}]
  \cup {Entry("", ROOT_INUM)}

(* directory_add_entry in one table: a new entry is first whatever its     *)
(* block held, then it has the inum, then the name.                        *)
EntryImages(t, n, i, room) ==
  LET stop == AddStop(t, n) IN
  CASE TooLong(n) \/ stop \in Named(t, n) -> {}
    [] ~TooLong(n) /\ stop \in Holes(t) \ Named(t, n) ->
         {[t EXCEPT ![stop].inum = i], Reuse(t, n, i)}
    [] ~TooLong(n) /\ stop = 0 /\ NeedsBlock(t) /\ ~room -> {}
    [] ~TooLong(n) /\ stop = 0 /\ (NeedsBlock(t) => room) ->
         UNION {{Append(t, e), Append(t, Entry(e.name, i)), Extend(t, n, i, e.name)}
                : e \in StaleEntries}

(* The same with the "..", for the state after the entry is complete.      *)
AddImages(s, d, n, i) ==
  {SetTable(s, d, t) : t \in EntryImages(s.table[d], n, i, Room(s))}
  \cup UNION {
         LET t == SetTable(s, d, out.table) IN
         IF out.rv = "ok" /\ IsDir(s, i)
           THEN {SetTable(t, i, back) : back \in EntryImages(t.table[i], DotDot, d, Room(t))}
           ELSE {}
         : out \in Adds(s.table[d], n, i, Room(s))}

(* storage_mknod *)
MknodImages(s, p, k) ==
  IF Resolve(s, p) # ENOENT \/ FreeInums(s) = {} THEN {}
  ELSE LET i == Min(FreeInums(s))
           a == AllocInode(s, k)
           first == IF k = "file" THEN {} ELSE EntryImages(<<>>, Dot, i, Room(a))
           inits == IF k = "file" THEN {<<>>}
                    ELSE {out.table : out \in Adds(<<>>, Dot, i, Room(a))}
       IN {AllocInode(s, "file"), a}
          \cup {SetTable(a, i, t) : t \in first}
          \cup UNION {AddImages(SetTable(a, i, t), Parent(s, p), Last(p), i) : t \in inits}

(* storage_link *)
LinkImages(s, from, to) ==
  LET i == Resolve(s, from)
      d == Parent(s, to) IN
  IF i < 0 \/ Resolve(s, to) >= 0 \/ d < 0 THEN {} ELSE AddImages(s, d, Last(to), i)

(* storage_unlink: the entry, the "..", the holes at the end, the count,   *)
(* the inode.                                                              *)
UnlinkImagesCountFirst(s, p) ==
  LET i == Resolve(s, p) IN IF i < 0 THEN {} ELSE {AddRef(s, i, -1)}
UnlinkImages(s, p) ==
  LET i == Resolve(s, p)
      d == Parent(s, p)
      t == s.table[d]
      k == RemoveStop(t, Last(p))
      out == RemoveEntry(s, d, Last(p)) IN
  IF i < 0 \/ k \notin Live(t) THEN {}
  ELSE LET marked == SetTable(s, d, MarkUnused(t, Last(p)))
           b == RemoveStop(marked.table[i], DotDot)
           apart == IF ~IsDir(s, i) \/ b \notin Live(marked.table[i]) THEN marked
                    ELSE SetTable(marked, i, MarkUnused(marked.table[i], DotDot)) IN
       IF out.rv # "ok" THEN {marked}
       ELSE LET counted == AddRef(out.fs, i, -1) IN
            {marked, apart, out.fs} \cup IF counted.refs[i] <= 0 THEN {counted} ELSE {}

(* storage_rename: a link, an unlink, and where that fails another.        *)
RenameImages(s, from, to) ==
  LinkImages(s, from, to)
  \cup UNION {IF linked.rv # "ok" THEN {}
              ELSE {linked.fs} \cup UnlinkImages(linked.fs, from)
              : linked \in LinkOutcomes(s, from, to)}

(* storage_rmdir *)
RmdirImages(s, p) ==
  LET i == Resolve(s, p) IN
  IF i < 0 \/ ~IsDir(s, i) \/ ~IsEmpty(s.table[i]) THEN {} ELSE UnlinkImages(s, p)

(***************************************************************************)
(* Crashes. The image is mounted again by storage_init.                    *)
(***************************************************************************)
Mount(m) ==
  /\ Bounded(m)
  /\ \E out \in InitOutcomes(m) : Bounded(out.fs) /\ fs' = out.fs /\ rv' = out.rv
  /\ owed' = Owes(m)

CrashInMknod(p, k) == ParentIsDir(p) /\ \E m \in MknodImages(fs, p, k) : Mount(m)
CrashInLink(from, to) ==
  NotDir(from) /\ ParentIsDir(to) /\ \E m \in LinkImages(fs, from, to) : Mount(m)
CrashInUnlink(p) == NotDir(p) /\ \E m \in UnlinkImages(fs, p) : Mount(m)
CrashInRename(from, to) == MayRename(from, to) /\ \E m \in RenameImages(fs, from, to) : Mount(m)
CrashInRmdir(p) == p # <<>> /\ \E m \in RmdirImages(fs, p) : Mount(m)

Crash ==
  /\ rv # "abort"
  /\ kills < MaxKills
  /\ kills' = kills + 1
  /\ UNCHANGED aborts
  /\ \/ \E p \in Paths, k \in {"file", "dir"} : CrashInMknod(p, k)
     \/ \E from, to \in Paths : CrashInLink(from, to)
     \/ \E p \in Paths : CrashInUnlink(p)
     \/ \E from, to \in Paths : CrashInRename(from, to)
     \/ \E p \in Paths : CrashInRmdir(p)

(* An assertion has stopped the daemon. *)
Restart ==
  /\ rv = "abort"
  /\ aborts < MaxAborts
  /\ aborts' = aborts + 1
  /\ UNCHANGED kills
  /\ Mount(fs)

CrashInit == Init /\ kills = 0 /\ aborts = 0 /\ owed = [i \in Inums |-> 0]

Dangling(s) ==
  UNION {{<<d, k>> : k \in {l \in Live(s.table[d]) : s.table[d][l].inum \notin Allocated(s)}}
         : d \in Dirs(s)}

Running == Next /\ UNCHANGED <<kills, aborts, owed>>

(* The image is followed further. *)
Followed ==
  /\ Dangling(fs) = {}
  /\ \A d \in Dirs(fs) :
       /\ NamesOf(fs, d) <= IF d = ROOT_INUM THEN 0 ELSE 1
       /\ \A k \in Holes(fs.table[d]) : k > LookupEntryNum(fs.table[d], DotDot)

CrashNext == Followed /\ (Running \/ Crash \/ Restart)

CrashSpec == CrashInit /\ [][CrashNext]_crashVars

(***************************************************************************)
(* Properties.                                                             *)
(***************************************************************************)

(* refs counts every name of an inode but the ones owed: what a crash in   *)
(* the middle of a handler leaves behind is not made worse by any sequence *)
(* of later calls, and a crash elsewhere leaves refs too high, never too   *)
(* low, so that it loses space but frees nothing that has a name.          *)
RefsCoverNames ==
  \A i \in Allocated(fs) : NamesOf(fs, i) <= fs.refs[i] + owed[i]

(* A name stands for a free inode only if that inode owed a name when it   *)
(* was freed: the image a crash leaves is as safe as the names it owes.    *)
DanglingIsOwed ==
  \A x \in Dangling(fs) \cap Slots(fs) : owed[fs.table[x[1]][x[2]].inum] > 0

(* Only the adding of a name owes one: a crash anywhere in storage_unlink  *)
(* or storage_rmdir leaves no name uncounted.  A crash while a file gets a *)
(* name leaves one uncounted, while a directory does two at most: its own  *)
(* and what its new ".." entry held before.                                *)
Sum(f) == FoldFunction(+, 0, f)
AtMost(images, n) == \A m \in images : Sum(Owes(m)) <= Sum(owed) + n
CrashOwesLittle ==
  rv # "abort" /\ Followed =>
    /\ \A p \in Paths : p # <<>> => AtMost(UnlinkImages(fs, p) \cup RmdirImages(fs, p), 0)
    /\ \A p \in Paths : ParentIsDir(p) =>
         AtMost(MknodImages(fs, p, "file"), 1) /\ AtMost(MknodImages(fs, p, "dir"), 2)
    /\ \A from, to \in Paths : MayRename(from, to) =>
         AtMost(RenameImages(fs, from, to), IF NotDir(from) THEN 1 ELSE 2)
=============================================================================
