----------------------------- MODULE Directory -----------------------------
(***************************************************************************)
(* The algorithms of directory.c on the table of one directory.            *)
(*                                                                         *)
(* A table is the sequence of its entries (dirent_t).  Removing an entry   *)
(* sets its inum to -1 and leaves its name: such a hole is reused by a     *)
(* later add, and the holes at the end are cut off.  Entry numbers count   *)
(* from 1 here, so 0 can stand for a search that finds nothing.  An add    *)
(* may return one of several outcomes, because the disk may be full and a  *)
(* new entry holds whatever its block held before.                         *)
(*                                                                         *)
(* An operator that stands just before one with a similar name (say        *)
(* PruneOne before Prune) is a slip the code could have made: the runs     *)
(* that check a property are repeated with it, to see the property fail.   *)
(***************************************************************************)
EXTENDS Integers, Sequences, FiniteSetsExt

CONSTANTS
  Names,             \* names of files and directories
  LongNames,         \* those of MAX_DIR_ENTRY_NAME_LEN characters or more
  ENTRIES_PER_BLOCK  \* BLOCK_SIZE / sizeof(dirent_t)

Dot == "."
DotDot == ".."

ASSUME NamesAssumption ==
  /\ LongNames \subseteq Names
  /\ Dot \notin Names /\ DotDot \notin Names
  /\ ENTRIES_PER_BLOCK \in Nat \ {0}

(* A name must leave room for the byte that ends it.                       *)
TooLongUnchecked(n) == n \in {}
TooLong(n) == n \in LongNames

EntryNames == (Names \ LongNames) \cup {Dot, DotDot}
Unused == -1
Entry(n, i) == [name |-> n, inum |-> i]

(* Entries in use and unused ones, and the entries with a name in either.  *)
Live(d) == {k \in DOMAIN d : d[k].inum >= 0}
Holes(d) == {k \in DOMAIN d : d[k].inum < 0}
Named(d, n) == {k \in DOMAIN d : d[k].name = n}

First(S) == IF S = {} THEN 0 ELSE Min(S)

(* directory_lookup_entry_num, directory_lookup_inum                       *)
LookupEntryNum(d, n) == IF TooLong(n) THEN 0 ELSE First(Live(d) \cap Named(d, n))

LookupInum(d, n) ==
  IF LookupEntryNum(d, n) = 0 THEN Unused ELSE d[LookupEntryNum(d, n)].inum

(* directory_is_empty *)
IsEmptyIfShort(d) == Len(d) <= 2
IsEmpty(d) == \A k \in Live(d) : d[k].name \in {Dot, DotDot}

(* directory_list: k turns of its loop, which starts at the last entry.    *)
ListNotFirst(d) ==
  LET list[k \in 0 .. Len(d)] ==
        IF k = 0 THEN <<>>
        ELSE IF k < Len(d) /\ d[Len(d) + 1 - k].inum >= 0
               THEN <<d[Len(d) + 1 - k].name>> \o list[k - 1]
        ELSE list[k - 1]
  IN list[Len(d)]
List(d) ==
  LET list[k \in 0 .. Len(d)] ==
        IF k = 0 THEN <<>>
        ELSE IF d[Len(d) + 1 - k].inum >= 0 THEN <<d[Len(d) + 1 - k].name>> \o list[k - 1]
        ELSE list[k - 1]
  IN list[Len(d)]

(* directory_rename_entry, of an entry in use                              *)
RenameEntryIfFound(d, k, n) ==
  IF LookupEntryNum(d, n) = 0 THEN d ELSE [d EXCEPT ![k].name = n]
RenameEntry(d, k, n) ==
  IF LookupEntryNum(d, n) # 0 THEN d ELSE [d EXCEPT ![k].name = n]

(***************************************************************************)
(* directory_add_entry without the back entry.                             *)
(***************************************************************************)
Outcome(v, d) == [rv |-> v, table |-> d]

(* The search stops at the first entry that has the name or is unused.     *)
AddStopInUse(d, n) == First(Named(d, n) \cap Live(d))
AddStop(d, n) == First(Named(d, n) \cup Holes(d))

Reuse(d, n, i) == RenameEntry([d EXCEPT ![AddStop(d, n)].inum = i], AddStop(d, n), n)

(* A new entry comes with a stale name.                                    *)
Extend(d, n, i, stale) == RenameEntry(Append(d, Entry(stale, i)), Len(d) + 1, n)

(* inode_grow by one entry takes a block only where the entry starts one.  *)
NeedsBlock(d) == Len(d) % ENTRIES_PER_BLOCK = 0

(* room: the disk has a free block. *)
Adds(d, n, i, room) ==
  LET stop == AddStop(d, n) IN
  CASE TooLong(n) -> {Outcome("ENAMETOOLONG", d)}
    [] ~TooLong(n) /\ stop \in Named(d, n) -> {Outcome("EEXIST", d)}
    [] ~TooLong(n) /\ stop \in Holes(d) \ Named(d, n) -> {Outcome("ok", Reuse(d, n, i))}
    [] ~TooLong(n) /\ stop = 0 /\ NeedsBlock(d) /\ ~room -> {Outcome("ENOSPC", d)}
    [] ~TooLong(n) /\ stop = 0 /\ (NeedsBlock(d) => room) ->
         {Outcome("ok", Extend(d, n, i, stale)) : stale \in EntryNames}

(***************************************************************************)
(* directory_remove_entry without the back entry.                          *)
(***************************************************************************)

(* directory_prune: drop the holes at the end.                             *)
PruneAtHole(d) == IF Holes(d) = {} THEN d ELSE SubSeq(d, 1, First(Holes(d)) - 1)
PruneOne(d) == IF Len(d) \in Holes(d) THEN SubSeq(d, 1, Len(d) - 1) ELSE d
Prune(d) == SubSeq(d, 1, Max(Live(d) \cup {0}))

(* The search stops at the first entry with the name, in use or not.       *)
RemoveStop(d, n) == First(Named(d, n))

MarkUnused(d, n) == [d EXCEPT ![RemoveStop(d, n)].inum = Unused]

(* Finding a hole is fatal: inode_get(-1) fails its assertion.             *)
Removed(d, n) ==
  CASE RemoveStop(d, n) = 0 -> Outcome("ENOENT", d)
    [] RemoveStop(d, n) \in Holes(d) -> Outcome("abort", d)
    [] RemoveStop(d, n) \in Live(d) -> Outcome("ok", Prune(MarkUnused(d, n)))
=============================================================================
