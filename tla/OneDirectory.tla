---------------------------- MODULE OneDirectory ----------------------------
(***************************************************************************)
(* One directory of nufs, with the calls of directory.c that storage.c     *)
(* makes on it.  storage_mknod and storage_link add a name after looking   *)
(* it up in vain, storage_unlink removes a name it has found.  When the    *)
(* directory itself is renamed, its parent's add and remove call           *)
(* directory.c on it for "..", without looking it up.                      *)
(***************************************************************************)
EXTENDS Directory

CONSTANTS
  Self,      \* inum of the directory
  Parents,   \* inums of the directories it can be in
  Children,  \* inums its names can stand for
  MaxEntries \* bound: entries in the table

ASSUME InumsAssumption ==
  /\ Self \in Nat
  /\ Parents \subseteq Nat
  /\ Children \subseteq Nat
  /\ MaxEntries \in Nat

VARIABLES
  entries,  \* the table
  rv        \* what the last call returned, "abort" if it killed the daemon

vars == <<entries, rv>>

Inums == {Self} \cup Parents \cup Children

(* storage_mknod: directory_init, then the entry for "..".  If the disk is *)
(* full both fail, and storage_mknod goes on.                              *)
Init ==
  /\ entries \in {<<>>} \cup {<<Entry(Dot, Self), Entry(DotDot, p)>> : p \in Parents}
  /\ rv = "ok"

(* directory_add_entry, from storage_mknod and storage_link.               *)
Create(n, i) ==
  /\ rv # "abort"
  /\ LookupEntryNum(entries, n) = 0
  /\ AddStop(entries, n) = 0 => Len(entries) < MaxEntries
  /\ \E room \in BOOLEAN : \E out \in Adds(entries, n, i, room) : entries' = out.table /\ rv' = out.rv

(* directory_remove_entry, from storage_unlink.                            *)
Delete(n) ==
  /\ rv # "abort"
  /\ LookupEntryNum(entries, n) # 0
  /\ LET out == Removed(entries, n) IN entries' = out.table /\ rv' = out.rv

(* storage_rename of this directory: storage_link adds ".." to it,         *)
(* storage_unlink removes it; what the two return for ".." is ignored.     *)
Moved(p) ==
  /\ rv # "abort"
  /\ \E room \in BOOLEAN : \E added \in Adds(entries, DotDot, p, room) :
       LET out == Removed(added.table, DotDot) IN
         /\ entries' = out.table
         /\ rv' = IF out.rv = "abort" THEN "abort" ELSE "ok"

Next ==
  \/ \E n \in Names, i \in Children : Create(n, i)
  \/ \E n \in Names : Delete(n)
  \/ \E p \in Parents : Moved(p)

Spec == Init /\ [][Next]_vars

(***************************************************************************)
(* Properties.                                                             *)
(***************************************************************************)

(* The table is a sequence of entries; holes keep a name (dirent_t).       *)
TypeOK ==
  /\ entries \in Seq([name : EntryNames, inum : Inums \cup {Unused}])
  /\ rv \in {"ok", "EEXIST", "ENOSPC", "ENAMETOOLONG", "abort"}

(* No name is in use twice, although an add stops searching at the first   *)
(* hole and does not see the entries after it.                             *)
UniqueNames ==
  \A j, k \in Live(entries) : entries[j].name = entries[k].name => j = k

(* No hole stands before an entry in use with the same name: so a removal, *)
(* which takes the first entry with the name, takes the one a lookup has   *)
(* found and never a hole.                                                 *)
NoHiddenEntry ==
  \A j \in Holes(entries), k \in Live(entries) :
    entries[j].name = entries[k].name => k < j

(* directory_prune leaves an entry in use at the end, so the table shrinks *)
(* to nothing when everything is removed.                                  *)
NoTrailingHole == rv # "abort" /\ entries # <<>> => Len(entries) \in Live(entries)

(* Removing a name that a lookup has found succeeds: the assertions of     *)
(* inode_get hold.                                                         *)
DeleteSucceeds == [][\A n \in Names : Delete(n) => rv' = "ok"]_vars

(* The comment on the EEXIST of directory_add_entry: "Indicate that a file *)
(* with the given name already exists."                                    *)
ExistsMeansExists ==
  [][\A n \in Names, i \in Children :
       Create(n, i) /\ rv' = "EEXIST" => LookupEntryNum(entries, n) # 0]_vars

(* The table implements a map from names to inums, and each call does to   *)
(* the map what its name says or is refused: whatever hole or stale name   *)
(* the table holds, storage_mknod binds the name it was given.             *)
Map == INSTANCE NameMap WITH
  AllNames <- EntryNames,
  Targets <- Inums,
  map <- [n \in {entries[k].name : k \in Live(entries)} |-> LookupInum(entries, n)],
  answer <- rv
MapSpec ==
  /\ Map!Spec
  /\ [][/\ \A n \in Names, i \in Children : Create(n, i) => Map!Bind(n, i) \/ Map!Refuse
        /\ \A n \in Names : Delete(n) => Map!Unbind(n)
        /\ \A p \in Parents : Moved(p) => Map!Unbind(DotDot) \/ Map!Nothing \/ Map!Refuse]_vars
=============================================================================
