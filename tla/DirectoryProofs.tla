-------------------------- MODULE DirectoryProofs --------------------------
(***************************************************************************)
(* Proofs about OneDirectory for every set of names and every size of the  *)
(* table.                                                                  *)
(***************************************************************************)
EXTENDS OneDirectory, DirectoryLemmas

(***************************************************************************)
(* The invariant.                                                          *)
(***************************************************************************)
IInv ==
  /\ TypeOK
  /\ Sound(entries)
  /\ rv # "abort" => Pruned(entries)

LEMMA InumsAreNat == Inums \in SUBSET Nat
  BY InumsAssumption DEF Inums

LEMMA InitIInv == Init => IInv
<1> SUFFICES ASSUME Init PROVE IInv
  OBVIOUS
<1>1. rv = "ok"
  BY DEF Init
<1>2. Dot \in EntryNames /\ DotDot \in EntryNames
  BY DEF EntryNames
<1>3. CASE entries = <<>>
  <2>1. entries \in Tables /\ Len(entries) = 0
    BY <1>3, EmptySeq DEF Tables
  <2>2. Live(entries) = {} /\ Holes(entries) = {}
    BY <2>1, TableFacts
  <2>3. Sound(entries)
    BY <2>2 DEF Sound, Unique, Unhidden, DotsFirst
  <2> QED
    BY <1>1, <1>3, <2>1, <2>3 DEF IInv, TypeOK, Pruned
<1>4. CASE \E p \in Parents : entries = <<Entry(Dot, Self), Entry(DotDot, p)>>
  <2>1. PICK p \in Parents : entries = <<Entry(Dot, Self), Entry(DotDot, p)>>
    BY <1>4
  <2>2. /\ Self \in Inums /\ p \in Inums /\ Self \in Nat /\ p \in Nat
        /\ Entry(Dot, Self) \in EntryType /\ Entry(DotDot, p) \in EntryType
        /\ Entry(Dot, Self).name = Dot /\ Entry(DotDot, p).name = DotDot
        /\ Entry(Dot, Self).inum = Self /\ Entry(DotDot, p).inum = p
    BY <1>2, NewEntry, InumsAreNat DEF Inums
  <2>3. /\ entries \in Tables /\ Len(entries) = 2
        /\ entries[1] = Entry(Dot, Self) /\ entries[2] = Entry(DotDot, p)
    BY <2>1, <2>2 DEF Tables
  <2>4. 1 \in Live(entries) /\ 2 \in Live(entries)
    <3>1. 1 \in 1 .. Len(entries) /\ 2 \in 1 .. Len(entries)
      BY <2>3
    <3>2. entries[1].inum \in Nat /\ entries[2].inum \in Nat
      BY <2>2, <2>3, Zenon
    <3> QED
      BY <2>3, <3>1, <3>2, TableFacts DEF Live
  <2>5. Live(entries) = {1, 2} /\ Holes(entries) = {}
    BY <2>3, <2>4, TableFacts
  <2>6. entries[1].name = Dot /\ entries[2].name = DotDot /\ Dot # DotDot
    BY <2>2, <2>3 DEF Dot, DotDot
  <2>7. Unique(entries) /\ Unhidden(entries)
    BY <2>5, <2>6 DEF Unique, Unhidden
  <2>8. DotsFirst(entries)
    BY <2>5, <2>6 DEF DotsFirst
  <2>9. entries \in Seq([name : EntryNames, inum : Inums \cup {Unused}])
    BY <2>1, <2>2, <1>2 DEF Entry
  <2> QED
    BY <1>1, <2>3, <2>4, <2>7, <2>8, <2>9 DEF IInv, TypeOK, Pruned, Sound
<1> QED
  BY <1>3, <1>4 DEF Init

(* What a call may do: the table stays as it was, or a name is bound or    *)
(* unbound.                                                                *)
Same == Bound(entries') = Bound(entries)
Binds(n, i) ==
  /\ n \in EntryNames /\ i \in Inums
  /\ \A j : <<n, j>> \notin Bound(entries)
  /\ Bound(entries') = Bound(entries) \cup {<<n, i>>}
Unbinds(n) ==
  \E i \in Inums :
    /\ <<n, i>> \in Bound(entries)
    /\ Bound(entries') = Bound(entries) \ {<<n, i>>}

Refused == rv' \in {"EEXIST", "ENOSPC", "ENAMETOOLONG"}

LEMMA TypeIs ==
  TypeOK <=> /\ entries \in Tables /\ \A n, i : <<n, i>> \in Bound(entries) => i \in Inums
             /\ rv \in {"ok", "EEXIST", "ENOSPC", "ENAMETOOLONG", "abort"}
  BY TablesOver, InumsAreNat DEF TypeOK

LEMMA TypeBecomes ==
  ASSUME entries' \in Tables, \A n, i : <<n, i>> \in Bound(entries') => i \in Inums,
         rv' \in {"ok", "EEXIST", "ENOSPC", "ENAMETOOLONG", "abort"}
  PROVE  TypeOK'
<1>1. Inums' = Inums
  BY DEF Inums
<1> QED
  BY <1>1, TablesOver, InumsAreNat DEF TypeOK

LEMMA CreateStep ==
  ASSUME IInv, NEW n \in Names, NEW i \in Children, Create(n, i)
  PROVE  /\ IInv'
         /\ (rv' = "ok" /\ Binds(n, i)) \/ (Refused /\ Same)
<1>1. /\ entries \in Tables /\ Sound(entries) /\ Pruned(entries)
      /\ \A m, j : <<m, j>> \in Bound(entries) => j \in Inums
      /\ i \in Inums /\ i \in Nat /\ n # DotDot
  BY NamesAssumption, TypeIs, InumsAreNat DEF IInv, Create, Inums
<1>2. PICK room \in BOOLEAN : \E out \in Adds(entries, n, i, room) : entries' = out.table /\ rv' = out.rv
  BY DEF Create
<1>3. PICK out \in Adds(entries, n, i, room) : entries' = out.table /\ rv' = out.rv
  BY <1>2
<1>4. TooLong(n) \/ Live(entries) \cap Named(entries, n) = {}
  BY <1>1, LookupFacts DEF Create
<1>5. CASE TooLong(n)
  <2>1. Adds(entries, n, i, room) = {Outcome("ENAMETOOLONG", entries)}
    BY <1>5 DEF Adds
  <2>2. entries' = entries /\ rv' = "ENAMETOOLONG"
    BY <1>3, <2>1 DEF Outcome
  <2> QED
    BY <1>1, <2>2, TypeBecomes DEF IInv, Refused, Same
<1>6. CASE Live(entries) \cap Named(entries, n) = {}
  <2>1. /\ out.table \in Tables
        /\ Unique(out.table) /\ Unhidden(out.table) /\ Pruned(out.table)
        /\ DotsFirst(out.table)
        /\ out.rv \in {"ok", "EEXIST", "ENOSPC", "ENAMETOOLONG"}
    BY <1>1, <1>6, AddSound
  <2>2. \/ out.rv \in {"ENAMETOOLONG", "EEXIST", "ENOSPC"} /\ out.table = entries
        \/ /\ out.rv = "ok" /\ n \in EntryNames
           /\ \A j : <<n, j>> \notin Bound(entries)
           /\ Bound(out.table) = Bound(entries) \cup {<<n, i>>}
    BY <1>1, <1>6, AddBinds
  <2>3. (rv' = "ok" /\ Binds(n, i)) \/ (Refused /\ Same)
    BY <1>1, <1>3, <2>2 DEF Binds, Refused, Same
  <2>4. \A m, j : <<m, j>> \in Bound(entries') => j \in Inums
    BY <1>1, <2>3 DEF Binds, Same
  <2> QED
    BY <1>3, <2>1, <2>3, <2>4, TypeBecomes DEF IInv, Sound
<1> QED
  BY <1>4, <1>5, <1>6

(* Removing a name a lookup has found: the entry it marks is that entry.   *)
LEMMA DeleteStep ==
  ASSUME IInv, NEW n \in Names, Delete(n)
  PROVE  IInv' /\ rv' = "ok" /\ Unbinds(n)
<1>1. /\ entries \in Tables /\ Sound(entries) /\ Unique(entries) /\ Unhidden(entries) /\ Pruned(entries)
      /\ \A m, j : <<m, j>> \in Bound(entries) => j \in Inums
      /\ n # Dot
  BY NamesAssumption, TypeIs DEF IInv, Delete, Sound
<1>2. entries' = Removed(entries, n).table /\ rv' = Removed(entries, n).rv
  BY DEF Delete
<1>3. LookupEntryNum(entries, n) \in Live(entries) \cap Named(entries, n)
  BY <1>1, LookupFacts DEF Delete
<1>4. \E k \in Live(entries) : entries[k].name = n
  BY <1>3 DEF Named
<1>5. /\ Removed(entries, n).table \in Tables
      /\ Sound(Removed(entries, n).table)
      /\ Removed(entries, n).rv # "abort" => Pruned(Removed(entries, n).table)
      /\ Removed(entries, n).rv = "ok"
  BY <1>1, <1>4, RemovedSound DEF Sound
<1>6. Unbinds(n)
  BY <1>1, <1>2, <1>5, RemovedBinds DEF Unbinds
<1>7. \A m, j : <<m, j>> \in Bound(entries') => j \in Inums
  BY <1>1, <1>6 DEF Unbinds
<1> QED
  BY <1>2, <1>5, <1>6, <1>7, TypeBecomes DEF IInv

LEMMA MovedStep ==
  ASSUME IInv, NEW p \in Parents, Moved(p)
  PROVE  /\ IInv'
         /\ \/ rv' \in {"ok", "abort"} /\ Same
            \/ rv' = "ok" /\ Unbinds(DotDot)
<1>1. /\ entries \in Tables /\ Sound(entries) /\ Pruned(entries) /\ p \in Inums /\ p \in Nat
      /\ \A m, j : <<m, j>> \in Bound(entries) => j \in Inums
      /\ AddStop(entries, DotDot) \in Named(entries, DotDot)
         \/ Live(entries) \cap Named(entries, DotDot) = {}
  BY DotDotStop, TypeIs, InumsAreNat DEF IInv, Moved, Inums, Sound
<1>2. PICK room \in BOOLEAN : \E added \in Adds(entries, DotDot, p, room) :
        /\ entries' = Removed(added.table, DotDot).table
        /\ rv' = IF Removed(added.table, DotDot).rv = "abort" THEN "abort" ELSE "ok"
  BY DEF Moved
<1>3. PICK added \in Adds(entries, DotDot, p, room) :
        /\ entries' = Removed(added.table, DotDot).table
        /\ rv' = IF Removed(added.table, DotDot).rv = "abort" THEN "abort" ELSE "ok"
  BY <1>2
<1>4. /\ added.table \in Tables
      /\ Unique(added.table) /\ Unhidden(added.table) /\ Pruned(added.table)
  BY <1>1, AddSound
<1> DEFINE out == Removed(added.table, DotDot)
<1>5. /\ out.table \in Tables /\ Sound(out.table)
      /\ out.rv # "abort" => Pruned(out.table)
  BY <1>4, RemovedSound
<1>6. \/ added.table = entries
      \/ /\ \A j : <<DotDot, j>> \notin Bound(entries)
         /\ Bound(added.table) = Bound(entries) \cup {<<DotDot, p>>}
  BY <1>1, AddBinds
<1>7. \/ /\ out.rv \in {"ENOENT", "abort"}
         /\ Bound(out.table) = Bound(added.table)
         /\ \A j : <<DotDot, j>> \notin Bound(added.table)
      \/ /\ out.rv = "ok"
         /\ \E i \in Nat : /\ <<DotDot, i>> \in Bound(added.table)
                           /\ Bound(out.table) = Bound(added.table) \ {<<DotDot, i>>}
  BY <1>4, RemovedBinds
<1> HIDE DEF out
<1>8. entries' = out.table /\ rv' = IF out.rv = "abort" THEN "abort" ELSE "ok"
  BY <1>3 DEF out
<1>9. \/ rv' \in {"ok", "abort"} /\ Same
      \/ rv' = "ok" /\ Unbinds(DotDot)
  <2>1. CASE added.table = entries
    BY <1>1, <1>7, <1>8, <2>1 DEF Same, Unbinds
  <2>2. CASE /\ \A j : <<DotDot, j>> \notin Bound(entries)
             /\ Bound(added.table) = Bound(entries) \cup {<<DotDot, p>>}
    <3>1. PICK i \in Nat : /\ out.rv = "ok" /\ <<DotDot, i>> \in Bound(added.table)
                          /\ Bound(out.table) = Bound(added.table) \ {<<DotDot, i>>}
      BY <1>7, <2>2
    <3>2. i = p
      BY <2>2, <3>1
    <3>3. Bound(out.table) = Bound(entries)
      BY <2>2, <3>1, <3>2
    <3> QED
      BY <1>8, <3>1, <3>3 DEF Same
  <2> QED
    BY <1>6, <2>1, <2>2
<1>10. \A m, j : <<m, j>> \in Bound(entries') => j \in Inums
  BY <1>1, <1>9 DEF Same, Unbinds
<1> QED
  BY <1>5, <1>8, <1>9, <1>10, TypeBecomes DEF IInv

LEMMA NextIInv == IInv /\ [Next]_vars => IInv'
<1> SUFFICES ASSUME IInv, [Next]_vars PROVE IInv'
  OBVIOUS
<1>1. CASE \E n \in Names, i \in Children : Create(n, i)
  BY <1>1, CreateStep
<1>2. CASE \E n \in Names : Delete(n)
  BY <1>2, DeleteStep
<1>3. CASE \E p \in Parents : Moved(p)
  BY <1>3, MovedStep
<1>4. CASE UNCHANGED vars
  BY <1>4 DEF vars, IInv, TypeOK
<1> QED
  BY <1>1, <1>2, <1>3, <1>4 DEF Next

(* Whatever the names, the inums and the size of the table, every sequence *)
(* of adds, removals and renames of the directory keeps the table sound.   *)
THEOREM DirectoryInvariant == Spec => []IInv
  BY InitIInv, NextIInv, PTL DEF Spec

(* The table is a table, and a call returns one of the codes it may.       *)
THEOREM TableTyped == Spec => []TypeOK
<1>1. IInv => TypeOK
  BY DEF IInv
<1> QED
  BY <1>1, DirectoryInvariant, PTL

(* No name is ever in use twice, although an add does not search behind    *)
(* the first hole.                                                         *)
THEOREM NamesAreUnique == Spec => []UniqueNames
<1>1. IInv => UniqueNames
  BY DEF IInv, Sound, Unique, UniqueNames
<1> QED
  BY <1>1, DirectoryInvariant, PTL

(* No hole hides an entry in use from a removal.                           *)
THEOREM NothingHidden == Spec => []NoHiddenEntry
<1>1. IInv => NoHiddenEntry
  BY DEF IInv, Sound, Unhidden, NoHiddenEntry
<1> QED
  BY <1>1, DirectoryInvariant, PTL

(* directory_prune leaves no hole at the end.                              *)
THEOREM TableIsPruned == Spec => []NoTrailingHole
<1>1. IInv => NoTrailingHole
  BY DEF IInv, Pruned, NoTrailingHole
<1> QED
  BY <1>1, DirectoryInvariant, PTL

(* Removing a name a lookup has found always succeeds: the assertion of    *)
(* inode_get cannot fail in storage_unlink of a file.                      *)
THEOREM FoundIsRemoved == Spec => DeleteSucceeds
<1>1. IInv /\ [Next]_vars => [\A n \in Names : Delete(n) => rv' = "ok"]_vars
  BY DeleteStep
<1> QED
  BY <1>1, DirectoryInvariant, PTL DEF Spec, DeleteSucceeds

(***************************************************************************)
(* The refinement of NameMap.                                              *)
(***************************************************************************)
AsMap(d) == [n \in {d[k].name : k \in Live(d)} |-> LookupInum(d, n)]
With(d, n, i) == [m \in DOMAIN AsMap(d) \cup {n} |-> IF m = n THEN i ELSE AsMap(d)[m]]
Without(d, n) == [m \in DOMAIN AsMap(d) \ {n} |-> AsMap(d)[m]]

LEMMA AsMapFacts ==
  ASSUME NEW d \in Tables, Unique(d)
  PROVE  /\ \A n : n \in DOMAIN AsMap(d) <=> \E i : <<n, i>> \in Bound(d)
         /\ \A n, i : <<n, i>> \in Bound(d) => AsMap(d)[n] = i
<1>1. DOMAIN AsMap(d) = {d[k].name : k \in Live(d)}
  BY DEF AsMap
<1>2. \A n : n \in DOMAIN AsMap(d) <=> \E i : <<n, i>> \in Bound(d)
  BY <1>1 DEF Bound
<1>3. ASSUME NEW n, NEW i, <<n, i>> \in Bound(d) PROVE AsMap(d)[n] = i
  <2>1. n \in EntryNames /\ i \in Nat
    BY <1>3, BoundFacts
  <2>2. ~TooLong(n)
    BY <2>1, NamesAssumption DEF EntryNames, TooLong, Dot, DotDot
  <2>3. LookupInum(d, n) = i
    BY <1>3, <2>1, <2>2, LookupBound
  <2>4. n \in {d[k].name : k \in Live(d)}
    BY <1>1, <1>2, <1>3
  <2> QED
    BY <2>3, <2>4 DEF AsMap
<1> QED
  BY <1>2, <1>3

(* Tables that say the same are the same map.                              *)
LEMMA SameMap ==
  ASSUME NEW d \in Tables, Unique(d), NEW e \in Tables, Unique(e), Bound(d) = Bound(e)
  PROVE  AsMap(e) = AsMap(d)
<1>1. DOMAIN AsMap(e) = DOMAIN AsMap(d)
  BY AsMapFacts
<1>2. \A n \in DOMAIN AsMap(d) : AsMap(e)[n] = AsMap(d)[n]
  BY AsMapFacts
<1> QED
  BY <1>1, <1>2 DEF AsMap

LEMMA MapBinds ==
  ASSUME NEW d \in Tables, Unique(d), NEW e \in Tables, Unique(e), NEW n, NEW i,
         \A j : <<n, j>> \notin Bound(d),
         Bound(e) = Bound(d) \cup {<<n, i>>}
  PROVE  /\ n \notin DOMAIN AsMap(d)
         /\ AsMap(e) = With(d, n, i)
<1>1. n \notin DOMAIN AsMap(d)
  BY AsMapFacts
<1>2. DOMAIN AsMap(e) = DOMAIN AsMap(d) \cup {n}
  <2>1. \A m : m \in DOMAIN AsMap(e) <=> m \in DOMAIN AsMap(d) \/ m = n
    <3>1. \A m : (\E j : <<m, j>> \in Bound(e)) <=> (\E j : <<m, j>> \in Bound(d)) \/ m = n
      OBVIOUS
    <3> QED
      BY <3>1, AsMapFacts
  <2> QED
    BY <2>1
<1>3. \A m \in DOMAIN AsMap(d) \cup {n} : AsMap(e)[m] = IF m = n THEN i ELSE AsMap(d)[m]
  BY <1>1, AsMapFacts
<1> QED
  BY <1>1, <1>2, <1>3 DEF AsMap, With

LEMMA MapUnbinds ==
  ASSUME NEW d \in Tables, Unique(d), NEW e \in Tables, Unique(e), NEW n, NEW i,
         <<n, i>> \in Bound(d),
         Bound(e) = Bound(d) \ {<<n, i>>}
  PROVE  /\ n \in DOMAIN AsMap(d)
         /\ AsMap(e) = Without(d, n)
<1>1. n \in DOMAIN AsMap(d)
  BY AsMapFacts
<1>2. DOMAIN AsMap(e) = DOMAIN AsMap(d) \ {n}
  <2>1. \A m : m \in DOMAIN AsMap(e) <=> m \in DOMAIN AsMap(d) /\ m # n
    <3>1. \A j : <<n, j>> \in Bound(d) => j = i
      BY BoundFacts
    <3>2. \A m : (\E j : <<m, j>> \in Bound(e)) <=> (\E j : <<m, j>> \in Bound(d)) /\ m # n
      BY <3>1
    <3> QED
      BY <3>2, AsMapFacts
  <2> QED
    BY <2>1
<1>3. \A m \in DOMAIN AsMap(d) \ {n} : AsMap(e)[m] = AsMap(d)[m]
  <2> SUFFICES ASSUME NEW m \in DOMAIN AsMap(d), m # n PROVE AsMap(e)[m] = AsMap(d)[m]
    OBVIOUS
  <2>1. PICK j : <<m, j>> \in Bound(d)
    BY AsMapFacts
  <2>2. <<m, j>> \in Bound(e)
    BY <2>1
  <2> QED
    BY <2>1, <2>2, AsMapFacts
<1> QED
  BY <1>1, <1>2, <1>3 DEF AsMap, Without

(* The actions of the abstract map, on AsMap.                              *)
LEMMA MapActions ==
  /\ \A n, i : Map!Bind(n, i) <=>
       /\ n \notin DOMAIN AsMap(entries)
       /\ AsMap(entries') = With(entries, n, i)
       /\ rv' = "ok"
  /\ \A n : Map!Unbind(n) <=>
       /\ n \in DOMAIN AsMap(entries)
       /\ AsMap(entries') = Without(entries, n)
       /\ rv' = "ok"
  /\ Map!Refuse <=> rv' \in {"EEXIST", "ENOSPC", "ENAMETOOLONG", "abort"} /\ AsMap(entries') = AsMap(entries)
  /\ Map!Nothing <=> rv' = "ok" /\ AsMap(entries') = AsMap(entries)
BY DEF AsMap, With, Without, Map!Bind, Map!Unbind, Map!Refuse, Map!Refusals, Map!Nothing

LEMMA MapInit == IInv /\ Init => Map!Init
<1> SUFFICES ASSUME IInv, Init PROVE Map!Init
  OBVIOUS
<1>1. entries \in Tables /\ Unique(entries) /\ \A n, i : <<n, i>> \in Bound(entries) => i \in Inums
  BY TypeIs DEF IInv, Sound
<1>2. \A n \in DOMAIN AsMap(entries) : n \in EntryNames /\ AsMap(entries)[n] \in Inums
  <2> SUFFICES ASSUME NEW n \in DOMAIN AsMap(entries)
               PROVE  n \in EntryNames /\ AsMap(entries)[n] \in Inums
    OBVIOUS
  <2>1. PICK i : <<n, i>> \in Bound(entries)
    BY <1>1, AsMapFacts
  <2> QED
    BY <1>1, <2>1, AsMapFacts, BoundFacts
<1> QED
  BY <1>2 DEF Map!Init, Init, AsMap

(* Every call does to the map what its name says, or is refused.           *)
LEMMA MapStep ==
  ASSUME IInv, [Next]_vars
  PROVE  /\ \A n \in Names, i \in Children : Create(n, i) => Map!Bind(n, i) \/ Map!Refuse
         /\ \A n \in Names : Delete(n) => Map!Unbind(n)
         /\ \A p \in Parents : Moved(p) => Map!Unbind(DotDot) \/ Map!Nothing \/ Map!Refuse
         /\ [Map!Next]_(Map!vars)
<1>1. IInv'
  BY NextIInv
<1>2. entries \in Tables /\ Unique(entries) /\ entries' \in Tables /\ Unique(entries')
  <2>1. entries' \in Seq([name : EntryNames, inum : Inums' \cup {Unused}])
    BY <1>1 DEF IInv, TypeOK
  <2>2. Inums' = Inums
    BY DEF Inums
  <2> QED
    BY <1>1, <2>1, <2>2, TypeIs, TablesOver, InumsAreNat DEF IInv, Sound
<1>3. ASSUME Same PROVE AsMap(entries') = AsMap(entries)
  BY <1>2, <1>3, SameMap DEF Same
<1>4. ASSUME NEW n, NEW i, Binds(n, i), rv' = "ok" PROVE Map!Bind(n, i) /\ n \in EntryNames /\ i \in Inums
  <2>1. /\ n \in EntryNames /\ i \in Inums
        /\ \A j : <<n, j>> \notin Bound(entries)
        /\ Bound(entries') = Bound(entries) \cup {<<n, i>>}
    BY <1>4 DEF Binds
  <2>2. /\ n \notin DOMAIN AsMap(entries)
        /\ AsMap(entries') = With(entries, n, i)
    BY <1>2, <2>1, MapBinds
  <2> QED
    BY <1>4, <2>1, <2>2, MapActions
<1>5. ASSUME NEW n, Unbinds(n), rv' = "ok" PROVE Map!Unbind(n) /\ n \in EntryNames
  <2>1. PICK i \in Inums : /\ <<n, i>> \in Bound(entries)
                           /\ Bound(entries') = Bound(entries) \ {<<n, i>>}
    BY <1>5 DEF Unbinds
  <2>2. /\ n \in DOMAIN AsMap(entries)
        /\ AsMap(entries') = Without(entries, n)
    BY <1>2, <2>1, MapUnbinds
  <2>3. n \in EntryNames
    BY <1>2, <2>1, BoundFacts
  <2> QED
    BY <1>5, <2>2, <2>3, MapActions
<1>6. \A n \in Names, i \in Children : Create(n, i) => (Map!Bind(n, i) /\ n \in EntryNames /\ i \in Inums) \/ Map!Refuse
  BY <1>3, <1>4, CreateStep, MapActions DEF Refused
<1>7. \A n \in Names : Delete(n) => Map!Unbind(n) /\ n \in EntryNames
  BY <1>5, DeleteStep
<1>8. \A p \in Parents : Moved(p) => (Map!Unbind(DotDot) /\ DotDot \in EntryNames) \/ Map!Nothing \/ Map!Refuse
  BY <1>3, <1>5, MovedStep, MapActions
<1>9. [Map!Next]_(Map!vars)
  <2>1. CASE UNCHANGED vars
    BY <2>1 DEF vars, Map!vars
  <2>2. CASE Next
    BY <2>2, <1>6, <1>7, <1>8 DEF Next, Map!Next
  <2> QED
    BY <2>1, <2>2
<1> QED
  BY <1>6, <1>7, <1>8, <1>9

(* The table implements a map from names to inums, whatever holes and      *)
(* stale names it holds: storage_mknod and storage_link bind the name they *)
(* were given or are refused, storage_unlink unbinds its own.              *)
THEOREM DirectoryImplementsMap == Spec => MapSpec
<1>1. IInv /\ Init => Map!Init
  BY MapInit
<1>2. IInv /\ [Next]_vars => [Map!Next]_(Map!vars)
  BY MapStep
<1>3. IInv /\ [Next]_vars =>
        [/\ \A n \in Names, i \in Children : Create(n, i) => Map!Bind(n, i) \/ Map!Refuse
         /\ \A n \in Names : Delete(n) => Map!Unbind(n)
         /\ \A p \in Parents : Moved(p) => Map!Unbind(DotDot) \/ Map!Nothing \/ Map!Refuse]_vars
  BY MapStep
<1> QED
  BY <1>1, <1>2, <1>3, DirectoryInvariant, PTL DEF Spec, MapSpec, Map!Spec
=============================================================================
