------------------------- MODULE StorageCrashProofs -------------------------
(***************************************************************************)
(* Proofs about StorageCrash, for every number of inodes, blocks and       *)
(* crashes, every set of names and every depth of the tree.                *)
(*                                                                         *)
(* The tree of StorageProofs is gone: a crash may leave entries with any   *)
(* name and inum, tables without ".", and inodes nothing leads to.  What   *)
(* is left is Safe, and the proofs are about what a handler, or a part of  *)
(* one, does to the names of an inode in such an image.                    *)
(***************************************************************************)
EXTENDS StorageCrash, StorageProofs

(***************************************************************************)
(* Tables, where a crash may have left any entry.                          *)
(***************************************************************************)

\* the names an entry may have: those of names, and that of a zeroed entry
Written == EntryNames \cup {""}
AnyEntry == [name : Written, inum : Inums \cup {Unused}]
AnyTables == Seq(AnyEntry)

LEMMA AnyEntryFacts ==
  ASSUME NEW e \in AnyEntry
  PROVE  /\ e.name \in Written
         /\ e.inum \in Int
         /\ e.inum >= 0 <=> e.inum \in Inums
         /\ e.inum < 0 <=> e.inum = Unused
<1>1. e.name \in Written /\ e.inum \in Inums \cup {Unused}
  BY DEF AnyEntry
<1>2. Unused = -1 /\ \A i \in Inums : i \in Int /\ i >= 0
  BY InumFacts DEF Unused
<1> HIDE DEF Unused
<1> QED
  BY <1>1, <1>2

LEMMA AnyNewEntry ==
  ASSUME NEW n \in Written, NEW i \in Inums \cup {Unused}
  PROVE  Entry(n, i) \in AnyEntry /\ Entry(n, i).name = n /\ Entry(n, i).inum = i
  BY DEF Entry, AnyEntry

LEMMA AnyTableFacts ==
  ASSUME NEW t \in AnyTables
  PROVE  /\ Len(t) \in Nat
         /\ DOMAIN t = 1 .. Len(t)
         /\ \A k \in 1 .. Len(t) : t[k] \in AnyEntry
         /\ Live(t) \subseteq 1 .. Len(t)
         /\ Holes(t) = (1 .. Len(t)) \ Live(t)
         /\ \A n : Named(t, n) \subseteq 1 .. Len(t)
<1>1. Len(t) \in Nat /\ DOMAIN t = 1 .. Len(t)
  BY LenProperties DEF AnyTables
<1>2. \A k \in 1 .. Len(t) : t[k] \in AnyEntry
  BY ElementOfSeq DEF AnyTables
<1>3. \A k \in 1 .. Len(t) : t[k].inum \in Int
  BY <1>2, AnyEntryFacts
<1>4. Holes(t) = (1 .. Len(t)) \ Live(t)
  BY <1>1, <1>3 DEF Holes, Live
<1> QED
  BY <1>1, <1>2, <1>4 DEF Live, Named

(* The names of inode j in a table.                                        *)
Uses(t, j) == {k \in Live(t) : t[k].name \notin {Dot, DotDot} /\ t[k].inum = j}

\* u is t with another entry at k, which may be a new one
OtherAt(t, u, k) ==
  /\ u \in AnyTables
  /\ \/ k \in Holes(t) /\ Len(u) = Len(t)
     \/ k = Len(t) + 1 /\ Len(u) = k
  /\ \A l \in 1 .. Len(t) : l # k => u[l] = t[l]

\* only the entry at k may be a name in u that it was not in t, and of i
GainsAt(t, u, k, i) == \A j : Uses(u, j) \subseteq Uses(t, j) \cup (IF j = i THEN {k} ELSE {})
Gains(t, u, i) == \E k : GainsAt(t, u, k, i)
\* no entry is a name in u that it was not in t
GainsNothing(t, u) == \A j : Uses(u, j) \subseteq Uses(t, j)

LEMMA OtherFacts ==
  ASSUME NEW t \in AnyTables, NEW u, NEW k, OtherAt(t, u, k)
  PROVE  /\ k \in 1 .. Len(u) /\ u[k] \in AnyEntry
         /\ \A l \in Live(u) : l # k => l \in Live(t) /\ u[l] = t[l]
         /\ \A l \in Live(t) : l # k /\ l \in Live(u) /\ u[l] = t[l]
         /\ \A l \in Holes(u) : l # k => l \in Holes(t)
<1>1. /\ Len(t) \in Nat /\ DOMAIN t = 1 .. Len(t) /\ Holes(t) = (1 .. Len(t)) \ Live(t)
      /\ Live(t) \subseteq 1 .. Len(t)
  BY AnyTableFacts
<1>2. /\ u \in AnyTables /\ DOMAIN u = 1 .. Len(u) /\ \A l \in 1 .. Len(u) : u[l] \in AnyEntry
  BY AnyTableFacts DEF OtherAt
<1>3. k \in 1 .. Len(u)
  BY <1>1 DEF OtherAt
<1>4. \A l \in 1 .. Len(u) : l # k => l \in 1 .. Len(t) /\ u[l] = t[l]
  BY <1>1 DEF OtherAt
<1>5. \A l \in Live(t) : l # k /\ l \in 1 .. Len(u)
  BY <1>1 DEF OtherAt
<1> QED
  BY <1>1, <1>2, <1>3, <1>4, <1>5 DEF Live, Holes

LEMMA OtherGains ==
  ASSUME NEW t \in AnyTables, NEW u, NEW k, OtherAt(t, u, k)
  PROVE  /\ u[k].name \in {Dot, DotDot} => GainsNothing(t, u)
         /\ GainsAt(t, u, k, u[k].inum)
  BY OtherFacts DEF Uses, GainsNothing, GainsAt

\* u is t with the entry k under another name, n unless another has it
Renamed(t, u, k, n) ==
  /\ u \in AnyTables /\ Len(u) = Len(t)
  /\ \A l \in 1 .. Len(t) : l # k => u[l] = t[l]
  /\ u[k].inum = t[k].inum
  /\ (\A l \in Live(t) : t[l].name = n => l = k) => u[k].name = n

LEMMA RenameAny ==
  ASSUME NEW t \in AnyTables, NEW k \in 1 .. Len(t), NEW n \in EntryNames
  PROVE  Renamed(t, RenameEntry(t, k, n), k, n)
<1> DEFINE u == RenameEntry(t, k, n)
           e == Entry(n, t[k].inum)
<1>1. /\ Len(t) \in Nat /\ DOMAIN t = 1 .. Len(t) /\ t[k] \in AnyEntry
      /\ Live(t) \cap Named(t, n) \subseteq DOMAIN t
  BY AnyTableFacts
<1>2. ~TooLong(n) /\ n \in Written
  BY NamesAssumption DEF EntryNames, TooLong, Dot, DotDot, Written
<1>3. CASE LookupEntryNum(t, n) = 0
  <2>1. t[k].inum \in Inums \cup {Unused}
    BY <1>1 DEF AnyEntry
  <2>2. e \in AnyEntry /\ e.name = n /\ e.inum = t[k].inum
    BY <1>2, <2>1, AnyNewEntry
  <2>3. [t[k] EXCEPT !.name = n] = e
    BY <1>1 DEF AnyEntry, Entry
  <2>4. u = [t EXCEPT ![k] = e]
    BY <1>3, <2>3 DEF RenameEntry
  <2> HIDE DEF e
  <2>5. /\ u \in AnyTables /\ Len(u) = Len(t)
        /\ \A l \in 1 .. Len(t) : u[l] = IF l = k THEN e ELSE t[l]
    BY <2>2, <2>4, ExceptSeq DEF AnyTables
  <2> HIDE DEF u
  <2>6. Renamed(t, u, k, n)
    BY <2>2, <2>5 DEF Renamed
  <2> QED
    BY <2>6 DEF u
<1>4. CASE LookupEntryNum(t, n) # 0
  <2>1. u = t
    BY <1>4 DEF RenameEntry
  <2>2. LookupEntryNum(t, n) \in Live(t) \cap Named(t, n)
    BY <1>1, <1>4, FirstFacts DEF LookupEntryNum
  <2> HIDE DEF u
  <2>3. Renamed(t, u, k, n)
    BY <2>1, <2>2 DEF Named, Renamed
  <2> QED
    BY <2>3 DEF u
<1> QED
  BY <1>3, <1>4

\* the first store: the inum, under a stale name
Taken(t, k, i) == [t EXCEPT ![k].inum = i]

LEMMA TakenIs ==
  ASSUME NEW t \in AnyTables, NEW k \in Holes(t), NEW i \in Inums
  PROVE  OtherAt(t, Taken(t, k, i), k) /\ Taken(t, k, i)[k].inum = i
<1> DEFINE w == Taken(t, k, i)
           e == Entry(t[k].name, i)
<1>1. /\ Len(t) \in Nat /\ k \in 1 .. Len(t) /\ t[k] \in AnyEntry /\ t[k].name \in Written
      /\ Holes(t) = (1 .. Len(t)) \ Live(t)
  BY AnyTableFacts, AnyEntryFacts
<1>2. e \in AnyEntry /\ e.inum = i
  BY <1>1, AnyNewEntry
<1>3. [t[k] EXCEPT !.inum = i] = e
  BY <1>1 DEF AnyEntry, Entry
<1>4. w = [t EXCEPT ![k] = e]
  BY <1>3 DEF Taken
<1> HIDE DEF e, w
<1>5. /\ w \in AnyTables /\ Len(w) = Len(t)
      /\ \A l \in 1 .. Len(t) : w[l] = IF l = k THEN e ELSE t[l]
  BY <1>1, <1>2, <1>4, ExceptSeq DEF AnyTables
<1>6. OtherAt(t, w, k)
  BY <1>1, <1>5 DEF OtherAt
<1> QED
  BY <1>1, <1>2, <1>5, <1>6 DEF w

LEMMA ReuseAny ==
  ASSUME NEW t \in AnyTables, NEW n \in EntryNames, NEW i \in Inums,
         NEW k \in Holes(t), k = AddStop(t, n), NEW u, u = Reuse(t, n, i)
  PROVE  /\ OtherAt(t, u, k) /\ u[k].inum = i
         /\ (\A l \in Live(t) : t[l].name # n) => u[k].name = n
<1> DEFINE w == Taken(t, k, i)
<1>1. Holes(t) = (1 .. Len(t)) \ Live(t) /\ Len(t) \in Nat
  BY AnyTableFacts
<1>2. OtherAt(t, w, k) /\ w[k].inum = i
  BY TakenIs
<1>3. u = RenameEntry(w, k, n)
  BY DEF Reuse, Taken
<1> HIDE DEF w
<1>4. w \in AnyTables /\ Len(w) = Len(t) /\ k \in 1 .. Len(w)
  BY <1>1, <1>2 DEF OtherAt
<1>5. Renamed(w, u, k, n)
  BY <1>3, <1>4, RenameAny
<1>6. OtherAt(t, u, k) /\ u[k].inum = i
  BY <1>2, <1>4, <1>5 DEF OtherAt, Renamed
<1>7. ASSUME \A l \in Live(t) : t[l].name # n PROVE u[k].name = n
  <2>1. \A l \in Live(w) : w[l].name = n => l = k
    BY <1>2, <1>7, OtherFacts
  <2> QED
    BY <1>5, <2>1 DEF Renamed
<1> QED
  BY <1>6, <1>7

LEMMA AppendAny ==
  ASSUME NEW t \in AnyTables, NEW e \in AnyEntry
  PROVE  OtherAt(t, Append(t, e), Len(t) + 1) /\ Append(t, e)[Len(t) + 1] = e
<1>1. Len(t) \in Nat
  BY AnyTableFacts
<1>2. /\ Append(t, e) \in AnyTables /\ Len(Append(t, e)) = Len(t) + 1
      /\ \A l \in 1 .. Len(t) : Append(t, e)[l] = t[l]
      /\ Append(t, e)[Len(t) + 1] = e
  BY AppendProperties DEF AnyTables
<1> QED
  BY <1>1, <1>2 DEF OtherAt

LEMMA ExtendAny ==
  ASSUME NEW t \in AnyTables, NEW n \in EntryNames, NEW i \in Inums, NEW x \in Written,
         NEW u, u = Extend(t, n, i, x)
  PROVE  /\ OtherAt(t, u, Len(t) + 1) /\ u[Len(t) + 1].inum = i
         /\ (\A l \in Live(t) : t[l].name # n) => u[Len(t) + 1].name = n
<1> DEFINE k == Len(t) + 1
           e == Entry(x, i)
           w == Append(t, e)
<1>0. Len(t) \in Nat
  BY AnyTableFacts
<1>1. e \in AnyEntry /\ e.inum = i
  BY AnyNewEntry
<1>2. u = RenameEntry(w, k, n)
  BY DEF Extend
<1> HIDE DEF e, w
<1>3. OtherAt(t, w, k) /\ w[k] = e
  BY <1>1, AppendAny DEF w
<1>4. w \in AnyTables /\ Len(w) = Len(t) + 1 /\ k \in 1 .. Len(w)
  BY <1>0, <1>3 DEF OtherAt, Holes
<1>5. Renamed(w, u, k, n)
  BY <1>2, <1>4, RenameAny
<1>6. OtherAt(t, u, k) /\ u[k].inum = i
  BY <1>0, <1>1, <1>3, <1>4, <1>5 DEF OtherAt, Renamed
<1>7. ASSUME \A l \in Live(t) : t[l].name # n PROVE u[k].name = n
  BY <1>3, <1>5, <1>7, OtherFacts DEF Renamed
<1> QED
  BY <1>6, <1>7


LEMMA AddStopAny ==
  ASSUME NEW t \in AnyTables, NEW n
  PROVE  /\ AddStop(t, n) = 0 <=> Named(t, n) \cup Holes(t) = {}
         /\ AddStop(t, n) # 0 => /\ AddStop(t, n) \in Named(t, n) \cup Holes(t)
                                /\ \A l \in Named(t, n) \cup Holes(t) : AddStop(t, n) <= l
<1>1. /\ Len(t) \in Nat /\ DOMAIN t = 1 .. Len(t)
      /\ Named(t, n) \cup Holes(t) \subseteq DOMAIN t
  BY AnyTableFacts
<1> QED
  BY <1>1, FirstFacts DEF AddStop

\* what directory_add_entry makes of a table
Fits(t, u, n, i) ==
  /\ n \in EntryNames
  /\ \E k : /\ OtherAt(t, u, k)
            /\ u[k].inum = i
            /\ (\A l \in Live(t) : t[l].name # n) => u[k].name = n
  /\ \/ AddStop(t, n) \in Holes(t)
     \/ Named(t, n) = {}

LEMMA AddsAny ==
  ASSUME NEW t \in AnyTables, NEW n \in Names \cup {Dot, DotDot}, NEW i \in Inums, NEW room,
         NEW out \in Adds(t, n, i, room)
  PROVE  \/ out.rv \in {"ENAMETOOLONG", "EEXIST", "ENOSPC"} /\ out.table = t
         \/ out.rv = "ok" /\ Fits(t, out.table, n, i)
<1> DEFINE k == AddStop(t, n)
<1>1. /\ k = 0 <=> Named(t, n) \cup Holes(t) = {}
      /\ k # 0 => k \in Named(t, n) \cup Holes(t)
  BY AddStopAny
<1>2. CASE TooLong(n)
  BY <1>2 DEF Adds, Outcome
<1>3. CASE ~TooLong(n) /\ k \in Named(t, n)
  <2>1. k # 0 /\ k \notin Holes(t) \ Named(t, n)
    BY <1>3, AnyTableFacts
  <2>2. out = Outcome("EEXIST", t)
    BY <1>3, <2>1 DEF Adds
  <2> QED
    BY <2>2 DEF Outcome
<1>4. ~TooLong(n) => n \in EntryNames
  BY DEF TooLong, EntryNames
<1>5. CASE ~TooLong(n) /\ k \in Holes(t) \ Named(t, n)
  <2>1. out = Outcome("ok", Reuse(t, n, i))
    <3>1. k # 0
      BY <1>5, AnyTableFacts
    <3> QED
      BY <1>5, <3>1 DEF Adds
  <2> DEFINE u == Reuse(t, n, i)
  <2>2. out.rv = "ok" /\ out.table = u
    BY <2>1 DEF Outcome
  <2>3. n \in EntryNames /\ AddStop(t, n) \in Holes(t)
    BY <1>4, <1>5
  <2> HIDE DEF k, u
  <2>4. /\ OtherAt(t, u, k) /\ u[k].inum = i
        /\ (\A l \in Live(t) : t[l].name # n) => u[k].name = n
    <3>1. k \in Holes(t) /\ k = AddStop(t, n) /\ u = Reuse(t, n, i)
      BY <2>3 DEF u, k
    <3> QED
      BY <2>3, <3>1, ReuseAny
  <2>5. Fits(t, u, n, i)
    BY <2>3, <2>4 DEF Fits
  <2> QED
    BY <2>2, <2>5
<1>6. CASE ~TooLong(n) /\ k = 0
  <2>1. k \notin Named(t, n) /\ k \notin Holes(t)
    BY <1>6, AnyTableFacts
  <2>2. \/ out = Outcome("ENOSPC", t)
        \/ \E x \in EntryNames : out = Outcome("ok", Extend(t, n, i, x))
    BY <1>6, <2>1 DEF Adds
  <2>3. CASE out = Outcome("ENOSPC", t)
    BY <2>3 DEF Outcome
  <2>4. CASE \E x \in EntryNames : out = Outcome("ok", Extend(t, n, i, x))
    <3>1. PICK x \in EntryNames : out = Outcome("ok", Extend(t, n, i, x))
      BY <2>4
    <3> DEFINE u == Extend(t, n, i, x)
    <3>2. out.rv = "ok" /\ out.table = u
      BY <3>1 DEF Outcome
    <3>3. n \in EntryNames /\ x \in Written /\ Named(t, n) = {}
      BY <1>1, <1>4, <1>6 DEF Written
    <3> HIDE DEF u
    <3>4. /\ OtherAt(t, u, Len(t) + 1) /\ u[Len(t) + 1].inum = i
          /\ (\A l \in Live(t) : t[l].name # n) => u[Len(t) + 1].name = n
      BY <3>3, ExtendAny DEF u
    <3>5. Fits(t, u, n, i)
      BY <3>3, <3>4 DEF Fits
    <3> QED
      BY <3>2, <3>5
  <2> QED
    BY <2>2, <2>3, <2>4
<1> QED
  BY <1>1, <1>2, <1>3, <1>5, <1>6

\* no hole in front of a ".." in use
NoHoleInFront(t) == \A k \in Holes(t) : k > LookupEntryNum(t, DotDot)

(* An entry that is added is a name of its inode and changes no other.     *)
LEMMA AddGains ==
  ASSUME NEW t \in AnyTables, NEW n \in Names, NEW i \in Inums, NEW u, Fits(t, u, n, i),
         \A l \in Live(t) : t[l].name # n
  PROVE  /\ u \in AnyTables /\ Gains(t, u, i)
         /\ NoHoleInFront(t) => NoHoleInFront(u)
<1>1. PICK k : OtherAt(t, u, k) /\ u[k].inum = i /\ u[k].name = n
  BY DEF Fits
<1>2. u \in AnyTables /\ Gains(t, u, i)
  BY <1>1, OtherGains DEF OtherAt, Gains
<1>3. ASSUME NoHoleInFront(t) PROVE NoHoleInFront(u)
  <2>1. n # DotDot /\ n # Dot
    BY NamesAssumption
  <2>2. Live(u) \cap Named(u, DotDot) = Live(t) \cap Named(t, DotDot)
    <3>1. k \notin Live(t) /\ k \notin Named(u, DotDot)
      BY <1>1, <2>1, OtherFacts DEF Named
    <3> QED
      BY <1>1, <3>1, OtherFacts, AnyTableFacts DEF Named, Live
  <2>3. LookupEntryNum(u, DotDot) = LookupEntryNum(t, DotDot)
    BY <2>2 DEF LookupEntryNum
  <2>4. \A l \in Holes(u) : l \in Holes(t)
    <3>1. k \in Live(u)
      BY <1>1, OtherFacts, InumFacts, <1>2, AnyTableFacts DEF Live
    <3>2. k \notin Holes(u)
      BY <1>2, <3>1, AnyTableFacts
    <3> QED
      BY <1>1, <3>2, OtherFacts
  <2> QED
    BY <1>3, <2>3, <2>4 DEF NoHoleInFront
<1> QED
  BY <1>2, <1>3

(* A ".." that is added is no name, unless there is a hole in front of     *)
(* another.                                                                *)
LEMMA BackGains ==
  ASSUME NEW t \in AnyTables, NoHoleInFront(t), NEW n \in {Dot, DotDot}, NEW i \in Inums,
         n = Dot => t = <<>>,
         NEW u, Fits(t, u, n, i)
  PROVE  u \in AnyTables /\ GainsNothing(t, u)
<1>1. \A l \in Live(t) : t[l].name # n
  <2> SUFFICES ASSUME NEW l \in Live(t), t[l].name = n PROVE FALSE
    OBVIOUS
  <2> DEFINE m == LookupEntryNum(t, DotDot)
  <2>0. Len(t) \in Nat /\ DOMAIN t = 1 .. Len(t) /\ Live(t) \cap Named(t, n) \subseteq DOMAIN t
    BY AnyTableFacts
  <2>1. n = DotDot
    <3>1. t = <<>> => DOMAIN t = {}
      OBVIOUS
    <3> QED
      BY <3>1 DEF Live
  <2>2. ~TooLong(n)
    BY NamesAssumption DEF TooLong
  <2>3. l \in Live(t) \cap Named(t, n)
    BY <2>0 DEF Named, Live
  <2>4. m \in Live(t) \cap Named(t, n)
    BY <2>0, <2>1, <2>2, <2>3, FirstFacts DEF LookupEntryNum
  <2>5. AddStop(t, n) \in Holes(t)
    BY <2>4 DEF Fits
  <2>6. AddStop(t, n) <= m
    BY <2>4, <2>5, AddStopAny, AnyTableFacts
  <2>7. AddStop(t, n) > m
    BY <2>5 DEF NoHoleInFront
  <2>8. AddStop(t, n) \in Int /\ m \in Int
    BY <2>0, <2>4, <2>5, AnyTableFacts
  <2> HIDE DEF m
  <2> QED
    BY <2>6, <2>7, <2>8
<1>2. PICK k : OtherAt(t, u, k) /\ u[k].name = n
  BY <1>1 DEF Fits
<1> QED
  BY <1>2, OtherGains DEF OtherAt

(* The entries of the root's table that are always in use.                 *)
Dotted(t) == Len(t) >= 2 /\ t[1] = Entry(Dot, ROOT_INUM) /\ t[2] = Entry(DotDot, ROOT_INUM)

LEMMA DottedFacts ==
  ASSUME NEW t \in AnyTables, Dotted(t)
  PROVE  /\ 1 \in Live(t) /\ t[1].name = Dot /\ t[1].inum = ROOT_INUM
         /\ 2 \in Live(t) /\ t[2].name = DotDot /\ t[2].inum = ROOT_INUM
<1>1. Len(t) \in Nat /\ DOMAIN t = 1 .. Len(t)
  BY AnyTableFacts
<1>2. ROOT_INUM >= 0 /\ ROOT_INUM \in Nat
  BY DEF ROOT_INUM
<1>3. t[1].name = Dot /\ t[1].inum = ROOT_INUM /\ t[2].name = DotDot /\ t[2].inum = ROOT_INUM
  BY DEF Dotted, Entry
<1>4. 1 \in 1 .. Len(t) /\ 2 \in 1 .. Len(t)
  BY <1>1 DEF Dotted
<1> QED
  BY <1>1, <1>2, <1>3, <1>4 DEF Live

LEMMA OtherDotted ==
  ASSUME NEW t \in AnyTables, NEW u, NEW k, OtherAt(t, u, k), Dotted(t)
  PROVE  Dotted(u)
<1>1. Len(t) \in Nat /\ Len(t) >= 2 /\ Holes(t) = (1 .. Len(t)) \ Live(t)
  BY AnyTableFacts DEF Dotted
<1>2. 1 \in Live(t) /\ 2 \in Live(t)
  BY DottedFacts
<1>3. k # 1 /\ k # 2 /\ Len(u) >= 2
  BY <1>1, <1>2 DEF OtherAt
<1> QED
  BY <1>1, <1>3 DEF OtherAt, Dotted

LEMMA StaleAny == StaleEntries \subseteq AnyEntry
<1>1. Names \ LongNames \subseteq Written /\ {Dot, DotDot} \subseteq Written /\ "" \in Written
  BY DEF Written, EntryNames
<1>2. ROOT_INUM \in Inums
  BY InumFacts
<1>3. Entry("", ROOT_INUM) \in AnyEntry
  BY <1>1, <1>2, AnyNewEntry
<1>4. /\ [name : Names \ LongNames, inum : (Inums \cup {Unused}) \ {ROOT_INUM}] \subseteq AnyEntry
      /\ [name : {Dot, DotDot}, inum : Inums \cup {Unused}] \subseteq AnyEntry
  BY <1>1 DEF AnyEntry
<1> QED
  BY <1>3, <1>4 DEF StaleEntries

(* An add changes one entry, or writes a new one, in each of its stores.   *)
LEMMA EntryImagesAny ==
  ASSUME NEW t \in AnyTables, NEW n \in Names \cup {Dot, DotDot}, NEW i \in Inums, NEW room,
         NEW u \in EntryImages(t, n, i, room)
  PROVE  \E k : OtherAt(t, u, k)
<1> DEFINE k == AddStop(t, n)
<1>1. /\ k = 0 <=> Named(t, n) \cup Holes(t) = {}
      /\ k # 0 => k \in Named(t, n) \cup Holes(t)
  BY AddStopAny
<1>2. ~TooLong(n) /\ n \in EntryNames
  <2>1. ~TooLong(n)
    BY DEF EntryImages
  <2> QED
    BY <2>1 DEF TooLong, EntryNames
<1>3. 0 \notin Named(t, n) /\ 0 \notin Holes(t)
  BY AnyTableFacts
<1>4. CASE k \in Named(t, n)
  <2>1. k # 0
    BY <1>3, <1>4
  <2> QED
    BY <1>2, <1>4, <2>1 DEF EntryImages
<1>5. CASE k \in Holes(t) \ Named(t, n)
  <2>1. u \in {Taken(t, k, i), Reuse(t, n, i)}
    <3>1. k # 0
      BY <1>3, <1>5
    <3> QED
      BY <1>2, <1>5, <3>1 DEF EntryImages, Taken
  <2>2. k = AddStop(t, n) /\ k \in Holes(t)
    BY <1>5
  <2> HIDE DEF k
  <2>3. CASE u = Taken(t, k, i)
    BY <2>2, <2>3, TakenIs
  <2>4. CASE u = Reuse(t, n, i)
    BY <1>2, <2>2, <2>4, ReuseAny
  <2> QED
    BY <2>1, <2>3, <2>4
<1>6. CASE k = 0
  <2>1. PICK e \in StaleEntries :
          u \in {Append(t, e), Append(t, Entry(e.name, i)), Extend(t, n, i, e.name)}
    BY <1>2, <1>3, <1>6 DEF EntryImages
  <2>2. e \in AnyEntry /\ e.name \in Written
    BY StaleAny, AnyEntryFacts
  <2>3. Entry(e.name, i) \in AnyEntry
    BY <2>2, AnyNewEntry
  <2>4. CASE u = Append(t, e)
    BY <2>2, <2>4, AppendAny
  <2>5. CASE u = Append(t, Entry(e.name, i))
    BY <2>3, <2>5, AppendAny
  <2>6. CASE u = Extend(t, n, i, e.name)
    BY <1>2, <2>2, <2>6, ExtendAny
  <2> QED
    BY <2>1, <2>4, <2>5, <2>6
<1> QED
  BY <1>1, <1>4, <1>5, <1>6

(* Removals.                                                               *)
LEMMA RemoveStopAny ==
  ASSUME NEW t \in AnyTables, NEW n
  PROVE  /\ RemoveStop(t, n) # 0 => RemoveStop(t, n) \in Named(t, n)
         /\ RemoveStop(t, n) = 0 => Named(t, n) = {}
         /\ RemoveStop(t, n) \in Live(t) /\ ~TooLong(n) => RemoveStop(t, n) = LookupEntryNum(t, n)
<1> DEFINE k == RemoveStop(t, n)
<1>1. /\ Len(t) \in Nat /\ DOMAIN t = 1 .. Len(t)
      /\ Named(t, n) \subseteq DOMAIN t /\ Live(t) \cap Named(t, n) \subseteq DOMAIN t
  BY AnyTableFacts
<1>2. /\ k = 0 <=> Named(t, n) = {}
      /\ Named(t, n) # {} => k \in Named(t, n) /\ \A l \in Named(t, n) : k <= l
  BY <1>1, FirstFacts DEF RemoveStop
<1>3. ASSUME k \in Live(t), ~TooLong(n) PROVE k = LookupEntryNum(t, n)
  <2> DEFINE m == LookupEntryNum(t, n)
  <2>1. k # 0
    BY <1>3, AnyTableFacts
  <2>2. k \in Live(t) \cap Named(t, n)
    BY <1>2, <1>3, <2>1
  <2>3. m \in Live(t) \cap Named(t, n) /\ \A l \in Live(t) \cap Named(t, n) : m <= l
    BY <1>1, <1>3, <2>2, FirstFacts DEF LookupEntryNum
  <2>4. k <= m /\ m <= k /\ k \in Int /\ m \in Int
    BY <1>1, <1>2, <2>2, <2>3
  <2>5. k = m
    <3> HIDE DEF k, m
    <3> QED
      BY <2>4
  <2> QED
    BY <2>5
<1> QED
  BY <1>2, <1>3

LEMMA MarkAny ==
  ASSUME NEW t \in AnyTables, NEW n, NEW k \in Live(t), k = RemoveStop(t, n),
         NEW u, u = MarkUnused(t, n)
  PROVE  /\ u \in AnyTables /\ Len(u) = Len(t)
         /\ Live(u) = Live(t) \ {k}
         /\ \A l \in 1 .. Len(t) : l # k => u[l] = t[l]
         /\ \A j : Uses(u, j) = Uses(t, j) \ {k}
<1> DEFINE e == Entry(t[k].name, Unused)
<1>1. /\ Len(t) \in Nat /\ k \in 1 .. Len(t) /\ t[k] \in AnyEntry /\ t[k].name \in Written
      /\ DOMAIN t = 1 .. Len(t) /\ Live(t) \subseteq 1 .. Len(t)
  BY AnyTableFacts, AnyEntryFacts
<1>2. e \in AnyEntry /\ e.inum = Unused
  BY <1>1, AnyNewEntry
<1>3. [t[k] EXCEPT !.inum = Unused] = e
  BY <1>1 DEF AnyEntry, Entry
<1>4. u = [t EXCEPT ![k] = e]
  BY <1>3 DEF MarkUnused
<1> HIDE DEF e
<1>5. /\ u \in AnyTables /\ Len(u) = Len(t)
      /\ \A l \in 1 .. Len(t) : u[l] = IF l = k THEN e ELSE t[l]
  BY <1>1, <1>2, <1>4, ExceptSeq DEF AnyTables
<1>6. DOMAIN u = 1 .. Len(t) /\ ~(u[k].inum >= 0)
  BY <1>1, <1>2, <1>5, AnyTableFacts DEF Unused
<1>7. Live(u) = Live(t) \ {k}
  BY <1>1, <1>5, <1>6 DEF Live
<1>8. \A j : Uses(u, j) = Uses(t, j) \ {k}
  <2>1. \A l \in Live(u) : u[l] = t[l]
    BY <1>1, <1>5, <1>7
  <2> QED
    BY <1>7, <2>1 DEF Uses
<1> QED
  BY <1>5, <1>7, <1>8

LEMMA PruneAny ==
  ASSUME NEW t \in AnyTables, NEW u, u = Prune(t)
  PROVE  /\ u \in AnyTables
         /\ Live(u) = Live(t)
         /\ \A j : Uses(u, j) = Uses(t, j)
         /\ Dotted(t) => Dotted(u)
<1> DEFINE m == Max(Live(t) \cup {0})
<1>1. /\ Len(t) \in Nat /\ DOMAIN t = 1 .. Len(t) /\ Live(t) \subseteq 1 .. Len(t)
      /\ Live(t) \cup {0} \subseteq 0 .. Len(t) /\ Live(t) \cup {0} # {}
  BY AnyTableFacts
<1>2. m \in Live(t) \cup {0} /\ \A k \in Live(t) \cup {0} : k <= m
  BY <1>1, MaxFacts
<1>3. m \in 0 .. Len(t)
  BY <1>1, <1>2
<1>4. u = SubSeq(t, 1, m)
  BY DEF Prune
<1> HIDE DEF m
<1>5. /\ u \in AnyTables /\ Len(u) = m
      /\ \A l \in 1 .. m : u[l] = t[l]
  BY <1>1, <1>3, <1>4, SubSeqProperties DEF AnyTables
<1>6. DOMAIN u = 1 .. m
  BY <1>5, AnyTableFacts
<1>7. Live(u) = Live(t)
  BY <1>1, <1>2, <1>3, <1>5, <1>6 DEF Live
<1>8. \A l \in Live(t) : u[l] = t[l]
  BY <1>1, <1>2, <1>3, <1>5
<1>9. \A j : Uses(u, j) = Uses(t, j)
  BY <1>7, <1>8 DEF Uses
<1>10. ASSUME Dotted(t) PROVE Dotted(u)
  BY <1>2, <1>3, <1>5, <1>8, <1>10, DottedFacts DEF Dotted
<1> QED
  BY <1>5, <1>7, <1>9, <1>10

LEMMA RemovedAny ==
  ASSUME NEW t \in AnyTables, NEW n
  PROVE  /\ Removed(t, n).table \in AnyTables
         /\ GainsNothing(t, Removed(t, n).table)
         /\ RemoveStop(t, n) \notin Live(t) => Removed(t, n).rv \in {"ENOENT", "abort"}
<1> DEFINE k == RemoveStop(t, n)
<1>1. k = 0 \/ k \in 1 .. Len(t)
  BY RemoveStopAny, AnyTableFacts
<1>2. Holes(t) = (1 .. Len(t)) \ Live(t) /\ 0 \notin Live(t) /\ 0 \notin Holes(t)
  BY AnyTableFacts
<1>3. CASE k \in Live(t)
  <2> DEFINE w == MarkUnused(t, n)
             u == Prune(w)
  <2>1. Removed(t, n) = Outcome("ok", u)
    BY <1>2, <1>3 DEF Removed
  <2> HIDE DEF w, u
  <2>2. w \in AnyTables /\ \A j : Uses(w, j) \subseteq Uses(t, j)
    BY <1>3, MarkAny DEF w
  <2>3. u \in AnyTables /\ \A j : Uses(u, j) = Uses(w, j)
    BY <2>2, PruneAny DEF u
  <2> QED
    BY <1>3, <2>1, <2>2, <2>3 DEF Outcome, GainsNothing
<1>4. CASE k \notin Live(t)
  <2>1. Removed(t, n) = Outcome("ENOENT", t) \/ Removed(t, n) = Outcome("abort", t)
    BY <1>1, <1>2, <1>4 DEF Removed
  <2> QED
    BY <2>1 DEF Outcome, GainsNothing
<1> QED
  BY <1>3, <1>4

LEMMA MarkDotted ==
  ASSUME NEW t \in AnyTables, Dotted(t), NEW n \in Names, NEW k \in Live(t), k = RemoveStop(t, n),
         NEW u, u = MarkUnused(t, n)
  PROVE  Dotted(u)
<1>1. k \in Named(t, n)
  BY RemoveStopAny, AnyTableFacts
<1>2. t[k].name = n /\ n # Dot /\ n # DotDot
  BY <1>1, NamesAssumption DEF Named
<1>3. k # 1 /\ k # 2
  BY <1>2, DottedFacts
<1>4. 1 \in 1 .. Len(t) /\ 2 \in 1 .. Len(t) /\ Len(u) = Len(t)
  BY DottedFacts, AnyTableFacts, MarkAny
<1>5. u[1] = t[1] /\ u[2] = t[2]
  BY <1>3, <1>4, MarkAny
<1> QED
  BY <1>4, <1>5 DEF Dotted

(***************************************************************************)
(* Images, where a crash may have left any of these tables and counts.     *)
(***************************************************************************)
AnyImages == [mode : [Inums -> {"free", "file", "dir"}],
              refs : [Inums -> Int],
              table : [Inums -> AnyTables],
              len : [Inums -> Int]]

LEMMA SetTableAny ==
  ASSUME NEW s \in AnyImages, NEW i \in Inums, NEW d \in AnyTables
  PROVE  /\ SetTable(s, i, d) \in AnyImages
         /\ SetTable(s, i, d).mode = s.mode
         /\ SetTable(s, i, d).refs = s.refs
         /\ \A j \in Inums : SetTable(s, i, d).table[j] = IF j = i THEN d ELSE s.table[j]
  BY DEF SetTable, AnyImages

LEMMA AddRefAny ==
  ASSUME NEW s \in AnyImages, NEW i \in Inums, NEW n \in Int
  PROVE  /\ AddRef(s, i, n) \in AnyImages
         /\ AddRef(s, i, n).mode = s.mode
         /\ AddRef(s, i, n).table = s.table
         /\ \A j \in Inums : AddRef(s, i, n).refs[j] = IF j = i THEN s.refs[i] + n ELSE s.refs[j]
  BY DEF AddRef, AnyImages

LEMMA SetLenAny ==
  ASSUME NEW s \in AnyImages, NEW i \in Inums, NEW n \in Int, NEW t, t = [s EXCEPT !.len[i] = n]
  PROVE  t \in AnyImages /\ t.mode = s.mode /\ t.refs = s.refs /\ t.table = s.table
  BY DEF AnyImages

\* the inode i of t has mode k and nothing else, and the others are those of s
Blank(s, t, i, k) ==
  /\ t \in AnyImages
  /\ \A j \in Inums :
       IF j = i THEN t.mode[j] = k /\ t.refs[j] = 0 /\ t.table[j] = <<>>
       ELSE t.mode[j] = s.mode[j] /\ t.refs[j] = s.refs[j] /\ t.table[j] = s.table[j]

LEMMA ResetAny ==
  ASSUME NEW s \in AnyImages, NEW i \in Inums, NEW k \in {"free", "file", "dir"},
         NEW e \in AnyTables
  PROVE  [s EXCEPT !.mode[i] = k, !.refs[i] = 0, !.table[i] = e, !.len[i] = 0] \in AnyImages
<1> DEFINE a == [s EXCEPT !.mode[i] = k]
           b == [a EXCEPT !.refs[i] = 0]
           c == [b EXCEPT !.table[i] = e]
           d == [c EXCEPT !.len[i] = 0]
<1>1. a \in AnyImages
  BY DEF AnyImages
<1>2. b \in AnyImages
  <2> HIDE DEF a
  <2> QED
    BY <1>1 DEF AnyImages
<1>3. c \in AnyImages
  <2> HIDE DEF b
  <2> QED
    BY <1>2 DEF AnyImages
<1>4. d \in AnyImages
  <2> HIDE DEF c
  <2> QED
    BY <1>3 DEF AnyImages
<1>5. d = [s EXCEPT !.mode[i] = k, !.refs[i] = 0, !.table[i] = e, !.len[i] = 0]
  OBVIOUS
<1> HIDE DEF d
<1> QED
  BY <1>4, <1>5

LEMMA BlankIs ==
  ASSUME NEW s \in AnyImages, NEW i \in Inums, NEW k \in {"free", "file", "dir"},
         NEW t,
         t = [s EXCEPT !.mode[i] = k, !.refs[i] = 0, !.table[i] = <<>>, !.len[i] = 0]
  PROVE  Blank(s, t, i, k)
<1> DEFINE e == <<>>
           u == [s EXCEPT !.mode[i] = k, !.refs[i] = 0, !.table[i] = e, !.len[i] = 0]
<1>1. e \in AnyTables
  BY DEF AnyTables
<1>2. t \in AnyImages
  <2>1. t = u
    OBVIOUS
  <2> HIDE DEF e
  <2>2. u \in AnyImages
    BY <1>1, ResetAny
  <2> QED
    BY <2>1, <2>2
<1>3. /\ t.mode = [s.mode EXCEPT ![i] = k]
      /\ t.refs = [s.refs EXCEPT ![i] = 0]
      /\ t.table = [s.table EXCEPT ![i] = <<>>]
  BY DEF AnyImages
<1>4. /\ s.mode \in [Inums -> {"free", "file", "dir"}] /\ s.refs \in [Inums -> Int]
      /\ s.table \in [Inums -> AnyTables]
  BY DEF AnyImages
<1> QED
  BY <1>2, <1>3, <1>4 DEF Blank

LEMMA FreeInodeAny ==
  ASSUME NEW s \in AnyImages, NEW i \in Inums
  PROVE  Blank(s, FreeInode(s, i), i, "free")
  BY BlankIs DEF FreeInode

LEMMA AllocInodeAny ==
  ASSUME NEW s \in AnyImages, FreeInums(s) # {}, NEW k \in {"file", "dir"},
         NEW i, i = Min(FreeInums(s))
  PROVE  i \in Inums /\ s.mode[i] = "free" /\ Blank(s, AllocInode(s, k), i, k)
<1>1. FreeInums(s) \subseteq Nat /\ FreeInums(s) \subseteq Inums
  BY InumFacts DEF FreeInums
<1>2. i \in FreeInums(s)
  BY <1>1, MinFacts
<1>3. i \in Inums /\ s.mode[i] = "free"
  BY <1>1, <1>2 DEF FreeInums, Allocated
<1> DEFINE t == AllocInode(s, k)
<1>4. t = [s EXCEPT !.mode[i] = k, !.refs[i] = 0, !.table[i] = <<>>, !.len[i] = 0]
  BY DEF AllocInode
<1> HIDE DEF t
<1>5. k \in {"free", "file", "dir"}
  OBVIOUS
<1>6. Blank(s, t, i, k)
  BY <1>3, <1>4, <1>5, BlankIs
<1> QED
  BY <1>3, <1>6 DEF t

LEMMA AnyImageFacts ==
  ASSUME NEW s \in AnyImages
  PROVE  /\ \A i \in Inums : /\ s.table[i] \in AnyTables
                             /\ s.refs[i] \in Int
                             /\ s.len[i] \in Int
                             /\ s.mode[i] \in {"free", "file", "dir"}
         /\ \A i : IsDir(s, i) <=> i \in Dirs(s)
         /\ Dirs(s) \subseteq Inums
  BY DEF AnyImages, IsDir, Dirs

(* What is numbered from 1 in every inode is finite.                       *)
LEMMA PiecesFinite ==
  ASSUME NEW n \in [Inums -> Nat]
  PROVE  IsFiniteSet(UNION {{i} \X (1 .. n[i]) : i \in Inums})
<1> DEFINE P == {{i} \X (1 .. n[i]) : i \in Inums}
           f == [i \in Inums |-> {i} \X (1 .. n[i])]
<1>1. f \in Surjection(Inums, P)
  BY DEF Surjection
<1>2. IsFiniteSet(P)
  <2> HIDE DEF P, f
  <2> QED
    BY <1>1, InumFacts, FS_Surjection
<1>3. \A T \in P : IsFiniteSet(T)
  <2> SUFFICES ASSUME NEW i \in Inums PROVE IsFiniteSet({i} \X (1 .. n[i]))
    OBVIOUS
  <2>2. n[i] \in Nat /\ 0 \in Nat /\ 0 <= n[i]
    OBVIOUS
  <2>1. IsFiniteSet({i} \X (0 + 1 .. n[i]))
    BY <2>2, PairsCounted
  <2> QED
    BY <2>1
<1> HIDE DEF P
<1>4. IsFiniteSet(UNION P)
  BY <1>2, <1>3, FS_UNION
<1> QED
  BY <1>4 DEF P

LEMMA FreeBlocksAny ==
  ASSUME NEW s \in AnyImages
  PROVE  FreeBlocks(s) \in Int
<1> DEFINE n == [i \in Inums |-> IF BlocksOf(s, i) >= 0 THEN BlocksOf(s, i) ELSE 0]
           P == UNION {{i} \X (1 .. n[i]) : i \in Inums}
<1>1. \A i \in Inums : BlocksOf(s, i) \in Int
  <2> SUFFICES ASSUME NEW i \in Inums PROVE BlocksOf(s, i) \in Int
    OBVIOUS
  <2>1. s.len[i] \in Int /\ Len(s.table[i]) \in Nat
    BY AnyImageFacts, AnyTableFacts
  <2>2. BlocksFor(Len(s.table[i])) \in Nat
    BY <2>1, BlocksForFacts
  <2>3. BlocksOf(s, i) = s.len[i] + BlocksFor(Len(s.table[i]))
    BY DEF BlocksOf, BlocksFor
  <2> QED
    BY <2>1, <2>2, <2>3
<1>2. n \in [Inums -> Nat]
  <2> HIDE DEF BlocksOf
  <2> QED
    BY <1>1
<1>3. IsFiniteSet(P)
  BY <1>2, PiecesFinite
<1>4. BlocksInUse(s) \subseteq P
  <2> SUFFICES ASSUME NEW i \in Inums, NEW x \in {i} \X (1 .. BlocksOf(s, i)) PROVE x \in P
    BY DEF BlocksInUse
  <2>1. x \in {i} \X (1 .. n[i])
    BY <1>1
  <2> HIDE DEF n
  <2> QED
    BY <2>1
<1> HIDE DEF P
<1>5. Cardinality(BlocksInUse(s)) \in Nat
  BY <1>3, <1>4, FS_Subset, FS_CardinalityType
<1> QED
  BY <1>5, StorageAssumption DEF FreeBlocks

(* The names of an inode are finitely many.                                *)
LEMMA SlotsAre ==
  ASSUME NEW s, NEW x, NEW j
  PROVE  x \in SlotsOf(s, j) <=> \E d \in Dirs(s) : \E k \in Uses(s.table[d], j) : x = <<d, k>>
  BY DEF SlotsOf, Slots, Uses

LEMMA NamesAny ==
  ASSUME NEW s \in AnyImages, NEW j
  PROVE  IsFiniteSet(SlotsOf(s, j)) /\ NamesOf(s, j) \in Nat
<1> DEFINE n == [i \in Inums |-> Len(s.table[i])]
           P == UNION {{i} \X (1 .. n[i]) : i \in Inums}
<1>1. n \in [Inums -> Nat]
  BY AnyImageFacts, AnyTableFacts
<1>2. IsFiniteSet(P)
  BY <1>1, PiecesFinite
<1>3. SlotsOf(s, j) \subseteq P
  <2> SUFFICES ASSUME NEW x \in SlotsOf(s, j) PROVE x \in P
    OBVIOUS
  <2>1. PICK d \in Dirs(s) : \E k \in Uses(s.table[d], j) : x = <<d, k>>
    BY SlotsAre
  <2>2. PICK k \in Uses(s.table[d], j) : x = <<d, k>>
    BY <2>1
  <2>3. d \in Inums /\ k \in 1 .. Len(s.table[d])
    BY AnyImageFacts, AnyTableFacts DEF Uses
  <2> QED
    BY <2>2, <2>3
<1> HIDE DEF P
<1>4. IsFiniteSet(SlotsOf(s, j))
  BY <1>2, <1>3, FS_Subset
<1> QED
  BY <1>4, FS_CardinalityType DEF NamesOf

(***************************************************************************)
(* What a step does to the names of all inodes: it gives no inode one, it  *)
(* gives one to one inode, or it takes one from one inode.                 *)
(***************************************************************************)
SameCounts(s, t) == t.mode = s.mode /\ t.refs = s.refs

NoMore(s, t) == SameCounts(s, t) /\ \A j : SlotsOf(t, j) \subseteq SlotsOf(s, j)

MoreAt(s, t, i, x) == \A j : SlotsOf(t, j) \subseteq SlotsOf(s, j) \cup (IF j = i THEN {x} ELSE {})
OneMore(s, t, i) == SameCounts(s, t) /\ \E x : MoreAt(s, t, i, x)

OneLess(s, t, i) ==
  /\ SameCounts(s, t)
  /\ \E x \in SlotsOf(s, i) : \A j : SlotsOf(t, j) \subseteq SlotsOf(s, j) \ {x}

LEMMA NoMoreTables ==
  ASSUME NEW s \in AnyImages, NEW t \in AnyImages, SameCounts(s, t),
         \A d \in Inums : GainsNothing(s.table[d], t.table[d])
  PROVE  NoMore(s, t)
<1> SUFFICES ASSUME NEW j, NEW x \in SlotsOf(t, j) PROVE x \in SlotsOf(s, j)
  BY DEF NoMore
<1>1. PICK d \in Dirs(t) : \E k \in Uses(t.table[d], j) : x = <<d, k>>
  BY SlotsAre
<1>2. PICK k \in Uses(t.table[d], j) : x = <<d, k>>
  BY <1>1
<1>3. d \in Inums /\ d \in Dirs(s)
  BY DEF SameCounts, Dirs
<1>4. k \in Uses(s.table[d], j)
  BY <1>3 DEF GainsNothing
<1> QED
  BY <1>2, <1>3, <1>4, SlotsAre

LEMMA OneMoreTable ==
  ASSUME NEW s \in AnyImages, NEW d \in Inums, NEW u \in AnyTables, NEW i,
         Gains(s.table[d], u, i)
  PROVE  OneMore(s, SetTable(s, d, u), i)
<1> DEFINE t == SetTable(s, d, u)
<1>1. /\ SameCounts(s, t)
      /\ \A e \in Inums : t.table[e] = IF e = d THEN u ELSE s.table[e]
  BY SetTableAny DEF SameCounts
<1>2. PICK k : GainsAt(s.table[d], u, k, i)
  BY DEF Gains
<1> HIDE DEF t
<1>3. MoreAt(s, t, i, <<d, k>>)
  <2> SUFFICES ASSUME NEW j, NEW x \in SlotsOf(t, j), x \notin SlotsOf(s, j)
               PROVE  j = i /\ x = <<d, k>>
    BY DEF MoreAt
  <2>1. PICK e \in Dirs(t) : \E l \in Uses(t.table[e], j) : x = <<e, l>>
    BY SlotsAre
  <2>2. PICK l \in Uses(t.table[e], j) : x = <<e, l>>
    BY <2>1
  <2>3. e \in Inums /\ e \in Dirs(s)
    BY <1>1 DEF SameCounts, Dirs
  <2>4. l \notin Uses(s.table[e], j)
    BY <2>2, <2>3, SlotsAre
  <2>5. e = d /\ l \in Uses(u, j)
    BY <1>1, <2>2, <2>3, <2>4
  <2> QED
    BY <1>2, <2>2, <2>4, <2>5 DEF GainsAt
<1>4. OneMore(s, t, i)
  BY <1>1, <1>3 DEF OneMore
<1> QED
  BY <1>4 DEF t

LEMMA OneLessTable ==
  ASSUME NEW s \in AnyImages, NEW d \in Dirs(s), NEW u \in AnyTables, NEW i,
         NEW k \in Uses(s.table[d], i), \A j : Uses(u, j) = Uses(s.table[d], j) \ {k}
  PROVE  OneLess(s, SetTable(s, d, u), i)
<1> DEFINE t == SetTable(s, d, u)
           y == <<d, k>>
<1>1. /\ SameCounts(s, t)
      /\ \A e \in Inums : t.table[e] = IF e = d THEN u ELSE s.table[e]
  BY SetTableAny, AnyImageFacts DEF SameCounts
<1>2. y \in SlotsOf(s, i)
  BY SlotsAre
<1> HIDE DEF t
<1>3. \A j : SlotsOf(t, j) \subseteq SlotsOf(s, j) \ {y}
  <2> SUFFICES ASSUME NEW j, NEW x \in SlotsOf(t, j) PROVE x \in SlotsOf(s, j) /\ x # y
    OBVIOUS
  <2>1. PICK e \in Dirs(t) : \E l \in Uses(t.table[e], j) : x = <<e, l>>
    BY SlotsAre
  <2>2. PICK l \in Uses(t.table[e], j) : x = <<e, l>>
    BY <2>1
  <2>3. e \in Inums /\ e \in Dirs(s)
    BY <1>1 DEF SameCounts, Dirs
  <2>4. l \in Uses(s.table[e], j) /\ (e = d => l # k)
    BY <1>1, <2>2, <2>3
  <2> QED
    BY <2>2, <2>3, <2>4, SlotsAre
<1>4. OneLess(s, t, i)
  BY <1>1, <1>2, <1>3 DEF OneLess
<1> QED
  BY <1>4 DEF t

LEMMA NamesNoMore ==
  ASSUME NEW s \in AnyImages, NEW t, NoMore(s, t), NEW j
  PROVE  NamesOf(t, j) \in Nat /\ NamesOf(t, j) <= NamesOf(s, j)
<1>1. IsFiniteSet(SlotsOf(s, j)) /\ SlotsOf(t, j) \in SUBSET SlotsOf(s, j)
  BY NamesAny DEF NoMore
<1> QED
  BY <1>1, FS_Subset, FS_CardinalityType DEF NamesOf

LEMMA NamesOneMore ==
  ASSUME NEW s \in AnyImages, NEW t, NEW i, OneMore(s, t, i), NEW j
  PROVE  /\ NamesOf(t, j) \in Nat
         /\ NamesOf(t, j) <= NamesOf(s, j) + IF j = i THEN 1 ELSE 0
<1>1. PICK x : MoreAt(s, t, i, x)
  BY DEF OneMore
<1> DEFINE S == SlotsOf(s, j)
           T == SlotsOf(t, j)
<1>2. IsFiniteSet(S) /\ Cardinality(S) \in Nat
  BY NamesAny DEF NamesOf
<1>3. T \subseteq S \cup (IF j = i THEN {x} ELSE {})
  BY <1>1 DEF MoreAt
<1> HIDE DEF S, T
<1>4. CASE j = i
  <2>1. IsFiniteSet(S \cup {x}) /\ Cardinality(S \cup {x}) <= Cardinality(S) + 1
    BY <1>2, FS_AddElement
  <2>2. IsFiniteSet(T) /\ Cardinality(T) <= Cardinality(S \cup {x})
    BY <1>3, <1>4, <2>1, FS_Subset
  <2>3. Cardinality(T) \in Nat /\ Cardinality(S \cup {x}) \in Nat
    BY <2>1, <2>2, FS_CardinalityType
  <2> QED
    BY <1>2, <1>4, <2>1, <2>2, <2>3 DEF NamesOf, S, T
<1>5. CASE j # i
  <2>1. IsFiniteSet(T) /\ Cardinality(T) <= Cardinality(S)
    BY <1>2, <1>3, <1>5, FS_Subset
  <2>2. Cardinality(T) \in Nat
    BY <2>1, FS_CardinalityType
  <2> QED
    BY <1>2, <1>5, <2>1, <2>2 DEF NamesOf, S, T
<1> QED
  BY <1>4, <1>5

LEMMA NamesOneLess ==
  ASSUME NEW s \in AnyImages, NEW t, NEW i, OneLess(s, t, i), NEW j
  PROVE  /\ NamesOf(t, j) \in Nat
         /\ NamesOf(t, j) <= NamesOf(s, j) - IF j = i THEN 1 ELSE 0
<1>1. PICK x \in SlotsOf(s, i) : \A l : SlotsOf(t, l) \subseteq SlotsOf(s, l) \ {x}
  BY DEF OneLess
<1> DEFINE S == SlotsOf(s, j)
           T == SlotsOf(t, j)
<1>2. IsFiniteSet(S) /\ Cardinality(S) \in Nat
  BY NamesAny DEF NamesOf
<1>3. T \subseteq S \ {x} /\ (j = i => x \in S)
  BY <1>1
<1> HIDE DEF S, T
<1>4. /\ IsFiniteSet(S \ {x})
      /\ Cardinality(S \ {x}) = IF x \in S THEN Cardinality(S) - 1 ELSE Cardinality(S)
  BY <1>2, FS_RemoveElement
<1>5. IsFiniteSet(T) /\ Cardinality(T) <= Cardinality(S \ {x})
  BY <1>3, <1>4, FS_Subset
<1>6. Cardinality(T) \in Nat /\ Cardinality(S \ {x}) \in Nat
  BY <1>4, <1>5, FS_CardinalityType
<1>7. Cardinality(T) <= Cardinality(S) - IF j = i THEN 1 ELSE 0
  BY <1>2, <1>3, <1>4, <1>5, <1>6
<1> QED
  BY <1>6, <1>7 DEF NamesOf, S, T

LEMMA NoMoreThen ==
  ASSUME NEW s, NEW t, NEW u, NEW i
  PROVE  /\ NoMore(s, t) /\ NoMore(t, u) => NoMore(s, u)
         /\ OneMore(s, t, i) /\ NoMore(t, u) => OneMore(s, u, i)
         /\ OneLess(s, t, i) /\ NoMore(t, u) => OneLess(s, u, i)
         /\ OneLess(s, t, i) => NoMore(s, t)
<1>1. NoMore(s, t) /\ NoMore(t, u) => NoMore(s, u)
  BY DEF NoMore, SameCounts
<1>2. OneMore(s, t, i) /\ NoMore(t, u) => OneMore(s, u, i)
  <2> SUFFICES ASSUME OneMore(s, t, i), NoMore(t, u) PROVE OneMore(s, u, i)
    OBVIOUS
  <2>1. PICK x : MoreAt(s, t, i, x)
    BY DEF OneMore
  <2>2. MoreAt(s, u, i, x)
    BY <2>1 DEF MoreAt, NoMore
  <2> QED
    BY <2>2 DEF OneMore, NoMore, SameCounts
<1>3. OneLess(s, t, i) /\ NoMore(t, u) => OneLess(s, u, i)
  <2> SUFFICES ASSUME OneLess(s, t, i), NoMore(t, u) PROVE OneLess(s, u, i)
    OBVIOUS
  <2>1. PICK x \in SlotsOf(s, i) : \A j : SlotsOf(t, j) \subseteq SlotsOf(s, j) \ {x}
    BY DEF OneLess
  <2>2. \A j : SlotsOf(u, j) \subseteq SlotsOf(s, j) \ {x}
    BY <2>1 DEF NoMore
  <2> QED
    BY <2>1, <2>2 DEF OneLess, NoMore, SameCounts
<1>4. OneLess(s, t, i) => NoMore(s, t)
  BY DEF OneLess, NoMore
<1> QED
  BY <1>1, <1>2, <1>3, <1>4

(***************************************************************************)
(* Paths.                                                                  *)
(***************************************************************************)
LEMMA LookupAny ==
  ASSUME NEW t \in AnyTables, NEW n, NEW k, k = LookupEntryNum(t, n)
  PROVE  /\ \/ LookupInum(t, n) = Unused
            \/ /\ ~TooLong(n) /\ k \in Live(t) /\ t[k].name = n
               /\ LookupInum(t, n) = t[k].inum /\ t[k].inum \in Inums
         /\ LookupInum(t, n) = Unused /\ ~TooLong(n) => \A l \in Live(t) : t[l].name # n
<1>1. /\ Len(t) \in Nat /\ DOMAIN t = 1 .. Len(t) /\ Live(t) \cap Named(t, n) \subseteq DOMAIN t
      /\ Live(t) \subseteq 1 .. Len(t)
  BY AnyTableFacts
<1>2. ASSUME k # 0 PROVE ~TooLong(n) /\ k \in Live(t) /\ k \in Named(t, n)
  BY <1>1, <1>2, FirstFacts DEF LookupEntryNum
<1>3. ASSUME k # 0
      PROVE  /\ ~TooLong(n) /\ k \in Live(t) /\ t[k].name = n
             /\ LookupInum(t, n) = t[k].inum /\ t[k].inum \in Inums
  <2>1. t[k] \in AnyEntry /\ t[k].inum >= 0 /\ t[k].name = n
    BY <1>1, <1>2, <1>3, AnyTableFacts DEF Live, Named
  <2>2. t[k].inum \in Inums
    BY <2>1, AnyEntryFacts
  <2> QED
    BY <1>2, <1>3, <2>1, <2>2 DEF LookupInum
<1>4. k = 0 => LookupInum(t, n) = Unused
  BY DEF LookupInum
<1>5. ASSUME LookupInum(t, n) = Unused, ~TooLong(n), NEW l \in Live(t), t[l].name = n PROVE FALSE
  <2>1. k = 0
    <3>1. Unused \notin Inums
      BY InumFacts DEF Unused
    <3> QED
      BY <1>3, <1>5, <3>1
  <2>2. l \in Live(t) \cap Named(t, n)
    BY <1>1, <1>5 DEF Named, Live
  <2> QED
    BY <1>1, <1>5, <2>1, <2>2, FirstFacts DEF LookupEntryNum
<1> QED
  BY <1>3, <1>4, <1>5

LEMMA InumInAny ==
  ASSUME NEW s \in AnyImages, NEW d \in Inums \cup Errors, NEW n
  PROVE  /\ InumIn(s, d, n) \in Inums \cup Errors
         /\ InumIn(s, d, n) \in Inums => /\ IsDir(s, d)
                                         /\ LookupInum(s.table[d], n) = InumIn(s, d, n)
         /\ InumIn(s, d, n) \notin Inums /\ IsDir(s, d) => LookupInum(s.table[d], n) = Unused
<1>1. CASE d \in Errors
  <2>1. InumIn(s, d, n) = d
    BY <1>1, ErrorFacts DEF InumIn
  <2> QED
    BY <1>1, <2>1, ErrorFacts DEF IsDir
<1>2. CASE d \in Inums
  <2> DEFINE i == LookupInum(s.table[d], n)
  <2>1. s.table[d] \in AnyTables /\ ~(d < 0)
    BY <1>2, AnyImageFacts, InumFacts
  <2>2. i = Unused \/ i \in Inums
    BY <2>1, LookupAny
  <2>3. InumIn(s, d, n) = IF ~IsDir(s, d) THEN ENOTDIR ELSE IF i < 0 THEN ENOENT ELSE i
    BY <2>1 DEF InumIn
  <2>4. (i < 0 <=> i = Unused) /\ ENOENT \notin Inums /\ ENOTDIR \notin Inums
    <3>1. Unused < 0 /\ \A j \in Inums : ~(j < 0) /\ j # Unused
      BY InumFacts DEF Unused
    <3> QED
      BY <2>2, <3>1, ErrorFacts DEF Errors
  <2> HIDE DEF i
  <2>5. CASE IsDir(s, d)
    BY <2>2, <2>3, <2>4, <2>5 DEF Errors, i
  <2>6. CASE ~IsDir(s, d)
    BY <2>3, <2>4, <2>6 DEF Errors
  <2> QED
    BY <2>5, <2>6
<1> QED
  BY <1>1, <1>2

LEMMA ResolveAny ==
  ASSUME NEW s \in AnyImages, NEW p \in Seq(Names)
  PROVE  Resolve(s, p) \in Inums \cup Errors
<1> DEFINE B == {q \in Seq(Names) : Resolve(s, q) \notin Inums \cup Errors}
<1> SUFFICES ASSUME B # {} PROVE FALSE
  OBVIOUS
<1>1. PICK q \in B : q # <<>> => Front(q) \notin B
  <2>1. B \subseteq Seq(Names)
    OBVIOUS
  <2> HIDE DEF B
  <2> QED
    BY <2>1, ShortestPath
<1>2. q \in Seq(Names) /\ Resolve(s, q) \notin Inums \cup Errors
  OBVIOUS
<1>3. q # <<>>
  BY <1>2, ResolveUnfold, InumFacts
<1>4. Front(q) \in Seq(Names)
  BY <1>2, <1>3, PathFacts
<1>5. Resolve(s, Front(q)) \in Inums \cup Errors
  BY <1>1, <1>3, <1>4
<1>6. InumIn(s, Resolve(s, Front(q)), Last(q)) \in Inums \cup Errors
  BY <1>5, InumInAny
<1> QED
  BY <1>2, <1>3, <1>6, ResolveUnfold

\* no entry of the table t in use has the name n
NotThere(t, n) == ~TooLong(n) => \A l \in Live(t) : t[l].name # n

\* a lookup finds the entry of inode i under the name n in directory d
There(s, d, n, i) ==
  /\ d \in Dirs(s)
  /\ ~TooLong(n)
  /\ LookupEntryNum(s.table[d], n) \in Uses(s.table[d], i)

LEMMA LastAny ==
  ASSUME NEW s \in AnyImages, NEW p \in Seq(Names), p # <<>>, NEW i, i = Resolve(s, p)
  PROVE  /\ Last(p) \in Names
         /\ i \in Inums \cup Errors
         /\ i \in Inums => There(s, Parent(s, p), Last(p), i) /\ SlotsOf(s, i) # {}
         /\ i \notin Inums /\ IsDir(s, Parent(s, p)) => NotThere(s.table[Parent(s, p)], Last(p))
<1> DEFINE d == Parent(s, p)
           n == Last(p)
<1>1. n \in Names /\ Front(p) \in Seq(Names)
  BY PathFacts
<1>2. d \in Inums \cup Errors /\ i = InumIn(s, d, n) /\ i \in Inums \cup Errors
  BY <1>1, ResolveAny, ResolveUnfold DEF Parent
<1> HIDE DEF d, n
<1>3. ASSUME i \in Inums PROVE There(s, d, n, i) /\ SlotsOf(s, i) # {}
  <2>1. IsDir(s, d) /\ LookupInum(s.table[d], n) = i
    BY <1>2, <1>3, InumInAny
  <2>2. d \in Dirs(s) /\ s.table[d] \in AnyTables
    BY <2>1, AnyImageFacts
  <2>3. i # Unused
    BY <1>3, InumFacts DEF Unused
  <2> DEFINE k == LookupEntryNum(s.table[d], n)
  <2>4. ~TooLong(n) /\ k \in Live(s.table[d]) /\ s.table[d][k].name = n /\ s.table[d][k].inum = i
    BY <2>1, <2>2, <2>3, LookupAny
  <2>5. n \notin {Dot, DotDot}
    BY <1>1, NamesAssumption
  <2>6. k \in Uses(s.table[d], i)
    BY <2>4, <2>5 DEF Uses
  <2> HIDE DEF k
  <2>7. <<d, k>> \in SlotsOf(s, i)
    BY <2>2, <2>6, SlotsAre
  <2> QED
    BY <2>2, <2>4, <2>6, <2>7 DEF There, k
<1>4. ASSUME i \notin Inums, IsDir(s, d) PROVE NotThere(s.table[d], n)
  <2>1. LookupInum(s.table[d], n) = Unused /\ s.table[d] \in AnyTables
    BY <1>2, <1>4, InumInAny, AnyImageFacts
  <2> QED
    BY <2>1, LookupAny DEF NotThere
<1> QED
  BY <1>1, <1>2, <1>3, <1>4 DEF d, n

(***************************************************************************)
(* The images a crash can leave: free inodes count nothing and the root is *)
(* a directory with its two entries.                                       *)
(***************************************************************************)
Formed(s) ==
  /\ s \in AnyImages
  /\ \A i \in Inums : s.mode[i] = "free" => s.refs[i] = 0
  /\ ROOT_INUM \in Dirs(s)
  /\ Dotted(s.table[ROOT_INUM])

LEMMA FormedTable ==
  ASSUME NEW s, Formed(s), NEW d \in Inums, NEW u \in AnyTables, d = ROOT_INUM => Dotted(u)
  PROVE  Formed(SetTable(s, d, u))
<1> DEFINE t == SetTable(s, d, u)
<1>1. /\ s \in AnyImages /\ t \in AnyImages /\ t.mode = s.mode /\ t.refs = s.refs
      /\ \A j \in Inums : t.table[j] = IF j = d THEN u ELSE s.table[j]
  BY SetTableAny DEF Formed
<1> HIDE DEF t
<1>2. Formed(t)
  BY <1>1, InumFacts DEF Formed, Dirs
<1> QED
  BY <1>2 DEF t

LEMMA FormedOther ==
  ASSUME NEW s, Formed(s), NEW d \in Inums, NEW u, NEW k, OtherAt(s.table[d], u, k)
  PROVE  u \in AnyTables /\ Formed(SetTable(s, d, u))
<1>1. u \in AnyTables /\ s.table[d] \in AnyTables
  BY AnyImageFacts DEF Formed, OtherAt
<1>2. d = ROOT_INUM => Dotted(u)
  BY <1>1, OtherDotted DEF Formed
<1> QED
  BY <1>1, <1>2, FormedTable

(* Writing back the table that was there changes nothing.                  *)
LEMMA FormedSame ==
  ASSUME NEW s, Formed(s), NEW d \in Inums
  PROVE  /\ Formed(SetTable(s, d, s.table[d]))
         /\ NoMore(s, SetTable(s, d, s.table[d]))
<1> DEFINE u == s.table[d]
           t == SetTable(s, d, u)
<1>1. s \in AnyImages /\ u \in AnyTables /\ (d = ROOT_INUM => Dotted(u))
  BY AnyImageFacts DEF Formed
<1>2. /\ t \in AnyImages /\ SameCounts(s, t)
      /\ \A j \in Inums : t.table[j] = IF j = d THEN u ELSE s.table[j]
  BY <1>1, SetTableAny DEF SameCounts
<1>3. Formed(t)
  BY <1>1, FormedTable
<1> HIDE DEF t
<1>4. \A j \in Inums : GainsNothing(s.table[j], t.table[j])
  BY <1>2 DEF GainsNothing
<1>5. NoMore(s, t)
  BY <1>1, <1>2, <1>4, NoMoreTables
<1> QED
  BY <1>3, <1>5 DEF t

(* A table that gains nothing gives no inode a name.                       *)
LEMMA NoMoreTable ==
  ASSUME NEW s, Formed(s), NEW d \in Inums, NEW u \in AnyTables, GainsNothing(s.table[d], u)
  PROVE  NoMore(s, SetTable(s, d, u))
<1> DEFINE t == SetTable(s, d, u)
<1>1. /\ s \in AnyImages /\ t \in AnyImages /\ SameCounts(s, t)
      /\ \A j \in Inums : t.table[j] = IF j = d THEN u ELSE s.table[j]
  BY SetTableAny DEF SameCounts, Formed
<1> HIDE DEF t
<1>2. \A j \in Inums : GainsNothing(s.table[j], t.table[j])
  BY <1>1 DEF GainsNothing
<1>3. NoMore(s, t)
  BY <1>1, <1>2, NoMoreTables
<1> QED
  BY <1>3 DEF t

(* directory_add_entry of a "..".                                          *)
LEMMA BackAny ==
  ASSUME NEW s, Formed(s), NEW i \in Inums, NEW n \in {Dot, DotDot}, NEW d \in Inums, NEW room,
         NoHoleInFront(s.table[i]), n = Dot => s.table[i] = <<>>,
         NEW out \in Adds(s.table[i], n, d, room),
         NEW t, t = SetTable(s, i, out.table)
  PROVE  Formed(t) /\ NoMore(s, t)
<1>1. s.table[i] \in AnyTables
  BY AnyImageFacts DEF Formed
<1>2. \/ out.rv \in {"ENAMETOOLONG", "EEXIST", "ENOSPC"} /\ out.table = s.table[i]
      \/ out.rv = "ok" /\ Fits(s.table[i], out.table, n, d)
  BY <1>1, AddsAny
<1>3. CASE out.table = s.table[i]
  BY <1>2, <1>3, FormedSame
<1>4. CASE Fits(s.table[i], out.table, n, d)
  <2>1. out.table \in AnyTables /\ GainsNothing(s.table[i], out.table)
    BY <1>1, <1>4, BackGains
  <2>2. PICK k : OtherAt(s.table[i], out.table, k)
    BY <1>4 DEF Fits
  <2> QED
    BY <1>2, <2>1, <2>2, FormedOther, NoMoreTable
<1> QED
  BY <1>2, <1>3, <1>4

(* directory_add_entry of a name, with the "..".                           *)
LEMMA AddEntryAny ==
  ASSUME NEW s, Formed(s), NEW d \in Dirs(s), NEW n \in Names, NEW i \in Inums,
         IsDir(s, i) => NoHoleInFront(s.table[i]), NotThere(s.table[d], n),
         NEW out \in AddEntry(s, d, n, i)
  PROVE  /\ Formed(out.fs)
         /\ out.rv = "ok" => OneMore(s, out.fs, i)
         /\ out.rv # "ok" => NoMore(s, out.fs)
<1>1. PICK o \in Adds(s.table[d], n, i, Room(s)) :
        LET t == SetTable(s, d, o.table) IN
        out \in IF o.rv = "ok" /\ IsDir(s, i)
                  THEN {Result("ok", SetTable(t, i, back.table)) : back \in Adds(t.table[i], DotDot, d, Room(t))}
                  ELSE {Result(o.rv, t)}
  BY DEF AddEntry
<1> DEFINE t == SetTable(s, d, o.table)
<1>2. /\ s \in AnyImages /\ d \in Inums /\ s.table[d] \in AnyTables
  BY AnyImageFacts DEF Formed
<1>3. \/ o.rv \in {"ENAMETOOLONG", "EEXIST", "ENOSPC"} /\ o.table = s.table[d]
      \/ o.rv = "ok" /\ Fits(s.table[d], o.table, n, i)
  BY <1>2, AddsAny
<1>4. CASE o.rv # "ok" /\ o.table = s.table[d]
  <2>1. out = Result(o.rv, SetTable(s, d, s.table[d]))
    BY <1>1, <1>4
  <2> QED
    BY <1>2, <1>4, <2>1, FormedSame DEF Result
<1>5. CASE o.rv = "ok" /\ Fits(s.table[d], o.table, n, i)
  <2>1. ~TooLong(n)
    BY <1>5, NamesAssumption DEF Fits, EntryNames, TooLong
  <2>2. /\ o.table \in AnyTables /\ Gains(s.table[d], o.table, i)
        /\ NoHoleInFront(s.table[d]) => NoHoleInFront(o.table)
    BY <1>2, <1>5, <2>1, AddGains DEF NotThere
  <2>3. PICK k : OtherAt(s.table[d], o.table, k)
    BY <1>5 DEF Fits
  <2>4. Formed(t) /\ OneMore(s, t, i)
    BY <1>2, <2>2, <2>3, FormedOther, OneMoreTable
  <2>5. \A j \in Inums : t.table[j] = IF j = d THEN o.table ELSE s.table[j]
    BY <1>2, <2>2, SetTableAny
  <2>6. IsDir(s, i) => NoHoleInFront(t.table[i])
    BY <2>2, <2>5
  <2>7. CASE ~IsDir(s, i)
    <3>1. out = Result("ok", t)
      BY <1>1, <1>5, <2>7
    <3> QED
      BY <2>4, <3>1 DEF Result
  <2>8. CASE IsDir(s, i)
    <3>1. PICK back \in Adds(t.table[i], DotDot, d, Room(t)) :
            out = Result("ok", SetTable(t, i, back.table))
      BY <1>1, <1>5, <2>8
    <3> HIDE DEF t
    <3> DEFINE u == SetTable(t, i, back.table)
    <3>2. DotDot \in {Dot, DotDot} /\ DotDot # Dot
      BY DEF Dot, DotDot
    <3>3. Formed(u) /\ NoMore(t, u)
      BY <1>2, <2>4, <2>6, <2>8, <3>1, <3>2, BackAny
    <3> HIDE DEF u
    <3>4. OneMore(s, u, i)
      BY <2>4, <3>3, NoMoreThen
    <3>5. out.rv = "ok" /\ out.fs = u
      BY <3>1 DEF Result, u
    <3> QED
      BY <3>3, <3>4, <3>5
  <2> QED
    BY <2>7, <2>8
<1> QED
  BY <1>3, <1>4, <1>5

(* directory_remove_entry: the entry is first unused.                      *)
LEMMA MarkEntryAny ==
  ASSUME NEW s, Formed(s), NEW d, NEW n \in Names, NEW i \in Inums, There(s, d, n, i),
         NEW t, t = s.table[d], RemoveStop(t, n) \in Live(t),
         NEW m, m = SetTable(s, d, MarkUnused(t, n))
  PROVE  /\ RemoveStop(t, n) \in Uses(t, i)
         /\ MarkUnused(t, n) \in AnyTables
         /\ Formed(m) /\ OneLess(s, m, i)
         /\ \A e \in Inums : m.table[e] = IF e = d THEN MarkUnused(t, n) ELSE s.table[e]
<1>1. s \in AnyImages /\ d \in Inums /\ d \in Dirs(s) /\ t \in AnyTables
  BY AnyImageFacts DEF Formed, There
<1>2. RemoveStop(t, n) \in Uses(t, i)
  BY <1>1, RemoveStopAny DEF There
<1> DEFINE k == RemoveStop(t, n)
           u == MarkUnused(t, n)
<1>3. u \in AnyTables /\ \A j : Uses(u, j) = Uses(t, j) \ {k}
  BY <1>1, MarkAny
<1>4. d = ROOT_INUM => Dotted(u)
  BY <1>1, MarkDotted DEF Formed
<1> HIDE DEF k, u
<1>5. Formed(SetTable(s, d, u))
  BY <1>1, <1>3, <1>4, FormedTable
<1>6. OneLess(s, SetTable(s, d, u), i)
  BY <1>1, <1>2, <1>3, OneLessTable DEF k
<1>7. \A e \in Inums : SetTable(s, d, u).table[e] = IF e = d THEN u ELSE s.table[e]
  BY <1>1, <1>3, SetTableAny
<1> QED
  BY <1>2, <1>3, <1>5, <1>6, <1>7 DEF u

(* Then the ".." goes, and the holes at the end.                           *)
LEMMA RemoveEntryAny ==
  ASSUME NEW s, Formed(s), NEW d, NEW n \in Names, NEW i \in Inums, There(s, d, n, i),
         i # ROOT_INUM, NEW out, out = RemoveEntry(s, d, n)
  PROVE  /\ Formed(out.fs)
         /\ out.rv = "ok" => OneLess(s, out.fs, i)
         /\ out.rv # "ok" => NoMore(s, out.fs)
<1> DEFINE t == s.table[d]
           k == RemoveStop(t, n)
           m == SetTable(s, d, MarkUnused(t, n))
           back == Removed(m.table[i], DotDot)
           P == Prune(m.table[d])
<1>1. s \in AnyImages /\ d \in Inums /\ d \in Dirs(s) /\ t \in AnyTables
  BY AnyImageFacts DEF Formed, There
<1>2. CASE k \notin Live(t)
  <2>1. out = Result(Removed(t, n).rv, s)
    BY <1>2 DEF RemoveEntry
  <2>2. Removed(t, n).rv # "ok"
    BY <1>1, <1>2, RemovedAny
  <2>3. NoMore(s, s)
    BY DEF NoMore, SameCounts
  <2> QED
    BY <2>1, <2>2, <2>3 DEF Result
<1>3. CASE k \in Live(t)
  <2>1. /\ k \in Uses(t, i) /\ Formed(m) /\ OneLess(s, m, i)
        /\ \A e \in Inums : m.table[e] = IF e = d THEN MarkUnused(t, n) ELSE s.table[e]
    <3>1. t = s.table[d] /\ k = RemoveStop(t, n) /\ m = SetTable(s, d, MarkUnused(t, n))
      OBVIOUS
    <3> HIDE DEF t, k, m
    <3> QED
      BY <1>3, <3>1, MarkEntryAny
  <2>2. t[k].inum = i
    BY <2>1 DEF Uses
  <2>3. \/ out = Result("ok", SetTable(s, d, P))
        \/ out = Result("abort", m)
        \/ out = Result("ok", SetTable(SetTable(m, i, back.table), d, P))
    BY <1>3, <2>2 DEF RemoveEntry
  <2> HIDE DEF m
  <2>4. m \in AnyImages /\ m.table[d] \in AnyTables /\ m.table[i] \in AnyTables
    BY <1>1, <2>1, AnyImageFacts DEF Formed
  <2>5. /\ P \in AnyTables /\ GainsNothing(m.table[d], P)
        /\ d = ROOT_INUM => Dotted(P)
    <3>1. Dotted(m.table[ROOT_INUM])
      BY <2>1 DEF Formed
    <3> QED
      BY <2>4, <3>1, PruneAny DEF GainsNothing
  <2>6. back.table \in AnyTables /\ GainsNothing(m.table[i], back.table)
    BY <2>4, RemovedAny
  <2> HIDE DEF back, P
  <2>7. CASE out = Result("ok", SetTable(s, d, P))
    <3> DEFINE u == SetTable(s, d, P)
    <3>1. /\ Formed(u) /\ u \in AnyImages /\ SameCounts(m, u)
          /\ \A e \in Inums : u.table[e] = IF e = d THEN P ELSE s.table[e]
      <4>1. Formed(u)
        BY <1>1, <2>5, FormedTable
      <4>2. u.mode = s.mode /\ u.refs = s.refs /\ m.mode = s.mode /\ m.refs = s.refs
        BY <1>1, <2>1, <2>5, SetTableAny DEF OneLess, SameCounts
      <4> QED
        BY <1>1, <2>5, <4>1, <4>2, SetTableAny DEF SameCounts
    <3>2. out.rv = "ok" /\ out.fs = u
      BY <2>7 DEF Result
    <3> HIDE DEF u
    <3>3. \A e \in Inums : GainsNothing(m.table[e], u.table[e])
      <4> SUFFICES ASSUME NEW e \in Inums PROVE GainsNothing(m.table[e], u.table[e])
        OBVIOUS
      <4>1. (e = d /\ u.table[e] = P) \/ u.table[e] = m.table[e]
        BY <2>1, <3>1
      <4>2. GainsNothing(m.table[e], m.table[e])
        BY DEF GainsNothing
      <4> QED
        BY <2>5, <4>1, <4>2
    <3>4. NoMore(m, u)
      BY <2>4, <3>1, <3>3, NoMoreTables
    <3>5. OneLess(s, u, i)
      BY <2>1, <3>4, NoMoreThen
    <3> QED
      BY <3>1, <3>2, <3>5
  <2>8. CASE out = Result("abort", m)
    <3>1. out.rv = "abort" /\ out.fs = m
      BY <2>8 DEF Result
    <3>2. NoMore(s, m)
      BY <2>1, NoMoreThen
    <3> QED
      BY <2>1, <3>1, <3>2
  <2>9. CASE out = Result("ok", SetTable(SetTable(m, i, back.table), d, P))
    <3> DEFINE v == SetTable(m, i, back.table)
               u == SetTable(v, d, P)
    <3>1. out.rv = "ok" /\ out.fs = u
      BY <2>9 DEF Result
    <3>2. /\ Formed(v) /\ v \in AnyImages /\ SameCounts(m, v)
          /\ \A e \in Inums : v.table[e] = IF e = i THEN back.table ELSE m.table[e]
      <4>1. Formed(v)
        BY <2>1, <2>6, FormedTable
      <4> QED
        BY <2>4, <2>6, <4>1, SetTableAny DEF SameCounts
    <3> HIDE DEF v
    <3>3. /\ Formed(u) /\ u \in AnyImages /\ SameCounts(m, u)
          /\ \A e \in Inums : u.table[e] = IF e = d THEN P ELSE v.table[e]
      <4>1. Formed(u)
        BY <1>1, <2>5, <3>2, FormedTable
      <4> QED
        BY <1>1, <2>5, <3>2, <4>1, SetTableAny DEF SameCounts
    <3> HIDE DEF u
    <3>4. \A e \in Inums : GainsNothing(m.table[e], u.table[e])
      <4> SUFFICES ASSUME NEW e \in Inums PROVE GainsNothing(m.table[e], u.table[e])
        OBVIOUS
      <4>1. \/ u.table[e] = P /\ e = d
            \/ u.table[e] = back.table /\ e = i
            \/ u.table[e] = m.table[e]
        BY <3>2, <3>3
      <4>2. GainsNothing(m.table[e], m.table[e])
        BY DEF GainsNothing
      <4> QED
        BY <2>5, <2>6, <4>1, <4>2
    <3>5. NoMore(m, u)
      BY <2>4, <3>3, <3>4, NoMoreTables
    <3>6. OneLess(s, u, i)
      BY <2>1, <3>5, NoMoreThen
    <3> QED
      BY <3>1, <3>3, <3>6
  <2> QED
    BY <2>3, <2>7, <2>8, <2>9
<1> QED
  BY <1>2, <1>3

(***************************************************************************)
(* What is left behind is as safe as the names that are owed: refs counts  *)
(* all names of an inode but those, and a free inode has no others.        *)
(***************************************************************************)
Covered(s, o) ==
  \A i \in Inums :
    IF s.mode[i] = "free" THEN NamesOf(s, i) > 0 => o[i] > 0
    ELSE NamesOf(s, i) <= s.refs[i] + o[i]

Safe(s, o) == Formed(s) /\ o \in [Inums -> Nat] /\ Covered(s, o)

\* the names are those of inodes in use, and not of the root
Tidy(s) == \A i \in Inums : SlotsOf(s, i) # {} => s.mode[i] # "free" /\ i # ROOT_INUM
NoRoot(s) == SlotsOf(s, ROOT_INUM) = {}

LEMMA SameSlots ==
  ASSUME NEW s, NEW t, t.mode = s.mode, t.table = s.table
  PROVE  \A j : SlotsOf(t, j) = SlotsOf(s, j) /\ NamesOf(t, j) = NamesOf(s, j)
<1>1. Dirs(t) = Dirs(s)
  BY DEF Dirs
<1>2. ASSUME NEW j PROVE SlotsOf(t, j) = SlotsOf(s, j)
  <2>1. ASSUME NEW x PROVE x \in SlotsOf(t, j) <=> x \in SlotsOf(s, j)
    BY <1>1, SlotsAre
  <2> QED
    BY <2>1
<1> QED
  BY <1>2 DEF NamesOf

LEMMA SafeNoMore ==
  ASSUME NEW s, NEW o, Safe(s, o), NEW t, Formed(t), NoMore(s, t)
  PROVE  /\ Safe(t, o)
         /\ NoRoot(s) => NoRoot(t)
         /\ Tidy(s) => Tidy(t)
<1>1. s \in AnyImages /\ t.mode = s.mode /\ t.refs = s.refs /\ \A i \in Inums : s.refs[i] \in Int
  BY AnyImageFacts DEF Safe, Formed, NoMore, SameCounts
<1>2. \A i \in Inums : /\ NamesOf(t, i) \in Nat /\ NamesOf(s, i) \in Nat
                       /\ NamesOf(t, i) <= NamesOf(s, i)
  BY <1>1, NamesNoMore, NamesAny
<1>3. \A i \in Inums : o[i] \in Nat
  BY DEF Safe
<1>4. Covered(t, o)
  BY <1>1, <1>2, <1>3 DEF Safe, Covered
<1> QED
  BY <1>1, <1>4 DEF Safe, NoRoot, Tidy, NoMore

(* A name more, and then the count.                                        *)
LEMMA SafeOneMore ==
  ASSUME NEW s, NEW o, Safe(s, o), NEW t, Formed(t), NEW i \in Inums, s.mode[i] # "free",
         i # ROOT_INUM, OneMore(s, t, i), NEW u, u = AddRef(t, i, 1)
  PROVE  /\ Safe(u, o)
         /\ NoRoot(s) => NoRoot(u)
         /\ Tidy(s) => Tidy(t) /\ Tidy(u)
<1>1. /\ s \in AnyImages /\ t \in AnyImages /\ t.mode = s.mode /\ t.refs = s.refs
      /\ \A j \in Inums : s.refs[j] \in Int /\ o[j] \in Nat
  BY AnyImageFacts DEF Safe, Formed, OneMore, SameCounts
<1>2. \A j \in Inums : /\ NamesOf(t, j) \in Nat /\ NamesOf(s, j) \in Nat
                       /\ NamesOf(t, j) <= NamesOf(s, j) + IF j = i THEN 1 ELSE 0
  BY <1>1, NamesOneMore, NamesAny
<1>3. /\ u \in AnyImages /\ u.mode = s.mode /\ u.table = t.table
      /\ \A j \in Inums : u.refs[j] = IF j = i THEN s.refs[i] + 1 ELSE s.refs[j]
  <2>1. \A n \in Int :
          /\ AddRef(t, i, n) \in AnyImages
          /\ AddRef(t, i, n).mode = t.mode
          /\ AddRef(t, i, n).table = t.table
          /\ \A j \in Inums : AddRef(t, i, n).refs[j] = IF j = i THEN t.refs[i] + n ELSE t.refs[j]
    BY <1>1, AddRefAny
  <2>2. 1 \in Int
    OBVIOUS
  <2>3. /\ u \in AnyImages /\ u.mode = t.mode /\ u.table = t.table
        /\ \A j \in Inums : u.refs[j] = IF j = i THEN t.refs[i] + 1 ELSE t.refs[j]
    BY <2>1, <2>2
  <2>4. t.refs[i] = s.refs[i] /\ \A j \in Inums : t.refs[j] = s.refs[j]
    BY <1>1
  <2> QED
    BY <1>1, <2>3, <2>4
<1>4. \A j : SlotsOf(u, j) = SlotsOf(t, j) /\ NamesOf(u, j) = NamesOf(t, j)
  BY <1>1, <1>3, SameSlots
<1>5. Formed(u)
  BY <1>1, <1>3 DEF Formed, Dirs
<1>6. Covered(u, o)
  <2> SUFFICES ASSUME NEW j \in Inums
               PROVE  IF u.mode[j] = "free" THEN NamesOf(u, j) > 0 => o[j] > 0
                      ELSE NamesOf(u, j) <= u.refs[j] + o[j]
    BY DEF Covered
  <2>1. IF s.mode[j] = "free" THEN NamesOf(s, j) > 0 => o[j] > 0
        ELSE NamesOf(s, j) <= s.refs[j] + o[j]
    BY DEF Safe, Covered
  <2> DEFINE x == NamesOf(t, j)
             y == NamesOf(s, j)
  <2>2. x \in Nat /\ y \in Nat /\ x <= y + IF j = i THEN 1 ELSE 0
    BY <1>2
  <2>3. NamesOf(u, j) = x /\ u.mode[j] = s.mode[j]
        /\ u.refs[j] = (IF j = i THEN s.refs[i] + 1 ELSE s.refs[j])
        /\ s.refs[j] \in Int /\ o[j] \in Nat
    BY <1>1, <1>3, <1>4
  <2>4. s.mode[j] = "free" => j # i
    OBVIOUS
  <2> HIDE DEF x, y
  <2>5. CASE s.mode[j] = "free"
    <3>1. y > 0 => o[j] > 0
      BY <2>1, <2>5 DEF y
    <3>2. x <= y
      BY <2>2, <2>4, <2>5
    <3> QED
      BY <2>2, <2>3, <2>5, <3>1, <3>2
  <2>6. CASE s.mode[j] # "free"
    <3>1. y <= s.refs[j] + o[j]
      BY <2>1, <2>6 DEF y
    <3> QED
      BY <2>2, <2>3, <2>6, <3>1
  <2> QED
    BY <2>5, <2>6
<1>7. \A j : j # i => SlotsOf(t, j) \subseteq SlotsOf(s, j)
  BY DEF OneMore, MoreAt
<1> QED
  BY <1>1, <1>3, <1>4, <1>5, <1>6, <1>7 DEF Safe, NoRoot, Tidy

(* A name less, then the count, and at zero the inode is freed.            *)
LEMMA SafeOneLess ==
  ASSUME NEW s, NEW o, Safe(s, o), NEW t, Formed(t), NEW i \in Inums, i # ROOT_INUM,
         OneLess(s, t, i), NEW u, u = AddRef(t, i, -1)
  PROVE  /\ u.refs[i] > 0 => Safe(u, o)
         /\ u.refs[i] <= 0 => Safe(FreeInode(u, i), o)
         /\ NoRoot(s) => NoRoot(u) /\ NoRoot(FreeInode(u, i))
         /\ s.mode[i] # "free" => Formed(u)
         /\ u.refs[i] \in Int
<1>1. /\ s \in AnyImages /\ t \in AnyImages /\ t.mode = s.mode /\ t.refs = s.refs
      /\ \A j \in Inums : s.refs[j] \in Int /\ o[j] \in Nat /\ (s.mode[j] = "free" => s.refs[j] = 0)
  BY AnyImageFacts DEF Safe, Formed, OneLess, SameCounts
<1>2. \A j \in Inums : /\ NamesOf(t, j) \in Nat /\ NamesOf(s, j) \in Nat
                       /\ NamesOf(t, j) <= NamesOf(s, j) - IF j = i THEN 1 ELSE 0
  BY <1>1, NamesOneLess, NamesAny
<1>3. /\ u \in AnyImages /\ u.mode = s.mode /\ u.table = t.table
      /\ \A j \in Inums : u.refs[j] = IF j = i THEN s.refs[i] - 1 ELSE s.refs[j]
  <2>1. -1 \in Int
    OBVIOUS
  <2>2. /\ u \in AnyImages /\ u.mode = t.mode /\ u.table = t.table
        /\ \A j \in Inums : u.refs[j] = IF j = i THEN t.refs[i] + (-1) ELSE t.refs[j]
    BY <1>1, <2>1, AddRefAny
  <2> QED
    BY <1>1, <2>2
<1>4. \A j : SlotsOf(u, j) = SlotsOf(t, j) /\ NamesOf(u, j) = NamesOf(t, j)
  BY <1>1, <1>3, SameSlots
<1>5. \A j \in Inums : IF s.mode[j] = "free" THEN NamesOf(s, j) > 0 => o[j] > 0
                       ELSE NamesOf(s, j) <= s.refs[j] + o[j]
  BY DEF Safe, Covered
<1>6. NoRoot(s) => NoRoot(u)
  BY <1>4 DEF OneLess, NoRoot
<1>7. s.mode[i] # "free" => Formed(u)
  BY <1>1, <1>3 DEF Formed, Dirs
<1>8. ASSUME u.refs[i] > 0 PROVE Safe(u, o)
  <2>1. s.mode[i] # "free"
    BY <1>1, <1>3, <1>8
  <2>2. Covered(u, o)
    BY <1>1, <1>2, <1>3, <1>4, <1>5 DEF Covered
  <2> QED
    BY <1>7, <2>1, <2>2 DEF Safe
<1>9. /\ u.refs[i] <= 0 => Safe(FreeInode(u, i), o)
      /\ NoRoot(u) => NoRoot(FreeInode(u, i))
  <2> DEFINE v == FreeInode(u, i)
  <2>1. Blank(u, v, i, "free")
    BY <1>3, FreeInodeAny
  <2> HIDE DEF v
  <2>2. /\ v \in AnyImages
        /\ \A j \in Inums : IF j = i THEN v.mode[j] = "free" /\ v.refs[j] = 0
                            ELSE /\ v.mode[j] = u.mode[j] /\ v.refs[j] = u.refs[j]
                                 /\ v.table[j] = u.table[j]
    BY <2>1 DEF Blank
  <2>3. Formed(v)
    BY <1>1, <1>3, <2>2, InumFacts DEF Formed, Dirs
  <2>4. ASSUME NEW j PROVE SlotsOf(v, j) \subseteq SlotsOf(u, j)
    <3>1. \A d \in Dirs(v) : d \in Dirs(u) /\ v.table[d] = u.table[d]
      BY <2>2 DEF Dirs
    <3>2. ASSUME NEW x \in SlotsOf(v, j) PROVE x \in SlotsOf(u, j)
      BY <3>1, SlotsAre
    <3> QED
      BY <3>2
  <2>5. ASSUME NEW j \in Inums
        PROVE  NamesOf(v, j) \in Nat /\ NamesOf(v, j) <= NamesOf(u, j)
    <3>1. IsFiniteSet(SlotsOf(u, j)) /\ SlotsOf(v, j) \in SUBSET SlotsOf(u, j)
      BY <1>3, <2>4, NamesAny
    <3> QED
      BY <3>1, FS_Subset, FS_CardinalityType DEF NamesOf
  <2>6. ASSUME u.refs[i] <= 0 PROVE Covered(v, o)
    <3> SUFFICES ASSUME NEW j \in Inums
                 PROVE  IF v.mode[j] = "free" THEN NamesOf(v, j) > 0 => o[j] > 0
                        ELSE NamesOf(v, j) <= v.refs[j] + o[j]
      BY DEF Covered
    <3>1. /\ NamesOf(v, j) \in Nat /\ NamesOf(t, j) \in Nat /\ NamesOf(s, j) \in Nat
          /\ NamesOf(v, j) <= NamesOf(t, j)
          /\ NamesOf(t, j) <= NamesOf(s, j) - IF j = i THEN 1 ELSE 0
          /\ s.refs[j] \in Int /\ o[j] \in Nat
      BY <1>1, <1>2, <1>4, <2>5
    <3>2. CASE j = i
      <4>1. v.mode[j] = "free" /\ s.refs[j] - 1 <= 0
        BY <1>3, <2>2, <2>6, <3>2
      <4>2. NamesOf(v, j) <= NamesOf(s, j) - 1
        BY <3>1, <3>2
      <4>3. NamesOf(v, j) > 0 => o[j] > 0
        BY <1>5, <3>1, <4>1, <4>2
      <4> QED
        BY <4>1, <4>3
    <3>3. CASE j # i
      <4>1. v.mode[j] = s.mode[j] /\ v.refs[j] = s.refs[j]
        BY <1>3, <2>2, <3>3
      <4>2. NamesOf(v, j) <= NamesOf(s, j)
        BY <3>1, <3>3
      <4> QED
        BY <1>5, <3>1, <4>1, <4>2
    <3> QED
      BY <3>2, <3>3
  <2>7. NoRoot(u) => NoRoot(v)
    BY <2>4 DEF NoRoot
  <2> QED
    BY <2>3, <2>6, <2>7 DEF Safe, v
<1> QED
  BY <1>1, <1>3, <1>6, <1>7, <1>8, <1>9

(***************************************************************************)
(* The handlers.  Each is shown for the images it is called on in another  *)
(* one, too: a rename unlinks what it has linked.                          *)
(***************************************************************************)

(* storage_unlink *)
LEMMA UnlinkSafe ==
  ASSUME NEW s, NEW o, Safe(s, o), NoRoot(s), NEW p \in Seq(Names), p # <<>>,
         NEW out \in UnlinkOutcomes(s, p)
  PROVE  Safe(out.fs, o) /\ NoRoot(out.fs)
<1> DEFINE i == Resolve(s, p)
           d == Parent(s, p)
           n == Last(p)
           rem == RemoveEntry(s, d, n)
           u == AddRef(rem.fs, i, -1)
<1>1. s \in AnyImages /\ Formed(s)
  BY DEF Safe, Formed
<1>2. n \in Names /\ i \in Inums \cup Errors /\ (i \in Inums => There(s, d, n, i) /\ SlotsOf(s, i) # {})
  BY <1>1, LastAny
<1>3. CASE i < 0
  <2>1. out = Result("ENOENT", s)
    BY <1>3 DEF UnlinkOutcomes
  <2> QED
    BY <2>1 DEF Result
<1>4. CASE ~(i < 0)
  <2>1. i \in Inums /\ i # ROOT_INUM /\ There(s, d, n, i)
    BY <1>2, <1>4, ErrorFacts DEF NoRoot
  <2>2. /\ rem.rv # "ok" => out = rem
        /\ rem.rv = "ok" /\ u.refs[i] > 0 => out.fs = u
        /\ rem.rv = "ok" /\ u.refs[i] <= 0 => out.fs = FreeInode(u, i)
    <3>1. out \in CASE rem.rv # "ok" -> {rem}
                    [] rem.rv = "ok" /\ u.refs[i] > 0 -> {Result("ok", u)}
                    [] rem.rv = "ok" /\ u.refs[i] <= 0 -> {Result(v, FreeInode(u, i)) : v \in FreeAnswers}
      BY <1>4 DEF UnlinkOutcomes
    <3> HIDE DEF u, rem, i
    <3>2. CASE rem.rv # "ok"
      BY <3>1, <3>2
    <3>3. CASE rem.rv = "ok" /\ u.refs[i] > 0 /\ ~(u.refs[i] <= 0)
      BY <3>1, <3>3 DEF Result
    <3>4. CASE rem.rv = "ok" /\ u.refs[i] <= 0 /\ ~(u.refs[i] > 0)
      BY <3>1, <3>4 DEF Result
    <3>5. rem.rv = "ok" => u.refs[i] \in Int
      <4> SUFFICES ASSUME rem.rv = "ok" PROVE u.refs[i] \in Int
        OBVIOUS
      <4>1. Formed(rem.fs) /\ OneLess(s, rem.fs, i)
        BY <1>1, <1>2, <2>1, RemoveEntryAny DEF rem
      <4> QED
        BY <2>1, <4>1, SafeOneLess DEF u
    <3> QED
      BY <3>2, <3>3, <3>4, <3>5
  <2> HIDE DEF u, rem, i, d, n
  <2>3. /\ Formed(rem.fs)
        /\ rem.rv = "ok" => OneLess(s, rem.fs, i)
        /\ rem.rv # "ok" => NoMore(s, rem.fs)
    BY <1>1, <1>2, <2>1, RemoveEntryAny DEF rem
  <2>4. CASE rem.rv # "ok"
    BY <2>2, <2>3, <2>4, SafeNoMore
  <2>5. CASE rem.rv = "ok"
    <3>1. /\ u.refs[i] > 0 => Safe(u, o)
          /\ u.refs[i] <= 0 => Safe(FreeInode(u, i), o)
          /\ NoRoot(u) /\ NoRoot(FreeInode(u, i))
          /\ u.refs[i] \in Int
      BY <2>1, <2>3, <2>5, SafeOneLess DEF u
    <3> QED
      BY <2>2, <2>5, <3>1
  <2> QED
    BY <2>4, <2>5
<1> QED
  BY <1>3, <1>4

\* what a handler needs beyond this: the ".." entries are the first to be found
Calm(s) == Tidy(s) /\ \A d \in Dirs(s) : NoHoleInFront(s.table[d])

(* storage_link *)
LEMMA LinkSafe ==
  ASSUME NEW s, NEW o, Safe(s, o), Calm(s), NEW from \in Seq(Names), from # <<>>,
         NEW to \in Seq(Names), to # <<>>, IsDir(s, Parent(s, to)),
         NEW out \in LinkOutcomes(s, from, to)
  PROVE  Safe(out.fs, o) /\ Tidy(out.fs)
<1> DEFINE i == Resolve(s, from)
           d == Parent(s, to)
           n == Last(to)
<1>1. s \in AnyImages /\ Formed(s) /\ Tidy(s)
  BY DEF Safe, Formed, Calm
<1>2. i \in Inums \cup Errors /\ (i \in Inums => SlotsOf(s, i) # {})
  BY <1>1, LastAny
<1>3. /\ Resolve(s, to) \in Inums \cup Errors /\ n \in Names
      /\ Resolve(s, to) \notin Inums => NotThere(s.table[d], n)
  BY <1>1, LastAny
<1>4. d \in Dirs(s) /\ d \in Inums /\ ~(d < 0)
  <2>1. IsDir(s, d)
    OBVIOUS
  <2> HIDE DEF d
  <2>2. d \in Dirs(s) /\ d \in Inums
    BY <1>1, <2>1, AnyImageFacts
  <2> QED
    BY <2>2, InumFacts
<1>5. CASE i < 0 \/ Resolve(s, to) >= 0
  <2>1. out = Result("ENOENT", s) \/ out = Result("EEXIST", s)
    BY <1>5 DEF LinkOutcomes
  <2> QED
    BY <1>1, <2>1 DEF Result
<1>6. CASE ~(i < 0) /\ ~(Resolve(s, to) >= 0)
  <2>1. PICK added \in AddEntry(s, d, n, i) :
          out = IF added.rv = "ok" THEN Result("ok", AddRef(added.fs, i, 1)) ELSE added
    BY <1>4, <1>6 DEF LinkOutcomes
  <2>2. i \in Inums /\ SlotsOf(s, i) # {} /\ s.mode[i] # "free" /\ i # ROOT_INUM
    BY <1>1, <1>2, <1>6, ErrorFacts DEF Tidy
  <2>3. Resolve(s, to) \notin Inums
    <3> DEFINE j == Resolve(s, to)
    <3>1. ~(j >= 0)
      BY <1>6
    <3> HIDE DEF j
    <3>2. \A l \in Inums : l >= 0
      BY InumFacts
    <3>3. j \notin Inums
      BY <3>1, <3>2
    <3> QED
      BY <3>3 DEF j
  <2>4. IsDir(s, i) => NoHoleInFront(s.table[i])
    BY <1>1, AnyImageFacts DEF Calm
  <2> HIDE DEF i, d, n
  <2>5. /\ Formed(added.fs)
        /\ added.rv = "ok" => OneMore(s, added.fs, i)
        /\ added.rv # "ok" => NoMore(s, added.fs)
    BY <1>1, <1>3, <1>4, <2>2, <2>3, <2>4, AddEntryAny
  <2>6. CASE added.rv = "ok"
    <3>1. Safe(AddRef(added.fs, i, 1), o) /\ Tidy(AddRef(added.fs, i, 1))
      BY <1>1, <2>2, <2>5, <2>6, SafeOneMore
    <3> QED
      BY <2>1, <2>6, <3>1 DEF Result
  <2>7. CASE added.rv # "ok"
    BY <1>1, <2>1, <2>5, <2>7, SafeNoMore
  <2> QED
    BY <2>6, <2>7
<1> QED
  BY <1>5, <1>6

LEMMA TidyNoRoot ==
  ASSUME NEW s, Tidy(s)
  PROVE  NoRoot(s)
  BY InumFacts DEF Tidy, NoRoot

(* storage_rename *)
LEMMA RenameSafe ==
  ASSUME NEW s, NEW o, Safe(s, o), Calm(s), NEW from \in Seq(Names), from # <<>>,
         NEW to \in Seq(Names), to # <<>>, IsDir(s, Parent(s, to)),
         NEW out \in RenameOutcomes(s, from, to)
  PROVE  Safe(out.fs, o)
<1>1. PICK linked \in LinkOutcomes(s, from, to) :
        out \in IF linked.rv # "ok" THEN {linked}
                ELSE UNION {IF x.rv \in {"ok", "abort"} THEN {x}
                            ELSE {Result(x.rv, undone.fs) : undone \in UnlinkOutcomes(x.fs, to)}
                            : x \in UnlinkOutcomes(linked.fs, from)}
  BY DEF RenameOutcomes
<1>2. Safe(linked.fs, o) /\ NoRoot(linked.fs)
  BY LinkSafe, TidyNoRoot
<1>3. CASE linked.rv # "ok"
  BY <1>1, <1>2, <1>3
<1>4. CASE linked.rv = "ok"
  <2>1. PICK x \in UnlinkOutcomes(linked.fs, from) :
          out \in IF x.rv \in {"ok", "abort"} THEN {x}
                  ELSE {Result(x.rv, undone.fs) : undone \in UnlinkOutcomes(x.fs, to)}
    BY <1>1, <1>4
  <2>2. Safe(x.fs, o) /\ NoRoot(x.fs)
    BY <1>2, UnlinkSafe
  <2>3. CASE x.rv \in {"ok", "abort"}
    BY <2>1, <2>2, <2>3
  <2>4. CASE x.rv \notin {"ok", "abort"}
    <3>1. PICK undone \in UnlinkOutcomes(x.fs, to) : out = Result(x.rv, undone.fs)
      BY <2>1, <2>4
    <3>2. Safe(undone.fs, o)
      BY <2>2, UnlinkSafe
    <3> QED
      BY <3>1, <3>2 DEF Result
  <2> QED
    BY <2>3, <2>4
<1> QED
  BY <1>3, <1>4

(* storage_rmdir *)
LEMMA RmdirSafe ==
  ASSUME NEW s, NEW o, Safe(s, o), NoRoot(s), NEW p \in Seq(Names), p # <<>>,
         NEW out \in RmdirOutcomes(s, p)
  PROVE  Safe(out.fs, o)
<1>1. out.fs = s \/ out \in UnlinkOutcomes(s, p)
  BY DEF RmdirOutcomes, Result
<1> QED
  BY <1>1, UnlinkSafe

(* storage_truncate, storage_write *)
LEMMA LenSafe ==
  ASSUME NEW s, NEW o, Safe(s, o), NEW i \in Inums, NEW n \in Int,
         NEW t, t = [s EXCEPT !.len[i] = n]
  PROVE  Safe(t, o)
<1>1. s \in AnyImages /\ t \in AnyImages /\ t.mode = s.mode /\ t.refs = s.refs /\ t.table = s.table
  BY SetLenAny DEF Safe, Formed
<1>2. Formed(t)
  BY <1>1 DEF Safe, Formed, Dirs
<1>3. NoMore(s, t)
  BY <1>1, SameSlots DEF NoMore, SameCounts
<1> QED
  BY <1>2, <1>3, SafeNoMore

LEMMA GrownSafe ==
  ASSUME NEW s, NEW o, Safe(s, o), NEW i \in Inums, NEW n \in Int
  PROVE  Safe(Grown(s, i, n).fs, o)
<1> DEFINE m == s.len[i] + FreeBlocks(s)
<1>1. m \in Int
  BY FreeBlocksAny, AnyImageFacts DEF Safe, Formed
<1>2. \/ Grown(s, i, n).fs = [s EXCEPT !.len[i] = n]
      \/ Grown(s, i, n).fs = [s EXCEPT !.len[i] = m]
  BY DEF Grown, Result
<1> HIDE DEF m
<1> QED
  BY <1>1, <1>2, LenSafe

LEMMA TruncateSafe ==
  ASSUME NEW s, NEW o, Safe(s, o), NEW p \in Seq(Names), NEW n \in Int,
         NEW out \in TruncateOutcomes(s, p, n)
  PROVE  Safe(out.fs, o)
<1> DEFINE i == Resolve(s, p)
<1>1. i < 0 \/ i \in Inums
  BY ResolveAny, ErrorFacts DEF Safe, Formed
<1>2. \/ out.fs = s
      \/ ~(i < 0) /\ out.fs = [s EXCEPT !.len[i] = n]
      \/ ~(i < 0) /\ out.fs = Grown(s, i, n).fs
  BY DEF TruncateOutcomes, Result
<1> HIDE DEF i
<1> QED
  BY <1>1, <1>2, LenSafe, GrownSafe

LEMMA WriteSafe ==
  ASSUME NEW s, NEW o, Safe(s, o), NEW p \in Seq(Names), NEW n \in Int,
         NEW out \in WriteOutcomes(s, p, n)
  PROVE  Safe(out.fs, o)
<1> DEFINE i == Resolve(s, p)
<1>1. i < 0 \/ i \in Inums
  BY ResolveAny, ErrorFacts DEF Safe, Formed
<1>2. \/ out.fs = s
      \/ ~(i < 0) /\ out = Grown(s, i, n)
  BY DEF WriteOutcomes, Result
<1> HIDE DEF i
<1> QED
  BY <1>1, <1>2, GrownSafe

(* storage_mknod: the inode it takes has no names, whether or not the name *)
(* can then be added.                                                      *)
LEMMA BlankSlots ==
  ASSUME NEW s, NEW t, NEW i \in Inums, NEW k, Blank(s, t, i, k)
  PROVE  \A j : SlotsOf(t, j) \subseteq SlotsOf(s, j)
<1>1. \A j : Uses(<<>>, j) = {}
  BY DEF Uses, Live
<1>2. ASSUME NEW d \in Dirs(t), NEW j, NEW l \in Uses(t.table[d], j)
      PROVE  d \in Dirs(s) /\ l \in Uses(s.table[d], j)
  <2>1. d \in Inums /\ t.mode[d] = "dir"
    BY DEF Dirs
  <2>2. d # i
    <3>1. t.table[i] = <<>>
      BY DEF Blank
    <3> QED
      BY <1>1, <1>2, <3>1
  <2> QED
    BY <1>2, <2>1, <2>2 DEF Blank, Dirs
<1>3. ASSUME NEW j, NEW x \in SlotsOf(t, j) PROVE x \in SlotsOf(s, j)
  <2>1. PICK d \in Dirs(t) : \E l \in Uses(t.table[d], j) : x = <<d, l>>
    BY SlotsAre
  <2>2. PICK l \in Uses(t.table[d], j) : x = <<d, l>>
    BY <2>1
  <2>3. d \in Dirs(s) /\ l \in Uses(s.table[d], j)
    BY <1>2
  <2> QED
    BY <2>2, <2>3, SlotsAre
<1> QED
  BY <1>3

LEMMA BlankSafe ==
  ASSUME NEW s, NEW o, Safe(s, o), NEW i \in Inums, i # ROOT_INUM, SlotsOf(s, i) = {},
         NEW k \in {"free", "file", "dir"}, NEW t, Blank(s, t, i, k)
  PROVE  /\ Safe(t, o) /\ SlotsOf(t, i) = {}
         /\ Tidy(s) => Tidy(t)
<1>1. /\ s \in AnyImages /\ t \in AnyImages
      /\ \A j \in Inums :
           IF j = i THEN t.mode[j] = k /\ t.refs[j] = 0
           ELSE /\ t.mode[j] = s.mode[j] /\ t.refs[j] = s.refs[j] /\ t.table[j] = s.table[j]
      /\ \A j \in Inums : s.refs[j] \in Int /\ o[j] \in Nat
  BY AnyImageFacts DEF Safe, Formed, Blank
<1>2. Formed(t)
  BY <1>1, InumFacts DEF Safe, Formed, Dirs
<1>3. \A j : SlotsOf(t, j) \subseteq SlotsOf(s, j)
  BY BlankSlots
<1>4. ASSUME NEW j \in Inums
      PROVE  /\ NamesOf(t, j) \in Nat /\ NamesOf(s, j) \in Nat
             /\ NamesOf(t, j) <= NamesOf(s, j)
  <2>1. IsFiniteSet(SlotsOf(s, j)) /\ SlotsOf(t, j) \in SUBSET SlotsOf(s, j)
    BY <1>1, <1>3, NamesAny
  <2> QED
    BY <2>1, FS_Subset, FS_CardinalityType DEF NamesOf
<1>5. SlotsOf(t, i) = {} /\ NamesOf(t, i) = 0
  BY <1>3, FS_EmptySet DEF NamesOf
<1>6. Covered(t, o)
  <2> SUFFICES ASSUME NEW j \in Inums
               PROVE  IF t.mode[j] = "free" THEN NamesOf(t, j) > 0 => o[j] > 0
                      ELSE NamesOf(t, j) <= t.refs[j] + o[j]
    BY DEF Covered
  <2>1. IF s.mode[j] = "free" THEN NamesOf(s, j) > 0 => o[j] > 0
        ELSE NamesOf(s, j) <= s.refs[j] + o[j]
    BY DEF Safe, Covered
  <2>2. CASE j = i
    BY <1>1, <1>5, <2>2
  <2>3. CASE j # i
    BY <1>1, <1>4, <2>1, <2>3
  <2> QED
    BY <2>2, <2>3
<1>7. Tidy(s) => Tidy(t)
  <2> SUFFICES ASSUME Tidy(s), NEW j \in Inums, SlotsOf(t, j) # {}
               PROVE  t.mode[j] # "free" /\ j # ROOT_INUM
    BY DEF Tidy
  <2>1. j # i /\ SlotsOf(s, j) # {}
    BY <1>3, <1>5
  <2> QED
    BY <1>1, <2>1 DEF Tidy
<1> QED
  BY <1>2, <1>5, <1>6, <1>7 DEF Safe

\* the new inode with its "." if it is a directory
Fresh(s, b, i, k) ==
  /\ b.mode[i] = k
  /\ IsDir(b, i) => NoHoleInFront(b.table[i])
  /\ \A d \in Dirs(s) : d \in Dirs(b) /\ b.table[d] = s.table[d]

LEMMA InitSafe ==
  ASSUME NEW s, NEW o, Safe(s, o), Tidy(s), FreeInums(s) # {}, NEW k \in {"file", "dir"},
         NEW i, i = Min(FreeInums(s)), NEW a, a = AllocInode(s, k),
         NEW b, b = a \/ \E out \in Adds(<<>>, Dot, i, Room(a)) : b = SetTable(a, i, out.table)
  PROVE  /\ i \in Inums /\ i # ROOT_INUM /\ s.mode[i] = "free"
         /\ Formed(a) /\ Safe(b, o) /\ Tidy(b) /\ SlotsOf(b, i) = {}
         /\ Fresh(s, b, i, k)
<1>1. s \in AnyImages
  BY DEF Safe, Formed
<1>2. i \in Inums /\ s.mode[i] = "free" /\ Blank(s, a, i, k)
  BY <1>1, AllocInodeAny
<1>3. i # ROOT_INUM
  <2>1. s.mode[ROOT_INUM] = "dir"
    BY DEF Safe, Formed, Dirs
  <2> QED
    BY <1>2, <2>1
<1>4. SlotsOf(s, i) = {}
  BY <1>2 DEF Tidy
<1>5. k \in {"free", "file", "dir"}
  OBVIOUS
<1>6. Safe(a, o) /\ Tidy(a) /\ SlotsOf(a, i) = {}
  BY <1>2, <1>3, <1>4, <1>5, BlankSafe
<1>7. a.table[i] = <<>> /\ a \in AnyImages /\ a.mode[i] = k
  BY <1>2 DEF Blank
<1>8. Holes(<<>>) = {} /\ Live(<<>>) = {} /\ Len(<<>>) = 0
  BY DEF Holes, Live
<1>9. NoHoleInFront(a.table[i])
  BY <1>7, <1>8 DEF NoHoleInFront
<1>10. \A d \in Dirs(s) : d # i /\ d \in Dirs(a) /\ a.table[d] = s.table[d]
  BY <1>2 DEF Blank, Dirs
<1>11. CASE b = a
  BY <1>2, <1>3, <1>6, <1>7, <1>9, <1>10, <1>11 DEF Safe, Fresh
<1>12. CASE \E out \in Adds(<<>>, Dot, i, Room(a)) : b = SetTable(a, i, out.table)
  <2>1. PICK out \in Adds(<<>>, Dot, i, Room(a)) : b = SetTable(a, i, out.table)
    BY <1>12
  <2>2. out \in Adds(a.table[i], Dot, i, Room(a)) /\ Dot \in {Dot, DotDot} /\ Formed(a)
    BY <1>6, <1>7, <2>1 DEF Safe
  <2>3. Formed(b) /\ NoMore(a, b)
    BY <1>2, <1>7, <1>9, <2>1, <2>2, BackAny
  <2>4. Safe(b, o) /\ Tidy(b) /\ SlotsOf(b, i) = {}
    BY <1>6, <2>3, SafeNoMore DEF NoMore
  <2>5. <<>> \in AnyTables
    BY DEF AnyTables
  <2>6. \/ out.rv \in {"ENAMETOOLONG", "EEXIST", "ENOSPC"} /\ out.table = <<>>
        \/ out.rv = "ok" /\ Fits(<<>>, out.table, Dot, i)
    BY <1>2, <2>1, <2>5, AddsAny
  <2>7. out.table \in AnyTables /\ Holes(out.table) = {}
    <3>1. CASE out.table = <<>>
      BY <1>8, <2>5, <3>1
    <3>2. CASE Fits(<<>>, out.table, Dot, i)
      <4> DEFINE e == <<>>
                 u == out.table
      <4>1. PICK l : OtherAt(e, u, l) /\ u[l].inum = i
        BY <3>2 DEF Fits
      <4>2. e \in AnyTables /\ Holes(e) = {}
        BY <1>8, <2>5
      <4> HIDE DEF e, u
      <4>3. u \in AnyTables /\ l \in 1 .. Len(u) /\ \A m \in Holes(u) : l # m => m \in Holes(e)
        BY <4>1, <4>2, OtherFacts DEF OtherAt
      <4>4. l \notin Holes(u)
        <5>1. i >= 0 /\ i \in Int
          BY <1>2, InumFacts
        <5> QED
          BY <4>1, <5>1 DEF Holes
      <4> QED
        BY <4>2, <4>3, <4>4 DEF u
    <3> QED
      BY <2>6, <3>1, <3>2
  <2>8. NoHoleInFront(out.table)
    BY <2>7 DEF NoHoleInFront
  <2>9. b.mode = a.mode /\ \A j \in Inums : b.table[j] = IF j = i THEN out.table ELSE a.table[j]
    BY <1>2, <1>7, <2>1, <2>7, SetTableAny
  <2>10. Fresh(s, b, i, k)
    BY <1>2, <1>7, <1>10, <2>8, <2>9 DEF Fresh, Dirs
  <2> QED
    BY <1>2, <1>3, <2>2, <2>4, <2>10
<1> QED
  BY <1>11, <1>12

LEMMA MknodSafe ==
  ASSUME NEW s, NEW o, Safe(s, o), Calm(s), NEW p \in Seq(Names), p # <<>>,
         IsDir(s, Parent(s, p)), NEW k \in {"file", "dir"},
         NEW out \in MknodOutcomes(s, p, k)
  PROVE  Safe(out.fs, o)
<1> DEFINE found == Resolve(s, p)
           d == Parent(s, p)
           n == Last(p)
           i == Min(FreeInums(s))
           a == AllocInode(s, k)
           inits == IF k = "dir"
                      THEN {SetTable(a, i, x.table) : x \in Adds(<<>>, Dot, i, Room(a))}
                      ELSE {a}
<1>1. s \in AnyImages /\ Tidy(s)
  BY DEF Safe, Formed, Calm
<1>2. d \in Dirs(s) /\ d \in Inums
  <2>1. IsDir(s, d)
    OBVIOUS
  <2> HIDE DEF d
  <2> QED
    BY <1>1, <2>1, AnyImageFacts
<1>3. n \in Names /\ found \in Inums \cup Errors /\ (found \notin Inums => NotThere(s.table[d], n))
  BY <1>1, LastAny
<1>4. found = ENOENT => found \notin Inums
  BY InumFacts DEF ENOENT
<1>5. \/ out.fs = s
      \/ /\ found = ENOENT /\ FreeInums(s) # {}
         /\ out \in {IF x.rv = "ok" THEN Result("ok", AddRef(x.fs, i, 1))
                                    ELSE Result(x.rv, FreeInode(x.fs, i))
                     : x \in UNION {AddEntry(b, d, n, i) : b \in inits}}
  <2>1. found >= 0 \/ found = ENOENT \/ found = ENOTDIR
    <3>1. \A l \in Inums : l >= 0
      BY InumFacts
    <3> QED
      BY <1>3, <3>1 DEF Errors
  <2>2. CASE found >= 0
    <3>1. found # ENOENT /\ found # ENOTDIR
      BY <2>2 DEF ENOENT, ENOTDIR
    <3>2. out = Result("+EEXIST", s)
      BY <2>2, <3>1 DEF MknodOutcomes
    <3> QED
      BY <3>2 DEF Result
  <2>3. CASE found = ENOTDIR
    <3>1. ~(found >= 0) /\ found # ENOENT
      BY <2>3 DEF ENOENT, ENOTDIR
    <3>2. out = Result("ENOTDIR", s)
      BY <2>3, <3>1 DEF MknodOutcomes
    <3> QED
      BY <3>2 DEF Result
  <2>4. CASE found = ENOENT /\ FreeInums(s) = {}
    <3>1. ~(found >= 0) /\ found # ENOTDIR
      BY <2>4 DEF ENOENT, ENOTDIR
    <3>2. out = Result("ENOSPC", s)
      BY <2>4, <3>1 DEF MknodOutcomes
    <3> QED
      BY <3>2 DEF Result
  <2>5. CASE found = ENOENT /\ FreeInums(s) # {}
    <3>1. ~(found >= 0) /\ found # ENOTDIR
      BY <2>5 DEF ENOENT, ENOTDIR
    <3> QED
      BY <2>5, <3>1 DEF MknodOutcomes
  <2> QED
    BY <2>1, <2>2, <2>3, <2>4, <2>5
<1>6. CASE out.fs = s
  BY <1>6
<1>7. CASE /\ found = ENOENT /\ FreeInums(s) # {}
           /\ out \in {IF x.rv = "ok" THEN Result("ok", AddRef(x.fs, i, 1))
                                      ELSE Result(x.rv, FreeInode(x.fs, i))
                       : x \in UNION {AddEntry(b, d, n, i) : b \in inits}}
  <2>1. PICK b \in inits : \E x \in AddEntry(b, d, n, i) :
               out = IF x.rv = "ok" THEN Result("ok", AddRef(x.fs, i, 1))
                                    ELSE Result(x.rv, FreeInode(x.fs, i))
    BY <1>7
  <2>2. PICK x \in AddEntry(b, d, n, i) :
               out = IF x.rv = "ok" THEN Result("ok", AddRef(x.fs, i, 1))
                                    ELSE Result(x.rv, FreeInode(x.fs, i))
    BY <2>1
  <2>3. b = a \/ \E y \in Adds(<<>>, Dot, i, Room(a)) : b = SetTable(a, i, y.table)
    OBVIOUS
  <2> HIDE DEF i, a, inits, d, n
  <2>4. /\ i \in Inums /\ i # ROOT_INUM /\ Safe(b, o) /\ Tidy(b) /\ SlotsOf(b, i) = {}
        /\ Fresh(s, b, i, k)
    <3>1. i = Min(FreeInums(s)) /\ a = AllocInode(s, k)
      BY DEF i, a
    <3> QED
      BY <1>1, <1>7, <2>3, <3>1, InitSafe
  <2>5. /\ Formed(b) /\ d \in Dirs(b) /\ b.table[d] = s.table[d] /\ NotThere(b.table[d], n)
        /\ b.mode[i] # "free" /\ (IsDir(b, i) => NoHoleInFront(b.table[i]))
    BY <1>2, <1>3, <1>4, <1>7, <2>4 DEF Safe, Fresh
  <2>6. /\ Formed(x.fs)
        /\ x.rv = "ok" => OneMore(b, x.fs, i)
        /\ x.rv # "ok" => NoMore(b, x.fs)
    BY <1>3, <2>2, <2>4, <2>5, AddEntryAny
  <2>7. CASE x.rv = "ok"
    <3>1. Safe(AddRef(x.fs, i, 1), o)
      BY <2>4, <2>5, <2>6, <2>7, SafeOneMore
    <3> QED
      BY <2>2, <2>7, <3>1 DEF Result
  <2>8. CASE x.rv # "ok"
    <3>1. Safe(x.fs, o) /\ SlotsOf(x.fs, i) = {} /\ x.fs \in AnyImages
      BY <2>4, <2>6, <2>8, SafeNoMore DEF NoMore, Formed
    <3>2. Blank(x.fs, FreeInode(x.fs, i), i, "free")
      BY <2>4, <3>1, FreeInodeAny
    <3>3. "free" \in {"free", "file", "dir"}
      OBVIOUS
    <3>4. Safe(FreeInode(x.fs, i), o)
      BY <2>4, <3>1, <3>2, <3>3, BlankSafe
    <3> QED
      BY <2>2, <2>8, <3>4 DEF Result
  <2> QED
    BY <2>7, <2>8
<1> QED
  BY <1>5, <1>6, <1>7

(* storage_init: the root has its "..", so there is nothing to add.        *)
LEMMA InitOutcomesKeep ==
  ASSUME NEW s, Formed(s), NEW out \in InitOutcomes(s)
  PROVE  Formed(out.fs) /\ SameCounts(s, out.fs) /\ \A j : NamesOf(out.fs, j) = NamesOf(s, j)
<1> DEFINE t == s.table[ROOT_INUM]
           S == Named(t, DotDot) \cup Holes(t)
           k == AddStop(t, DotDot)
<1>1. s \in AnyImages /\ ROOT_INUM \in Inums /\ t \in AnyTables /\ Dotted(t)
  BY InumFacts, AnyImageFacts DEF Formed
<1>2. /\ 1 \in Live(t) /\ 2 \in Live(t) /\ t[1].name # DotDot /\ t[2].name = DotDot
  BY <1>1, DottedFacts DEF Dot, DotDot
<1> HIDE DEF t
<1>3. /\ Len(t) \in Nat /\ DOMAIN t = 1 .. Len(t) /\ Holes(t) = (1 .. Len(t)) \ Live(t)
      /\ Live(t) \subseteq 1 .. Len(t) /\ S \subseteq 1 .. Len(t)
  BY <1>1, AnyTableFacts
<1>4. 2 \in Named(t, DotDot) /\ 1 \notin Named(t, DotDot) /\ 1 \notin Holes(t) /\ 2 \notin Holes(t)
  BY <1>2, <1>3 DEF Named
<1>5. k = 2
  <2>1. k \in S /\ k <= 2
    BY <1>1, <1>4, AddStopAny
  <2>2. k \in 1 .. Len(t) /\ k # 1
    BY <1>3, <1>4, <2>1
  <2> QED
    BY <2>1, <2>2
<1>6. ~TooLong(DotDot)
  BY NamesAssumption DEF TooLong
<1>7. Adds(t, DotDot, ROOT_INUM, Room(s)) = {Outcome("EEXIST", t)}
  BY <1>4, <1>5, <1>6 DEF Adds
<1>8. out.fs = SetTable(s, ROOT_INUM, t)
  BY <1>7 DEF InitOutcomes, Outcome, Result, t
<1> DEFINE u == SetTable(s, ROOT_INUM, t)
<1>9. Formed(u) /\ SameCounts(s, u)
  BY <1>1, FormedSame DEF t, NoMore
<1>10. /\ u \in AnyImages
       /\ \A j \in Inums : u.table[j] = s.table[j]
  BY <1>1, SetTableAny DEF t
<1> HIDE DEF u
<1>11. u.table = s.table
  BY <1>1, <1>10 DEF AnyImages
<1>12. \A j : NamesOf(u, j) = NamesOf(s, j)
  BY <1>9, <1>11, SameSlots DEF SameCounts
<1> QED
  BY <1>8, <1>9, <1>12 DEF u

(***************************************************************************)
(* The images a crash leaves.                                              *)
(***************************************************************************)
LEMMA AddImagesFormed ==
  ASSUME NEW s, Formed(s), NEW d \in Inums, NEW n \in Names, NEW i \in Inums,
         NEW m \in AddImages(s, d, n, i)
  PROVE  Formed(m)
<1>1. \A j \in Inums : s.table[j] \in AnyTables
  BY AnyImageFacts DEF Formed
<1>2. \/ \E t \in EntryImages(s.table[d], n, i, Room(s)) : m = SetTable(s, d, t)
      \/ \E out \in Adds(s.table[d], n, i, Room(s)) :
           /\ out.rv = "ok"
           /\ \E back \in EntryImages(SetTable(s, d, out.table).table[i], DotDot, d,
                                      Room(SetTable(s, d, out.table))) :
                m = SetTable(SetTable(s, d, out.table), i, back)
  BY DEF AddImages
<1>3. CASE \E t \in EntryImages(s.table[d], n, i, Room(s)) : m = SetTable(s, d, t)
  <2>1. PICK t \in EntryImages(s.table[d], n, i, Room(s)) : m = SetTable(s, d, t)
    BY <1>3
  <2>2. PICK k : OtherAt(s.table[d], t, k)
    BY <1>1, <2>1, EntryImagesAny
  <2> QED
    BY <2>1, <2>2, FormedOther
<1>4. CASE \E out \in Adds(s.table[d], n, i, Room(s)) :
             /\ out.rv = "ok"
             /\ \E back \in EntryImages(SetTable(s, d, out.table).table[i], DotDot, d,
                                        Room(SetTable(s, d, out.table))) :
                  m = SetTable(SetTable(s, d, out.table), i, back)
  <2>1. PICK out \in Adds(s.table[d], n, i, Room(s)) :
             /\ out.rv = "ok"
             /\ \E back \in EntryImages(SetTable(s, d, out.table).table[i], DotDot, d,
                                        Room(SetTable(s, d, out.table))) :
                  m = SetTable(SetTable(s, d, out.table), i, back)
    BY <1>4
  <2> DEFINE u == SetTable(s, d, out.table)
  <2>2. Fits(s.table[d], out.table, n, i)
    BY <1>1, <2>1, AddsAny
  <2>3. PICK l : OtherAt(s.table[d], out.table, l)
    BY <2>2 DEF Fits
  <2>4. Formed(u)
    BY <2>3, FormedOther
  <2>5. PICK back \in EntryImages(u.table[i], DotDot, d, Room(u)) : m = SetTable(u, i, back)
    BY <2>1
  <2> HIDE DEF u
  <2>6. u.table[i] \in AnyTables
    BY <2>4, AnyImageFacts DEF Formed
  <2>7. PICK k : OtherAt(u.table[i], back, k)
    BY <2>5, <2>6, EntryImagesAny
  <2> QED
    BY <2>4, <2>5, <2>7, FormedOther
<1> QED
  BY <1>2, <1>3, <1>4

LEMMA MknodImagesFormed ==
  ASSUME NEW s, NEW o, Safe(s, o), Tidy(s), NEW p \in Seq(Names), p # <<>>,
         IsDir(s, Parent(s, p)), NEW k \in {"file", "dir"},
         NEW m \in MknodImages(s, p, k)
  PROVE  Formed(m)
<1> DEFINE i == Min(FreeInums(s))
           a == AllocInode(s, k)
           b == AllocInode(s, "file")
           d == Parent(s, p)
           n == Last(p)
           first == IF k = "file" THEN {} ELSE EntryImages(<<>>, Dot, i, Room(a))
           inits == IF k = "file" THEN {<<>>}
                    ELSE {out.table : out \in Adds(<<>>, Dot, i, Room(a))}
<1>1. FreeInums(s) # {}
  BY DEF MknodImages
<1>2. n \in Names /\ d \in Inums
  BY LastAny, AnyImageFacts DEF IsDir, Safe, Formed
<1>3. \/ m = b \/ m = a
      \/ \E t \in first : m = SetTable(a, i, t)
      \/ \E t \in inits : m \in AddImages(SetTable(a, i, t), d, n, i)
  BY <1>1 DEF MknodImages
<1>4. first # {} => first = EntryImages(<<>>, Dot, i, Room(a))
  OBVIOUS
<1>5. \A t \in inits : t = <<>> \/ \E out \in Adds(<<>>, Dot, i, Room(a)) : t = out.table
  OBVIOUS
<1>6. i = Min(FreeInums(s)) /\ a = AllocInode(s, k) /\ b = AllocInode(s, "file")
  OBVIOUS
<1>7. "file" \in {"file", "dir"}
  OBVIOUS
<1> HIDE DEF i, a, b, d, n, first, inits
<1>8. Formed(b)
  BY <1>1, <1>6, <1>7, InitSafe
<1>9. Formed(a) /\ i \in Inums
  BY <1>1, <1>6, InitSafe
<1>10. a.table[i] = <<>>
  BY <1>1, <1>6, AllocInodeAny DEF Safe, Formed, Blank
<1>11. CASE \E t \in first : m = SetTable(a, i, t)
  <2>1. PICK t \in first : m = SetTable(a, i, t)
    BY <1>11
  <2>2. t \in EntryImages(a.table[i], Dot, i, Room(a))
    BY <1>4, <1>10, <2>1
  <2>3. PICK l : OtherAt(a.table[i], t, l)
    BY <1>9, <2>2, EntryImagesAny, AnyImageFacts DEF Formed
  <2> QED
    BY <1>9, <2>1, <2>3, FormedOther
<1>12. CASE \E t \in inits : m \in AddImages(SetTable(a, i, t), d, n, i)
  <2>1. PICK t \in inits : m \in AddImages(SetTable(a, i, t), d, n, i)
    BY <1>12
  <2>2. Formed(SetTable(a, i, t))
    <3>1. CASE t = <<>>
      BY <1>9, <1>10, <3>1, FormedSame
    <3>2. CASE \E out \in Adds(<<>>, Dot, i, Room(a)) : t = out.table
      <4> DEFINE c == SetTable(a, i, t)
      <4>1. \E out \in Adds(<<>>, Dot, i, Room(a)) : c = SetTable(a, i, out.table)
        BY <3>2
      <4> HIDE DEF c
      <4>2. Safe(c, o)
        BY <1>1, <1>6, <4>1, InitSafe
      <4> QED
        BY <4>2 DEF Safe, c
    <3> QED
      BY <1>5, <2>1, <3>1, <3>2
  <2> QED
    BY <1>2, <1>9, <2>1, <2>2, AddImagesFormed
<1> QED
  BY <1>3, <1>8, <1>9, <1>11, <1>12

LEMMA LinkImagesFormed ==
  ASSUME NEW s, Formed(s), NEW from \in Seq(Names), NEW to \in Seq(Names), to # <<>>,
         NEW m \in LinkImages(s, from, to)
  PROVE  Formed(m)
<1> DEFINE i == Resolve(s, from)
           d == Parent(s, to)
           n == Last(to)
<1>1. ~(i < 0) /\ ~(d < 0) /\ m \in AddImages(s, d, n, i)
  BY DEF LinkImages
<1>2. n \in Names /\ Front(to) \in Seq(Names)
  BY PathFacts
<1>3. i \in Inums \cup Errors /\ d \in Inums \cup Errors
  BY <1>2, ResolveAny DEF Parent, Formed
<1> HIDE DEF i, d, n
<1>4. i \in Inums /\ d \in Inums
  BY <1>1, <1>3, ErrorFacts
<1> QED
  BY <1>1, <1>2, <1>4, AddImagesFormed

LEMMA UnlinkImagesFormed ==
  ASSUME NEW s, NEW o, Safe(s, o), Tidy(s), NEW p \in Seq(Names), p # <<>>,
         NEW m \in UnlinkImages(s, p)
  PROVE  Formed(m)
<1> DEFINE i == Resolve(s, p)
           d == Parent(s, p)
           n == Last(p)
           t == s.table[d]
           marked == SetTable(s, d, MarkUnused(t, n))
           u == marked.table[i]
           apart == SetTable(marked, i, MarkUnused(u, DotDot))
           out == RemoveEntry(s, d, n)
           counted == AddRef(out.fs, i, -1)
<1>1. s \in AnyImages /\ Formed(s)
  BY DEF Safe, Formed
<1>2. ~(i < 0) /\ RemoveStop(t, n) \in Live(t)
  BY DEF UnlinkImages
<1>3. \/ m = marked
      \/ RemoveStop(u, DotDot) \in Live(u) /\ m = apart
      \/ out.rv = "ok" /\ m = out.fs
      \/ out.rv = "ok" /\ m = counted
  BY <1>2 DEF UnlinkImages
<1>4. n \in Names /\ i \in Inums /\ There(s, d, n, i) /\ i # ROOT_INUM /\ s.mode[i] # "free"
  <2>1. n \in Names /\ i \in Inums \cup Errors
        /\ (i \in Inums => There(s, d, n, i) /\ SlotsOf(s, i) # {})
    BY <1>1, LastAny
  <2> HIDE DEF i
  <2>2. i \in Inums
    BY <1>2, <2>1, ErrorFacts
  <2> QED
    BY <2>1, <2>2 DEF Tidy
<1>5. Formed(marked)
  <2>1. t = s.table[d] /\ marked = SetTable(s, d, MarkUnused(t, n))
    OBVIOUS
  <2> HIDE DEF t, marked, i, d, n
  <2> QED
    BY <1>1, <1>2, <1>4, <2>1, MarkEntryAny
<1>6. out = RemoveEntry(s, d, n)
  OBVIOUS
<1> HIDE DEF i, d, n, t, out, marked
<1>7. ASSUME RemoveStop(u, DotDot) \in Live(u) PROVE Formed(apart)
  <2>1. u \in AnyTables
    BY <1>4, <1>5, AnyImageFacts DEF Formed
  <2> HIDE DEF u
  <2>2. MarkUnused(u, DotDot) \in AnyTables
    BY <1>7, <2>1, MarkAny
  <2> QED
    BY <1>4, <1>5, <2>2, FormedTable
<1>8. /\ Formed(out.fs)
      /\ out.rv = "ok" => OneLess(s, out.fs, i)
  BY <1>1, <1>4, <1>6, RemoveEntryAny
<1>9. out.rv = "ok" => Formed(counted)
  BY <1>4, <1>8, SafeOneLess
<1> QED
  BY <1>3, <1>5, <1>7, <1>8, <1>9

LEMMA RenameImagesFormed ==
  ASSUME NEW s, NEW o, Safe(s, o), Calm(s), NEW from \in Seq(Names), from # <<>>,
         NEW to \in Seq(Names), to # <<>>, IsDir(s, Parent(s, to)),
         NEW m \in RenameImages(s, from, to)
  PROVE  Formed(m)
<1>1. \/ m \in LinkImages(s, from, to)
      \/ \E linked \in LinkOutcomes(s, from, to) :
           m = linked.fs \/ m \in UnlinkImages(linked.fs, from)
  BY DEF RenameImages
<1>2. CASE m \in LinkImages(s, from, to)
  BY <1>2, LinkImagesFormed DEF Safe
<1>3. CASE \E linked \in LinkOutcomes(s, from, to) :
             m = linked.fs \/ m \in UnlinkImages(linked.fs, from)
  <2>1. PICK linked \in LinkOutcomes(s, from, to) :
             m = linked.fs \/ m \in UnlinkImages(linked.fs, from)
    BY <1>3
  <2>2. Safe(linked.fs, o) /\ Tidy(linked.fs)
    BY LinkSafe
  <2> QED
    BY <2>1, <2>2, UnlinkImagesFormed DEF Safe
<1> QED
  BY <1>1, <1>2, <1>3

LEMMA MaxOfTwo ==
  ASSUME NEW a \in Int, NEW b \in Int
  PROVE  Max({a, b}) = IF a >= b THEN a ELSE b
<1> DEFINE c == IF a >= b THEN a ELSE b
<1>1. c \in {a, b} /\ \A y \in {a, b} : c >= y
  OBVIOUS
<1>2. \A x \in {a, b} : (\A y \in {a, b} : x >= y) => x = c
  OBVIOUS
<1> HIDE DEF c
<1>3. Max({a, b}) = c
  BY <1>1, <1>2 DEF Max
<1> QED
  BY <1>3 DEF c

(* The image is mounted, and what is missing is owed.                      *)
LEMMA MountSafe ==
  ASSUME NEW m, Formed(m), owed \in [Inums -> Nat], Mount(m)
  PROVE  Safe(fs', owed')
<1>1. PICK out \in InitOutcomes(m) : fs' = out.fs
  BY DEF Mount
<1>2. /\ Formed(fs') /\ fs'.mode = m.mode /\ fs'.refs = m.refs
      /\ \A j : NamesOf(fs', j) = NamesOf(m, j)
  BY <1>1, InitOutcomesKeep DEF SameCounts
<1>3. ASSUME NEW j \in Inums
      PROVE  /\ NamesOf(m, j) \in Nat /\ m.refs[j] \in Int
             /\ owed'[j] \in Nat
             /\ NamesOf(m, j) <= m.refs[j] + owed'[j]
             /\ m.mode[j] = "free" => m.refs[j] = 0
  <2> DEFINE g == NamesOf(m, j) - m.refs[j]
             h == Max({0, g})
  <2>1. NamesOf(m, j) \in Nat /\ m.refs[j] \in Int /\ (m.mode[j] = "free" => m.refs[j] = 0)
    BY NamesAny, AnyImageFacts DEF Formed
  <2>2. g \in Int /\ h = IF 0 >= g THEN 0 ELSE g
    BY <2>1, MaxOfTwo
  <2>3. owed'[j] = Max({owed[j], h})
    BY DEF Mount, Owes, Missing
  <2> HIDE DEF h
  <2>4. owed[j] \in Nat /\ h \in Nat
    BY <2>1, <2>2
  <2>5. owed'[j] = IF owed[j] >= h THEN owed[j] ELSE h
    BY <2>3, <2>4, MaxOfTwo
  <2> QED
    BY <2>1, <2>2, <2>4, <2>5
<1>4. owed' \in [Inums -> Nat]
  <2>1. owed' = [i \in Inums |-> Max({owed[i], Missing(m)[i]})]
    BY DEF Mount, Owes
  <2>2. \A i \in Inums : Max({owed[i], Missing(m)[i]}) \in Nat
    BY <1>3, <2>1
  <2> QED
    BY <2>1, <2>2
<1>5. Covered(fs', owed')
  BY <1>2, <1>3 DEF Covered
<1> QED
  BY <1>2, <1>4, <1>5 DEF Safe

(***************************************************************************)
(* The specification keeps its images safe.                                *)
(***************************************************************************)

\* an image that is followed further has no name to a free inode, nor to the root
LEMMA FollowedCalm ==
  ASSUME Safe(fs, owed), Followed
  PROVE  Calm(fs)
<1>1. fs \in AnyImages /\ ROOT_INUM \in Dirs(fs)
  BY DEF Safe, Formed
<1>2. ASSUME NEW i \in Inums, SlotsOf(fs, i) # {}
      PROVE  fs.mode[i] # "free"
  <2>1. PICK x \in Slots(fs) : fs.table[x[1]][x[2]].inum = i
    BY <1>2 DEF SlotsOf
  <2>2. PICK d \in Dirs(fs) : x \in {<<d, k>> : k \in {l \in Live(fs.table[d]) :
                                       fs.table[d][l].name \notin {Dot, DotDot}}}
    BY <2>1 DEF Slots
  <2>3. PICK k \in Live(fs.table[d]) : x = <<d, k>>
    BY <2>2
  <2>4. fs.table[d][k].inum = i
    BY <2>1, <2>3
  <2>5. fs.table[d][k].inum \in Allocated(fs)
    <3> SUFFICES ASSUME fs.table[d][k].inum \notin Allocated(fs) PROVE FALSE
      OBVIOUS
    <3>1. k \in {l \in Live(fs.table[d]) : fs.table[d][l].inum \notin Allocated(fs)}
      OBVIOUS
    <3>2. <<d, k>> \in Dangling(fs)
      BY <3>1 DEF Dangling
    <3> QED
      BY <3>2 DEF Followed
  <2> QED
    BY <2>4, <2>5 DEF Allocated
<1>3. SlotsOf(fs, ROOT_INUM) = {}
  <2>1. IsFiniteSet(SlotsOf(fs, ROOT_INUM)) /\ NamesOf(fs, ROOT_INUM) \in Nat
    BY <1>1, NamesAny
  <2>2. NamesOf(fs, ROOT_INUM) <= 0
    BY <1>1 DEF Followed
  <2>3. Cardinality(SlotsOf(fs, ROOT_INUM)) = 0
    BY <2>1, <2>2 DEF NamesOf
  <2> QED
    BY <2>1, <2>3, FS_EmptySet
<1>4. \A d \in Dirs(fs) : NoHoleInFront(fs.table[d])
  BY DEF Followed, NoHoleInFront
<1> QED
  BY <1>2, <1>3, <1>4 DEF Calm, Tidy

\* storage_init on the image of a daemon that was stopped between two calls
LEMMA RemountSafe ==
  ASSUME NEW s, NEW o, Safe(s, o), NEW out \in InitOutcomes(s)
  PROVE  Safe(out.fs, o)
<1>1. Formed(out.fs) /\ out.fs.mode = s.mode /\ out.fs.refs = s.refs
      /\ \A j : NamesOf(out.fs, j) = NamesOf(s, j)
  BY InitOutcomesKeep DEF Safe, SameCounts
<1> QED
  BY <1>1 DEF Safe, Covered

\* a new image
LEMMA NewImageSafe ==
  ASSUME CrashInit
  PROVE  Safe(fs, owed)
<1>1. /\ fs.mode = [i \in Inums |-> IF i = ROOT_INUM THEN "dir" ELSE "free"]
      /\ fs.refs = [i \in Inums |-> 0]
      /\ fs.table = [i \in Inums |-> IF i = ROOT_INUM
                       THEN <<Entry(Dot, ROOT_INUM), Entry(DotDot, ROOT_INUM)>> ELSE <<>>]
      /\ owed = [i \in Inums |-> 0]
  BY DEF CrashInit, Init
<1> DEFINE two == <<Entry(Dot, ROOT_INUM), Entry(DotDot, ROOT_INUM)>>
<1>2. Entry(Dot, ROOT_INUM) \in AnyEntry /\ Entry(DotDot, ROOT_INUM) \in AnyEntry
  BY InumFacts DEF Entry, AnyEntry, Written, EntryNames
<1>3. two \in AnyTables /\ Len(two) = 2 /\ two[1] = Entry(Dot, ROOT_INUM)
      /\ two[2] = Entry(DotDot, ROOT_INUM)
  BY <1>2 DEF AnyTables
<1>4. <<>> \in AnyTables
  BY DEF AnyTables
<1> HIDE DEF two
<1>5. fs \in AnyImages
  <2>1. fs.table \in [Inums -> AnyTables]
    BY <1>1, <1>3, <1>4 DEF two
  <2>2. fs.mode \in [Inums -> {"free", "file", "dir"}] /\ fs.refs \in [Inums -> Int]
    BY <1>1
  <2>3. fs = [mode |-> fs.mode, refs |-> fs.refs, table |-> fs.table, len |-> [i \in Inums |-> 0]]
    BY DEF CrashInit, Init
  <2> QED
    BY <2>1, <2>2, <2>3 DEF AnyImages
<1>6. Dirs(fs) = {ROOT_INUM}
  BY <1>1, InumFacts DEF Dirs
<1>7. fs.table[ROOT_INUM] = two
  BY <1>1, InumFacts DEF two
<1>8. Formed(fs)
  BY <1>1, <1>3, <1>5, <1>6, <1>7 DEF Formed, Dotted
<1>9. \A j : SlotsOf(fs, j) = {}
  <2>1. \A k \in Live(two) : two[k].name \in {Dot, DotDot}
    <3>1. Live(two) \subseteq 1 .. 2
      BY <1>3, AnyTableFacts
    <3> QED
      BY <1>3, <3>1 DEF Entry
  <2>2. Slots(fs) = {}
    BY <1>6, <1>7, <2>1 DEF Slots
  <2> QED
    BY <2>2 DEF SlotsOf
<1>10. \A j : NamesOf(fs, j) = 0
  BY <1>9, FS_EmptySet DEF NamesOf
<1> QED
  BY <1>1, <1>8, <1>10 DEF Safe, Covered

\* one handler, as the kernel calls it
LEMMA CallSafe ==
  ASSUME Safe(fs, owed), Followed, Next
  PROVE  Safe(fs', owed)
<1>1. Calm(fs) /\ Tidy(fs) /\ NoRoot(fs)
  BY FollowedCalm, TidyNoRoot DEF Calm
<1>2. Paths \subseteq Seq(Names)
  BY PathsAreNames
<1>3. ASSUME NEW p \in Paths, NEW k \in {"file", "dir"}, Mknod(p, k) PROVE Safe(fs', owed)
  BY <1>1, <1>2, <1>3, MknodSafe DEF Mknod, ParentIsDir, Answer
<1>4. ASSUME NEW from \in Paths, NEW to \in Paths, Hardlink(from, to) PROVE Safe(fs', owed)
  BY <1>1, <1>2, <1>4, LinkSafe DEF Hardlink, NotDir, ParentIsDir, Answer
<1>5. ASSUME NEW p \in Paths, Unlink(p) PROVE Safe(fs', owed)
  BY <1>1, <1>2, <1>5, UnlinkSafe DEF Unlink, NotDir, Answer
<1>6. ASSUME NEW from \in Paths, NEW to \in Paths, Rename(from, to) PROVE Safe(fs', owed)
  BY <1>1, <1>2, <1>6, RenameSafe DEF Rename, MayRename, ParentIsDir, Answer
<1>7. ASSUME NEW p \in Paths, Rmdir(p) PROVE Safe(fs', owed)
  BY <1>1, <1>2, <1>7, RmdirSafe DEF Rmdir, Answer
<1>8. \A n : n \in 0 .. MaxFileBlocks => n \in Int
  OBVIOUS
<1>9. ASSUME NEW p \in Paths, NEW n \in 0 .. MaxFileBlocks, Truncate(p, n) PROVE Safe(fs', owed)
  BY <1>2, <1>8, <1>9, TruncateSafe DEF Truncate, Answer
<1>10. ASSUME NEW p \in Paths, NEW n \in 1 .. MaxFileBlocks, Write(p, n) PROVE Safe(fs', owed)
  <2>1. n \in Int
    OBVIOUS
  <2> QED
    BY <1>2, <1>10, <2>1, WriteSafe DEF Write, Answer
<1>11. ASSUME Remount PROVE Safe(fs', owed)
  BY <1>11, RemountSafe DEF Remount, Answer
<1> QED
  BY <1>3, <1>4, <1>5, <1>6, <1>7, <1>9, <1>10, <1>11 DEF Next

\* a daemon killed in a handler, and the mount that follows
LEMMA CrashSafe ==
  ASSUME Safe(fs, owed), Followed, Crash
  PROVE  Safe(fs', owed')
<1>1. Calm(fs) /\ Tidy(fs) /\ Formed(fs) /\ owed \in [Inums -> Nat]
  BY FollowedCalm DEF Calm, Safe
<1>2. Paths \subseteq Seq(Names)
  BY PathsAreNames
<1>3. SUFFICES ASSUME NEW m, Mount(m), ~Formed(m)
               PROVE  /\ \A p \in Paths, k \in {"file", "dir"} :
                           ParentIsDir(p) => m \notin MknodImages(fs, p, k)
                      /\ \A from, to \in Paths :
                           ParentIsDir(to) => m \notin LinkImages(fs, from, to)
                      /\ \A p \in Paths : p # <<>> => m \notin UnlinkImages(fs, p)
                      /\ \A from, to \in Paths :
                           MayRename(from, to) => m \notin RenameImages(fs, from, to)
                      /\ \A p \in Paths : p # <<>> => m \notin RmdirImages(fs, p)
  <2>1. PICK m : /\ Mount(m)
                 /\ \/ \E p \in Paths, k \in {"file", "dir"} :
                         ParentIsDir(p) /\ m \in MknodImages(fs, p, k)
                    \/ \E from, to \in Paths :
                         ParentIsDir(to) /\ m \in LinkImages(fs, from, to)
                    \/ \E p \in Paths : p # <<>> /\ m \in UnlinkImages(fs, p)
                    \/ \E from, to \in Paths :
                         MayRename(from, to) /\ m \in RenameImages(fs, from, to)
                    \/ \E p \in Paths : p # <<>> /\ m \in RmdirImages(fs, p)
    BY DEF Crash, CrashInMknod, CrashInLink, CrashInUnlink, CrashInRename, CrashInRmdir, NotDir
  <2>2. Formed(m)
    BY <1>3, <2>1
  <2> QED
    BY <1>1, <2>1, <2>2, MountSafe
<1>4. ASSUME NEW p \in Paths, NEW k \in {"file", "dir"}, ParentIsDir(p)
      PROVE  m \notin MknodImages(fs, p, k)
  BY <1>1, <1>2, <1>3, <1>4, MknodImagesFormed DEF ParentIsDir
<1>5. ASSUME NEW from \in Paths, NEW to \in Paths, ParentIsDir(to)
      PROVE  m \notin LinkImages(fs, from, to)
  BY <1>1, <1>2, <1>3, <1>5, LinkImagesFormed DEF ParentIsDir
<1>6. ASSUME NEW p \in Paths, p # <<>>
      PROVE  m \notin UnlinkImages(fs, p) /\ m \notin RmdirImages(fs, p)
  <2>1. m \notin UnlinkImages(fs, p)
    BY <1>1, <1>2, <1>3, <1>6, UnlinkImagesFormed
  <2> QED
    BY <2>1 DEF RmdirImages
<1>7. ASSUME NEW from \in Paths, NEW to \in Paths, MayRename(from, to)
      PROVE  m \notin RenameImages(fs, from, to)
  BY <1>1, <1>2, <1>3, <1>7, RenameImagesFormed DEF MayRename, ParentIsDir
<1> QED
  BY <1>4, <1>5, <1>6, <1>7

LEMMA CrashStepSafe ==
  ASSUME Safe(fs, owed), [CrashNext]_crashVars
  PROVE  Safe(fs', owed')
<1>1. CASE Followed /\ Running
  BY <1>1, CallSafe DEF Running
<1>2. CASE Followed /\ Crash
  BY <1>2, CrashSafe
<1>3. CASE Restart
  BY <1>3, MountSafe DEF Restart, Safe
<1>4. CASE UNCHANGED crashVars
  <2>1. fs' = fs /\ owed' = owed
    BY <1>4 DEF crashVars, vars
  <2> QED
    BY <2>1
<1> QED
  BY <1>1, <1>2, <1>3, <1>4 DEF CrashNext

\* the invariant has the two properties
LEMMA SafeCounts ==
  ASSUME Safe(fs, owed)
  PROVE  RefsCoverNames /\ DanglingIsOwed
<1>1. fs \in AnyImages
  BY DEF Safe, Formed
<1>2. RefsCoverNames
  BY DEF Safe, Covered, RefsCoverNames, Allocated
<1>3. ASSUME NEW x \in Dangling(fs) \cap Slots(fs)
      PROVE  owed[fs.table[x[1]][x[2]].inum] > 0
  <2> DEFINE j == fs.table[x[1]][x[2]].inum
  <2>1. PICK d \in Dirs(fs) : \E k \in {l \in Live(fs.table[d]) :
                                 fs.table[d][l].inum \notin Allocated(fs)} : x = <<d, k>>
    BY DEF Dangling
  <2>2. PICK k \in Live(fs.table[d]) : x = <<d, k>> /\ fs.table[d][k].inum \notin Allocated(fs)
    BY <2>1
  <2>3. fs.table[d] \in AnyTables
    BY <1>1, AnyImageFacts
  <2>4. j = fs.table[d][k].inum /\ j \notin Allocated(fs)
    BY <2>2
  <2>5. j \in Inums
    <3>1. k \in 1 .. Len(fs.table[d]) /\ fs.table[d][k].inum >= 0
      BY <2>3, AnyTableFacts DEF Live
    <3>2. fs.table[d][k] \in AnyEntry
      BY <2>3, <3>1, AnyTableFacts
    <3> QED
      BY <2>4, <3>1, <3>2, AnyEntryFacts
  <2>6. x \in SlotsOf(fs, j)
    BY DEF SlotsOf
  <2> HIDE DEF j
  <2>7. NamesOf(fs, j) \in Nat /\ IsFiniteSet(SlotsOf(fs, j))
    BY <1>1, NamesAny
  <2>8. NamesOf(fs, j) # 0
    BY <2>6, <2>7, FS_EmptySet DEF NamesOf
  <2>9. NamesOf(fs, j) > 0
    BY <2>7, <2>8
  <2>10. fs.mode[j] = "free"
    BY <2>4, <2>5 DEF Allocated
  <2>11. owed[j] > 0
    BY <2>5, <2>9, <2>10 DEF Safe, Covered
  <2> QED
    BY <2>11 DEF j
<1> QED
  BY <1>2, <1>3 DEF DanglingIsOwed

(* Every image the daemon works on, however often it was killed between    *)
(* two stores of a handler or stopped at one of its assertions, keeps the  *)
(* root, counts nothing for a free inode, and counts every name of an      *)
(* inode in use but the ones owed.                                         *)
THEOREM ImagesStaySafe == CrashSpec => []Safe(fs, owed)
<1>1. CrashInit => Safe(fs, owed)
  BY NewImageSafe
<1>2. Safe(fs, owed) /\ [CrashNext]_crashVars => Safe(fs, owed)'
  BY CrashStepSafe
<1> QED
  BY <1>1, <1>2, PTL DEF CrashSpec

(* A crash leaves refs too high but never too low by more than the names   *)
(* owed, whatever handlers and crashes follow.                             *)
THEOREM CrashesKeepNamesCounted == CrashSpec => []RefsCoverNames
<1>1. Safe(fs, owed) => RefsCoverNames
  BY SafeCounts
<1> QED
  BY <1>1, ImagesStaySafe, PTL

(* A name stands for a free inode only where a crash left a name of that   *)
(* inode uncounted.                                                        *)
THEOREM CrashesOweDangling == CrashSpec => []DanglingIsOwed
<1>1. Safe(fs, owed) => DanglingIsOwed
  BY SafeCounts
<1> QED
  BY <1>1, ImagesStaySafe, PTL

(***************************************************************************)
(* How much a crash leaves owed.  Sum is a fold over the inodes, taken in  *)
(* the order in which One chooses them: Sums(f, S) has the sum of f over   *)
(* every subset of S, which is the value at an inode of it and the sum     *)
(* over the others.                                                        *)
(***************************************************************************)
One(s) == CHOOSE x \in s : TRUE
Sums(f, S) ==
  CHOOSE it : it = [s \in SUBSET S |-> IF s = {} THEN 0 ELSE f[One(s)] + it[s \ {One(s)}]]

LEMMA SumIs ==
  ASSUME NEW f
  PROVE  Sum(f) = Sums(f, DOMAIN f)[DOMAIN f]
  BY DEF Sum, FoldFunction, FoldFunctionOnSet, MapThenFoldSet, Sums, One

\* the subsets of no more than n inodes
Few(n) == {s \in SUBSET Inums : Cardinality(s) <= n}
\* it has the sums of f over them
SumsTo(f, n, it) ==
  it = [s \in Few(n) |-> IF s = {} THEN 0 ELSE f[One(s)] + it[s \ {One(s)}]]

LEMMA FewFacts ==
  ASSUME NEW s \in SUBSET Inums
  PROVE  /\ IsFiniteSet(s) /\ Cardinality(s) \in Nat
         /\ s # {} => /\ One(s) \in s /\ One(s) \in Inums
                      /\ s \ {One(s)} \in SUBSET Inums
                      /\ Cardinality(s) >= 1
                      /\ Cardinality(s \ {One(s)}) = Cardinality(s) - 1
<1>1. IsFiniteSet(s) /\ Cardinality(s) \in Nat
  BY InumFacts, FS_Subset, FS_CardinalityType
<1>2. ASSUME s # {} PROVE One(s) \in s
  BY <1>2 DEF One
<1>3. ASSUME s # {} PROVE Cardinality(s) >= 1 /\ Cardinality(s \ {One(s)}) = Cardinality(s) - 1
  <2>1. Cardinality(s) # 0
    BY <1>1, <1>3, FS_EmptySet
  <2>2. Cardinality(s \ {One(s)}) = Cardinality(s) - 1
    BY <1>1, <1>2, <1>3, FS_RemoveElement
  <2> QED
    BY <1>1, <2>1, <2>2
<1> QED
  BY <1>1, <1>2, <1>3

LEMMA SumsFewExist ==
  ASSUME NEW f, NEW n \in Nat
  PROVE  \E it : SumsTo(f, n, it)
<1> DEFINE Lost == {m \in Nat : ~ \E it : SumsTo(f, m, it)}
<1> SUFFICES ASSUME Lost # {} PROVE FALSE
  OBVIOUS
<1>1. PICK m \in Lost : \A l \in Lost : m <= l
  <2> HIDE DEF Lost
  <2>1. Lost \subseteq Nat
    BY DEF Lost
  <2> QED
    BY <2>1, MinFacts
<1>2. m \in Nat /\ ~ \E it : SumsTo(f, m, it)
  OBVIOUS
<1>3. m # 0
  <2>1. \A s \in Few(0) : s = {}
    <3> SUFFICES ASSUME NEW s \in Few(0) PROVE s = {}
      OBVIOUS
    <3>1. s \in SUBSET Inums /\ Cardinality(s) <= 0
      BY DEF Few
    <3>2. Cardinality(s) \in Nat /\ (s # {} => Cardinality(s) >= 1)
      BY <3>1, FewFacts
    <3> QED
      BY <3>1, <3>2
  <2> DEFINE it == [s \in Few(0) |-> 0]
  <2>2. it = [s \in Few(0) |-> IF s = {} THEN 0 ELSE f[One(s)] + it[s \ {One(s)}]]
    BY <2>1
  <2>3. SumsTo(f, 0, it)
    BY <2>2 DEF SumsTo
  <2> QED
    BY <1>2, <2>3
<1>4. m - 1 \in Nat /\ m - 1 \notin Lost
  BY <1>1, <1>2, <1>3
<1>5. PICK h : SumsTo(f, m - 1, h)
  BY <1>4
<1> DEFINE it == [s \in Few(m) |-> IF s = {} THEN 0 ELSE f[One(s)] + h[s \ {One(s)}]]
<1>6. \A s \in Few(m - 1) : it[s] = h[s]
  <2> SUFFICES ASSUME NEW s \in Few(m - 1) PROVE it[s] = h[s]
    OBVIOUS
  <2>1. h[s] = IF s = {} THEN 0 ELSE f[One(s)] + h[s \ {One(s)}]
    BY <1>5 DEF SumsTo
  <2>2. s \in Few(m)
    <3>1. s \in SUBSET Inums /\ Cardinality(s) <= m - 1
      BY DEF Few
    <3>2. Cardinality(s) \in Nat
      BY <3>1, FewFacts
    <3>3. Cardinality(s) <= m
      BY <1>2, <3>1, <3>2
    <3> QED
      BY <3>1, <3>3 DEF Few
  <2> QED
    BY <2>1, <2>2
<1>7. \A s \in Few(m) : s # {} => s \ {One(s)} \in Few(m - 1)
  <2> SUFFICES ASSUME NEW s \in Few(m), s # {} PROVE s \ {One(s)} \in Few(m - 1)
    OBVIOUS
  <2>1. s \in SUBSET Inums /\ Cardinality(s) <= m
    BY DEF Few
  <2>2. /\ s \ {One(s)} \in SUBSET Inums /\ Cardinality(s) \in Nat
        /\ Cardinality(s \ {One(s)}) = Cardinality(s) - 1
    BY <2>1, FewFacts
  <2> QED
    BY <1>2, <2>1, <2>2 DEF Few
<1>8. it = [s \in Few(m) |-> IF s = {} THEN 0 ELSE f[One(s)] + it[s \ {One(s)}]]
  <2>1. \A s \in Few(m) : s # {} => it[s \ {One(s)}] = h[s \ {One(s)}]
    BY <1>6, <1>7
  <2> HIDE DEF Lost
  <2>2. \A s \in Few(m) : it[s] = IF s = {} THEN 0 ELSE f[One(s)] + it[s \ {One(s)}]
    BY <2>1
  <2>3. it = [s \in Few(m) |-> it[s]]
    OBVIOUS
  <2> HIDE DEF it
  <2> QED
    BY <2>2, <2>3
<1>9. SumsTo(f, m, it)
  <2> HIDE DEF it
  <2> QED
    BY <1>8 DEF SumsTo
<1> QED
  BY <1>2, <1>9

\* the sum over no inode is 0, and over more it is a sum
LEMMA SumsFacts ==
  ASSUME NEW f \in [Inums -> Nat], NEW F, F = Sums(f, Inums)
  PROVE  /\ F[{}] = 0
         /\ \A s \in SUBSET Inums : s # {} => F[s] = f[One(s)] + F[s \ {One(s)}]
         /\ \A s \in SUBSET Inums : F[s] \in Nat
<1> DEFINE n == Cardinality(Inums)
<1>1. n \in Nat
  BY InumFacts, FS_CardinalityType
<1>2. Few(n) = SUBSET Inums
  <2>1. \A s \in SUBSET Inums : Cardinality(s) <= n
    BY InumFacts, FS_Subset
  <2> QED
    BY <2>1 DEF Few
<1>3. PICK it : SumsTo(f, n, it)
  BY <1>1, SumsFewExist
<1>4. it = [s \in SUBSET Inums |-> IF s = {} THEN 0 ELSE f[One(s)] + it[s \ {One(s)}]]
  BY <1>2, <1>3 DEF SumsTo
<1>5. F = [s \in SUBSET Inums |-> IF s = {} THEN 0 ELSE f[One(s)] + F[s \ {One(s)}]]
  BY <1>4 DEF Sums
<1>6. /\ F[{}] = 0
      /\ \A s \in SUBSET Inums : s # {} => F[s] = f[One(s)] + F[s \ {One(s)}]
  <2>1. \A s \in SUBSET Inums : F[s] = IF s = {} THEN 0 ELSE f[One(s)] + F[s \ {One(s)}]
    BY <1>5
  <2>2. {} \in SUBSET Inums
    OBVIOUS
  <2> QED
    BY <2>1, <2>2
<1>7. \A s \in SUBSET Inums : F[s] \in Nat
  <2> DEFINE Odd == {Cardinality(s) : s \in {t \in SUBSET Inums : F[t] \notin Nat}}
  <2> SUFFICES ASSUME NEW r \in SUBSET Inums, F[r] \notin Nat PROVE FALSE
    OBVIOUS
  <2>1. PICK m \in Odd : \A l \in Odd : m <= l
    <3>1. \A t \in SUBSET Inums : Cardinality(t) \in Nat
      BY FewFacts
    <3>2. Odd \subseteq Nat /\ Cardinality(r) \in Odd
      BY <3>1
    <3> HIDE DEF Odd
    <3> QED
      BY <3>2, MinFacts
  <2>2. PICK s \in SUBSET Inums : F[s] \notin Nat /\ m = Cardinality(s)
    OBVIOUS
  <2>3. s # {}
    <3>1. F[{}] \in Nat
      BY <1>6
    <3> QED
      BY <2>2, <3>1
  <2>4. /\ s \ {One(s)} \in SUBSET Inums /\ One(s) \in Inums /\ Cardinality(s) \in Nat
        /\ Cardinality(s \ {One(s)}) = Cardinality(s) - 1
    BY <2>3, FewFacts
  <2>5. F[s \ {One(s)}] \in Nat
    <3> DEFINE q == s \ {One(s)}
    <3> SUFFICES ASSUME F[q] \notin Nat PROVE FALSE
      OBVIOUS
    <3>1. Cardinality(q) \in Odd
      BY <2>4
    <3>2. Cardinality(q) = Cardinality(s) - 1
      BY <2>4
    <3> HIDE DEF Odd, q
    <3>3. m <= Cardinality(q)
      BY <2>1, <3>1
    <3> QED
      BY <2>2, <2>4, <3>2, <3>3
  <2>6. f[One(s)] \in Nat
    BY <2>4
  <2>7. F[s] = f[One(s)] + F[s \ {One(s)}]
    BY <1>6, <2>3
  <2> QED
    BY <2>2, <2>5, <2>6, <2>7
<1> QED
  BY <1>6, <1>7

(* One more at one inode is one more in the sum.                           *)
LEMMA SumOneMore ==
  ASSUME NEW f \in [Inums -> Nat], NEW g \in [Inums -> Nat], NEW x,
         \A j \in Inums : g[j] <= f[j] + IF j = x THEN 1 ELSE 0
  PROVE  /\ Sum(f) \in Nat /\ Sum(g) \in Nat
         /\ Sum(g) <= Sum(f) + IF x \in Inums THEN 1 ELSE 0
<1> DEFINE F == Sums(f, Inums)
           G == Sums(g, Inums)
<1>1. /\ F[{}] = 0
      /\ \A s \in SUBSET Inums : s # {} => F[s] = f[One(s)] + F[s \ {One(s)}]
      /\ \A s \in SUBSET Inums : F[s] \in Nat
  BY SumsFacts
<1>2. /\ G[{}] = 0
      /\ \A s \in SUBSET Inums : s # {} => G[s] = g[One(s)] + G[s \ {One(s)}]
      /\ \A s \in SUBSET Inums : G[s] \in Nat
  BY SumsFacts
<1>3. Sum(f) = F[Inums] /\ Sum(g) = G[Inums]
  <2>1. DOMAIN f = Inums /\ DOMAIN g = Inums
    OBVIOUS
  <2> QED
    BY <2>1, SumIs
<1> HIDE DEF F, G
<1> DEFINE more(s) == IF x \in s THEN 1 ELSE 0
           Odd == {Cardinality(s) : s \in {t \in SUBSET Inums : ~(G[t] <= F[t] + more(t))}}
<1>4. \A s \in SUBSET Inums : G[s] <= F[s] + more(s)
  <2> SUFFICES ASSUME NEW r \in SUBSET Inums, ~(G[r] <= F[r] + more(r)) PROVE FALSE
    OBVIOUS
  <2>1. PICK m \in Odd : \A l \in Odd : m <= l
    <3>1. \A t \in SUBSET Inums : Cardinality(t) \in Nat
      BY FewFacts
    <3>2. Odd \subseteq Nat /\ Cardinality(r) \in Odd
      BY <3>1
    <3> HIDE DEF Odd
    <3> QED
      BY <3>2, MinFacts
  <2>2. PICK s \in SUBSET Inums : ~(G[s] <= F[s] + more(s)) /\ m = Cardinality(s)
    OBVIOUS
  <2>3. s # {}
    <3>1. G[{}] <= F[{}] + more({})
      BY <1>1, <1>2
    <3> HIDE DEF more
    <3> QED
      BY <2>2, <3>1
  <2> DEFINE y == One(s)
             q == s \ {y}
  <2>4. /\ q \in SUBSET Inums /\ y \in Inums /\ y \in s /\ Cardinality(s) \in Nat
        /\ Cardinality(q) = Cardinality(s) - 1
    BY <2>3, FewFacts
  <2>5. F[s] = f[y] + F[q] /\ G[s] = g[y] + G[q]
    BY <1>1, <1>2, <2>3
  <2> HIDE DEF y
  <2>6. G[q] <= F[q] + more(q)
    <3> SUFFICES ASSUME ~(G[q] <= F[q] + more(q)) PROVE FALSE
      OBVIOUS
    <3>1. Cardinality(q) \in Odd
      BY <2>4
    <3> HIDE DEF Odd
    <3>2. m <= Cardinality(q)
      BY <2>1, <3>1
    <3> QED
      BY <2>2, <2>4, <3>2
  <2>7. g[y] <= (f[y] + IF y = x THEN 1 ELSE 0) /\ f[y] \in Nat /\ g[y] \in Nat
    BY <2>4
  <2>8. F[q] \in Nat /\ G[q] \in Nat
    BY <1>1, <1>2, <2>4
  <2>9. more(s) = more(q) + IF y = x THEN 1 ELSE 0
    BY <2>4
  <2>10. more(q) \in Nat /\ more(s) \in Nat
    OBVIOUS
  <2> HIDE DEF more, q
  <2> QED
    BY <2>2, <2>5, <2>6, <2>7, <2>8, <2>9, <2>10
<1> QED
  BY <1>1, <1>2, <1>3, <1>4

LEMMA SumNat ==
  ASSUME NEW f \in [Inums -> Nat]
  PROVE  Sum(f) \in Nat
<1>1. \A j \in Inums : f[j] <= f[j] + IF j = -1 THEN 1 ELSE 0
  OBVIOUS
<1> QED
  BY <1>1, SumOneMore

(* In m there are no more names uncounted than o has and n others.         *)
Within(m, o, n) ==
  \E p \in [Inums -> Nat] :
    /\ \A j \in Inums : o[j] <= p[j] /\ NamesOf(m, j) <= m.refs[j] + p[j]
    /\ Sum(p) <= Sum(o) + n

LEMMA WithinOwes ==
  ASSUME owed \in [Inums -> Nat], NEW n \in Nat, NEW m \in AnyImages, Within(m, owed, n)
  PROVE  Sum(Owes(m)) <= Sum(owed) + n
<1>1. PICK p \in [Inums -> Nat] :
        /\ \A j \in Inums : owed[j] <= p[j] /\ NamesOf(m, j) <= m.refs[j] + p[j]
        /\ Sum(p) <= Sum(owed) + n
  BY DEF Within
<1> DEFINE g == Owes(m)
<1>2. ASSUME NEW j \in Inums PROVE g[j] \in Nat /\ g[j] <= p[j]
  <2> DEFINE a == NamesOf(m, j) - m.refs[j]
             h == Max({0, a})
  <2>1. NamesOf(m, j) \in Nat /\ m.refs[j] \in Int /\ owed[j] \in Nat /\ p[j] \in Nat
    BY NamesAny, AnyImageFacts
  <2>2. a \in Int /\ h = IF 0 >= a THEN 0 ELSE a
    BY <2>1, MaxOfTwo
  <2>3. a <= p[j]
    BY <1>1, <2>1
  <2>4. g[j] = Max({owed[j], h})
    BY DEF Owes, Missing
  <2> HIDE DEF a, h, g
  <2>5. h \in Nat /\ h <= p[j]
    BY <2>1, <2>2, <2>3
  <2>6. g[j] = IF owed[j] >= h THEN owed[j] ELSE h
    BY <2>1, <2>4, <2>5, MaxOfTwo
  <2> QED
    BY <1>1, <2>1, <2>5, <2>6
<1>3. g \in [Inums -> Nat]
  <2>1. g = [i \in Inums |-> Max({owed[i], Missing(m)[i]})]
    BY DEF Owes
  <2> HIDE DEF g
  <2> QED
    BY <1>2, <2>1
<1> HIDE DEF g
<1>4. -1 \notin Inums
  BY InumFacts
<1>5. \A j \in Inums : g[j] <= p[j] + IF j = -1 THEN 1 ELSE 0
  BY <1>2, <1>4
<1>6. Sum(p) \in Nat /\ Sum(g) \in Nat /\ Sum(g) <= Sum(p) + IF -1 \in Inums THEN 1 ELSE 0
  BY <1>3, <1>5, SumOneMore
<1>7. Sum(owed) \in Nat
  BY SumNat
<1>8. Sum(g) <= Sum(owed) + n
  BY <1>1, <1>4, <1>6, <1>7
<1> QED
  BY <1>8 DEF g

\* a safe image whose names are of inodes in use has no others
LEMMA WithinSafe ==
  ASSUME NEW s, NEW o, Safe(s, o), Tidy(s)
  PROVE  Within(s, o, 0)
<1>1. s \in AnyImages /\ o \in [Inums -> Nat]
  BY DEF Safe, Formed
<1>2. ASSUME NEW j \in Inums PROVE NamesOf(s, j) <= s.refs[j] + o[j]
  <2>1. CASE s.mode[j] = "free"
    <3>1. SlotsOf(s, j) = {}
      BY <2>1 DEF Tidy
    <3>2. NamesOf(s, j) = 0
      BY <3>1, FS_EmptySet DEF NamesOf
    <3>3. s.refs[j] = 0 /\ o[j] \in Nat
      BY <1>1, <2>1 DEF Safe, Formed
    <3> QED
      BY <3>2, <3>3
  <2>2. CASE s.mode[j] # "free"
    BY <2>2 DEF Safe, Covered
  <2> QED
    BY <2>1, <2>2
<1>3. \A j \in Inums : o[j] <= o[j]
  BY <1>1
<1>4. Sum(o) \in Nat
  BY <1>1, SumNat
<1>5. Sum(o) <= Sum(o) + 0
  BY <1>4
<1> QED
  BY <1>1, <1>2, <1>3, <1>5 DEF Within

\* a name more is at most one more
LEMMA WithinOneMore ==
  ASSUME NEW s \in AnyImages, NEW o \in [Inums -> Nat], NEW n \in Nat, Within(s, o, n),
         NEW t, NEW x, OneMore(s, t, x)
  PROVE  Within(t, o, n + 1)
<1>1. PICK p \in [Inums -> Nat] :
        /\ \A j \in Inums : o[j] <= p[j] /\ NamesOf(s, j) <= s.refs[j] + p[j]
        /\ Sum(p) <= Sum(o) + n
  BY DEF Within
<1> DEFINE q == [j \in Inums |-> p[j] + IF j = x THEN 1 ELSE 0]
<1>2. q \in [Inums -> Nat] /\ \A j \in Inums : q[j] = p[j] + IF j = x THEN 1 ELSE 0
  OBVIOUS
<1> HIDE DEF q
<1>3. ASSUME NEW j \in Inums
      PROVE  /\ o[j] <= q[j] /\ NamesOf(t, j) <= t.refs[j] + q[j]
             /\ q[j] <= p[j] + IF j = x THEN 1 ELSE 0
  <2>1. /\ NamesOf(t, j) \in Nat
        /\ NamesOf(t, j) <= NamesOf(s, j) + IF j = x THEN 1 ELSE 0
    BY NamesOneMore
  <2>2. /\ t.refs[j] = s.refs[j] /\ s.refs[j] \in Int /\ NamesOf(s, j) \in Nat
        /\ o[j] \in Nat /\ p[j] \in Nat
    BY NamesAny, AnyImageFacts DEF OneMore, SameCounts
  <2> QED
    BY <1>1, <1>2, <2>1, <2>2
<1>4. /\ Sum(p) \in Nat /\ Sum(q) \in Nat
      /\ Sum(q) <= Sum(p) + IF x \in Inums THEN 1 ELSE 0
  BY <1>2, <1>3, SumOneMore
<1>5. Sum(o) \in Nat
  BY SumNat
<1>6. Sum(q) <= Sum(o) + (n + 1)
  BY <1>1, <1>4, <1>5
<1> QED
  BY <1>2, <1>3, <1>6 DEF Within

\* where there are no more names there are no more uncounted ones
LEMMA WithinNoMore ==
  ASSUME NEW s \in AnyImages, NEW o \in [Inums -> Nat], NEW n, Within(s, o, n),
         NEW t, NoMore(s, t)
  PROVE  Within(t, o, n)
<1>1. PICK p \in [Inums -> Nat] :
        /\ \A j \in Inums : o[j] <= p[j] /\ NamesOf(s, j) <= s.refs[j] + p[j]
        /\ Sum(p) <= Sum(o) + n
  BY DEF Within
<1>2. ASSUME NEW j \in Inums
      PROVE  o[j] <= p[j] /\ NamesOf(t, j) <= t.refs[j] + p[j]
  <2>1. NamesOf(t, j) \in Nat /\ NamesOf(t, j) <= NamesOf(s, j)
    BY NamesNoMore
  <2>2. /\ t.refs[j] = s.refs[j] /\ s.refs[j] \in Int /\ NamesOf(s, j) \in Nat
        /\ p[j] \in Nat
    BY NamesAny, AnyImageFacts DEF NoMore, SameCounts
  <2> QED
    BY <1>1, <2>1, <2>2
<1> QED
  BY <1>1, <1>2 DEF Within

\* nor when a name and then its count are gone
LEMMA WithinOneLess ==
  ASSUME NEW s \in AnyImages, NEW o \in [Inums -> Nat], NEW n, Within(s, o, n),
         NEW t \in AnyImages, NEW i \in Inums, OneLess(s, t, i), NEW u, u = AddRef(t, i, -1)
  PROVE  Within(u, o, n)
<1>1. PICK p \in [Inums -> Nat] :
        /\ \A j \in Inums : o[j] <= p[j] /\ NamesOf(s, j) <= s.refs[j] + p[j]
        /\ Sum(p) <= Sum(o) + n
  BY DEF Within
<1>2. /\ u.mode = t.mode /\ u.table = t.table
      /\ \A j \in Inums : u.refs[j] = IF j = i THEN t.refs[i] + (-1) ELSE t.refs[j]
  <2>1. -1 \in Int
    OBVIOUS
  <2> DEFINE v == AddRef(t, i, -1)
  <2>2. /\ v.mode = t.mode /\ v.table = t.table
        /\ \A j \in Inums : v.refs[j] = IF j = i THEN t.refs[i] + (-1) ELSE t.refs[j]
    BY <2>1, AddRefAny
  <2> HIDE DEF v
  <2>3. u = v
    BY DEF v
  <2> QED
    BY <2>2, <2>3
<1>3. \A j : NamesOf(u, j) = NamesOf(t, j)
  BY <1>2, SameSlots
<1>4. ASSUME NEW j \in Inums
      PROVE  o[j] <= p[j] /\ NamesOf(u, j) <= u.refs[j] + p[j]
  <2>1. NamesOf(t, j) \in Nat /\ NamesOf(t, j) <= NamesOf(s, j) - IF j = i THEN 1 ELSE 0
    BY NamesOneLess
  <2>2. /\ t.refs[j] = s.refs[j] /\ s.refs[j] \in Int /\ NamesOf(s, j) \in Nat
        /\ p[j] \in Nat
    BY NamesAny, AnyImageFacts DEF OneLess, SameCounts
  <2>3. NamesOf(u, j) = NamesOf(t, j)
    BY <1>3
  <2>4. u.refs[j] = IF j = i THEN t.refs[j] - 1 ELSE t.refs[j]
    BY <1>2
  <2> QED
    BY <1>1, <2>1, <2>2, <2>3, <2>4
<1> QED
  BY <1>1, <1>4 DEF Within

\* a bound may be larger
LEMMA WithinMore ==
  ASSUME NEW m, NEW o \in [Inums -> Nat], NEW n \in Nat, NEW k \in Nat, n <= k, Within(m, o, n)
  PROVE  Within(m, o, k)
<1>1. PICK p \in [Inums -> Nat] :
        /\ \A j \in Inums : o[j] <= p[j] /\ NamesOf(m, j) <= m.refs[j] + p[j]
        /\ Sum(p) <= Sum(o) + n
  BY DEF Within
<1>2. Sum(o) \in Nat /\ Sum(p) \in Nat
  BY SumNat
<1>3. Sum(p) <= Sum(o) + k
  BY <1>1, <1>2
<1> QED
  BY <1>1, <1>3 DEF Within

(* One entry of one table changes: at most one name more.                  *)
LEMMA WithinEntry ==
  ASSUME NEW s \in AnyImages, NEW o \in [Inums -> Nat], NEW n \in Nat, Within(s, o, n),
         NEW d \in Inums, NEW t, NEW k, OtherAt(s.table[d], t, k)
  PROVE  Within(SetTable(s, d, t), o, n + 1)
<1>1. s.table[d] \in AnyTables /\ t \in AnyTables
  BY AnyImageFacts DEF OtherAt
<1>2. Gains(s.table[d], t, t[k].inum)
  BY <1>1, OtherGains DEF Gains
<1>3. OneMore(s, SetTable(s, d, t), t[k].inum)
  BY <1>1, <1>2, OneMoreTable
<1> QED
  BY <1>3, WithinOneMore

LEMMA AddImagesOwe ==
  ASSUME NEW s \in AnyImages, NEW o \in [Inums -> Nat], Within(s, o, 0),
         NEW d \in Inums, NEW n \in Names, NEW i \in Inums,
         NEW m \in AddImages(s, d, n, i)
  PROVE  Within(m, o, IF IsDir(s, i) THEN 2 ELSE 1)
<1>1. \A j \in Inums : s.table[j] \in AnyTables
  BY AnyImageFacts
<1>2. \/ \E t \in EntryImages(s.table[d], n, i, Room(s)) : m = SetTable(s, d, t)
      \/ \E out \in Adds(s.table[d], n, i, Room(s)) :
           /\ out.rv = "ok" /\ IsDir(s, i)
           /\ \E back \in EntryImages(SetTable(s, d, out.table).table[i], DotDot, d,
                                      Room(SetTable(s, d, out.table))) :
                m = SetTable(SetTable(s, d, out.table), i, back)
  BY DEF AddImages
<1>3. 0 + 1 = 1 /\ 1 + 1 = 2 /\ 1 <= 2 /\ 1 \in Nat /\ 2 \in Nat /\ 0 \in Nat
  OBVIOUS
<1>4. CASE \E t \in EntryImages(s.table[d], n, i, Room(s)) : m = SetTable(s, d, t)
  <2>1. PICK t \in EntryImages(s.table[d], n, i, Room(s)) : m = SetTable(s, d, t)
    BY <1>4
  <2>2. PICK k : OtherAt(s.table[d], t, k)
    BY <1>1, <2>1, EntryImagesAny
  <2>3. Within(m, o, 0 + 1)
    BY <1>3, <2>1, <2>2, WithinEntry
  <2>4. Within(m, o, 1)
    BY <1>3, <2>3
  <2>5. Within(m, o, 2)
    BY <1>3, <2>4, WithinMore
  <2> QED
    BY <2>4, <2>5
<1>5. CASE \E out \in Adds(s.table[d], n, i, Room(s)) :
             /\ out.rv = "ok" /\ IsDir(s, i)
             /\ \E back \in EntryImages(SetTable(s, d, out.table).table[i], DotDot, d,
                                        Room(SetTable(s, d, out.table))) :
                  m = SetTable(SetTable(s, d, out.table), i, back)
  <2>1. PICK out \in Adds(s.table[d], n, i, Room(s)) :
             /\ out.rv = "ok" /\ IsDir(s, i)
             /\ \E back \in EntryImages(SetTable(s, d, out.table).table[i], DotDot, d,
                                        Room(SetTable(s, d, out.table))) :
                  m = SetTable(SetTable(s, d, out.table), i, back)
    BY <1>5
  <2> DEFINE u == SetTable(s, d, out.table)
  <2>2. Fits(s.table[d], out.table, n, i)
    BY <1>1, <2>1, AddsAny
  <2>3. PICK l : OtherAt(s.table[d], out.table, l)
    BY <2>2 DEF Fits
  <2>4. u \in AnyImages
    BY <2>3, SetTableAny DEF OtherAt
  <2>5. Within(u, o, 0 + 1)
    BY <1>3, <2>3, WithinEntry
  <2>6. PICK back \in EntryImages(u.table[i], DotDot, d, Room(u)) : m = SetTable(u, i, back)
    BY <2>1
  <2> HIDE DEF u
  <2>7. u.table[i] \in AnyTables
    BY <2>4, AnyImageFacts
  <2>8. PICK k : OtherAt(u.table[i], back, k)
    BY <2>6, <2>7, EntryImagesAny
  <2>9. Within(u, o, 1)
    BY <1>3, <2>5
  <2>10. Within(m, o, 1 + 1)
    BY <1>3, <2>4, <2>6, <2>8, <2>9, WithinEntry
  <2> QED
    BY <1>3, <2>1, <2>10
<1> QED
  BY <1>2, <1>4, <1>5

LEMMA MknodImagesOwe ==
  ASSUME NEW s, NEW o, Safe(s, o), Tidy(s), NEW p \in Seq(Names), p # <<>>,
         IsDir(s, Parent(s, p)), NEW k \in {"file", "dir"},
         NEW m \in MknodImages(s, p, k)
  PROVE  Within(m, o, IF k = "dir" THEN 2 ELSE 1)
<1> DEFINE i == Min(FreeInums(s))
           a == AllocInode(s, k)
           b == AllocInode(s, "file")
           d == Parent(s, p)
           n == Last(p)
           first == IF k = "file" THEN {} ELSE EntryImages(<<>>, Dot, i, Room(a))
           inits == IF k = "file" THEN {<<>>}
                    ELSE {out.table : out \in Adds(<<>>, Dot, i, Room(a))}
           most == IF k = "dir" THEN 2 ELSE 1
<1> SUFFICES Within(m, o, most)
  OBVIOUS
<1>1. FreeInums(s) # {}
  BY DEF MknodImages
<1>2. n \in Names /\ d \in Inums /\ o \in [Inums -> Nat]
  BY LastAny, AnyImageFacts DEF IsDir, Safe, Formed
<1>3. \/ m = b \/ m = a
      \/ \E t \in first : m = SetTable(a, i, t)
      \/ \E t \in inits : m \in AddImages(SetTable(a, i, t), d, n, i)
  BY <1>1 DEF MknodImages
<1>4. first # {} => first = EntryImages(<<>>, Dot, i, Room(a)) /\ k = "dir"
  OBVIOUS
<1>5. \A t \in inits : t = <<>> \/ \E out \in Adds(<<>>, Dot, i, Room(a)) : t = out.table
  OBVIOUS
<1>6. i = Min(FreeInums(s)) /\ a = AllocInode(s, k) /\ b = AllocInode(s, "file")
  OBVIOUS
<1>7. "file" \in {"file", "dir"}
  OBVIOUS
<1>8. /\ 0 + 1 = 1 /\ most \in Nat /\ 0 <= most /\ 1 <= most /\ 0 \in Nat /\ 1 \in Nat
      /\ k = "dir" => most = 2
      /\ k # "dir" => most = 1
  OBVIOUS
<1> HIDE DEF i, a, b, d, n, first, inits, most
<1>9. Safe(b, o) /\ Tidy(b)
  BY <1>1, <1>6, <1>7, InitSafe
<1>10. Safe(a, o) /\ Tidy(a) /\ i \in Inums
  BY <1>1, <1>6, InitSafe
<1>11. \A x : Safe(x, o) /\ Tidy(x) => Within(x, o, 0) /\ Within(x, o, most) /\ x \in AnyImages
  <2> SUFFICES ASSUME NEW x, Safe(x, o), Tidy(x)
               PROVE  Within(x, o, 0) /\ Within(x, o, most) /\ x \in AnyImages
    OBVIOUS
  <2>1. Within(x, o, 0)
    BY WithinSafe
  <2>2. x \in AnyImages
    BY DEF Safe, Formed
  <2>3. Within(x, o, most)
    BY <1>2, <1>8, <2>1, WithinMore
  <2> QED
    BY <2>1, <2>2, <2>3
<1>12. a.table[i] = <<>>
  BY <1>1, <1>6, AllocInodeAny DEF Safe, Formed, Blank
<1>13. CASE m = a \/ m = b
  BY <1>9, <1>10, <1>11, <1>13
<1>14. CASE \E t \in first : m = SetTable(a, i, t)
  <2>1. PICK t \in first : m = SetTable(a, i, t)
    BY <1>14
  <2>2. t \in EntryImages(a.table[i], Dot, i, Room(a)) /\ a.table[i] \in AnyTables
    BY <1>4, <1>10, <1>12, <2>1, AnyImageFacts DEF Safe, Formed
  <2>3. PICK l : OtherAt(a.table[i], t, l)
    BY <1>10, <2>2, EntryImagesAny
  <2>4. Within(m, o, 0 + 1)
    BY <1>2, <1>8, <1>10, <1>11, <2>1, <2>3, WithinEntry
  <2>5. Within(m, o, 1)
    BY <1>8, <2>4
  <2> QED
    BY <1>2, <1>8, <2>5, WithinMore
<1>15. CASE \E t \in inits : m \in AddImages(SetTable(a, i, t), d, n, i)
  <2>1. PICK t \in inits : m \in AddImages(SetTable(a, i, t), d, n, i)
    BY <1>15
  <2> DEFINE c == SetTable(a, i, t)
  <2>2. Safe(c, o) /\ Tidy(c) /\ c.mode[i] = k
    <3>1. CASE t = <<>>
      <4>1. Formed(c) /\ NoMore(a, c)
        BY <1>10, <1>12, <3>1, FormedSame DEF Safe
      <4> HIDE DEF c
      <4>2. c.mode = a.mode /\ a.mode[i] = k
        <5>1. Fresh(s, a, i, k)
          BY <1>1, <1>6, InitSafe
        <5> QED
          BY <4>1, <5>1 DEF NoMore, SameCounts, Fresh
      <4> QED
        BY <1>10, <4>1, <4>2, SafeNoMore
    <3>2. CASE \E out \in Adds(<<>>, Dot, i, Room(a)) : t = out.table
      <4>1. \E out \in Adds(<<>>, Dot, i, Room(a)) : c = SetTable(a, i, out.table)
        BY <3>2
      <4> HIDE DEF c
      <4> QED
        BY <1>1, <1>6, <4>1, InitSafe DEF Fresh
    <3> QED
      BY <1>5, <2>1, <3>1, <3>2
  <2>3. m \in AddImages(c, d, n, i)
    BY <2>1
  <2> HIDE DEF c
  <2>4. Within(m, o, IF IsDir(c, i) THEN 2 ELSE 1)
    BY <1>2, <1>10, <1>11, <2>2, <2>3, AddImagesOwe
  <2>5. IsDir(c, i) <=> k = "dir"
    BY <1>10, <2>2 DEF IsDir
  <2> QED
    BY <1>8, <2>4, <2>5
<1> QED
  BY <1>3, <1>13, <1>14, <1>15

LEMMA LinkImagesOwe ==
  ASSUME NEW s, NEW o, Safe(s, o), Tidy(s), NEW from \in Seq(Names),
         NEW to \in Seq(Names), to # <<>>, NEW m \in LinkImages(s, from, to)
  PROVE  Within(m, o, IF IsDir(s, Resolve(s, from)) THEN 2 ELSE 1)
<1> DEFINE i == Resolve(s, from)
           d == Parent(s, to)
           n == Last(to)
<1>1. ~(i < 0) /\ ~(d < 0) /\ m \in AddImages(s, d, n, i)
  BY DEF LinkImages
<1>2. n \in Names /\ Front(to) \in Seq(Names)
  BY PathFacts
<1>3. i \in Inums \cup Errors /\ d \in Inums \cup Errors
  BY <1>2, ResolveAny DEF Parent, Safe, Formed
<1> HIDE DEF i, d, n
<1>4. i \in Inums /\ d \in Inums
  BY <1>1, <1>3, ErrorFacts
<1>5. s \in AnyImages /\ o \in [Inums -> Nat] /\ Within(s, o, 0)
  BY WithinSafe DEF Safe, Formed
<1>6. Within(m, o, IF IsDir(s, i) THEN 2 ELSE 1)
  BY <1>1, <1>2, <1>4, <1>5, AddImagesOwe
<1> QED
  BY <1>6 DEF i

LEMMA UnlinkImagesOwe ==
  ASSUME NEW s, NEW o, Safe(s, o), Tidy(s), NEW p \in Seq(Names), p # <<>>,
         NEW m \in UnlinkImages(s, p)
  PROVE  Within(m, o, 0)
<1> DEFINE i == Resolve(s, p)
           d == Parent(s, p)
           n == Last(p)
           t == s.table[d]
           marked == SetTable(s, d, MarkUnused(t, n))
           u == marked.table[i]
           apart == SetTable(marked, i, MarkUnused(u, DotDot))
           out == RemoveEntry(s, d, n)
           counted == AddRef(out.fs, i, -1)
<1>1. s \in AnyImages /\ Formed(s) /\ o \in [Inums -> Nat] /\ Within(s, o, 0)
  BY WithinSafe DEF Safe, Formed
<1>2. ~(i < 0) /\ RemoveStop(t, n) \in Live(t)
  BY DEF UnlinkImages
<1>3. \/ m = marked
      \/ RemoveStop(u, DotDot) \in Live(u) /\ m = apart
      \/ out.rv = "ok" /\ m = out.fs
      \/ out.rv = "ok" /\ m = counted
  BY <1>2 DEF UnlinkImages
<1>4. n \in Names /\ i \in Inums /\ There(s, d, n, i) /\ i # ROOT_INUM
  <2>1. n \in Names /\ i \in Inums \cup Errors
        /\ (i \in Inums => There(s, d, n, i) /\ SlotsOf(s, i) # {})
    BY <1>1, LastAny
  <2> HIDE DEF i
  <2>2. i \in Inums
    BY <1>2, <2>1, ErrorFacts
  <2> QED
    BY <2>1, <2>2 DEF Tidy
<1>5. Formed(marked) /\ NoMore(s, marked)
  <2>1. t = s.table[d] /\ marked = SetTable(s, d, MarkUnused(t, n))
    OBVIOUS
  <2> HIDE DEF t, marked, i, d, n
  <2>2. Formed(marked) /\ OneLess(s, marked, i)
    BY <1>1, <1>2, <1>4, <2>1, MarkEntryAny
  <2> QED
    BY <2>2, NoMoreThen
<1>6. out = RemoveEntry(s, d, n)
  OBVIOUS
<1> HIDE DEF i, d, n, t, out, marked
<1>7. ASSUME RemoveStop(u, DotDot) \in Live(u) PROVE NoMore(s, apart)
  <2>1. u \in AnyTables
    BY <1>4, <1>5, AnyImageFacts DEF Formed
  <2> DEFINE v == MarkUnused(u, DotDot)
             j == RemoveStop(u, DotDot)
  <2>2. v \in AnyTables /\ \A l : Uses(v, l) = Uses(u, l) \ {j}
    BY <1>7, <2>1, MarkAny
  <2> HIDE DEF v, j
  <2>3. GainsNothing(marked.table[i], v)
    BY <2>2 DEF GainsNothing
  <2>4. NoMore(marked, SetTable(marked, i, v))
    BY <1>4, <1>5, <2>2, <2>3, NoMoreTable
  <2>5. NoMore(s, SetTable(marked, i, v))
    BY <1>5, <2>4, NoMoreThen
  <2> QED
    BY <2>5 DEF v
<1>8. out.rv = "ok" => Formed(out.fs) /\ OneLess(s, out.fs, i) /\ NoMore(s, out.fs)
  <2>1. out.rv = "ok" => Formed(out.fs) /\ OneLess(s, out.fs, i)
    BY <1>1, <1>4, <1>6, RemoveEntryAny
  <2> QED
    BY <2>1, NoMoreThen
<1>9. \A x : NoMore(s, x) => Within(x, o, 0)
  BY <1>1, WithinNoMore
<1>10. out.rv = "ok" => Within(counted, o, 0)
  BY <1>1, <1>4, <1>8, WithinOneLess DEF Formed
<1> QED
  BY <1>3, <1>5, <1>7, <1>8, <1>9, <1>10

LEMMA RenameImagesOwe ==
  ASSUME NEW s, NEW o, Safe(s, o), Calm(s), NEW from \in Seq(Names), from # <<>>,
         NEW to \in Seq(Names), to # <<>>, IsDir(s, Parent(s, to)),
         NEW m \in RenameImages(s, from, to)
  PROVE  Within(m, o, IF IsDir(s, Resolve(s, from)) THEN 2 ELSE 1)
<1> DEFINE most == IF IsDir(s, Resolve(s, from)) THEN 2 ELSE 1
<1>1. \/ m \in LinkImages(s, from, to)
      \/ \E linked \in LinkOutcomes(s, from, to) :
           m = linked.fs \/ m \in UnlinkImages(linked.fs, from)
  BY DEF RenameImages
<1>2. CASE m \in LinkImages(s, from, to)
  BY <1>2, LinkImagesOwe DEF Calm
<1>3. CASE \E linked \in LinkOutcomes(s, from, to) :
             m = linked.fs \/ m \in UnlinkImages(linked.fs, from)
  <2>1. PICK linked \in LinkOutcomes(s, from, to) :
             m = linked.fs \/ m \in UnlinkImages(linked.fs, from)
    BY <1>3
  <2>2. Safe(linked.fs, o) /\ Tidy(linked.fs)
    BY LinkSafe
  <2>3. Within(m, o, 0)
    BY <2>1, <2>2, UnlinkImagesOwe, WithinSafe
  <2>4. most \in Nat /\ 0 <= most /\ 0 \in Nat /\ o \in [Inums -> Nat]
    BY DEF Safe
  <2> HIDE DEF most
  <2>5. Within(m, o, most)
    BY <2>3, <2>4, WithinMore
  <2> QED
    BY <2>5 DEF most
<1> QED
  BY <1>1, <1>2, <1>3

LEMMA SafeOwesLittle ==
  ASSUME Safe(fs, owed)
  PROVE  CrashOwesLittle
<1> SUFFICES ASSUME Followed PROVE CrashOwesLittle
  BY DEF CrashOwesLittle
<1>1. Calm(fs) /\ Tidy(fs) /\ Formed(fs) /\ owed \in [Inums -> Nat]
  BY FollowedCalm DEF Calm, Safe
<1>2. Paths \subseteq Seq(Names)
  BY PathsAreNames
<1>3. \A n, m : n \in Nat /\ Formed(m) /\ Within(m, owed, n) => Sum(Owes(m)) <= Sum(owed) + n
  BY <1>1, WithinOwes DEF Formed
<1>4. 0 \in Nat /\ 1 \in Nat /\ 2 \in Nat
  OBVIOUS
<1>5. ASSUME NEW p \in Paths, p # <<>>
      PROVE  AtMost(UnlinkImages(fs, p) \cup RmdirImages(fs, p), 0)
  <2> SUFFICES ASSUME NEW m \in UnlinkImages(fs, p) \cup RmdirImages(fs, p)
               PROVE  Sum(Owes(m)) <= Sum(owed) + 0
    BY DEF AtMost
  <2>1. m \in UnlinkImages(fs, p)
    BY DEF RmdirImages
  <2>2. Formed(m) /\ Within(m, owed, 0)
    BY <1>1, <1>2, <1>5, <2>1, UnlinkImagesFormed, UnlinkImagesOwe
  <2> QED
    BY <1>3, <1>4, <2>2
<1>6. ASSUME NEW p \in Paths, ParentIsDir(p)
      PROVE  AtMost(MknodImages(fs, p, "file"), 1) /\ AtMost(MknodImages(fs, p, "dir"), 2)
  <2>1. ASSUME NEW k \in {"file", "dir"}, NEW m \in MknodImages(fs, p, k)
        PROVE  Formed(m) /\ Within(m, owed, IF k = "dir" THEN 2 ELSE 1)
    BY <1>1, <1>2, <1>6, <2>1, MknodImagesFormed, MknodImagesOwe DEF ParentIsDir
  <2>2. AtMost(MknodImages(fs, p, "file"), 1)
    <3> SUFFICES ASSUME NEW m \in MknodImages(fs, p, "file")
                 PROVE  Sum(Owes(m)) <= Sum(owed) + 1
      BY DEF AtMost
    <3>1. "file" \in {"file", "dir"} /\ "file" # "dir"
      OBVIOUS
    <3>2. Formed(m) /\ Within(m, owed, 1)
      BY <2>1, <3>1
    <3> QED
      BY <1>3, <1>4, <3>2
  <2>3. AtMost(MknodImages(fs, p, "dir"), 2)
    <3> SUFFICES ASSUME NEW m \in MknodImages(fs, p, "dir")
                 PROVE  Sum(Owes(m)) <= Sum(owed) + 2
      BY DEF AtMost
    <3>1. "dir" \in {"file", "dir"}
      OBVIOUS
    <3>2. Formed(m) /\ Within(m, owed, 2)
      BY <2>1, <3>1
    <3> QED
      BY <1>3, <1>4, <3>2
  <2> QED
    BY <2>2, <2>3
<1>7. ASSUME NEW from \in Paths, NEW to \in Paths, MayRename(from, to)
      PROVE  AtMost(RenameImages(fs, from, to), IF NotDir(from) THEN 1 ELSE 2)
  <2>1. from # <<>> /\ to # <<>> /\ IsDir(fs, Parent(fs, to))
    BY <1>7 DEF MayRename, ParentIsDir
  <2>2. NotDir(from) <=> ~IsDir(fs, Resolve(fs, from))
    BY <2>1 DEF NotDir
  <2> DEFINE most == IF NotDir(from) THEN 1 ELSE 2
  <2>3. most \in Nat
    OBVIOUS
  <2>4. ASSUME NEW m \in RenameImages(fs, from, to)
        PROVE  Formed(m) /\ Within(m, owed, most)
    <3>1. Formed(m) /\ Within(m, owed, IF IsDir(fs, Resolve(fs, from)) THEN 2 ELSE 1)
      BY <1>1, <1>2, <2>1, <2>4, RenameImagesFormed, RenameImagesOwe
    <3> QED
      BY <2>2, <3>1
  <2> HIDE DEF most
  <2>5. AtMost(RenameImages(fs, from, to), most)
    BY <1>3, <2>3, <2>4 DEF AtMost
  <2> QED
    BY <2>5 DEF most
<1> QED
  BY <1>5, <1>6, <1>7 DEF CrashOwesLittle

(* A daemon killed while it removes an entry leaves no name uncounted, one *)
(* killed while a file gets a name at most one, and while a directory gets *)
(* one at most two.                                                        *)
THEOREM CrashesOweLittle == CrashSpec => []CrashOwesLittle
<1>1. Safe(fs, owed) => CrashOwesLittle
  BY SafeOwesLittle
<1> QED
  BY <1>1, ImagesStaySafe, PTL

=============================================================================
