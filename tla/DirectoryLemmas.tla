-------------------------- MODULE DirectoryLemmas --------------------------
(***************************************************************************)
(* What the algorithms of directory.c do to a table, whatever the names    *)
(* and the size of the table: the lemmas the proofs about one directory    *)
(* (DirectoryProofs) and about the whole tree (StorageProofs) share.       *)
(***************************************************************************)
EXTENDS Directory, WellFoundedInduction, SequenceTheorems, TLAPS

(***************************************************************************)
(* Searches: First and Max.                                                *)
(***************************************************************************)

LEMMA LessWellFounded == IsWellFoundedOn({s \in Nat \X Nat : s[1] < s[2]}, Nat)
  BY NatLessThanWellFounded DEF OpToRel

LEMMA MinFacts ==
  ASSUME NEW S, S \subseteq Nat, S # {}
  PROVE  Min(S) \in S /\ \A y \in S : Min(S) <= y
<1> DEFINE R == {s \in Nat \X Nat : s[1] < s[2]}
<1>1. IsWellFoundedOn(R, Nat)
  BY LessWellFounded
<1>2. \E x \in S : \A y \in S : ~ (<<y, x>> \in R)
  <2> HIDE DEF R
  <2> QED
    BY <1>1, WFMin
<1>3. PICK x \in S : \A y \in S : ~ (<<y, x>> \in R)
  BY <1>2
<1>4. \A y \in S : x <= y
  <2> SUFFICES ASSUME NEW y \in S PROVE x <= y
    OBVIOUS
  <2>1. x \in Nat /\ y \in Nat /\ <<y, x>> \notin R
    BY <1>3
  <2>2. y < x => <<y, x>> \in R
    BY <2>1
  <2> QED
    BY <2>1, <2>2
<1> QED
  BY <1>4 DEF Min

LEMMA MaxFacts ==
  ASSUME NEW n \in Nat, NEW S, S \subseteq 0 .. n, S # {}
  PROVE  Max(S) \in S /\ \A y \in S : y <= Max(S)
<1> DEFINE T == {n - x : x \in S}
<1>1. T \subseteq Nat /\ T # {}
  <2>1. \A x \in S : n - x \in Nat
    OBVIOUS
  <2> QED
    BY <2>1
<1>2. Min(T) \in T /\ \A y \in T : Min(T) <= y
  <2> HIDE DEF T
  <2> QED
    BY <1>1, MinFacts
<1>3. PICK x \in S : Min(T) = n - x
  BY <1>2
<1>4. \A y \in S : y <= x
  <2> SUFFICES ASSUME NEW y \in S PROVE y <= x
    OBVIOUS
  <2>1. Min(T) <= n - y
    BY <1>2
  <2>2. x \in Nat /\ y \in Nat
    OBVIOUS
  <2> HIDE DEF T
  <2> QED
    BY <2>1, <2>2, <1>3
<1> QED
  BY <1>4 DEF Max

(* A search that starts at entry 1 finds the first entry that fits.        *)
LEMMA FirstFacts ==
  ASSUME NEW d, Len(d) \in Nat, DOMAIN d = 1 .. Len(d), NEW S, S \subseteq DOMAIN d
  PROVE  /\ First(S) = 0 <=> S = {}
         /\ S # {} => First(S) \in S /\ \A k \in S : First(S) <= k
  BY MinFacts DEF First

(***************************************************************************)
(* Tables.                                                                 *)
(***************************************************************************)
EntryType == [name : EntryNames, inum : Nat \cup {Unused}]
Tables == Seq(EntryType)

Unique(d) == \A j, k \in Live(d) : d[j].name = d[k].name => j = k

Unhidden(d) == \A j \in Holes(d), k \in Live(d) : d[j].name = d[k].name => k < j

(* The ".." a directory was made with follows its "." at once, and no other *)
(* stays: the strengthening that makes renaming the directory harmless.     *)
DotsFirst(d) ==
  \A k \in Live(d) : d[k].name = DotDot =>
    \A j \in 1 .. k - 1 : j \in Live(d) /\ d[j].name = Dot

Pruned(d) == d # <<>> => Len(d) \in Live(d)

Sound(d) == Unique(d) /\ Unhidden(d) /\ DotsFirst(d)

LEMMA EntryFacts ==
  ASSUME NEW e \in EntryType
  PROVE  /\ e.name \in EntryNames
         /\ e.inum \in Int
         /\ e.inum >= 0 <=> e.inum \in Nat
         /\ e.inum < 0 <=> e.inum = Unused
         /\ \A n \in EntryNames : [e EXCEPT !.name = n] = Entry(n, e.inum)
         /\ \A i : [e EXCEPT !.inum = i] = Entry(e.name, i)
<1>1. e.name \in EntryNames /\ e.inum \in Nat \cup {Unused}
  BY DEF EntryType
<1>2. e.inum \in Int /\ (e.inum >= 0 <=> e.inum \in Nat) /\ (e.inum < 0 <=> e.inum = Unused)
  BY <1>1 DEF Unused
<1>3. /\ \A n \in EntryNames : [e EXCEPT !.name = n] = Entry(n, e.inum)
      /\ \A i : [e EXCEPT !.inum = i] = Entry(e.name, i)
  BY DEF EntryType, Entry
<1> QED
  BY <1>1, <1>2, <1>3

LEMMA NewEntry ==
  ASSUME NEW n \in EntryNames, NEW i \in Nat \cup {Unused}
  PROVE  /\ Entry(n, i) \in EntryType
         /\ Entry(n, i).name = n
         /\ Entry(n, i).inum = i
  BY DEF Entry, EntryType

LEMMA TableFacts ==
  ASSUME NEW d \in Tables
  PROVE  /\ Len(d) \in Nat
         /\ DOMAIN d = 1 .. Len(d)
         /\ \A k \in 1 .. Len(d) : d[k] \in EntryType
         /\ Live(d) \subseteq 1 .. Len(d)
         /\ Holes(d) = (1 .. Len(d)) \ Live(d)
         /\ \A n : Named(d, n) \subseteq 1 .. Len(d)
<1>1. Len(d) \in Nat /\ DOMAIN d = 1 .. Len(d)
  BY LenProperties DEF Tables
<1>2. \A k \in 1 .. Len(d) : d[k] \in EntryType
  BY ElementOfSeq DEF Tables
<1>3. \A k \in 1 .. Len(d) : d[k].inum \in Int
  BY <1>2, EntryFacts
<1>4. Holes(d) = (1 .. Len(d)) \ Live(d)
  BY <1>1, <1>3 DEF Holes, Live
<1> QED
  BY <1>1, <1>2, <1>4 DEF Live, Named

LEMMA UseFacts ==
  ASSUME NEW d \in Tables, NEW k \in 1 .. Len(d)
  PROVE  /\ k \in Live(d) <=> d[k].inum \in Nat
         /\ k \in Holes(d) <=> d[k].inum = Unused
<1>1. k \in DOMAIN d /\ d[k] \in EntryType
  BY TableFacts
<1> QED
  BY <1>1, EntryFacts DEF Live, Holes

(* What is known of a table once one of its entries is replaced.           *)
LEMMA ReplaceFacts ==
  ASSUME NEW d \in Tables, NEW k \in 1 .. Len(d), NEW e \in EntryType
  PROVE  /\ [d EXCEPT ![k] = e] \in Tables
         /\ Len([d EXCEPT ![k] = e]) = Len(d)
         /\ \A j \in 1 .. Len(d) : [d EXCEPT ![k] = e][j] = IF j = k THEN e ELSE d[j]
  BY ExceptSeq DEF Tables

LEMMA AppendFacts ==
  ASSUME NEW d \in Tables, NEW e \in EntryType
  PROVE  /\ Append(d, e) \in Tables
         /\ Len(Append(d, e)) = Len(d) + 1
         /\ \A j \in 1 .. Len(d) : Append(d, e)[j] = d[j]
         /\ Append(d, e)[Len(d) + 1] = e
  BY AppendProperties, TableFacts DEF Tables

LEMMA CutFacts ==
  ASSUME NEW d \in Tables, NEW m \in 0 .. Len(d)
  PROVE  /\ SubSeq(d, 1, m) \in Tables
         /\ Len(SubSeq(d, 1, m)) = m
         /\ \A j \in 1 .. m : SubSeq(d, 1, m)[j] = d[j]
<1>1. Len(d) \in Nat /\ m \in Int /\ \A j \in 1 .. m : d[j] \in EntryType
  BY TableFacts
<1>2. /\ SubSeq(d, 1, m) \in Seq(EntryType)
      /\ Len(SubSeq(d, 1, m)) = IF 1 <= m THEN m - 1 + 1 ELSE 0
      /\ \A j \in 1 .. m - 1 + 1 : SubSeq(d, 1, m)[j] = d[1 + j - 1]
  BY <1>1, SubSeqProperties
<1> QED
  BY <1>1, <1>2 DEF Tables

(* A lookup finds an entry exactly when one is in use.                     *)
LEMMA LookupFacts ==
  ASSUME NEW d \in Tables, NEW n
  PROVE  /\ LookupEntryNum(d, n) = 0 <=> TooLong(n) \/ Live(d) \cap Named(d, n) = {}
         /\ LookupEntryNum(d, n) # 0 => LookupEntryNum(d, n) \in Live(d) \cap Named(d, n)
<1>1. Live(d) \cap Named(d, n) \subseteq DOMAIN d /\ Len(d) \in Nat /\ DOMAIN d = 1 .. Len(d)
  BY TableFacts
<1> QED
  BY <1>1, FirstFacts DEF LookupEntryNum

(***************************************************************************)
(* directory_prune.                                                        *)
(***************************************************************************)

(* Cutting off the holes at the end keeps what the table is, and leaves an *)
(* entry in use at the end.                                                *)
LEMMA PruneSound ==
  ASSUME NEW d \in Tables, Sound(d)
  PROVE  Prune(d) \in Tables /\ Sound(Prune(d)) /\ Pruned(Prune(d))
<1> DEFINE m == Max(Live(d) \cup {0})
           e == SubSeq(d, 1, m)
<1>0. Prune(d) = e
  BY DEF Prune
<1>1. /\ Len(d) \in Nat /\ DOMAIN d = 1 .. Len(d)
      /\ Live(d) \cup {0} \subseteq 0 .. Len(d) /\ Live(d) \cup {0} # {}
  BY TableFacts
<1>2. m \in Live(d) \cup {0}
  BY <1>1, MaxFacts
<1>3. m \in 0 .. Len(d)
  BY <1>1, <1>2
<1> HIDE DEF m
<1>4. /\ e \in Tables /\ Len(e) = m
      /\ \A k \in 1 .. m : e[k] = d[k]
  BY <1>3, CutFacts
<1> HIDE DEF e
<1>5. /\ Live(e) = Live(d) \cap (1 .. m)
      /\ Holes(e) = Holes(d) \cap (1 .. m)
  BY <1>4, <1>3, <1>1, TableFacts DEF Live, Holes
<1>6. Unique(e) /\ Unhidden(e)
  BY <1>4, <1>5 DEF Sound, Unique, Unhidden
<1>7. DotsFirst(e)
  BY <1>3, <1>4, <1>5 DEF Sound, DotsFirst
<1>8. Pruned(e)
  <2>1. CASE m = 0
    BY <2>1, <1>4 DEF Pruned, Tables
  <2>2. CASE m # 0
    BY <2>2, <1>2, <1>3, <1>4, <1>5 DEF Pruned
  <2> QED
    BY <2>1, <2>2
<1> QED
  BY <1>0, <1>4, <1>6, <1>7, <1>8 DEF Sound

(***************************************************************************)
(* directory_add_entry.                                                    *)
(***************************************************************************)

(* The operator that replaces one field replaces the entry.                *)
LEMMA NameField ==
  ASSUME NEW d \in Tables, NEW k \in 1 .. Len(d), NEW n \in EntryNames
  PROVE  [d EXCEPT ![k].name = n] = [d EXCEPT ![k] = Entry(n, d[k].inum)]
<1>1. d[k] \in EntryType
  BY TableFacts
<1>2. [d[k] EXCEPT !.name = n] = Entry(n, d[k].inum)
  BY <1>1, EntryFacts
<1>3. [d EXCEPT ![k].name = n] = [d EXCEPT ![k] = [d[k] EXCEPT !.name = n]]
  OBVIOUS
<1> QED
  BY <1>2, <1>3

(* Renaming an entry to a name that no other entry in use has gives it     *)
(* that name, even if it had the name before.                              *)
LEMMA RenameIs ==
  ASSUME NEW d \in Tables, NEW k \in Live(d), NEW n \in EntryNames,
         \A j \in Live(d) : d[j].name = n => j = k
  PROVE  RenameEntry(d, k, n) = [d EXCEPT ![k] = Entry(n, d[k].inum)]
<1>1. k \in 1 .. Len(d) /\ d[k] \in EntryType /\ DOMAIN d = 1 .. Len(d)
  BY TableFacts
<1>2. ~TooLong(n)
  BY NamesAssumption DEF EntryNames, TooLong, Dot, DotDot
<1>3. CASE LookupEntryNum(d, n) = 0
  <2>1. RenameEntry(d, k, n) = [d EXCEPT ![k].name = n]
    BY <1>3 DEF RenameEntry
  <2>2. [d EXCEPT ![k].name = n] = [d EXCEPT ![k] = Entry(n, d[k].inum)]
    BY <1>1, NameField
  <2> QED
    BY <2>1, <2>2
<1>4. CASE LookupEntryNum(d, n) # 0
  <2>1. LookupEntryNum(d, n) \in Live(d) \cap Named(d, n)
    BY <1>4, LookupFacts
  <2>2. d[k].name = n
    BY <2>1 DEF Named
  <2>3. d[k] = Entry(n, d[k].inum)
    BY <1>1, <2>2 DEF Entry, EntryType
  <2>4. [d EXCEPT ![k] = d[k]] = d
    <3>1. d \in [1 .. Len(d) -> EntryType]
      BY LenProperties DEF Tables
    <3> QED
      BY <3>1, <1>1
  <2> QED
    BY <1>4, <2>3, <2>4 DEF RenameEntry
<1> QED
  BY <1>3, <1>4

LEMMA ReuseIs ==
  ASSUME NEW d \in Tables, NEW n \in EntryNames, NEW i \in Nat, NEW k \in Holes(d),
         k = AddStop(d, n),
         Live(d) \cap Named(d, n) = {}
  PROVE  Reuse(d, n, i) = [d EXCEPT ![k] = Entry(n, i)]
<1> DEFINE e == [d EXCEPT ![k] = Entry(d[k].name, i)]
<1>1. k \in 1 .. Len(d) /\ d[k] \in EntryType
  BY TableFacts
<1>2. Entry(d[k].name, i) \in EntryType
  BY <1>1, EntryFacts, NewEntry
<1>3. [d EXCEPT ![k].inum = i] = e
  <2>1. [d EXCEPT ![k].inum = i] = [d EXCEPT ![k] = [d[k] EXCEPT !.inum = i]]
    OBVIOUS
  <2>2. [d[k] EXCEPT !.inum = i] = Entry(d[k].name, i)
    BY <1>1, EntryFacts
  <2> QED
    BY <2>1, <2>2
<1>4. /\ e \in Tables /\ Len(e) = Len(d)
      /\ \A j \in 1 .. Len(d) : e[j] = IF j = k THEN Entry(d[k].name, i) ELSE d[j]
  BY <1>1, <1>2, ReplaceFacts
<1>5. e[k].inum = i
  BY <1>1, <1>4 DEF Entry
<1>6. [e EXCEPT ![k] = Entry(n, i)] = [d EXCEPT ![k] = Entry(n, i)]
  OBVIOUS
<1> HIDE DEF e
<1>7. k \in Live(e)
  BY <1>1, <1>4, <1>5, UseFacts
<1>8. \A j \in Live(e) : e[j].name = n => j = k
  <2> SUFFICES ASSUME NEW j \in Live(e), e[j].name = n, j # k
               PROVE  FALSE
    OBVIOUS
  <2>1. j \in 1 .. Len(d) /\ e[j] = d[j]
    BY <1>4, TableFacts
  <2>2. j \in Live(d)
    BY <2>1, <1>4, UseFacts
  <2>3. j \in Named(d, n)
    BY <2>1, TableFacts DEF Named
  <2> QED
    BY <2>2, <2>3
<1>9. RenameEntry(e, k, n) = [e EXCEPT ![k] = Entry(n, i)]
  BY <1>4, <1>5, <1>7, <1>8, RenameIs
<1> QED
  BY <1>3, <1>6, <1>9 DEF Reuse

(* The stale name a new entry comes with does not matter.                  *)
LEMMA ExtendIs ==
  ASSUME NEW d \in Tables, NEW n \in EntryNames, NEW i \in Nat, NEW stale \in EntryNames,
         Live(d) \cap Named(d, n) = {}
  PROVE  Extend(d, n, i, stale) = Append(d, Entry(n, i))
<1> DEFINE k == Len(d) + 1
           e == Append(d, Entry(stale, i))
           f == Append(d, Entry(n, i))
<1>1. Entry(stale, i) \in EntryType /\ Entry(n, i) \in EntryType
  BY NewEntry
<1>2. /\ e \in Tables /\ Len(e) = k /\ e[k] = Entry(stale, i)
      /\ \A j \in 1 .. Len(d) : e[j] = d[j]
  BY <1>1, AppendFacts
<1>3. /\ f \in Tables /\ Len(f) = k /\ f[k] = Entry(n, i)
      /\ \A j \in 1 .. Len(d) : f[j] = d[j]
  BY <1>1, AppendFacts
<1>4. Len(d) \in Nat /\ k \in 1 .. Len(e) /\ e[k].inum = i
  BY <1>2, TableFacts DEF Entry
<1>5. Extend(d, n, i, stale) = RenameEntry(e, k, n)
  BY DEF Extend
<1> HIDE DEF e, f
<1>6. k \in Live(e)
  BY <1>2, <1>4, UseFacts
<1>7. \A j \in Live(e) : e[j].name = n => j = k
  <2> SUFFICES ASSUME NEW j \in Live(e), e[j].name = n, j # k
               PROVE  FALSE
    OBVIOUS
  <2>0. j \in 1 .. Len(e)
    BY <1>2, TableFacts
  <2>1. j \in 1 .. Len(d) /\ e[j] = d[j]
    BY <2>0, <1>2, <1>4
  <2>2. j \in Live(d)
    BY <2>0, <2>1, <1>2, UseFacts
  <2>3. j \in Named(d, n)
    BY <2>1, TableFacts DEF Named
  <2> QED
    BY <2>2, <2>3
<1>8. RenameEntry(e, k, n) = [e EXCEPT ![k] = Entry(n, i)]
  <2> HIDE DEF k
  <2> QED
    BY <1>2, <1>4, <1>6, <1>7, RenameIs
<1>9. [e EXCEPT ![k] = Entry(n, i)] = f
  <2> DEFINE g == [e EXCEPT ![k] = Entry(n, i)]
  <2>1. /\ g \in Tables /\ Len(g) = k
        /\ \A j \in 1 .. k : g[j] = IF j = k THEN Entry(n, i) ELSE e[j]
    <3> HIDE DEF k
    <3>1. e \in Tables /\ k \in 1 .. Len(e) /\ Entry(n, i) \in EntryType
      BY <1>1, <1>2, <1>4
    <3>2. /\ g \in Tables /\ Len(g) = Len(e)
          /\ \A j \in 1 .. Len(e) : g[j] = IF j = k THEN Entry(n, i) ELSE e[j]
      BY <3>1, ReplaceFacts
    <3> QED
      BY <3>2, <1>2
  <2> HIDE DEF g
  <2>2. \A j \in 1 .. k : g[j] = f[j]
    BY <2>1, <1>2, <1>3, <1>4
  <2>3. g = f
    BY <2>1, <2>2, <1>3, SeqEqual DEF Tables
  <2> QED
    BY <2>3 DEF g
<1> QED
  BY <1>5, <1>8, <1>9 DEF f

(* The entry an add stops at has the name, is unused, or does not exist.   *)
LEMMA AddStopFacts ==
  ASSUME NEW d \in Tables, NEW n
  PROVE  /\ AddStop(d, n) = 0 <=> Named(d, n) \cup Holes(d) = {}
         /\ AddStop(d, n) # 0 => /\ AddStop(d, n) \in Named(d, n) \cup Holes(d)
                                /\ \A j \in Named(d, n) \cup Holes(d) : AddStop(d, n) <= j
<1>1. /\ Len(d) \in Nat /\ DOMAIN d = 1 .. Len(d)
      /\ Named(d, n) \cup Holes(d) \subseteq DOMAIN d
  BY TableFacts
<1> QED
  BY <1>1, FirstFacts DEF AddStop

LEMMA ReuseSound ==
  ASSUME NEW d \in Tables, Unique(d), Unhidden(d), DotsFirst(d),
         NEW n \in EntryNames, NEW i \in Nat, NEW k \in Holes(d), k = AddStop(d, n),
         Live(d) \cap Named(d, n) = {}
  PROVE  /\ Reuse(d, n, i) \in Tables
         /\ Unique(Reuse(d, n, i)) /\ Unhidden(Reuse(d, n, i))
         /\ n # DotDot => DotsFirst(Reuse(d, n, i))
         /\ Pruned(d) => Pruned(Reuse(d, n, i))
<1> DEFINE e == [d EXCEPT ![k] = Entry(n, i)]
<1>1. Reuse(d, n, i) = e
  BY ReuseIs
<1>2. /\ Len(d) \in Nat /\ k \in 1 .. Len(d) /\ k \notin Live(d)
      /\ Live(d) \subseteq 1 .. Len(d) /\ Holes(d) = (1 .. Len(d)) \ Live(d)
  BY TableFacts
<1>3. Entry(n, i) \in EntryType /\ Entry(n, i).name = n /\ Entry(n, i).inum = i
  BY NewEntry
<1>4. /\ e \in Tables /\ Len(e) = Len(d)
      /\ \A j \in 1 .. Len(d) : e[j] = IF j = k THEN Entry(n, i) ELSE d[j]
  BY <1>2, <1>3, ReplaceFacts
<1>5. k # 0 /\ \A j \in Named(d, n) \cup Holes(d) : k <= j
  BY <1>2, AddStopFacts
<1>6. \A j \in Live(d) : d[j].name # n
  <2> SUFFICES ASSUME NEW j \in Live(d), d[j].name = n PROVE FALSE
    OBVIOUS
  <2>1. j \in DOMAIN d
    BY DEF Live
  <2> QED
    BY <2>1 DEF Named
<1>7. \A j \in Holes(d) : d[j].name = n => k <= j
  BY <1>5
<1> HIDE DEF e
<1>8. /\ Live(e) = Live(d) \cup {k}
      /\ Holes(e) = Holes(d) \ {k}
  <2>1. /\ Live(e) \subseteq 1 .. Len(d) /\ Holes(e) = (1 .. Len(d)) \ Live(e)
    BY <1>4, TableFacts
  <2>2. \A j \in 1 .. Len(d) : j \in Live(e) <=> e[j].inum \in Nat
    BY <1>4, UseFacts
  <2>3. \A j \in 1 .. Len(d) : j \in Live(d) <=> d[j].inum \in Nat
    BY UseFacts
  <2>4. \A j \in 1 .. Len(d) : j \in Live(e) <=> j \in Live(d) \/ j = k
    BY <1>2, <1>3, <1>4, <2>2, <2>3
  <2> QED
    BY <1>2, <2>1, <2>4
<1>9. /\ e[k].name = n
      /\ \A j \in Live(d) : j \in 1 .. Len(d) /\ j # k /\ e[j] = d[j]
      /\ \A j \in Holes(e) : j \in 1 .. Len(d) /\ j # k /\ e[j] = d[j]
  BY <1>2, <1>3, <1>4, <1>8
<1>10. Unique(e)
  BY <1>6, <1>8, <1>9 DEF Unique
<1>11. Unhidden(e)
  <2> SUFFICES ASSUME NEW j \in Holes(e), NEW l \in Live(e), e[j].name = e[l].name
               PROVE  l < j
    BY DEF Unhidden
  <2>1. j \in Holes(d) /\ j # k /\ d[j].name = e[l].name /\ j \in Int /\ k \in Int
    BY <1>2, <1>8, <1>9
  <2>2. CASE l = k
    <3>1. k <= j
      BY <1>7, <1>9, <2>1, <2>2
    <3> QED
      BY <2>1, <2>2, <3>1
  <2>3. CASE l \in Live(d)
    BY <1>9, <2>1, <2>3 DEF Unhidden
  <2> QED
    BY <1>8, <2>2, <2>3
<1>12. n # DotDot => DotsFirst(e)
  <2> SUFFICES ASSUME n # DotDot, NEW l \in Live(e), e[l].name = DotDot, NEW j \in 1 .. l - 1
               PROVE  j \in Live(e) /\ e[j].name = Dot
    BY DEF DotsFirst
  <2>1. l \in Live(d) /\ d[l].name = DotDot
    BY <1>8, <1>9
  <2>2. j \in Live(d) /\ d[j].name = Dot
    BY <2>1 DEF DotsFirst
  <2> QED
    BY <2>2, <1>8, <1>9
<1>13. Pruned(d) => Pruned(e)
  <2>1. d # <<>>
    BY <1>2, EmptySeq
  <2> QED
    BY <2>1, <1>4, <1>8 DEF Pruned
<1> QED
  BY <1>1, <1>4, <1>10, <1>11, <1>12, <1>13

LEMMA AppendSound ==
  ASSUME NEW d \in Tables, Unique(d), Unhidden(d), DotsFirst(d),
         NEW n \in EntryNames, NEW i \in Nat, AddStop(d, n) = 0
  PROVE  /\ Append(d, Entry(n, i)) \in Tables
         /\ Unique(Append(d, Entry(n, i))) /\ Unhidden(Append(d, Entry(n, i)))
         /\ n # DotDot => DotsFirst(Append(d, Entry(n, i)))
         /\ Pruned(Append(d, Entry(n, i)))
<1> DEFINE e == Append(d, Entry(n, i))
           k == Len(d) + 1
<1>1. /\ Len(d) \in Nat /\ DOMAIN d = 1 .. Len(d)
      /\ Live(d) \subseteq 1 .. Len(d) /\ Holes(d) = (1 .. Len(d)) \ Live(d)
  BY TableFacts
<1>2. Named(d, n) = {} /\ Holes(d) = {} /\ Live(d) = 1 .. Len(d)
  BY <1>1, AddStopFacts
<1>3. Entry(n, i) \in EntryType /\ Entry(n, i).name = n /\ Entry(n, i).inum = i
  BY NewEntry
<1>4. /\ e \in Tables /\ Len(e) = k /\ e[k] = Entry(n, i)
      /\ \A j \in 1 .. Len(d) : e[j] = d[j]
  BY <1>3, AppendFacts
<1>5. \A j \in 1 .. Len(d) : d[j].name # n
  BY <1>1, <1>2 DEF Named
<1> HIDE DEF e
<1>6. Live(e) = 1 .. k /\ Holes(e) = {}
  <2>1. /\ Live(e) \subseteq 1 .. k /\ Holes(e) = (1 .. k) \ Live(e)
    BY <1>4, TableFacts
  <2>2. \A j \in 1 .. k : j \in Live(e) <=> e[j].inum \in Nat
    BY <1>4, UseFacts
  <2>3. \A j \in 1 .. Len(d) : d[j].inum \in Nat
    BY <1>2, UseFacts
  <2>4. \A j \in 1 .. k : j = k \/ j \in 1 .. Len(d)
    BY <1>1
  <2>5. 1 .. k \subseteq Live(e)
    BY <1>3, <1>4, <2>2, <2>3, <2>4
  <2> QED
    BY <2>1, <2>5
<1>7. k \in Live(e) /\ \A j \in Live(e) : j = k \/ j \in 1 .. Len(d)
  BY <1>1, <1>6
<1>8. Unique(e)
  BY <1>2, <1>3, <1>4, <1>5, <1>7 DEF Unique
<1>9. Unhidden(e)
  BY <1>6 DEF Unhidden
<1>10. n # DotDot => DotsFirst(e)
  <2> SUFFICES ASSUME n # DotDot, NEW l \in Live(e), e[l].name = DotDot, NEW j \in 1 .. l - 1
               PROVE  j \in Live(e) /\ e[j].name = Dot
    BY DEF DotsFirst
  <2>1. l \in 1 .. Len(d) /\ d[l].name = DotDot
    BY <1>3, <1>4, <1>7
  <2>2. j \in Live(d) /\ d[j].name = Dot
    BY <1>2, <2>1 DEF DotsFirst
  <2> QED
    BY <1>1, <1>2, <1>4, <1>6, <2>2
<1>11. Pruned(e)
  BY <1>4, <1>7 DEF Pruned
<1> QED
  BY <1>4, <1>8, <1>9, <1>10, <1>11 DEF e

(* The outcomes of an add: refused, a hole reused, or an entry appended.   *)
LEMMA AddsAre ==
  ASSUME NEW d \in Tables, NEW n, NEW i, NEW room \in BOOLEAN, NEW out \in Adds(d, n, i, room)
  PROVE  \/ \E v \in {"ENAMETOOLONG", "EEXIST", "ENOSPC"} : out = Outcome(v, d)
         \/ /\ ~TooLong(n) /\ AddStop(d, n) \in Holes(d) \ Named(d, n)
            /\ out = Outcome("ok", Reuse(d, n, i))
         \/ /\ ~TooLong(n) /\ AddStop(d, n) = 0 /\ (NeedsBlock(d) => room)
            /\ \E stale \in EntryNames : out = Outcome("ok", Extend(d, n, i, stale))
<1> DEFINE stop == AddStop(d, n)
<1>1. CASE TooLong(n)
  <2>1. Adds(d, n, i, room) = {Outcome("ENAMETOOLONG", d)}
    BY <1>1 DEF Adds
  <2> QED
    BY <2>1
<1>2. CASE ~TooLong(n) /\ stop \in Named(d, n)
  <2>1. Adds(d, n, i, room) = {Outcome("EEXIST", d)}
    <3>1. stop \notin Holes(d) \ Named(d, n) /\ stop # 0
      BY <1>2, TableFacts
    <3> QED
      BY <1>2, <3>1 DEF Adds
  <2> QED
    BY <2>1
<1>3. CASE ~TooLong(n) /\ stop \in Holes(d) \ Named(d, n)
  <2>1. Adds(d, n, i, room) = {Outcome("ok", Reuse(d, n, i))}
    <3>1. stop # 0
      BY <1>3, TableFacts
    <3> QED
      BY <1>3, <3>1 DEF Adds
  <2> QED
    BY <1>3, <2>1
<1>4. CASE ~TooLong(n) /\ stop = 0
  <2>0. stop \notin Named(d, n) /\ stop \notin Holes(d)
    BY <1>4, TableFacts
  <2>1. CASE NeedsBlock(d) /\ ~room
    <3>1. Adds(d, n, i, room) = {Outcome("ENOSPC", d)}
      BY <1>4, <2>0, <2>1 DEF Adds
    <3> QED
      BY <3>1
  <2>2. CASE NeedsBlock(d) => room
    <3>1. Adds(d, n, i, room) = {Outcome("ok", Extend(d, n, i, stale)) : stale \in EntryNames}
      BY <1>4, <2>0, <2>2 DEF Adds
    <3> QED
      BY <1>4, <2>2, <3>1
  <2> QED
    BY <2>1, <2>2
<1> QED
  BY <1>1, <1>2, <1>3, <1>4, AddStopFacts

LEMMA AddSound ==
  ASSUME NEW d \in Tables, Sound(d), Pruned(d),
         NEW n \in Names \cup {Dot, DotDot}, NEW i \in Nat, NEW room \in BOOLEAN,
         AddStop(d, n) \in Named(d, n) \/ Live(d) \cap Named(d, n) = {},
         NEW out \in Adds(d, n, i, room)
  PROVE  /\ out.table \in Tables
         /\ Unique(out.table) /\ Unhidden(out.table) /\ Pruned(out.table)
         /\ n # DotDot => DotsFirst(out.table)
         /\ out.rv \in {"ok", "EEXIST", "ENOSPC", "ENAMETOOLONG"}
<1>0. /\ Unique(d) /\ Unhidden(d) /\ DotsFirst(d)
      /\ ~TooLong(n) => n \in EntryNames
  BY DEF Sound, EntryNames, TooLong
<1>1. CASE \E v \in {"ENAMETOOLONG", "EEXIST", "ENOSPC"} : out = Outcome(v, d)
  <2>1. out.table = d /\ out.rv \in {"ENAMETOOLONG", "EEXIST", "ENOSPC"}
    BY <1>1 DEF Outcome
  <2> QED
    BY <1>0, <2>1
<1>2. CASE ~TooLong(n) /\ AddStop(d, n) \in Holes(d) \ Named(d, n) /\ out = Outcome("ok", Reuse(d, n, i))
  <2>1. out.table = Reuse(d, n, i) /\ out.rv = "ok"
    BY <1>2 DEF Outcome
  <2>2. Live(d) \cap Named(d, n) = {}
    BY <1>2
  <2> QED
    BY <1>0, <1>2, <2>1, <2>2, ReuseSound
<1>3. CASE ~TooLong(n) /\ AddStop(d, n) = 0 /\ \E stale \in EntryNames : out = Outcome("ok", Extend(d, n, i, stale))
  <2>1. PICK stale \in EntryNames : out = Outcome("ok", Extend(d, n, i, stale))
    BY <1>3
  <2>2. Named(d, n) = {}
    BY <1>3, AddStopFacts
  <2>3. Extend(d, n, i, stale) = Append(d, Entry(n, i))
    BY <1>0, <1>3, <2>2, ExtendIs
  <2>4. out.table = Append(d, Entry(n, i)) /\ out.rv = "ok"
    BY <2>1, <2>3 DEF Outcome
  <2> QED
    BY <1>0, <1>3, <2>4, AppendSound
<1> QED
  BY <1>1, <1>2, <1>3, AddsAre

(* An add makes the table longer by one entry at most, and then there is   *)
(* room for the block that entry may need.                                 *)
LEMMA AddGrows ==
  ASSUME NEW d \in Tables, NEW n \in Names \cup {Dot, DotDot}, NEW i \in Nat, NEW room \in BOOLEAN,
         AddStop(d, n) \in Named(d, n) \/ Live(d) \cap Named(d, n) = {},
         NEW out \in Adds(d, n, i, room)
  PROVE  \/ Len(out.table) = Len(d)
         \/ Len(out.table) = Len(d) + 1 /\ (NeedsBlock(d) => room)
<1>0. ~TooLong(n) => n \in EntryNames
  BY DEF EntryNames, TooLong
<1>1. CASE \E v \in {"ENAMETOOLONG", "EEXIST", "ENOSPC"} : out = Outcome(v, d)
  BY <1>1 DEF Outcome
<1>2. CASE ~TooLong(n) /\ AddStop(d, n) \in Holes(d) \ Named(d, n) /\ out = Outcome("ok", Reuse(d, n, i))
  <2> DEFINE k == AddStop(d, n)
             e == [d EXCEPT ![k] = Entry(n, i)]
  <2>1. out.table = Reuse(d, n, i)
    BY <1>2 DEF Outcome
  <2>2. Reuse(d, n, i) = e
    BY <1>0, <1>2, ReuseIs
  <2>3. Entry(n, i) \in EntryType /\ k \in 1 .. Len(d)
    BY <1>0, <1>2, NewEntry, TableFacts
  <2> HIDE DEF k
  <2>4. Len(e) = Len(d)
    BY <2>3, ReplaceFacts
  <2> QED
    BY <2>1, <2>2, <2>4
<1>3. CASE /\ ~TooLong(n) /\ AddStop(d, n) = 0 /\ (NeedsBlock(d) => room)
           /\ \E stale \in EntryNames : out = Outcome("ok", Extend(d, n, i, stale))
  <2>1. PICK stale \in EntryNames : out = Outcome("ok", Extend(d, n, i, stale))
    BY <1>3
  <2>2. Named(d, n) = {}
    BY <1>3, AddStopFacts
  <2>3. Extend(d, n, i, stale) = Append(d, Entry(n, i))
    BY <1>0, <1>3, <2>2, ExtendIs
  <2>4. out.table = Append(d, Entry(n, i))
    BY <2>1, <2>3 DEF Outcome
  <2>5. Entry(n, i) \in EntryType
    BY <1>0, <1>3, NewEntry
  <2> QED
    BY <1>3, <2>4, <2>5, AppendFacts
<1> QED
  BY <1>1, <1>2, <1>3, AddsAre

(* In a table without a hole, an add appends: a ".." that comes after "."  *)
(* alone is where DotsFirst wants it.                                      *)
LEMMA AddWithoutHoles ==
  ASSUME NEW d \in Tables, Holes(d) = {},
         NEW n \in Names \cup {Dot, DotDot}, NEW i \in Nat, NEW room \in BOOLEAN,
         NEW out \in Adds(d, n, i, room)
  PROVE  /\ Holes(out.table) = {}
         /\ (n = DotDot /\ \A k \in Live(d) : d[k].name = Dot) => DotsFirst(out.table)
<1>0. ~TooLong(n) => n \in EntryNames
  BY DEF EntryNames, TooLong
<1>1. CASE out.table = d
  <2>1. (n = DotDot /\ \A k \in Live(d) : d[k].name = Dot) => DotsFirst(d)
    BY DEF DotsFirst, Dot, DotDot
  <2> QED
    BY <1>1, <2>1
<1>2. CASE /\ ~TooLong(n) /\ AddStop(d, n) = 0
           /\ \E stale \in EntryNames : out = Outcome("ok", Extend(d, n, i, stale))
  <2> DEFINE m == Len(d) + 1
             e == Append(d, Entry(n, i))
  <2>1. PICK stale \in EntryNames : out = Outcome("ok", Extend(d, n, i, stale))
    BY <1>2
  <2>2. Named(d, n) = {}
    BY <1>2, AddStopFacts
  <2>3. Extend(d, n, i, stale) = e
    BY <1>0, <1>2, <2>2, ExtendIs
  <2>4. out.table = e
    BY <2>1, <2>3 DEF Outcome
  <2>5. Entry(n, i) \in EntryType /\ Entry(n, i).name = n /\ Entry(n, i).inum = i
    BY <1>0, <1>2, NewEntry
  <2>6. Len(d) \in Nat /\ Live(d) = 1 .. Len(d)
    BY TableFacts
  <2>7. /\ e \in Tables /\ Len(e) = m /\ e[m] = Entry(n, i)
        /\ \A j \in 1 .. Len(d) : e[j] = d[j]
    BY <2>5, AppendFacts
  <2> HIDE DEF e
  <2>8. \A j \in 1 .. m : j = m \/ j \in 1 .. Len(d)
    BY <2>6
  <2>9. \A j \in 1 .. m : e[j].inum \in Nat
    BY <2>5, <2>6, <2>7, <2>8, UseFacts
  <2>10. Live(e) = 1 .. m /\ Holes(e) = {}
    BY <2>7, <2>9, TableFacts, UseFacts
  <2>11. ASSUME n = DotDot, \A k \in Live(d) : d[k].name = Dot PROVE DotsFirst(e)
    <3>1. \A j \in 1 .. Len(d) : e[j].name = Dot
      BY <2>6, <2>7, <2>11
    <3>2. \A k \in Live(e) : e[k].name = DotDot => k = m
      BY <2>8, <2>10, <3>1 DEF Dot, DotDot
    <3>3. \A j \in 1 .. m - 1 : j \in Live(e) /\ e[j].name = Dot
      BY <2>6, <2>10, <3>1
    <3> QED
      BY <3>2, <3>3 DEF DotsFirst
  <2> QED
    BY <2>4, <2>10, <2>11
<1>3. \A v : Outcome(v, d).table = d
  BY DEF Outcome
<1> QED
  BY <1>1, <1>2, <1>3, AddsAre

(***************************************************************************)
(* directory_remove_entry.                                                 *)
(***************************************************************************)

(* The search of a removal takes the entry in use, if there is one.        *)
LEMMA RemoveStopFacts ==
  ASSUME NEW d \in Tables, Unique(d), Unhidden(d), NEW n
  PROVE  /\ RemoveStop(d, n) = 0 \/ RemoveStop(d, n) \in Named(d, n)
         /\ \A k \in Live(d) : d[k].name = n => RemoveStop(d, n) = k
<1>1. /\ Len(d) \in Nat /\ DOMAIN d = 1 .. Len(d) /\ Named(d, n) \subseteq DOMAIN d
      /\ Live(d) \subseteq 1 .. Len(d) /\ Holes(d) = (1 .. Len(d)) \ Live(d)
  BY TableFacts
<1>2. /\ RemoveStop(d, n) = 0 <=> Named(d, n) = {}
      /\ Named(d, n) # {} => /\ RemoveStop(d, n) \in Named(d, n)
                            /\ \A k \in Named(d, n) : RemoveStop(d, n) <= k
  BY <1>1, FirstFacts DEF RemoveStop
<1>3. ASSUME NEW k \in Live(d), d[k].name = n
      PROVE  RemoveStop(d, n) = k
  <2>1. k \in Named(d, n) /\ k \in Nat
    BY <1>1, <1>3 DEF Named
  <2>2. PICK r \in Named(d, n) : r = RemoveStop(d, n) /\ r <= k
    BY <1>2, <2>1
  <2>3. r \in 1 .. Len(d) /\ d[r].name = n
    BY <1>1 DEF Named
  <2>4. CASE r \in Live(d)
    BY <1>3, <2>2, <2>3, <2>4 DEF Unique
  <2>5. CASE r \in Holes(d)
    <3>1. k < r
      BY <1>3, <2>3, <2>5 DEF Unhidden
    <3> QED
      BY <2>1, <2>2, <2>3, <3>1
  <2> QED
    BY <1>1, <2>3, <2>4, <2>5
<1> QED
  BY <1>2, <1>3

LEMMA MarkSound ==
  ASSUME NEW d \in Tables, Unique(d), Unhidden(d), NEW k \in Live(d),
         d[k].name = DotDot \/ (DotsFirst(d) /\ d[k].name # Dot)
  PROVE  /\ [d EXCEPT ![k].inum = Unused] \in Tables
         /\ Sound([d EXCEPT ![k].inum = Unused])
<1> DEFINE e == [d EXCEPT ![k] = Entry(d[k].name, Unused)]
<1>1. /\ Len(d) \in Nat /\ k \in 1 .. Len(d) /\ d[k] \in EntryType
      /\ Live(d) \subseteq 1 .. Len(d) /\ Holes(d) = (1 .. Len(d)) \ Live(d)
  BY TableFacts
<1>2. [d EXCEPT ![k].inum = Unused] = e
  <2>1. [d EXCEPT ![k].inum = Unused] = [d EXCEPT ![k] = [d[k] EXCEPT !.inum = Unused]]
    OBVIOUS
  <2>2. [d[k] EXCEPT !.inum = Unused] = Entry(d[k].name, Unused)
    BY <1>1, EntryFacts
  <2> QED
    BY <2>1, <2>2
<1>3. /\ Entry(d[k].name, Unused) \in EntryType
      /\ Entry(d[k].name, Unused).name = d[k].name
      /\ Entry(d[k].name, Unused).inum = Unused
  BY <1>1, EntryFacts, NewEntry
<1>4. /\ e \in Tables /\ Len(e) = Len(d)
      /\ \A j \in 1 .. Len(d) : e[j] = IF j = k THEN Entry(d[k].name, Unused) ELSE d[j]
  BY <1>1, <1>3, ReplaceFacts
<1> HIDE DEF e
<1>5. \A j \in 1 .. Len(d) : e[j].name = d[j].name
  BY <1>3, <1>4
<1>6. /\ Live(e) = Live(d) \ {k}
      /\ Holes(e) = Holes(d) \cup {k}
  <2>1. /\ Live(e) \subseteq 1 .. Len(d) /\ Holes(e) = (1 .. Len(d)) \ Live(e)
    BY <1>4, TableFacts
  <2>2. \A j \in 1 .. Len(d) : j \in Live(e) <=> e[j].inum \in Nat
    BY <1>4, UseFacts
  <2>3. \A j \in 1 .. Len(d) : j \in Live(d) <=> d[j].inum \in Nat
    BY UseFacts
  <2>4. \A j \in 1 .. Len(d) : j \in Live(e) <=> j \in Live(d) /\ j # k
    BY <1>3, <1>4, <2>2, <2>3 DEF Unused
  <2> QED
    BY <1>1, <2>1, <2>4
<1>7. Unique(e)
  <2> SUFFICES ASSUME NEW j \in Live(e), NEW l \in Live(e), e[j].name = e[l].name
               PROVE  j = l
    BY DEF Unique
  <2>1. j \in Live(d) /\ l \in Live(d) /\ d[j].name = d[l].name
    BY <1>1, <1>5, <1>6
  <2> QED
    BY <2>1 DEF Unique
<1>8. Unhidden(e)
  <2> SUFFICES ASSUME NEW j \in Holes(e), NEW l \in Live(e), e[j].name = e[l].name
               PROVE  l < j
    BY DEF Unhidden
  <2>1. l \in Live(d) /\ l # k /\ (j \in Holes(d) \/ j = k) /\ d[j].name = d[l].name
    BY <1>1, <1>5, <1>6
  <2>2. j # k
    BY <2>1 DEF Unique
  <2> QED
    BY <2>1, <2>2 DEF Unhidden
<1>9. DotsFirst(e)
  <2> SUFFICES ASSUME NEW l \in Live(e), e[l].name = DotDot, NEW j \in 1 .. l - 1
               PROVE  j \in Live(e) /\ e[j].name = Dot
    BY DEF DotsFirst
  <2>1. l \in Live(d) /\ l # k /\ d[l].name = DotDot
    BY <1>1, <1>5, <1>6
  <2>2. DotsFirst(d) /\ d[k].name # Dot
    BY <2>1 DEF Unique
  <2>3. j \in Live(d) /\ d[j].name = Dot
    BY <2>1, <2>2 DEF DotsFirst
  <2>4. j # k
    BY <2>2, <2>3
  <2> QED
    BY <1>1, <1>5, <1>6, <2>3, <2>4
<1> QED
  BY <1>2, <1>4, <1>7, <1>8, <1>9 DEF Sound

LEMMA RemovedSound ==
  ASSUME NEW d \in Tables, Unique(d), Unhidden(d), Pruned(d),
         NEW n, n = DotDot \/ (DotsFirst(d) /\ n # Dot)
  PROVE  /\ Removed(d, n).table \in Tables
         /\ Sound(Removed(d, n).table)
         /\ Removed(d, n).rv \in {"ok", "ENOENT", "abort"}
         /\ Removed(d, n).rv # "abort" => Pruned(Removed(d, n).table)
         /\ \A k \in Live(d) : d[k].name = n => Removed(d, n).rv = "ok"
<1> DEFINE r == RemoveStop(d, n)
<1>1. /\ Len(d) \in Nat /\ DOMAIN d = 1 .. Len(d)
      /\ Live(d) \subseteq 1 .. Len(d) /\ Holes(d) = (1 .. Len(d)) \ Live(d)
      /\ Named(d, n) \subseteq 1 .. Len(d)
  BY TableFacts
<1>2. /\ r = 0 \/ r \in Named(d, n)
      /\ \A k \in Live(d) : d[k].name = n => r = k
  BY RemoveStopFacts
<1>3. r = 0 \/ r \in Holes(d) \/ r \in Live(d)
  BY <1>1, <1>2
<1>4. ASSUME r \notin Live(d) PROVE Sound(d)
  <2>1. \A k \in Live(d) : d[k].name # n
    BY <1>2, <1>4
  <2>2. DotsFirst(d)
    BY <2>1 DEF DotsFirst
  <2> QED
    BY <2>2 DEF Sound
<1>5. CASE r = 0
  <2>1. Removed(d, n) = Outcome("ENOENT", d)
    <3>1. r \notin Holes(d) /\ r \notin Live(d)
      BY <1>1, <1>5
    <3> QED
      BY <1>5, <3>1 DEF Removed
  <2>2. Removed(d, n).table = d /\ Removed(d, n).rv = "ENOENT"
    BY <2>1 DEF Outcome
  <2>3. r \notin Live(d)
    BY <1>1, <1>5
  <2> QED
    BY <1>2, <1>4, <2>2, <2>3
<1>6. CASE r \in Holes(d)
  <2>1. r # 0 /\ r \notin Live(d)
    BY <1>1, <1>6
  <2>2. Removed(d, n) = Outcome("abort", d)
    BY <1>6, <2>1 DEF Removed
  <2>3. Removed(d, n).table = d /\ Removed(d, n).rv = "abort"
    BY <2>2 DEF Outcome
  <2> QED
    BY <1>2, <1>4, <2>1, <2>3
<1>7. CASE r \in Live(d)
  <2>1. r # 0 /\ r \notin Holes(d) /\ r \in Named(d, n)
    BY <1>1, <1>2, <1>7
  <2>2. d[r].name = n
    BY <2>1 DEF Named
  <2>3. Removed(d, n) = Outcome("ok", Prune(MarkUnused(d, n)))
    BY <1>7, <2>1 DEF Removed
  <2>4. Removed(d, n).table = Prune(MarkUnused(d, n)) /\ Removed(d, n).rv = "ok"
    BY <2>3 DEF Outcome
  <2>5. MarkUnused(d, n) \in Tables /\ Sound(MarkUnused(d, n))
    BY <1>7, <2>2, MarkSound DEF MarkUnused
  <2> QED
    BY <2>4, <2>5, PruneSound
<1> QED
  BY <1>3, <1>5, <1>6, <1>7

(* A rename of the directory adds a ".." only where none is in use: in     *)
(* front of the first hole there is nothing but a "..", or the table has   *)
(* none.                                                                   *)
LEMMA DotDotStop ==
  ASSUME NEW d \in Tables, DotsFirst(d)
  PROVE  AddStop(d, DotDot) \in Named(d, DotDot) \/ Live(d) \cap Named(d, DotDot) = {}
<1> SUFFICES ASSUME NEW k \in Live(d), k \in Named(d, DotDot)
             PROVE  AddStop(d, DotDot) \in Named(d, DotDot)
  OBVIOUS
<1>1. /\ Len(d) \in Nat /\ Live(d) \subseteq 1 .. Len(d) /\ Holes(d) = (1 .. Len(d)) \ Live(d)
      /\ k \in 1 .. Len(d) /\ d[k].name = DotDot
  BY TableFacts DEF Named
<1>2. PICK s \in Named(d, DotDot) \cup Holes(d) : s = AddStop(d, DotDot) /\ s <= k
  BY AddStopFacts
<1>3. CASE s = k
  BY <1>2, <1>3
<1>4. CASE s # k
  <2>1. s \in 1 .. Len(d)
    BY <1>1, <1>2, TableFacts
  <2>2. s \in 1 .. k - 1
    BY <1>1, <1>2, <1>4, <2>1
  <2>3. s \in Live(d)
    BY <1>1, <2>2 DEF DotsFirst
  <2> QED
    BY <1>1, <1>2, <2>3
<1> QED
  BY <1>3, <1>4

(***************************************************************************)
(* What a table says: the names in use and what they stand for.  Of the    *)
(* holes and the order of the entries nothing is left.                     *)
(***************************************************************************)
Bound(d) == {<<d[k].name, d[k].inum>> : k \in Live(d)}

LEMMA BoundFacts ==
  ASSUME NEW d \in Tables
  PROVE  /\ Bound(d) \subseteq EntryNames \X Nat
         /\ \A n, i : <<n, i>> \in Bound(d) <=> \E k \in Live(d) : d[k].name = n /\ d[k].inum = i
         /\ Unique(d) => \A n, i, j : <<n, i>> \in Bound(d) /\ <<n, j>> \in Bound(d) => i = j
<1>1. \A k \in Live(d) : d[k].name \in EntryNames /\ d[k].inum \in Nat
  <2> SUFFICES ASSUME NEW k \in Live(d) PROVE d[k].name \in EntryNames /\ d[k].inum \in Nat
    OBVIOUS
  <2>1. k \in 1 .. Len(d) /\ d[k] \in EntryType
    BY TableFacts
  <2> QED
    BY <2>1, UseFacts, EntryFacts
<1>2. \A n, i : <<n, i>> \in Bound(d) <=> \E k \in Live(d) : d[k].name = n /\ d[k].inum = i
  BY DEF Bound
<1>3. Unique(d) => \A n, i, j : <<n, i>> \in Bound(d) /\ <<n, j>> \in Bound(d) => i = j
  BY <1>2 DEF Unique
<1> QED
  BY <1>1, <1>2, <1>3 DEF Bound

(* A name is not bound when no entry in use has it.                        *)
LEMMA UnboundFacts ==
  ASSUME NEW d \in Tables, NEW n
  PROVE  Live(d) \cap Named(d, n) = {} <=> \A i : <<n, i>> \notin Bound(d)
<1>1. \A k \in Live(d) : k \in Named(d, n) <=> d[k].name = n
  BY TableFacts DEF Named, Live
<1>2. \A i : <<n, i>> \in Bound(d) <=> \E k \in Live(d) : d[k].name = n /\ d[k].inum = i
  BY BoundFacts
<1>3. (\A i : <<n, i>> \notin Bound(d)) <=> \A k \in Live(d) : d[k].name # n
  BY <1>2
<1> QED
  BY <1>1, <1>3

(* A lookup finds what a name is bound to.                                 *)
LEMMA LookupBound ==
  ASSUME NEW d \in Tables, Unique(d), NEW n
  PROVE  /\ LookupInum(d, n) \in Nat \cup {Unused}
         /\ TooLong(n) => LookupInum(d, n) = Unused
         /\ ~TooLong(n) => \A i \in Nat : <<n, i>> \in Bound(d) <=> LookupInum(d, n) = i
         /\ LookupInum(d, n) # Unused => <<n, LookupInum(d, n)>> \in Bound(d)
<1> DEFINE k == LookupEntryNum(d, n)
<1>1. /\ k = 0 <=> TooLong(n) \/ Live(d) \cap Named(d, n) = {}
      /\ k # 0 => k \in Live(d) \cap Named(d, n)
  BY LookupFacts
<1>2. CASE k = 0
  <2>1. LookupInum(d, n) = Unused
    BY <1>2 DEF LookupInum
  <2>2. ~TooLong(n) => \A i \in Nat : <<n, i>> \notin Bound(d)
    BY <1>1, <1>2, UnboundFacts
  <2> QED
    BY <2>1, <2>2 DEF Unused
<1>3. CASE k # 0
  <2>1. k \in Live(d) /\ d[k].name = n /\ ~TooLong(n)
    BY <1>1, <1>3 DEF Named
  <2>2. LookupInum(d, n) = d[k].inum
    BY <1>3 DEF LookupInum
  <2>3. <<n, d[k].inum>> \in Bound(d)
    BY <2>1 DEF Bound
  <2> HIDE DEF k
  <2>4. d[k].inum \in Nat
    BY <2>3, BoundFacts
  <2> QED
    BY <2>1, <2>2, <2>3, <2>4, BoundFacts DEF Unused
<1> QED
  BY <1>2, <1>3

LEMMA PruneBinds ==
  ASSUME NEW d \in Tables
  PROVE  Bound(Prune(d)) = Bound(d)
<1> DEFINE m == Max(Live(d) \cup {0})
           e == SubSeq(d, 1, m)
<1>0. Prune(d) = e
  BY DEF Prune
<1>1. /\ Len(d) \in Nat /\ DOMAIN d = 1 .. Len(d) /\ Live(d) \subseteq 1 .. Len(d)
      /\ Live(d) \cup {0} \subseteq 0 .. Len(d) /\ Live(d) \cup {0} # {}
  BY TableFacts
<1>2. m \in Live(d) \cup {0} /\ \A k \in Live(d) \cup {0} : k <= m
  BY <1>1, MaxFacts
<1>3. m \in 0 .. Len(d)
  BY <1>1, <1>2
<1> HIDE DEF m
<1>4. /\ e \in Tables /\ Len(e) = m
      /\ \A k \in 1 .. m : e[k] = d[k]
  BY <1>3, CutFacts
<1> HIDE DEF e
<1>5. Live(e) = Live(d)
  <2>1. Live(d) \subseteq 1 .. m
    BY <1>1, <1>2, <1>3
  <2>2. Live(e) \subseteq 1 .. m
    BY <1>4, TableFacts
  <2>3. \A k \in 1 .. m : k \in Live(e) <=> k \in Live(d)
    BY <1>1, <1>3, <1>4, TableFacts DEF Live
  <2> QED
    BY <2>1, <2>2, <2>3
<1>6. \A k \in Live(d) : e[k] = d[k]
  BY <1>4, <1>5, TableFacts
<1> QED
  BY <1>0, <1>5, <1>6 DEF Bound

LEMMA MarkBinds ==
  ASSUME NEW d \in Tables, Unique(d), NEW k \in Live(d)
  PROVE  /\ [d EXCEPT ![k].inum = Unused] \in Tables
         /\ Bound([d EXCEPT ![k].inum = Unused]) = Bound(d) \ {<<d[k].name, d[k].inum>>}
<1> DEFINE e == [d EXCEPT ![k] = Entry(d[k].name, Unused)]
<1>1. /\ Len(d) \in Nat /\ k \in 1 .. Len(d) /\ d[k] \in EntryType
      /\ Live(d) \subseteq 1 .. Len(d)
  BY TableFacts
<1>2. [d EXCEPT ![k].inum = Unused] = e
  <2>1. [d EXCEPT ![k].inum = Unused] = [d EXCEPT ![k] = [d[k] EXCEPT !.inum = Unused]]
    OBVIOUS
  <2>2. [d[k] EXCEPT !.inum = Unused] = Entry(d[k].name, Unused)
    BY <1>1, EntryFacts
  <2> QED
    BY <2>1, <2>2
<1>3. /\ Entry(d[k].name, Unused) \in EntryType
      /\ Entry(d[k].name, Unused).inum = Unused
  BY <1>1, EntryFacts, NewEntry
<1>4. /\ e \in Tables /\ Len(e) = Len(d)
      /\ \A j \in 1 .. Len(d) : e[j] = IF j = k THEN Entry(d[k].name, Unused) ELSE d[j]
  BY <1>1, <1>3, ReplaceFacts
<1> HIDE DEF e
<1>5. Live(e) = Live(d) \ {k}
  <2>1. Live(e) \subseteq 1 .. Len(d)
    BY <1>4, TableFacts
  <2>2. \A j \in 1 .. Len(d) : (j \in Live(e) <=> e[j].inum \in Nat) /\ (j \in Live(d) <=> d[j].inum \in Nat)
    BY <1>4, UseFacts
  <2>3. k \notin Live(e)
    BY <1>1, <1>3, <1>4, <2>2 DEF Unused
  <2>4. \A j \in 1 .. Len(d) : j # k => (j \in Live(e) <=> j \in Live(d))
    BY <1>4, <2>2
  <2> QED
    BY <1>1, <2>1, <2>3, <2>4
<1>6. \A j \in Live(d) \ {k} : e[j] = d[j] /\ d[j].name # d[k].name
  BY <1>1, <1>4 DEF Unique
<1>7. Bound(e) = {<<d[j].name, d[j].inum>> : j \in Live(d) \ {k}}
  BY <1>5, <1>6 DEF Bound
<1>8. Bound(e) = Bound(d) \ {<<d[k].name, d[k].inum>>}
  BY <1>6, <1>7 DEF Bound
<1> QED
  BY <1>2, <1>4, <1>8

(* An add that succeeds binds the name; one that is refused leaves the     *)
(* table alone.                                                            *)
LEMMA AddBinds ==
  ASSUME NEW d \in Tables, NEW n \in Names \cup {Dot, DotDot}, NEW i \in Nat, NEW room \in BOOLEAN,
         AddStop(d, n) \in Named(d, n) \/ Live(d) \cap Named(d, n) = {},
         NEW out \in Adds(d, n, i, room)
  PROVE  \/ /\ out.rv \in {"ENAMETOOLONG", "EEXIST", "ENOSPC"}
            /\ out.table = d
         \/ /\ out.rv = "ok" /\ n \in EntryNames
            /\ \A j : <<n, j>> \notin Bound(d)
            /\ Bound(out.table) = Bound(d) \cup {<<n, i>>}
<1>0. ~TooLong(n) => n \in EntryNames
  BY DEF EntryNames, TooLong
<1>1. CASE \E v \in {"ENAMETOOLONG", "EEXIST", "ENOSPC"} : out = Outcome(v, d)
  BY <1>1 DEF Outcome
<1>2. CASE ~TooLong(n) /\ AddStop(d, n) \in Holes(d) \ Named(d, n) /\ out = Outcome("ok", Reuse(d, n, i))
  <2> DEFINE k == AddStop(d, n)
             e == [d EXCEPT ![k] = Entry(n, i)]
  <2>1. out.table = Reuse(d, n, i) /\ out.rv = "ok"
    BY <1>2 DEF Outcome
  <2>2. Live(d) \cap Named(d, n) = {}
    BY <1>2
  <2>3. Reuse(d, n, i) = e
    BY <1>0, <1>2, <2>2, ReuseIs
  <2>4. Entry(n, i) \in EntryType /\ Entry(n, i).name = n /\ Entry(n, i).inum = i
    BY <1>0, <1>2, NewEntry
  <2>5. k \in 1 .. Len(d) /\ k \notin Live(d) /\ Live(d) \subseteq 1 .. Len(d)
    BY <1>2, TableFacts
  <2> HIDE DEF k
  <2>6. /\ e \in Tables /\ Len(e) = Len(d)
        /\ \A j \in 1 .. Len(d) : e[j] = IF j = k THEN Entry(n, i) ELSE d[j]
    BY <2>4, <2>5, ReplaceFacts
  <2> HIDE DEF e
  <2>7. Live(e) = Live(d) \cup {k}
    <3>1. Live(e) \subseteq 1 .. Len(d)
      BY <2>6, TableFacts
    <3>2. \A j \in 1 .. Len(d) : (j \in Live(e) <=> e[j].inum \in Nat) /\ (j \in Live(d) <=> d[j].inum \in Nat)
      BY <2>6, UseFacts
    <3>3. k \in Live(e)
      BY <2>4, <2>5, <2>6, <3>2
    <3>4. \A j \in 1 .. Len(d) : j # k => (j \in Live(e) <=> j \in Live(d))
      BY <2>6, <3>2
    <3> QED
      BY <2>5, <3>1, <3>3, <3>4
  <2>8. e[k].name = n /\ e[k].inum = i /\ \A j \in Live(d) : e[j] = d[j]
    BY <2>4, <2>5, <2>6
  <2>9. Bound(e) = Bound(d) \cup {<<n, i>>}
    BY <2>7, <2>8 DEF Bound
  <2> QED
    BY <1>0, <1>2, <2>1, <2>2, <2>3, <2>9, UnboundFacts
<1>3. CASE ~TooLong(n) /\ AddStop(d, n) = 0 /\ \E stale \in EntryNames : out = Outcome("ok", Extend(d, n, i, stale))
  <2> DEFINE k == Len(d) + 1
             e == Append(d, Entry(n, i))
  <2>1. PICK stale \in EntryNames : out = Outcome("ok", Extend(d, n, i, stale))
    BY <1>3
  <2>2. Named(d, n) = {}
    BY <1>3, AddStopFacts
  <2>3. Extend(d, n, i, stale) = e
    BY <1>0, <1>3, <2>2, ExtendIs
  <2>4. out.table = e /\ out.rv = "ok"
    BY <2>1, <2>3 DEF Outcome
  <2>5. Entry(n, i) \in EntryType /\ Entry(n, i).name = n /\ Entry(n, i).inum = i
    BY <1>0, <1>3, NewEntry
  <2>6. Len(d) \in Nat /\ Live(d) \subseteq 1 .. Len(d)
    BY TableFacts
  <2>7. /\ e \in Tables /\ Len(e) = k /\ e[k] = Entry(n, i)
        /\ \A j \in 1 .. Len(d) : e[j] = d[j]
    BY <2>5, AppendFacts
  <2> HIDE DEF e
  <2>8. Live(e) = Live(d) \cup {k}
    <3>1. Live(e) \subseteq 1 .. k
      BY <2>7, TableFacts
    <3>2. \A j \in 1 .. k : j \in Live(e) <=> e[j].inum \in Nat
      BY <2>7, UseFacts
    <3>3. \A j \in 1 .. Len(d) : j \in Live(d) <=> d[j].inum \in Nat
      BY UseFacts
    <3>4. k \in Live(e) /\ \A j \in 1 .. k : j = k \/ j \in 1 .. Len(d)
      BY <2>5, <2>6, <2>7, <3>2
    <3>5. \A j \in 1 .. Len(d) : j \in Live(e) <=> j \in Live(d)
      BY <2>6, <2>7, <3>2, <3>3
    <3> QED
      BY <2>6, <3>1, <3>4, <3>5
  <2>9. e[k].name = n /\ e[k].inum = i /\ \A j \in Live(d) : e[j] = d[j]
    BY <2>5, <2>6, <2>7
  <2>10. Bound(e) = Bound(d) \cup {<<n, i>>}
    BY <2>8, <2>9 DEF Bound
  <2> QED
    BY <1>0, <1>3, <2>2, <2>4, <2>10, UnboundFacts
<1> QED
  BY <1>1, <1>2, <1>3, AddsAre

(* A removal that succeeds unbinds the name; any other finds it unbound    *)
(* and leaves the table alone.                                             *)
LEMMA RemovedBinds ==
  ASSUME NEW d \in Tables, Unique(d), Unhidden(d), NEW n
  PROVE  \/ /\ Removed(d, n).rv \in {"ENOENT", "abort"}
            /\ Removed(d, n).table = d
            /\ \A j : <<n, j>> \notin Bound(d)
         \/ /\ Removed(d, n).rv = "ok"
            /\ RemoveStop(d, n) \in Live(d)
            /\ \E i \in Nat : /\ <<n, i>> \in Bound(d)
                              /\ Bound(Removed(d, n).table) = Bound(d) \ {<<n, i>>}
<1> DEFINE r == RemoveStop(d, n)
<1>1. /\ r = 0 \/ r \in Named(d, n)
      /\ \A k \in Live(d) : d[k].name = n => r = k
  BY RemoveStopFacts
<1>2. /\ Len(d) \in Nat /\ Named(d, n) \subseteq 1 .. Len(d)
      /\ Live(d) \subseteq 1 .. Len(d) /\ Holes(d) = (1 .. Len(d)) \ Live(d)
  BY TableFacts
<1>3. CASE r \in Live(d)
  <2>1. r # 0 /\ r \notin Holes(d) /\ r \in Named(d, n)
    BY <1>1, <1>2, <1>3
  <2>2. d[r].name = n
    BY <2>1 DEF Named
  <2>3. Removed(d, n) = Outcome("ok", Prune(MarkUnused(d, n)))
    BY <1>3, <2>1 DEF Removed
  <2>4. MarkUnused(d, n) = [d EXCEPT ![r].inum = Unused]
    BY DEF MarkUnused
  <2> HIDE DEF r
  <2>5. MarkUnused(d, n) \in Tables /\ Bound(MarkUnused(d, n)) = Bound(d) \ {<<n, d[r].inum>>}
    <3>1. [d EXCEPT ![r].inum = Unused] \in Tables
      BY <1>3, MarkBinds
    <3>2. Bound([d EXCEPT ![r].inum = Unused]) = Bound(d) \ {<<d[r].name, d[r].inum>>}
      BY <1>3, MarkBinds
    <3> QED
      BY <2>2, <2>4, <3>1, <3>2, Zenon
  <2>6. <<n, d[r].inum>> \in Bound(d) /\ d[r].inum \in Nat
    BY <1>3, <2>2, BoundFacts
  <2>7. Removed(d, n).rv = "ok" /\ Removed(d, n).table = Prune(MarkUnused(d, n))
    BY <2>3 DEF Outcome
  <2> QED
    BY <1>3, <2>5, <2>6, <2>7, PruneBinds DEF r
<1>4. CASE r \notin Live(d)
  <2>1. \A k \in Live(d) : d[k].name # n
    BY <1>1, <1>4
  <2>2. \A j : <<n, j>> \notin Bound(d)
    BY <2>1, BoundFacts
  <2>3. \/ r = 0 /\ Removed(d, n) = Outcome("ENOENT", d)
        \/ r # 0 /\ r \in Holes(d) /\ Removed(d, n) = Outcome("abort", d)
    BY <1>1, <1>2, <1>4 DEF Removed
  <2>4. Removed(d, n).rv \in {"ENOENT", "abort"} /\ Removed(d, n).table = d
    BY <2>3 DEF Outcome
  <2> QED
    BY <2>2, <2>4
<1> QED
  BY <1>3, <1>4

(* A table whose names stand for members of I is a sequence of entries     *)
(* with members of I.                                                      *)
LEMMA TablesOver ==
  ASSUME NEW I \in SUBSET Nat, NEW d
  PROVE  d \in Seq([name : EntryNames, inum : I \cup {Unused}])
           <=> d \in Tables /\ \A n, i : <<n, i>> \in Bound(d) => i \in I
<1> DEFINE T == [name : EntryNames, inum : I \cup {Unused}]
<1>1. ASSUME d \in Seq(T) PROVE d \in Tables /\ \A n, i : <<n, i>> \in Bound(d) => i \in I
  <2>1. Len(d) \in Nat /\ \A k \in 1 .. Len(d) : d[k] \in T
    BY <1>1, LenProperties, ElementOfSeq
  <2>2. T \subseteq EntryType
    BY DEF EntryType
  <2>3. d \in Tables
    <3> HIDE DEF T
    <3> QED
      BY <1>1, <2>1, <2>2 DEF Tables
  <2>4. ASSUME NEW k \in Live(d) PROVE d[k].inum \in I
    <3>1. k \in 1 .. Len(d) /\ d[k].inum \in Nat
      BY <2>3, TableFacts, UseFacts
    <3> QED
      BY <2>1, <3>1 DEF Unused
  <2> QED
    BY <2>3, <2>4 DEF Bound
<1>2. ASSUME d \in Tables, \A n, i : <<n, i>> \in Bound(d) => i \in I PROVE d \in Seq(T)
  <2>1. Len(d) \in Nat /\ DOMAIN d = 1 .. Len(d) /\ \A k \in 1 .. Len(d) : d[k] \in EntryType
    BY <1>2, TableFacts
  <2>2. ASSUME NEW k \in 1 .. Len(d) PROVE d[k] \in T
    <3>1. CASE k \in Live(d)
      <4>1. d[k].inum \in I
        BY <1>2, <3>1 DEF Bound
      <4> QED
        BY <2>1, <4>1 DEF EntryType
    <3>2. CASE k \notin Live(d)
      <4>1. d[k].inum = Unused
        BY <1>2, <2>1, <3>2, UseFacts DEF EntryType
      <4> QED
        BY <2>1, <4>1 DEF EntryType
    <3> QED
      BY <3>1, <3>2
  <2>3. d = [k \in 1 .. Len(d) |-> d[k]]
    BY <1>2, LenProperties DEF Tables
  <2> HIDE DEF T
  <2>4. [k \in 1 .. Len(d) |-> d[k]] \in Seq(T)
    BY <2>1, <2>2, IsASeq
  <2> QED
    BY <2>3, <2>4
<1> QED
  BY <1>1, <1>2

(***************************************************************************)
(* What a removal does where it finds the entry in use, and how long the   *)
(* table is then.                                                          *)
(***************************************************************************)
LEMMA RemovedIs ==
  ASSUME NEW d \in Tables, NEW n, RemoveStop(d, n) \in Live(d)
  PROVE  Removed(d, n) = Outcome("ok", Prune(MarkUnused(d, n)))
<1>1. RemoveStop(d, n) # 0 /\ RemoveStop(d, n) \notin Holes(d)
  BY TableFacts
<1> QED
  BY <1>1 DEF Removed

LEMMA MarkKeepsLength ==
  ASSUME NEW d \in Tables, NEW n, RemoveStop(d, n) \in Live(d)
  PROVE  MarkUnused(d, n) \in Tables /\ Len(MarkUnused(d, n)) = Len(d)
<1> DEFINE k == RemoveStop(d, n)
<1>1. k \in 1 .. Len(d) /\ d[k] \in EntryType
  BY TableFacts
<1> HIDE DEF k
<1>2. [d[k] EXCEPT !.inum = Unused] = Entry(d[k].name, Unused) /\ Entry(d[k].name, Unused) \in EntryType
  BY <1>1, EntryFacts, NewEntry
<1>3. [d EXCEPT ![k].inum = Unused] = [d EXCEPT ![k] = Entry(d[k].name, Unused)]
  BY <1>1, <1>2, TableFacts
<1> QED
  BY <1>1, <1>2, <1>3, ReplaceFacts DEF MarkUnused, k

LEMMA PruneShortens ==
  ASSUME NEW d \in Tables
  PROVE  Prune(d) \in Tables /\ Len(Prune(d)) <= Len(d)
<1> DEFINE m == Max(Live(d) \cup {0})
<1>1. Len(d) \in Nat /\ Live(d) \cup {0} \subseteq 0 .. Len(d) /\ Live(d) \cup {0} # {}
  BY TableFacts
<1>2. m \in 0 .. Len(d)
  BY <1>1, MaxFacts
<1>3. Prune(d) = SubSeq(d, 1, m)
  BY DEF Prune
<1> HIDE DEF m
<1> QED
  BY <1>1, <1>2, <1>3, CutFacts

LEMMA RemovedShortens ==
  ASSUME NEW d \in Tables, NEW n, Unique(d), Unhidden(d)
  PROVE  Len(Removed(d, n).table) <= Len(d)
<1>1. CASE RemoveStop(d, n) \in Live(d)
  <2>1. Removed(d, n).table = Prune(MarkUnused(d, n))
    BY <1>1, RemovedIs DEF Outcome
  <2> QED
    BY <1>1, <2>1, MarkKeepsLength, PruneShortens
<1>2. CASE RemoveStop(d, n) \notin Live(d)
  <2>1. Removed(d, n).table = d
    BY <1>2, RemovedBinds
  <2> QED
    BY <2>1, TableFacts
<1> QED
  BY <1>1, <1>2

(***************************************************************************)
(* directory_list.                                                         *)
(***************************************************************************)
LEMMA UpToLength ==
  ASSUME NEW N \in Nat, NEW S, 0 \in S, \A n \in 0 .. N - 1 : n \in S => n + 1 \in S
  PROVE  0 .. N \subseteq S
<1> DEFINE T == (0 .. N) \ S
<1> SUFFICES ASSUME T # {} PROVE FALSE
  OBVIOUS
<1>1. PICK n \in T : \A m \in T : n <= m
  <2> HIDE DEF T
  <2>1. T \subseteq Nat
    BY DEF T
  <2> QED
    BY <2>1, MinFacts
<1>2. n \in Nat /\ n <= N /\ n # 0
  OBVIOUS
<1>3. n - 1 \in 0 .. N - 1 /\ n - 1 \in 0 .. N /\ (n - 1) + 1 = n /\ ~ (n <= n - 1)
  BY <1>2
<1> QED
  BY <1>1, <1>3

\* one turn of the loop, and the lists its turns give
ListBody(d, k, h) ==
  IF k = 0 THEN <<>>
  ELSE IF d[Len(d) + 1 - k].inum >= 0 THEN <<d[Len(d) + 1 - k].name>> \o h[k - 1]
  ELSE h[k - 1]
ListFcn(d) ==
  CHOOSE h : h = [k \in 0 .. Len(d) |->
                    IF k = 0 THEN <<>>
                    ELSE IF d[Len(d) + 1 - k].inum >= 0 THEN <<d[Len(d) + 1 - k].name>> \o h[k - 1]
                    ELSE h[k - 1]]

LEMMA ListIs == \A d : List(d) = ListFcn(d)[Len(d)]
  BY DEF List, ListFcn

LEMMA ListFcnExists ==
  ASSUME NEW d, Len(d) \in Nat
  PROVE  \E h : h = [k \in 0 .. Len(d) |-> ListBody(d, k, h)]
<1> DEFINE Solves(m, h) == h = [k \in 0 .. m |-> ListBody(d, k, h)]
           S == {m \in 0 .. Len(d) : \E h : Solves(m, h)}
<1>1. 0 \in S
  <2> DEFINE h == [k \in 0 .. 0 |-> <<>>]
  <2>1. h = [k \in 0 .. 0 |-> ListBody(d, k, h)]
    <3>1. \A k \in 0 .. 0 : ListBody(d, k, h) = <<>>
      BY DEF ListBody
    <3> QED
      BY <3>1
  <2>2. Solves(0, h) /\ 0 \in 0 .. Len(d)
    BY <2>1
  <2> HIDE DEF Solves, h
  <2> QED
    BY <2>2
<1>2. ASSUME NEW m \in 0 .. Len(d) - 1, m \in S PROVE m + 1 \in S
  <2>1. PICK g : Solves(m, g)
    BY <1>2
  <2> DEFINE h == [k \in 0 .. m + 1 |-> IF k = m + 1 THEN ListBody(d, m + 1, g) ELSE g[k]]
             e == [k \in 0 .. m + 1 |-> ListBody(d, k, h)]
  <2>2. ASSUME NEW k \in 0 .. m + 1 PROVE h[k] = e[k]
    <3>1. k # 0 => k - 1 \in 0 .. m /\ h[k - 1] = g[k - 1]
      OBVIOUS
    <3>2. ListBody(d, k, h) = ListBody(d, k, g)
      BY <3>1 DEF ListBody
    <3>3. h[k] = ListBody(d, k, g)
      <4>1. CASE k = m + 1
        BY <4>1
      <4>2. CASE k # m + 1
        <5>1. k \in 0 .. m
          BY <4>2
        <5> QED
          BY <4>2, <5>1, <2>1
      <4> QED
        BY <4>1, <4>2
    <3> QED
      BY <3>2, <3>3
  <2>3. h = e
    BY <2>2
  <2>4. Solves(m + 1, h) /\ m + 1 \in 0 .. Len(d)
    BY <2>3
  <2> HIDE DEF Solves, h
  <2> QED
    BY <2>4
<1>3. Len(d) \in S
  <2>1. Len(d) \in 0 .. Len(d)
    OBVIOUS
  <2> HIDE DEF S
  <2>2. 0 .. Len(d) \subseteq S
    BY <1>1, <1>2, UpToLength
  <2> QED
    BY <2>1, <2>2
<1> QED
  BY <1>3

\* a list of the names entries k + 1 .. Len(d) are in use with
Lists(d, k, l) ==
  /\ l \in Seq(EntryNames)
  /\ \A j \in 1 .. Len(l) : \E e \in Live(d) : e > k /\ l[j] = d[e].name
  /\ \A e \in Live(d) : e > k => \E j \in 1 .. Len(l) : l[j] = d[e].name
  /\ \A i, j \in 1 .. Len(l) : l[i] = l[j] => i = j

LEMMA ConsFacts ==
  ASSUME NEW x \in EntryNames, NEW l \in Seq(EntryNames)
  PROVE  /\ <<x>> \o l \in Seq(EntryNames) /\ Len(<<x>> \o l) = Len(l) + 1 /\ Len(l) \in Nat
         /\ (<<x>> \o l)[1] = x
         /\ \A j \in 1 .. Len(l) : (<<x>> \o l)[j + 1] = l[j]
  OBVIOUS

LEMMA ListMore ==
  ASSUME NEW d \in Tables, Unique(d), NEW k \in 1 .. Len(d), NEW l, Lists(d, k, l)
  PROVE  Lists(d, k - 1, IF d[k].inum >= 0 THEN <<d[k].name>> \o l ELSE l)
<1>1. /\ Live(d) \subseteq 1 .. Len(d) /\ Len(d) \in Nat /\ d[k] \in EntryType /\ k \in Int
      /\ k \in Live(d) <=> d[k].inum >= 0
  BY TableFacts DEF Live
<1>2. \A e \in Live(d) : e \in Int /\ (e > k - 1 <=> e > k \/ e = k)
  BY <1>1
<1>3. /\ l \in Seq(EntryNames)
      /\ \A j \in 1 .. Len(l) : \E e \in Live(d) : e > k /\ l[j] = d[e].name
      /\ \A e \in Live(d) : e > k => \E j \in 1 .. Len(l) : l[j] = d[e].name
      /\ \A i, j \in 1 .. Len(l) : l[i] = l[j] => i = j
  BY DEF Lists
<1>4. CASE ~ (d[k].inum >= 0)
  <2>1. \A e \in Live(d) : e > k - 1 <=> e > k
    BY <1>1, <1>2, <1>4
  <2>2. Lists(d, k - 1, l)
    BY <1>3, <2>1 DEF Lists
  <2> QED
    BY <1>4, <2>2
<1>5. CASE d[k].inum >= 0
  <2> DEFINE x == d[k].name
             m == <<x>> \o l
  <2>1. x \in EntryNames /\ k \in Live(d)
    BY <1>1, <1>5, EntryFacts
  <2>2. /\ m \in Seq(EntryNames) /\ Len(m) = Len(l) + 1 /\ Len(l) \in Nat
        /\ m[1] = x /\ \A j \in 1 .. Len(l) : m[j + 1] = l[j]
    BY <1>3, <2>1, ConsFacts
  <2> HIDE DEF m
  <2>3. \A j \in 1 .. Len(m) : j = 1 \/ (j - 1 \in 1 .. Len(l) /\ m[j] = l[j - 1])
    <3> SUFFICES ASSUME NEW j \in 1 .. Len(m), j # 1 PROVE j - 1 \in 1 .. Len(l) /\ m[j] = l[j - 1]
      OBVIOUS
    <3>1. j - 1 \in 1 .. Len(l) /\ (j - 1) + 1 = j
      BY <2>2
    <3> QED
      BY <2>2, <3>1
  <2>4. \A j \in 1 .. Len(l) : l[j] # x
    BY <1>1, <1>3, <2>1 DEF Unique
  <2>5. ASSUME NEW j \in 1 .. Len(m) PROVE \E e \in Live(d) : e > k - 1 /\ m[j] = d[e].name
    <3>1. CASE j = 1
      BY <1>2, <2>1, <2>2, <3>1
    <3>2. CASE j # 1
      <4>1. j - 1 \in 1 .. Len(l) /\ m[j] = l[j - 1]
        BY <2>3, <3>2
      <4>2. PICK e \in Live(d) : e > k /\ l[j - 1] = d[e].name
        BY <1>3, <4>1
      <4> QED
        BY <1>2, <4>1, <4>2
    <3> QED
      BY <3>1, <3>2
  <2>6. ASSUME NEW e \in Live(d), e > k - 1 PROVE \E j \in 1 .. Len(m) : m[j] = d[e].name
    <3>1. CASE e = k
      <4>1. 1 \in 1 .. Len(m)
        BY <2>2
      <4> QED
        BY <2>2, <3>1, <4>1
    <3>2. CASE e # k
      <4>1. PICK j \in 1 .. Len(l) : l[j] = d[e].name
        BY <1>2, <1>3, <2>6, <3>2
      <4>2. j + 1 \in 1 .. Len(m)
        BY <2>2
      <4> QED
        BY <2>2, <4>1, <4>2
    <3> QED
      BY <3>1, <3>2
  <2>7. ASSUME NEW i \in 1 .. Len(m), NEW j \in 1 .. Len(m), m[i] = m[j] PROVE i = j
    <3>1. CASE i = 1 \/ j = 1
      BY <2>2, <2>3, <2>4, <2>7, <3>1
    <3>2. CASE i # 1 /\ j # 1
      <4>1. i - 1 = j - 1
        BY <1>3, <2>3, <2>7, <3>2
      <4> QED
        BY <4>1
    <3> QED
      BY <3>1, <3>2
  <2>8. Lists(d, k - 1, m)
    BY <2>2, <2>5, <2>6, <2>7 DEF Lists
  <2> QED
    BY <1>5, <2>8 DEF m
<1> QED
  BY <1>4, <1>5

(* A listing has the names of the entries in use, each once.               *)
LEMMA ListFacts ==
  ASSUME NEW d \in Tables, Unique(d)
  PROVE  /\ List(d) \in Seq(EntryNames)
         /\ \A n : (\E j \in DOMAIN List(d) : List(d)[j] = n) <=> \E i : <<n, i>> \in Bound(d)
         /\ \A i, j \in DOMAIN List(d) : List(d)[i] = List(d)[j] => i = j
<1> DEFINE h == ListFcn(d)
           S == {k \in 0 .. Len(d) : Lists(d, Len(d) - k, h[k])}
<1>1. Len(d) \in Nat /\ Live(d) \subseteq 1 .. Len(d)
  BY TableFacts
<1>2. h = [k \in 0 .. Len(d) |-> ListBody(d, k, h)]
  BY <1>1, ListFcnExists DEF ListFcn, ListBody
<1> HIDE DEF h
<1>3. \A k \in 0 .. Len(d) : h[k] = ListBody(d, k, h)
  BY <1>2
<1>4. 0 \in S
  <2>0. 0 \in 0 .. Len(d) /\ Len(d) - 0 = Len(d)
    BY <1>1
  <2>1. h[0] = <<>>
    BY <1>3, <2>0 DEF ListBody
  <2>2. \A e \in Live(d) : ~ (e > Len(d))
    BY <1>1
  <2>3. Lists(d, Len(d), <<>>)
    BY <2>2 DEF Lists
  <2> QED
    BY <2>0, <2>1, <2>3
<1>5. ASSUME NEW k \in 0 .. Len(d) - 1, k \in S PROVE k + 1 \in S
  <2> DEFINE e == Len(d) - k
  <2>1. /\ k + 1 \in 0 .. Len(d) /\ k + 1 # 0 /\ (k + 1) - 1 = k /\ e \in 1 .. Len(d)
        /\ Len(d) + 1 - (k + 1) = e /\ e - 1 = Len(d) - (k + 1)
    BY <1>1
  <2>2. h[k + 1] = IF d[e].inum >= 0 THEN <<d[e].name>> \o h[k] ELSE h[k]
    BY <1>3, <2>1 DEF ListBody
  <2>3. Lists(d, e, h[k])
    BY <1>5
  <2> HIDE DEF e
  <2>4. Lists(d, e - 1, h[k + 1])
    BY <2>1, <2>2, <2>3, ListMore
  <2> QED
    BY <2>1, <2>4
<1>6. Lists(d, 0, List(d))
  <2>1. Len(d) \in 0 .. Len(d) /\ Len(d) - Len(d) = 0
    BY <1>1
  <2> HIDE DEF S
  <2>2. 0 .. Len(d) \subseteq S
    BY <1>1, <1>4, <1>5, UpToLength
  <2> QED
    BY <2>1, <2>2, ListIs DEF S, h
<1>7. \A e \in Live(d) : e > 0
  BY <1>1
<1>8. /\ List(d) \in Seq(EntryNames) /\ DOMAIN List(d) = 1 .. Len(List(d))
      /\ \A j \in 1 .. Len(List(d)) : \E e \in Live(d) : List(d)[j] = d[e].name
      /\ \A e \in Live(d) : \E j \in 1 .. Len(List(d)) : List(d)[j] = d[e].name
      /\ \A i, j \in 1 .. Len(List(d)) : List(d)[i] = List(d)[j] => i = j
  BY <1>6, <1>7 DEF Lists
<1>9. ASSUME NEW n
      PROVE  (\E j \in DOMAIN List(d) : List(d)[j] = n) <=> \E i : <<n, i>> \in Bound(d)
  <2>1. ASSUME NEW j \in DOMAIN List(d), List(d)[j] = n PROVE \E i : <<n, i>> \in Bound(d)
    <3>1. PICK e \in Live(d) : List(d)[j] = d[e].name
      BY <1>8, <2>1
    <3>2. <<n, d[e].inum>> \in Bound(d)
      BY <2>1, <3>1 DEF Bound
    <3> QED
      BY <3>2
  <2>2. ASSUME NEW i, <<n, i>> \in Bound(d) PROVE \E j \in DOMAIN List(d) : List(d)[j] = n
    <3>1. PICK e \in Live(d) : d[e].name = n
      BY <2>2 DEF Bound
    <3>2. PICK j \in 1 .. Len(List(d)) : List(d)[j] = d[e].name
      BY <1>8, <3>1
    <3> QED
      BY <1>8, <3>1, <3>2
  <2> QED
    BY <2>1, <2>2
<1>10. \A i, j \in DOMAIN List(d) : List(d)[i] = List(d)[j] => i = j
  BY <1>8
<1> QED
  BY <1>8, <1>9, <1>10
=============================================================================
