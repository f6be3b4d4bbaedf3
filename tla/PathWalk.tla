------------------------------ MODULE PathWalk ------------------------------
(***************************************************************************)
(* path.c and slist.c: how the text of a path becomes an inum, one level   *)
(* of the recursion of inum_for_path_comps_in at a time, on the images the *)
(* handlers of Storage leave.                                              *)
(*                                                                         *)
(* A text is a sequence of delimiters and names.  FUSE passes absolute     *)
(* paths; path.c also has code for doubled and trailing delimiters, so     *)
(* texts may have them.  A component between two delimiters in a row is    *)
(* the empty name.                                                         *)
(***************************************************************************)
EXTENDS Storage

CONSTANT MaxText   \* bound: delimiters and names of a text

Delim == "/"
Empty == ""

(* No name has a delimiter in it, and none is empty.                       *)
ASSUME TextAssumption == MaxText \in Nat /\ Delim \notin Names /\ Empty \notin Names

(* Two names in a row would be one name.                                   *)
Texts == {t \in UNION {[1 .. n -> Names \cup {Delim}] : n \in 1 .. MaxText} :
            t[1] = Delim /\ \A k \in 1 .. Len(t) - 1 : Delim \in {t[k], t[k + 1]}}

(***************************************************************************)
(* slist.c and path.c on lists.                                            *)
(***************************************************************************)

(* slist_explode: a delimiter at the very end makes no component.          *)
ExplodeKeepsEnd(t) ==
  LET rest[k \in 1 .. Len(t) + 2] ==
        IF k = Len(t) + 2 THEN <<>>
        ELSE IF k = Len(t) + 1 \/ t[k] = Delim THEN <<Empty>> \o rest[k + 1]
        ELSE <<t[k]>> \o rest[k + 2]
  IN rest[1]
Explode(t) ==
  LET rest[k \in 1 .. Len(t) + 2] ==
        IF k > Len(t) THEN <<>>
        ELSE IF t[k] = Delim THEN <<Empty>> \o rest[k + 1]
        ELSE <<t[k]>> \o rest[k + 2]
  IN rest[1]

(* slist_copy: the first n elements.                                       *)
CopyThrough(sl, n) == SubSeq(sl, 1, Min({n + 1, Len(sl)}))
Copy(sl, n) == SubSeq(sl, 1, Min({n, Len(sl)}))

(* path_comps_pop: the index, from 0, of the last component with a name.   *)
Pop(sl) == Max({k \in DOMAIN sl : sl[k] # Empty} \cup {0}) - 1

VARIABLES
  pc,     \* "idle", "walk" or "done"
  text,   \* the path asked for
  comps,  \* components still to walk
  at,     \* the directory reached
  child,  \* the name path_parent_child_in splits off, Empty in a plain lookup
  found   \* the inum or error code

walk == <<pc, text, comps, at, child, found>>

(***************************************************************************)
(* The calls.                                                              *)
(***************************************************************************)
Start(t, list, name) ==
  /\ rv # "abort"
  /\ pc = "idle" /\ pc' = "walk"
  /\ text' = t /\ comps' = list /\ child' = name /\ at' = ROOT_INUM
  /\ UNCHANGED <<found, fs, rv>>

(* inum_for_path_in *)
InumForPath(t) == Start(t, Explode(t), Empty)

(* path_parent_child_in. The root has no parent to ask for.                *)
ParentChild(t) ==
  LET sl == Explode(t) IN
  Pop(sl) >= 0 /\ Start(t, Copy(sl, Pop(sl)), sl[Pop(sl) + 1])

(* inum_for_path_comps_in *)
Return(v) ==
  /\ pc' = "done" /\ found' = v
  /\ UNCHANGED <<text, comps, at, child, fs, rv>>

GoOnSame(d) ==
  /\ at' = d
  /\ UNCHANGED <<pc, text, comps, child, found, fs, rv>>
GoOn(d) ==
  /\ comps' = Tail(comps) /\ at' = d
  /\ UNCHANGED <<pc, text, child, found, fs, rv>>

Entered == LookupInum(fs.table[at], Head(comps))

SkipEmpty == comps # <<>> /\ Head(comps) = Empty /\ Len(comps) > 1 /\ GoOn(at)
LastEmpty == comps = <<Empty>> /\ Return(at)
Missing ==
  (comps # <<>> => Head(comps) # Empty /\ Entered < 0) /\ Return(ENOENT)
LastName ==
  Len(comps) = 1 /\ Head(comps) # Empty /\ Entered >= 0 /\ Return(Entered)
ThroughFile ==
  Len(comps) > 1 /\ Head(comps) # Empty /\ Entered >= 0 /\ ~IsDir(fs, Entered) /\ Return(ENOTDIR)
EnterUnchecked ==
  Len(comps) > 1 /\ Head(comps) # Empty /\ Entered >= 0 /\ GoOn(Entered)
Enter ==
  Len(comps) > 1 /\ Head(comps) # Empty /\ Entered >= 0 /\ IsDir(fs, Entered) /\ GoOn(Entered)

Hop ==
  pc = "walk" /\ (SkipEmpty \/ LastEmpty \/ Missing \/ LastName \/ ThroughFile \/ Enter)

(* The caller has its answer. *)
Forget ==
  /\ pc = "done" /\ pc' = "idle"
  /\ text' = <<>> /\ comps' = <<>> /\ at' = ROOT_INUM /\ child' = Empty /\ found' = ENOENT
  /\ UNCHANGED <<fs, rv>>

Handler == pc = "idle" /\ Next /\ UNCHANGED walk

WalkInit ==
  /\ Init
  /\ pc = "idle" /\ text = <<>> /\ comps = <<>>
  /\ at = ROOT_INUM /\ child = Empty /\ found = ENOENT

WalkNext ==
  \/ \E t \in Texts : InumForPath(t) \/ ParentChild(t)
  \/ Hop
  \/ Forget
  \/ Handler

WalkSpec == WalkInit /\ [][WalkNext]_<<vars, walk>>

(* A call runs until it returns: the daemon does nothing else meanwhile.   *)
FairWalkSpec == WalkSpec /\ WF_<<vars, walk>>(Hop)

(***************************************************************************)
(* Properties.                                                             *)
(***************************************************************************)
NamesIn(t) ==
  LET names[k \in 0 .. Len(t)] ==
        IF k = 0 THEN <<>>
        ELSE IF t[k] = Delim THEN names[k - 1]
        ELSE Append(names[k - 1], t[k])
  IN names[Len(t)]

(* What a lookup of text t must find: Resolve on its names, but a file is  *)
(* no directory where two delimiters follow its name.                      *)
ToFind(t) ==
  LET i == Resolve(fs, NamesIn(t)) IN
  IF i >= 0 /\ ~IsDir(fs, i) /\ Len(t) > 1 /\ t[Len(t)] = Delim /\ t[Len(t) - 1] = Delim
    THEN ENOTDIR ELSE i

(* The recursion over the list of components, with its special cases for   *)
(* empty ones, finds what walking the names of the path finds: this is     *)
(* what Storage takes path lookups to be.                                  *)
LookupIsResolve == pc = "done" /\ child = Empty => found = ToFind(text)

(* Splitting off the last name leaves a list that leads to the parent,     *)
(* however many delimiters stand before or after that name, so what a      *)
(* handler looks up by path is what it then adds or removes by name.       *)
ParentHoldsChild ==
  pc = "done" /\ child # Empty =>
    LET d == Parent(fs, NamesIn(text))
        i == Resolve(fs, NamesIn(text)) IN
    IF IsDir(fs, d)
      THEN found = d /\ LookupInum(fs.table[d], child) = IF i < 0 THEN Unused ELSE i
      ELSE ~IsDir(fs, found)

(* The assertions of inum_for_path_comps_in hold at every level: the inode *)
(* it is at exists and is a directory.                                     *)
WalkInDirs == pc = "walk" => IsDir(fs, at)

(* Every lookup comes to an end.                                           *)
LookupReturns == pc = "walk" ~> pc = "done"
=============================================================================
