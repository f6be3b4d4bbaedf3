------------------------------ MODULE FileTree ------------------------------
(***************************************************************************)
(* What a file system promises about its tree: objects, files or           *)
(* directories, and links that give an object a name in a directory.  An   *)
(* object exists as long as it has a link.  Every call makes one change to *)
(* the links, all of it or nothing.                                        *)
(***************************************************************************)
CONSTANTS
  Objects,  \* what can be an object
  Root,     \* the object that needs no link
  LinkNames \* the names a link can have

VARIABLES
  kind,     \* "file" or "dir" for every object that exists
  links     \* set of [dir, name, object]

vars == <<kind, links>>

Existing == DOMAIN kind
Free(d, n) == kind[d] = "dir" /\ ~ \E l \in links : l.dir = d /\ l.name = n
LinksOf(o) == {l \in links : l.object = o}
LinksIn(d) == {l \in links : l.dir = d}

Init ==
  /\ kind = [o \in {Root} |-> "dir"]
  /\ links = {}

(* A new object, with its first link.                                      *)
Make(l, k) ==
  /\ Free(l.dir, l.name)
  /\ l.object \notin Existing
  /\ kind' = [x \in Existing \cup {l.object} |-> IF x = l.object THEN k ELSE kind[x]]
  /\ links' = links \cup {l}

(* A second name, for files only: directories form a tree.                 *)
AddLink(l) ==
  /\ Free(l.dir, l.name)
  /\ kind[l.object] = "file"
  /\ links' = links \cup {l}
  /\ UNCHANGED kind

(* The object goes with its last link; a directory must be empty for that. *)
RemoveLink(l) ==
  /\ links' = links \ {l}
  /\ kind' = [x \in Existing \ (IF LinksOf(l.object) = {l} THEN {l.object} ELSE {}) |-> kind[x]]
  /\ kind[l.object] = "dir" => LinksIn(l.object) = {}

(* An object changes its name or its directory.                            *)
Move(l, m) ==
  /\ l.object = m.object
  /\ Free(m.dir, m.name)
  /\ links' = (links \ {l}) \cup {m}
  /\ UNCHANGED kind

Lost == links \ links'
Gained == {l \in links' \ links : l.dir \in Existing /\ l.name \in LinkNames /\ l.object \in Objects}

Next ==
  \/ \E l \in Gained, k \in {"file", "dir"} : Make(l, k)
  \/ \E l \in Gained : l.object \in Existing /\ AddLink(l)
  \/ \E l \in Lost : RemoveLink(l)
  \/ \E l \in Lost, m \in Gained : Move(l, m)

Spec == Init /\ [][Next]_vars
=============================================================================
