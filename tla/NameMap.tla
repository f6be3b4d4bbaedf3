------------------------------ MODULE NameMap ------------------------------
(***************************************************************************)
(* What a directory promises: a map from names to inums.  Names are bound  *)
(* and unbound one at a time; a call that is refused changes nothing.      *)
(***************************************************************************)
CONSTANTS
  AllNames,  \* what can be bound
  Targets    \* what a name can be bound to

VARIABLES
  map,     \* the bound names and what they stand for
  answer   \* of the last call

vars == <<map, answer>>

Refusals == {"EEXIST", "ENOSPC", "ENAMETOOLONG", "abort"}

Bind(n, i) ==
  /\ n \notin DOMAIN map
  /\ map' = [m \in DOMAIN map \cup {n} |-> IF m = n THEN i ELSE map[m]]
  /\ answer' = "ok"

Unbind(n) ==
  /\ n \in DOMAIN map
  /\ map' = [m \in DOMAIN map \ {n} |-> map[m]]
  /\ answer' = "ok"

Refuse ==
  /\ answer' \in Refusals
  /\ UNCHANGED map

Nothing == answer' = "ok" /\ UNCHANGED map

Next ==
  \/ \E n \in AllNames, i \in Targets : Bind(n, i)
  \/ \E n \in AllNames : Unbind(n)
  \/ Refuse
  \/ Nothing

Init ==
  /\ DOMAIN map \subseteq AllNames
  /\ \A n \in DOMAIN map : map[n] \in Targets
  /\ answer = "ok"

Spec == Init /\ [][Next]_vars
=============================================================================
