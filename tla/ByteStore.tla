----------------------------- MODULE ByteStore -----------------------------
(***************************************************************************)
(* What the inode layer promises the storage layer: a set of files, each   *)
(* with a length in bytes, and one call at a time that moves the length of *)
(* one file to a target.  A call that succeeds reaches its target exactly; *)
(* one that runs out of space leaves the file somewhere on the way.        *)
(***************************************************************************)
EXTENDS Integers

CONSTANTS
  Files,    \* what can name a file
  Targets   \* the lengths a caller may ask for

VARIABLES
  length,   \* the length of every existing file
  what,     \* the call in progress: "none", "truncate", "write" or "free"
  file,     \* the file it is about
  target,   \* the length it aims at
  answer    \* what the last call returned

vars == <<length, what, file, target, answer>>

Existing == DOMAIN length

Init ==
  /\ length = [f \in {} |-> 0]
  /\ what = "none"
  /\ file = -1
  /\ target = -1
  /\ answer = "ok"

Create ==
  /\ what = "none"
  /\ \E f \in Files \ Existing :
       length' = [g \in Existing \cup {f} |-> IF g = f THEN 0 ELSE length[g]]
  /\ answer' = "ok"
  /\ UNCHANGED <<what, file, target>>

NoRoom ==
  /\ what = "none"
  /\ answer' = "ENOSPC"
  /\ UNCHANGED <<length, what, file, target>>

(* A write never makes a file shorter, a free makes it vanish.             *)
Ask(w, f, n) ==
  /\ what = "none"
  /\ what' = w
  /\ file' = f
  /\ target' = IF w = "write" /\ n < length[f] THEN length[f] ELSE n
  /\ UNCHANGED <<length, answer>>

(* n is strictly between the current length and the target, or the target. *)
Closer(n) == n # length[file] /\ \/ length[file] < n /\ n <= target
                                 \/ target <= n /\ n < length[file]

Advance ==
  /\ what # "none"
  /\ file \in DOMAIN length' /\ Closer(length'[file])
  /\ length' = [length EXCEPT ![file] = length'[file]]
  /\ UNCHANGED <<what, file, target, answer>>

Idle == what' = "none" /\ file' = -1 /\ target' = -1

(* The call returns: possibly in the step that reaches the target.         *)
Succeed ==
  /\ what \in {"truncate", "write"}
  /\ length' = [length EXCEPT ![file] = target]
  /\ answer' = "ok"
  /\ Idle

(* Only growing can fail, and never beyond or at the target.               *)
Fail ==
  /\ what \in {"truncate", "write"}
  /\ length' \in {[length EXCEPT ![file] = n] : n \in length[file] .. target - 1}
  /\ answer' = "ENOSPC"
  /\ Idle

Vanish ==
  /\ what = "free"
  /\ length[file] = 0
  /\ length' = [g \in Existing \ {file} |-> length[g]]
  /\ answer' = "ok"
  /\ Idle

(* The daemon dies in the middle of a call.                                *)
Die ==
  /\ what # "none"
  /\ what' = "dead"
  /\ UNCHANGED <<length, file, target, answer>>

Next ==
  \/ Create
  \/ NoRoom
  \/ \E f \in Existing, n \in Targets : Ask("truncate", f, n) \/ Ask("write", f, n)
  \/ \E f \in Existing : Ask("free", f, 0)
  \/ Advance
  \/ Succeed
  \/ Fail
  \/ Vanish
  \/ Die

Spec == Init /\ [][Next]_vars
=============================================================================
