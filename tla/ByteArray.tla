----------------------------- MODULE ByteArray -----------------------------
(***************************************************************************)
(* What reading, writing and truncating promise: a file is a sequence of   *)
(* bytes, a call is asked, takes effect in one step and is answered.       *)
(*                                                                         *)
(* Two things are weaker than what POSIX promises, because the code is: a  *)
(* write beyond the end leaves any bytes between the old end and its own   *)
(* first byte, and a call that runs out of space may have grown the file.  *)
(***************************************************************************)
EXTENDS Integers, Sequences, SequencesExt

CONSTANTS
  Files,    \* what can name a file
  Requests  \* [kind, file, off, size, buf] a caller can ask for

VARIABLES
  content,  \* the bytes of every existing file
  call,     \* the request in progress, or NoCall
  answer    \* its answer before it is delivered, or NoAnswer

vars == <<content, call, answer>>

NoCall == [kind |-> "none", file |-> -1, off |-> 0, size |-> 0, buf |-> <<>>]
NoAnswer == [rv |-> "none", bytes |-> <<>>]

Init ==
  /\ content = [f \in {} |-> <<>>]
  /\ call = NoCall
  /\ answer = NoAnswer

Create ==
  /\ call = NoCall
  /\ \E f \in Files \ DOMAIN content :
       content' = [g \in DOMAIN content \cup {f} |-> IF g = f THEN <<>> ELSE content[g]]
  /\ UNCHANGED <<call, answer>>

Ask ==
  /\ call = NoCall
  /\ call' \in Requests
  /\ call'.file \in DOMAIN content
  /\ UNCHANGED <<content, answer>>

(* The call is carried out: kind k, answer v, and every file but its own   *)
(* keeps its bytes.                                                        *)
Done(k, v, bytes) ==
  /\ call.kind = k
  /\ answer = NoAnswer
  /\ answer' = [rv |-> v, bytes |-> bytes]
  /\ UNCHANGED call

old == content[call.file]
new == content'[call.file]
OwnFileOnly ==
  /\ call.file \in DOMAIN content'
  /\ content' = [content EXCEPT ![call.file] = new]

End == call.off + Len(call.buf)
Longer(a, b) == IF a > b THEN a ELSE b

Written ==
  /\ Done("write", "ok", <<>>)
  /\ OwnFileOnly
  /\ Len(new) = Longer(Len(old), End)
  /\ SubSeq(new, call.off + 1, End) = call.buf
  /\ \A n \in 1 .. Len(old) : n \notin call.off + 1 .. End => new[n] = old[n]

Truncated ==
  /\ Done("truncate", "ok", <<>>)
  /\ OwnFileOnly
  /\ new = [n \in 1 .. call.size |-> IF n <= Len(old) THEN old[n] ELSE 0]

(* No space: the file has grown, but not as far as it was to.              *)
Grown(k, n) ==
  /\ Done(k, "ENOSPC", <<>>)
  /\ OwnFileOnly
  /\ IsPrefix(old, new)
  /\ Len(new) < n

Read ==
  /\ Done("read", "ok", SubSeq(old, call.off + 1, IF call.off + call.size < Len(old)
                                                    THEN call.off + call.size ELSE Len(old)))
  /\ UNCHANGED content

Freed ==
  /\ Done("free", "ok", <<>>)
  /\ content' = [g \in DOMAIN content \ {call.file} |-> content[g]]

Deliver ==
  /\ answer # NoAnswer
  /\ call' = NoCall
  /\ answer' = NoAnswer
  /\ UNCHANGED content

Next ==
  \/ Create
  \/ Ask
  \/ Written
  \/ Truncated
  \/ Grown("write", End)
  \/ Grown("truncate", call.size)
  \/ Read
  \/ Freed
  \/ Deliver

Spec == Init /\ [][Next]_vars
=============================================================================
