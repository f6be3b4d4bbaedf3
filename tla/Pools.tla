------------------------------- MODULE Pools -------------------------------
(***************************************************************************)
(* What the reserved blocks promise: a pool of data blocks, and a pool of  *)
(* inodes that each keep the words written into them.  The first free one  *)
(* of a pool is handed out.  Inode takes the bitmaps for these sets.       *)
(***************************************************************************)
EXTENDS Integers

CONSTANTS
  AllBlocks,  \* the data blocks
  AllNodes,   \* the inums
  AllWords,   \* the words of an inode
  Fresh       \* the words of an inode that was just handed out

VARIABLES
  blocks,  \* the data blocks handed out
  nodes    \* the inodes handed out and their words

vars == <<blocks, nodes>>

IsFirstOf(S, x) == x \in S /\ \A y \in S : x <= y

TakeBlock ==
  \E b \in AllBlocks :
    IsFirstOf(AllBlocks \ blocks, b) /\ blocks' = blocks \cup {b} /\ UNCHANGED nodes

GiveBlock == \E b \in blocks : blocks' = blocks \ {b} /\ UNCHANGED nodes

TakeNode ==
  \E i \in AllNodes :
    /\ IsFirstOf(AllNodes \ DOMAIN nodes, i)
    /\ nodes' = [j \in DOMAIN nodes \cup {i} |-> IF j = i THEN Fresh ELSE nodes[j]]
    /\ UNCHANGED blocks

GiveNode ==
  \E i \in DOMAIN nodes :
    nodes' = [j \in DOMAIN nodes \ {i} |-> nodes[j]] /\ UNCHANGED blocks

(* One word of one inode changes. *)
PutWord ==
  \E i \in DOMAIN nodes, w \in AllWords :
    /\ DOMAIN nodes' = DOMAIN nodes
    /\ nodes' = [nodes EXCEPT ![i][w] = nodes'[i][w]]
    /\ UNCHANGED blocks

Init == blocks = {} /\ nodes = [i \in {0} |-> Fresh]

Next == TakeBlock \/ GiveBlock \/ TakeNode \/ GiveNode \/ PutWord

Spec == Init /\ [][Next]_vars
=============================================================================
