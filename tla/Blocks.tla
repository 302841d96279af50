------------------------------- MODULE Blocks -------------------------------
(***************************************************************************)
(* What the block cache promises to the file system: a memory of blocks.   *)
(* A client pins a block, sees and changes its contents in place, and      *)
(* releases it; a block's contents change in no other way.  Implemented by *)
(* Cache (src/src/modified/sys/cache.c).                                   *)
(***************************************************************************)
EXTENDS Naturals

CONSTANTS
  Clients,  \* the threads that use the cache
  Pos,      \* the positions of the blocks
  Vals      \* what a block may contain

VARIABLES
  mem,  \* mem[p]: the contents of the block at p
  pins  \* pins[c][p]: how often client c has pinned the block at p

vars == <<mem, pins>>

Init ==
  /\ mem \in [Pos -> Vals]
  /\ pins = [c \in Clients |-> [p \in Pos |-> 0]]

Get(c, p) == pins' = [pins EXCEPT ![c][p] = @ + 1] /\ UNCHANGED mem

Put(c, p) ==
  /\ pins[c][p] > 0
  /\ \E v \in Vals : mem' = [mem EXCEPT ![p] = v]
  /\ UNCHANGED pins

Release(c, p) ==
  /\ pins[c][p] > 0
  /\ pins' = [pins EXCEPT ![c][p] = @ - 1]
  /\ UNCHANGED mem

Next == \E c \in Clients, p \in Pos : Get(c, p) \/ Put(c, p) \/ Release(c, p)

Spec == Init /\ [][Next]_vars
=============================================================================
