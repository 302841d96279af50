------------------------------ MODULE ByteFile ------------------------------
(***************************************************************************)
(* What a handle on a storage device promises: a file of bytes of a fixed  *)
(* length with a position. A read returns some of the bytes it is asked    *)
(* for, in order from the position on, and may return none although nothing*)
(* failed (a device refuses to move less than a block, vioblk.c:321). A    *)
(* write puts some of the bytes it is given there; after an error these may*)
(* be more than it says, but they are in their place. The position moves   *)
(* behind the bytes a call says it has moved.                              *)
(***************************************************************************)
EXTENDS Integers, Sequences

CONSTANTS Handle, Byte, capacity, MaxReq
VARIABLES content, pos,
          last   \* the bytes of the last call: read, or given to be written

Init ==
  /\ content \in [0 .. capacity - 1 -> Byte]
  /\ pos = [h \in Handle |-> 0] /\ last = <<>>

Move(h, k) == pos[h] + k <= capacity /\ pos' = [pos EXCEPT ![h] = @ + k]

Read(h) ==
  /\ \E k \in 0 .. MaxReq :
       Move(h, k) /\ last' = [i \in 1 .. k |-> content[pos[h] + i - 1]]
  /\ UNCHANGED content

Write(h) ==
  /\ last' \in Seq(Byte) /\ Len(last') <= MaxReq
  /\ \E n \in 0 .. Len(last') : \E k \in 0 .. n :
       /\ Move(h, k)
       /\ content' = [i \in 0 .. capacity - 1 |->
            IF i - pos[h] \in 0 .. n - 1 THEN last'[i - pos[h] + 1] ELSE content[i]]

Seek(h) ==
  /\ \E p \in 0 .. capacity : pos' = [pos EXCEPT ![h] = p]
  /\ last' = <<>> /\ UNCHANGED content

Next == \E h \in Handle : Read(h) \/ Write(h) \/ Seek(h)

Spec == Init /\ [][Next]_<<content, pos, last>>
=============================================================================
