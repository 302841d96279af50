------------------------------- MODULE MCPipe -------------------------------
(* Small instances of Pipe for TLC. *)
EXTENDS Pipe, TLC

(* What can still matter: the bytes in the buffer, and the arguments of the *)
(* calls in progress.  A result that was returned, and the bytes outside    *)
(* head and tail, are looked at by no later step.                           *)
InCall(p) == pc[p] \in {"r", "w", "rwait", "wwait"}
Relevant ==
  <<Contents, hpos, tpos, bytecnt, endVars, pc,
    [p \in Procs |-> IF InCall(p) THEN <<buf[p], rv[p]>> ELSE <<>>]>>

(* Bytes are only copied, and CallsReturn does not look at them.            *)
ByteSymmetry == Permutations(Bytes)
=============================================================================
