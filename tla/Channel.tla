------------------------------ MODULE Channel ------------------------------
(***************************************************************************)
(* What a pipe promises to the processes that read and write it: a bounded *)
(* FIFO channel of bytes.  A read returns a prefix of what is in the       *)
(* channel, a write appends a prefix of what it was given; a read returns  *)
(* nothing only at end of file and a write fails only when no reader is    *)
(* left.  Implemented by Pipe (src/src/modified/sys/uio.c).                *)
(***************************************************************************)
EXTENDS Integers, Sequences, SequencesExt

CONSTANTS
  Procs,     \* the processes
  Bytes,     \* the values of a byte
  Capacity,  \* bytes the channel holds
  MaxReq     \* largest request (bound)

VARIABLES
  chan,        \* bytes written and not yet read, oldest first
  read_open,   \* may anybody still read?
  write_open,  \* may anybody still write?
  op,          \* op[p]: the call process p has in progress, or "idle"
  buf,         \* the bytes p writes; the bytes its last read returned
  rv           \* the size of p's request; the return value of its last call

vars == <<chan, read_open, write_open, op, buf, rv>>

EPIPE == -1

Lesser(m, n) == IF m <= n THEN m ELSE n

Init ==
  /\ chan = <<>> /\ read_open = TRUE /\ write_open = TRUE
  /\ op = [p \in Procs |-> "idle"]
  /\ buf = [p \in Procs |-> <<>>]
  /\ rv = [p \in Procs |-> 0]

Call(p, o, n, bytes) ==
  /\ op[p] = "idle"
  /\ op' = [op EXCEPT ![p] = o]
  /\ rv' = [rv EXCEPT ![p] = n]
  /\ buf' = [buf EXCEPT ![p] = bytes]
  /\ UNCHANGED <<chan, read_open, write_open>>

Return(p, n, bytes) ==
  /\ op' = [op EXCEPT ![p] = "idle"]
  /\ rv' = [rv EXCEPT ![p] = n]
  /\ buf' = [buf EXCEPT ![p] = bytes]

Read(p) ==
  /\ op[p] = "read"
  /\ LET n == Lesser(rv[p], Len(chan)) IN
       /\ n = 0 => rv[p] = 0 \/ ~write_open
       /\ Return(p, n, SubSeq(chan, 1, n))
       /\ chan' = SubSeq(chan, n + 1, Len(chan))
  /\ UNCHANGED <<read_open, write_open>>

Write(p) ==
  /\ op[p] = "write" /\ (read_open \/ rv[p] = 0)
  /\ LET n == Lesser(rv[p], Capacity - Len(chan)) IN
       /\ n = 0 => rv[p] = 0
       /\ Return(p, n, <<>>)
       /\ chan' = chan \o SubSeq(buf[p], 1, n)
  /\ UNCHANGED <<read_open, write_open>>

WriteFail(p) ==
  /\ op[p] = "write" /\ ~read_open
  /\ Return(p, EPIPE, <<>>)
  /\ UNCHANGED <<chan, read_open, write_open>>

(* Closing an end is final.                                                *)
Close ==
  /\ \/ read_open /\ ~read_open' /\ UNCHANGED write_open
     \/ write_open /\ ~write_open' /\ UNCHANGED read_open
  /\ UNCHANGED <<chan, op, buf, rv>>

Next ==
  \/ \E p \in Procs :
       \/ \E n \in 0 .. MaxReq : Call(p, "read", n, <<>>)
       \/ \E s \in BoundedSeq(Bytes, MaxReq) : Call(p, "write", Len(s), s)
       \/ Read(p) \/ Write(p) \/ WriteFail(p)
  \/ Close

Spec == Init /\ [][Next]_vars
=============================================================================
