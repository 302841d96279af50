-------------------------------- MODULE Pipe --------------------------------
(***************************************************************************)
(* A pipe of src/src/modified/sys/uio.c, the processes that hold its two   *)
(* ends in their descriptor tables, and the reference counts that decide   *)
(* when an end is closed.                                                  *)
(*                                                                         *)
(* Kernel code suspends only in condition_wait, and pipe.lk is released    *)
(* before each wait, so the lock never makes anybody wait: the code from   *)
(* lock_acquire to the next wait or return is one action.  A process woken *)
(* by a broadcast may run at any later time (Threads shows that it does).  *)
(***************************************************************************)
EXTENDS Integers, Sequences, SequencesExt, FiniteSets

CONSTANTS
  Procs,      \* the processes
  First,      \* the process that creates the pipe
  UIOMAX,     \* PROCESS_UIOMAX: slots of a descriptor table
  Bytes,      \* the values of a byte
  PAGE_SIZE,  \* bytes the pipe's buffer holds
  MaxReq      \* largest read or write (bound)

ASSUME PipeAssumption ==
  /\ First \in Procs /\ IsFiniteSet(Procs)
  /\ UIOMAX \in Nat /\ UIOMAX >= 2
  /\ PAGE_SIZE \in Nat \ {0}
  /\ MaxReq \in Nat \ {0}
  /\ Bytes # {}

VARIABLES
  data,     \* p->buf.data
  hpos,     \* p->buf.hpos, where the next byte is read
  tpos,     \* p->buf.tpos, where the next byte is written
  bytecnt,  \* p->bytecnt
  open,     \* p->read_open and p->write_open
  refcnt,   \* refcnt of rio and of wio
  freed,    \* how often p and its page have been freed
  uiotab,   \* uiotab[p][fd]: the end in slot fd of process p
  pc,       \* where process p is
  buf,      \* the bytes p writes; the bytes its last read returned
  rv        \* bufsz of p's call; the return value of its last call

pipeVars == <<data, hpos, tpos, bytecnt>>
endVars  == <<open, refcnt, freed, uiotab>>
vars     == <<pipeVars, endVars, pc, buf, rv>>

Ends == {"r", "w"}
Peer(e) == IF e = "r" THEN "w" ELSE "r"
FD == 0 .. UIOMAX - 1
EPIPE == -1

(* A process is in user mode, in pipe_read or pipe_write (ready to run),   *)
(* waiting there, in process_exit, or does not exist.                      *)
Labels == {"run", "r", "w", "rwait", "wwait", "exit", "dead"}

(* References to end e.                                                    *)
Refs(e) == {x \in Procs \X FD : uiotab[x[1]][x[2]] = e}
Holds(p, e) == \E fd \in FD : uiotab[p][fd] = e

Lesser(m, n) == IF m <= n THEN m ELSE n
Advance(pos, n) == (pos + n) % PAGE_SIZE

(* condition_broadcast(&p->readable) for e = "r", writeable for e = "w".   *)
Woken(e) ==
  LET waiting == IF e = "r" THEN "rwait" ELSE "wwait"
  IN [q \in Procs |-> IF pc[q] = waiting THEN e ELSE pc[q]]
----------------------------------------------------------------------------
(* create_pipe, called by syspipe with two free descriptors.               *)
Init ==
  /\ data \in [0 .. PAGE_SIZE - 1 -> Bytes]
  /\ hpos = 0 /\ tpos = 0 /\ bytecnt = 0
  /\ open = [e \in Ends |-> TRUE]
  /\ refcnt = [e \in Ends |-> 1]
  /\ freed = 0
  /\ uiotab = [p \in Procs |-> [fd \in FD |->
                 IF p # First THEN "none"
                 ELSE CASE fd = 0 -> "w" [] fd = 1 -> "r" [] OTHER -> "none"]]
  /\ pc = [p \in Procs |-> IF p = First THEN "run" ELSE "dead"]
  /\ buf = [p \in Procs |-> <<>>]
  /\ rv = [p \in Procs |-> 0]

Call(p, e, n, bytes) ==
  /\ pc[p] = "run" /\ Holds(p, e)
  /\ pc' = [pc EXCEPT ![p] = e]
  /\ rv' = [rv EXCEPT ![p] = n]
  /\ buf' = [buf EXCEPT ![p] = bytes]
  /\ UNCHANGED <<pipeVars, endVars>>

Return(p, n, bytes, pcs) ==
  /\ pc' = [pcs EXCEPT ![p] = "run"]
  /\ rv' = [rv EXCEPT ![p] = n]
  /\ buf' = [buf EXCEPT ![p] = bytes]

----------------------------------------------------------------------------
(* pipe_read.                                                              *)
ReadCount(p) == Lesser(rv[p], bytecnt)

(* A request of no bytes, or end of file.                                  *)
ReadNothing(p) ==
  /\ pc[p] = "r"
  /\ rv[p] = 0 \/ (bytecnt = 0 /\ ~open["w"])
  /\ Return(p, 0, <<>>, pc)
  /\ UNCHANGED <<pipeVars, endVars>>

ReadWait(p) ==
  /\ pc[p] = "r" /\ rv[p] > 0 /\ bytecnt = 0 /\ open["w"]
  /\ pc' = [pc EXCEPT ![p] = "rwait"]
  /\ UNCHANGED <<pipeVars, endVars, buf, rv>>

ReadTake(p) ==
  /\ pc[p] = "r" /\ rv[p] > 0 /\ bytecnt > 0
  /\ Return(p, ReadCount(p),
            [i \in 1 .. ReadCount(p) |-> data[Advance(hpos, i - 1)]], Woken("w"))
  /\ hpos' = Advance(hpos, ReadCount(p))
  /\ bytecnt' = bytecnt - ReadCount(p)
  /\ UNCHANGED <<data, tpos, endVars>>

----------------------------------------------------------------------------
(* pipe_write.                                                             *)
(* Fault: the space left in the buffer is not looked at.                   *)
WriteCountUnbounded(p) == rv[p]

WriteCount(p) == Lesser(rv[p], PAGE_SIZE - bytecnt)

WriteNothing(p) ==
  /\ pc[p] = "w" /\ rv[p] = 0
  /\ Return(p, 0, <<>>, pc)
  /\ UNCHANGED <<pipeVars, endVars>>

WriteFail(p) ==
  /\ pc[p] = "w" /\ rv[p] > 0 /\ ~open["r"]
  /\ Return(p, EPIPE, <<>>, pc)
  /\ UNCHANGED <<pipeVars, endVars>>

WriteWait(p) ==
  /\ pc[p] = "w" /\ rv[p] > 0 /\ bytecnt = PAGE_SIZE /\ open["r"]
  /\ pc' = [pc EXCEPT ![p] = "wwait"]
  /\ UNCHANGED <<pipeVars, endVars, buf, rv>>

(* Fault: the bytes are stored in front of the head.                       *)
StoredAtHead(p, j, i) == j = Advance(hpos, i - 1)

(* Byte i of the request goes to position j.                               *)
Stored(p, j, i) == j = Advance(tpos, i - 1)

WritePut(p) ==
  /\ pc[p] = "w" /\ rv[p] > 0 /\ bytecnt < PAGE_SIZE /\ open["r"]
  /\ LET n == WriteCount(p) IN
       /\ data' = [j \in 0 .. PAGE_SIZE - 1 |->
                     IF \E i \in 1 .. n : Stored(p, j, i)
                     THEN buf[p][CHOOSE i \in 1 .. n : Stored(p, j, i)]
                     ELSE data[j]]
       /\ tpos' = Advance(tpos, n)
       /\ bytecnt' = bytecnt + n
       /\ Return(p, n, <<>>, Woken("r"))
  /\ UNCHANGED <<hpos, endVars>>

----------------------------------------------------------------------------
(* The ends: uio_addref, uio_close, and the system calls that use them.    *)
(* read_pipe_close and write_pipe_close free the pipe if the other end is  *)
(* closed already.                                                         *)
LastClose(e) == ~open[Peer(e)]

(* Fault: the processes waiting for the closed end stay asleep.            *)
EndClosedSilently(e) ==
  /\ open' = [open EXCEPT ![e] = FALSE]
  /\ freed' = IF LastClose(e) THEN freed + 1 ELSE freed
  /\ UNCHANGED pc

EndClosed(e) ==
  /\ open' = [open EXCEPT ![e] = FALSE]
  /\ freed' = IF LastClose(e) THEN freed + 1 ELSE freed
  /\ pc' = Woken(Peer(e))

(* uio_close of the end in slot fd of p, which the slot then forgets.      *)
UioClose(p, fd) ==
  /\ uiotab[p][fd] # "none"
  /\ uiotab' = [uiotab EXCEPT ![p][fd] = "none"]
  /\ LET e == uiotab[p][fd]
         n == IF refcnt[e] > 0 THEN refcnt[e] - 1 ELSE 0
     IN /\ refcnt' = [refcnt EXCEPT ![e] = n]
        /\ IF n = 0 THEN EndClosed(e) ELSE UNCHANGED <<open, freed, pc>>
  /\ UNCHANGED <<pipeVars, buf, rv>>

SysClose(p, fd) == pc[p] = "run" /\ UioClose(p, fd)

(* sysuiodup.                                                              *)
SysUiodup(p, old, new) ==
  /\ pc[p] = "run" /\ uiotab[p][old] # "none" /\ uiotab[p][new] = "none"
  /\ uiotab' = [uiotab EXCEPT ![p][new] = uiotab[p][old]]
  /\ refcnt' = [refcnt EXCEPT ![uiotab[p][old]] = @ + 1]
  /\ UNCHANGED <<pipeVars, open, freed, pc, buf, rv>>

(* Fault: each end the child inherits is counted once.                     *)
InheritedOnce(p, e) == IF Holds(p, e) THEN 1 ELSE 0

Inherited(p, e) == Cardinality({fd \in FD : uiotab[p][fd] = e})

(* process_fork copies the table and counts every reference.  When it      *)
(* fails it closes them again, and the counts are what they were.          *)
Fork(p, q) ==
  /\ pc[p] = "run" /\ pc[q] = "dead"
  /\ uiotab' = [uiotab EXCEPT ![q] = uiotab[p]]
  /\ refcnt' = [e \in Ends |-> refcnt[e] + Inherited(p, e)]
  /\ pc' = [pc EXCEPT ![q] = "run"]
  /\ UNCHANGED <<pipeVars, open, freed, buf, rv>>

(* process_exit closes every descriptor, then the thread exits.            *)
ExitStart(p) ==
  /\ pc[p] = "run"
  /\ pc' = [pc EXCEPT ![p] = "exit"]
  /\ UNCHANGED <<pipeVars, endVars, buf, rv>>

ExitClose(p, fd) ==
  /\ pc[p] = "exit" /\ \A g \in FD : g < fd => uiotab[p][g] = "none"
  /\ UioClose(p, fd)

ExitDone(p) ==
  /\ pc[p] = "exit" /\ \A fd \in FD : uiotab[p][fd] = "none"
  /\ pc' = [pc EXCEPT ![p] = "dead"]
  /\ UNCHANGED <<pipeVars, endVars, buf, rv>>

----------------------------------------------------------------------------
(* Steps that need no decision of the program p runs.                      *)
Progress(p) ==
  \/ ReadNothing(p) \/ ReadWait(p) \/ ReadTake(p)
  \/ WriteNothing(p) \/ WriteFail(p) \/ WriteWait(p) \/ WritePut(p)
  \/ \E fd \in FD : ExitClose(p, fd)
  \/ ExitDone(p)

Next ==
  \E p \in Procs :
    \/ \E n \in 0 .. MaxReq : Call(p, "r", n, <<>>)
    \/ \E s \in BoundedSeq(Bytes, MaxReq) : Call(p, "w", Len(s), s)
    \/ \E fd \in FD : SysClose(p, fd)
    \/ \E old, new \in FD : SysUiodup(p, old, new)
    \/ \E q \in Procs : Fork(p, q)
    \/ ExitStart(p)
    \/ Progress(p)

Spec == Init /\ [][Next]_vars

(* A process that is ready runs (RoundRobin of Threads).                   *)
FairSpec == Spec /\ \A p \in Procs : WF_vars(Progress(p))
----------------------------------------------------------------------------
(* Properties.                                                             *)

TypeOK ==
  /\ data \in [0 .. PAGE_SIZE - 1 -> Bytes]
  /\ hpos \in 0 .. PAGE_SIZE - 1 /\ tpos \in 0 .. PAGE_SIZE - 1
  /\ bytecnt \in 0 .. PAGE_SIZE
  /\ open \in [Ends -> BOOLEAN]
  /\ refcnt \in [Ends -> Nat]
  /\ freed \in Nat
  /\ uiotab \in [Procs -> [FD -> Ends \cup {"none"}]]
  /\ pc \in [Procs -> Labels]
  /\ buf \in [Procs -> Seq(Bytes)]
  /\ rv \in [Procs -> Int]

(* The bytes between head and tail, in order, are the channel's contents:  *)
(* the ring buffer behaves as a FIFO channel that keeps every byte, gives  *)
(* it to one reader, and signals end of file and EPIPE at the right time.  *)
Contents == [i \in 1 .. bytecnt |-> data[Advance(hpos, i - 1)]]
AbstractOp == [p \in Procs |-> CASE pc[p] \in {"r", "rwait"} -> "read"
                                 [] pc[p] \in {"w", "wwait"} -> "write"
                                 [] OTHER                    -> "idle"]
Chan == INSTANCE Channel WITH
  chan <- Contents, read_open <- open["r"], write_open <- open["w"],
  op <- AbstractOp, Capacity <- PAGE_SIZE
ChannelSpec == Chan!Spec

(* The reference counts are the numbers of descriptors, and an end is open *)
(* while a descriptor refers to it: no end is closed under a process that  *)
(* holds it, and none stays open when its last holder is gone.  The memory *)
(* of the pipe is freed once, by the close that leaves both ends closed,   *)
(* and never while a process is in a call on it.                           *)
RefcntExact ==
  /\ \A e \in Ends : /\ refcnt[e] = Cardinality(Refs(e))
                     /\ open[e] <=> refcnt[e] > 0
  /\ freed = IF open["r"] \/ open["w"] THEN 0 ELSE 1
  /\ \A p \in Procs : pc[p] \in {"r", "w", "rwait", "wwait"} => freed = 0

(* "the reader should only be forced to wait if a writer exists, and a     *)
(* writer should only be forced to wait if a reader exists" (uio.h:82-83): *)
(* a read does not stay in the kernel for ever while there are bytes to    *)
(* read or the writers are gone; nor a write while there is space or no    *)
(* reader is left.                                                         *)
CallsReturn ==
  \A p \in Procs :
    /\ []<>(pc[p] \notin {"r", "rwait"} \/ (bytecnt = 0 /\ open["w"]))
    /\ []<>(pc[p] \notin {"w", "wwait"} \/ (bytecnt = PAGE_SIZE /\ open["r"]))
=============================================================================
