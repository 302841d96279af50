-------------------------------- MODULE Uart --------------------------------
(***************************************************************************)
(* The serial driver dev/uart.c and its device: two ring buffers between   *)
(* the callers and the interrupt handler, and the interrupt enable bits    *)
(* that say which of the two sides waits for the device.                   *)
(*                                                                         *)
(* A system call runs with interrupts off until it waits, so a caller's    *)
(* steps are those between two waits, and the handler runs between them.   *)
(* (A kernel thread has interrupts on until line 272: the handler may then *)
(* run before RecvCopy, after the lock is taken.)                          *)
(* The device has no FIFO (the driver does not switch it on): the receiver *)
(* and the transmitter hold one character each. A handler that finds more  *)
(* characters, because they come while it runs, is modelled as more runs   *)
(* of the handler.                                                         *)
(***************************************************************************)
EXTENDS Plic, Sequences, FiniteSets

CONSTANTS
  Client,   \* threads that use the port
  Char,     \* characters
  RBUFSZ,   \* UART_RBUFSZ
  POS,      \* 2^32 in the code: buffer positions are taken modulo POS
  MaxReq,   \* characters per call that receives (bound)
  Texts,    \* what a call may send (bound)
  irqno     \* its interrupt source

NoOne == "no one"

ASSUME UartAssumption ==
  /\ irqno \in Src /\ RBUFSZ \in Nat \ {0} /\ MaxReq \in Nat \ {0}
  /\ POS \in Nat /\ POS > RBUFSZ /\ POS % RBUFSZ = 0
  /\ \A s \in Texts : s \in Seq(Char) /\ Len(s) \in 1 .. MaxReq
  /\ Char # {} /\ NoOne \notin Client

VARIABLES
  opened, owner,  \* uart->opened; the holder of the port's uart_locks entry
  rxbuf, txbuf,   \* the ring buffers
  ier,            \* interrupt enable register
  rbr, thr,       \* what the receiver and the transmitter hold
  pc, req, ret    \* where each caller is, its call; what the last call returned

ringVars == <<rxbuf, txbuf>>
vars == <<opened, owner, ringVars, ier, rbr, thr, pc, req, ret, plicVars>>

Idle  == [op |-> "idle", left |-> 0, data |-> <<>>]
Go(c, label) == pc' = [pc EXCEPT ![c] = label]
----------------------------------------------------------------------------
(* Ring buffers: positions run freely and are taken modulo the size.       *)
EmptyRing == [hpos |-> 0, tpos |-> 0, data |-> [i \in 0 .. RBUFSZ - 1 |-> CHOOSE ch \in Char : TRUE]]
Used(r)   == (r.tpos + POS - r.hpos) % POS
rbuf_empty(r) == r.hpos = r.tpos

(* Fault: one more character is let in.                                    *)
FullLate(r)  == Used(r) > RBUFSZ
rbuf_full(r) == Used(r) = RBUFSZ

(* What is in the buffer, first in first; the buffer after n more, after n *)
(* fewer characters.                                                       *)
Content(r)  == [i \in 1 .. Used(r) |-> r.data[(r.hpos + i - 1) % RBUFSZ]]
(* Fault: characters are stored behind the tail.                           *)
PutBehind(r, s) ==
  [r EXCEPT !.tpos = (@ + Len(s)) % POS,
            !.data = [i \in DOMAIN @ |->
               IF \E k \in DOMAIN s : (r.tpos + k) % RBUFSZ = i
               THEN s[CHOOSE k \in DOMAIN s : (r.tpos + k) % RBUFSZ = i] ELSE @[i]]]
Put(r, s) ==
  [r EXCEPT !.tpos = (@ + Len(s)) % POS,
            !.data = [i \in DOMAIN @ |->
               IF \E k \in DOMAIN s : (r.tpos + k - 1) % RBUFSZ = i
               THEN s[CHOOSE k \in DOMAIN s : (r.tpos + k - 1) % RBUFSZ = i] ELSE @[i]]]
Got(r, n) == [r EXCEPT !.hpos = (@ + n) % POS]

Lesser(a, b) == IF a < b THEN a ELSE b
----------------------------------------------------------------------------
(* uart_serial_open, uart_serial_close.                                    *)
Open(c) ==
  /\ pc[c] = "idle" /\ ~opened
  /\ rxbuf' = EmptyRing /\ txbuf' = EmptyRing
  /\ rbr' = <<>>
  /\ isrtab' = [isrtab EXCEPT ![irqno] = TRUE]
  /\ priority' = [priority EXCEPT ![irqno] = 1]
  /\ ier' = {"DR"} /\ opened' = TRUE
  /\ UNCHANGED <<owner, thr, pc, req, ret, claimed>>

Close(c) ==
  /\ pc[c] = "idle" /\ opened
  /\ ier' = {} /\ opened' = FALSE
  /\ isrtab' = [isrtab EXCEPT ![irqno] = FALSE]
  /\ priority' = [priority EXCEPT ![irqno] = 0]
  /\ UNCHANGED <<owner, ringVars, rbr, thr, pc, req, ret, claimed>>

Call(c, r) ==
  /\ pc[c] = "idle" /\ opened
  /\ Go(c, "lock")
  /\ req' = [req EXCEPT ![c] = r]
  /\ ret' = <<>>
  /\ UNCHANGED <<opened, owner, ringVars, ier, rbr, thr, plicVars>>

Lock(c) ==
  /\ pc[c] = "lock" /\ owner = NoOne
  /\ owner' = c
  /\ Go(c, req[c].op)
  /\ ier' = IF req[c].op = "recv" THEN ier \cup {"DR"} ELSE ier
  /\ UNCHANGED <<opened, ringVars, rbr, thr, req, ret, plicVars>>

(* lock_release and return.                                                *)
Leave(c, result) ==
  /\ owner' = NoOne
  /\ Go(c, "idle")
  /\ req' = [req EXCEPT ![c] = Idle]
  /\ ret' = result

(* The inner loop of recv: what is there, up to what is asked for.         *)
RecvCopy(c) ==
  /\ pc[c] = "recv" /\ ~rbuf_empty(rxbuf)
  /\ LET k   == Lesser(req[c].left, Used(rxbuf))
         got == req[c].data \o SubSeq(Content(rxbuf), 1, k)
     IN /\ rxbuf' = Got(rxbuf, k)
        /\ IF k = req[c].left
           THEN Leave(c, got)
           ELSE /\ req' = [req EXCEPT ![c].left = @ - k, ![c].data = got]
                /\ UNCHANGED <<owner, pc, ret>>
  /\ UNCHANGED <<opened, txbuf, ier, rbr, thr, plicVars>>

RecvWait(c) ==
  /\ pc[c] = "recv" /\ rbuf_empty(rxbuf)
  /\ Go(c, "rxwait")
  /\ UNCHANGED <<opened, owner, ringVars, ier, rbr, thr, req, ret, plicVars>>

(* The inner loop of send, then THREIE.                                    *)
SendCopy(c) ==
  /\ pc[c] = "send" /\ ~rbuf_full(txbuf)
  /\ LET k == Lesser(req[c].left, RBUFSZ - Used(txbuf))
         s == req[c].data
     IN /\ txbuf' = Put(txbuf, SubSeq(s, 1, k))
        /\ IF k = req[c].left
           THEN Leave(c, <<>>)
           ELSE /\ req' = [req EXCEPT ![c].left = @ - k, ![c].data = SubSeq(@, k + 1, Len(@))]
                /\ UNCHANGED <<owner, pc, ret>>
  /\ ier' = ier \cup {"THRE"}
  /\ UNCHANGED <<opened, rxbuf, rbr, thr, plicVars>>

SendWait(c) ==
  /\ pc[c] = "send" /\ rbuf_full(txbuf)
  /\ Go(c, "txwait")
  /\ UNCHANGED <<opened, owner, ringVars, ier, rbr, thr, req, ret, plicVars>>
----------------------------------------------------------------------------
(* The interrupt enables after a run of the handler.                       *)
(* Fault: the receiver's interrupt is switched off when its buffer is      *)
(* empty, as the transmitter's is.                                         *)
EnablesSwapped(rx, tx) ==
  (IF rbuf_empty(rx) THEN {} ELSE {"DR"}) \cup (IF rbuf_empty(tx) THEN {} ELSE {"THRE"})
Enables(rx, tx) ==
  (IF rbuf_full(rx) THEN {} ELSE {"DR"}) \cup (IF rbuf_empty(tx) THEN {} ELSE {"THRE"})

(* uart_isr: one character in, one out, whoever waits for them is woken.   *)
Isr ==
  /\ priority[irqno] > 0
  /\ ("DR" \in ier /\ rbr # <<>>) \/ ("THRE" \in ier /\ thr = <<>>)
  /\ LET rx  == rbr # <<>> /\ ~rbuf_full(rxbuf)
         tx  == thr = <<>> /\ ~rbuf_empty(txbuf)
         rx2 == IF rx THEN Put(rxbuf, rbr) ELSE rxbuf
         tx2 == IF tx THEN Got(txbuf, 1) ELSE txbuf
     IN /\ rxbuf' = rx2 /\ rbr' = IF rx THEN <<>> ELSE rbr
        /\ txbuf' = tx2 /\ thr' = IF tx THEN <<Content(txbuf)[1]>> ELSE thr
        /\ pc' = [c \in Client |->
             CASE rx /\ pc[c] = "rxwait" -> "recv"
               [] tx /\ pc[c] = "txwait" -> "send"
               [] OTHER -> pc[c]]
        /\ ier' = Enables(rx2, tx2)
  /\ UNCHANGED <<opened, owner, req, ret, plicVars>>

(* The device: a character comes in, over the last one if that is still    *)
(* there, or the one that is held has been sent.                           *)
Arrive(ch) ==
  /\ rbr' = <<ch>>
  /\ UNCHANGED <<opened, owner, ringVars, ier, thr, pc, req, ret, plicVars>>

Sent ==
  /\ thr # <<>> /\ thr' = <<>>
  /\ UNCHANGED <<opened, owner, ringVars, ier, rbr, pc, req, ret, plicVars>>
----------------------------------------------------------------------------
Init ==
  /\ opened = FALSE /\ owner = NoOne
  /\ rxbuf = EmptyRing /\ txbuf = EmptyRing
  /\ ier = {} /\ rbr = <<>> /\ thr = <<>>
  /\ pc = [c \in Client |-> "idle"] /\ req = [c \in Client |-> Idle]
  /\ ret = <<>>
  /\ PlicInit

(* The port is closed by its last user: nobody is in a call then.          *)
Start(c) ==
  \/ \E n \in 1 .. MaxReq : Call(c, [op |-> "recv", left |-> n, data |-> <<>>])
  \/ \E s \in Texts : Call(c, [op |-> "send", left |-> Len(s), data |-> s])
  \/ Open(c)
  \/ Close(c) /\ \A d \in Client : pc[d] = "idle"

Step(c) == Lock(c) \/ RecvCopy(c) \/ RecvWait(c) \/ SendCopy(c) \/ SendWait(c)

Next ==
  \/ \E c \in Client : Start(c) \/ Step(c)
  \/ Isr \/ Sent \/ \E ch \in Char : Arrive(ch)

Spec == Init /\ [][Next]_vars
----------------------------------------------------------------------------
TypeOK ==
  /\ PlicTypeOK /\ owner \in Client \cup {NoOne}
  /\ \A r \in {rxbuf, txbuf} :
       /\ {r.hpos, r.tpos} \subseteq 0 .. POS - 1 /\ Used(r) <= RBUFSZ
       /\ r.data \in [0 .. RBUFSZ - 1 -> Char]
  /\ ier \subseteq {"DR", "THRE"}
  /\ opened <=> priority[irqno] = 1
  /\ \A c \in Client : pc[c] \notin {"idle", "lock"} <=> owner = c

(* Whoever waits for the port will be woken by it: a reader waits with an  *)
(* empty buffer and the receiver's interrupt on, a writer with a full      *)
(* buffer and the transmitter's on.                                        *)
WaiterIsHeard ==
  \A c \in Client :
    /\ pc[c] = "rxwait" => rbuf_empty(rxbuf) /\ "DR" \in ier
    /\ pc[c] = "txwait" => rbuf_full(txbuf) /\ "THRE" \in ier

(* The port is a line that keeps what comes in and goes out in order.      *)
L == INSTANCE Line WITH
       in <- IF opened THEN Content(rxbuf) \o rbr ELSE <<>>,
       out <- thr \o (IF opened THEN Content(txbuf) ELSE <<>>),
       call <- req
LineSpec == L!Spec
=============================================================================
