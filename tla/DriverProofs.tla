---------------------------- MODULE DriverProofs ----------------------------
(***************************************************************************)
(* Proofs about two drivers.                                               *)
(* Vioblk: for any number of callers, sectors and values and any width of  *)
(* the indices, the driver and the device never touch the request at the   *)
(* same time, and calls are those of the abstract Disk.                    *)
(* Alarms: for any number of sleepers, the timer is set for the first.     *)
(***************************************************************************)
EXTENDS Vioblk, Alarms, SequenceTheorems, WellFoundedInduction, TLAPS

Requests ==
  [op : {"idle", "fetch", "store"}, at : Nat, left : Nat, val : Value \cup {0},
   got : Seq(Value)]

(* Where a caller's request is on the queue, or was just answered.         *)
Waiting == {"published", "noted", "check", "asleep"}

Typing ==
  /\ isrtab \in [Src -> BOOLEAN] /\ priority \in [Src -> 0 .. 1]
  /\ claimed \in Src \cup {NoSrc}
  /\ owner \in Client \cup {NoOne} /\ pc \in [Client -> Labels]
  /\ avail \in 0 .. IDX - 1 /\ used \in 0 .. IDX - 1
  /\ prev \in 0 .. IDX - 1 /\ seen \in 0 .. IDX - 1
  /\ status \in {"none", "pending", "ok", "error"} /\ buf \in Value
  /\ disk \in [Sector -> Value]
  /\ req \in [Client -> Requests]
  /\ taken \in BOOLEAN /\ kicked \in BOOLEAN

(* The lock is held from its acquisition to the return; what a caller asks *)
(* for, and what holds of the interrupt source while it opens or closes.   *)
CallerOK(c) ==
  /\ owner = c <=> pc[c] \notin {"idle", "lock"}
  /\ pc[c] \in {"idle", "open2", "close2"} => req[c] = Idle
  /\ pc[c] \notin {"idle", "open2", "close2"} => req[c].op \in {"fetch", "store"}
  /\ req[c].op = "store" => req[c].val \in Value
  /\ pc[c] \in Waiting => More(req[c])
  /\ pc[c] = "open2" => isrtab[irqno]
  /\ pc[c] = "close2" => priority[irqno] = 0
CallerInv == \A c \in Client : CallerOK(c)

(* A source that is on, or whose handler runs, has a handler.              *)
SourceInv ==
  /\ claimed # NoSrc => claimed = irqno /\ isrtab[irqno]
  /\ priority[irqno] = 1 => isrtab[irqno]

(* The request on the queue is that of the caller that waits; it is        *)
(* answered before the used index moves.                                   *)
RequestOK(c) ==
  pc[c] \in Waiting =>
    /\ header = [op |-> req[c].op, sector |-> req[c].at]
    /\ req[c].op = "store" => buf = req[c].val
    /\ ~Outstanding => status \in {"ok", "error"}
    /\ pc[c] # "published" /\ used # prev => ~Outstanding
RequestInv == \A c \in Client : RequestOK(c)

(* At most one request is on the queue, and somebody waits for it.         *)
QueueInv ==
  /\ used = seen
  /\ taken => Outstanding
  /\ Outstanding => avail = Inc(seen) /\ status = "pending"
  /\ Outstanding => \E c \in Client : pc[c] \in Waiting

DriverInv == Typing /\ CallerInv /\ SourceInv /\ RequestInv /\ QueueInv

(* A device that waits to be notified takes the request after that.        *)
PatientInv ==
  /\ kicked => Outstanding /\ ~taken
  /\ \A c \in Client :
       pc[c] \in {"published", "noted"} => Outstanding /\ ~taken /\ ~kicked
----------------------------------------------------------------------------
(* Indices.                                                                *)

LEMMA IncOK ==
  ASSUME NEW i \in 0 .. IDX - 1
  PROVE  Inc(i) \in 0 .. IDX - 1 /\ Inc(i) # i
BY VioblkAssumption DEF Inc

LEMMA OneHolder ==
  ASSUME CallerInv, NEW c \in Client, NEW d \in Client,
         pc[c] \notin {"idle", "lock"}, pc[d] \notin {"idle", "lock"}
  PROVE  c = d
BY DEF CallerInv, CallerOK

LEMMA RequestTypes ==
  ASSUME Typing, NEW c \in Client
  PROVE  /\ Idle \in Requests /\ req[c] \in Requests
         /\ More(req[c]) => /\ Advanced(req[c]) \in Requests
                            /\ Fetched(req[c], buf) \in Requests
<1>1. Idle \in Requests /\ req[c] \in Requests
  BY DEF Idle, Requests, Typing
<1>2. ASSUME NEW r \in Requests, More(r)
      PROVE  Advanced(r) \in Requests /\ Fetched(r, buf) \in Requests
  <2>1. /\ r.at + 1 \in Nat /\ r.left - 1 \in Nat
        /\ Append(r.got, buf) \in Seq(Value)
    BY <1>2 DEF More, Requests, Typing
  <2>2. Advanced(r) \in Requests
    BY <2>1 DEF Advanced, Requests
  <2>3. Advanced(r).got = r.got
    BY DEF Advanced, Requests
  <2> QED BY <2>1, <2>2, <2>3 DEF Fetched, Requests
<1> QED BY <1>1, <1>2

LEMMA SectorOK ==
  ASSUME NEW r \in Requests, More(r)
  PROVE  r.at \in Sector /\ r.left \in Nat \ {0}
BY VioblkAssumption DEF More, Sector, Requests

----------------------------------------------------------------------------
(* Steps.                                                                  *)

LEMMA DriverInit == Init => DriverInv /\ PatientInv
<1> SUFFICES ASSUME Init PROVE DriverInv /\ PatientInv
  OBVIOUS
<1>0. Idle \in Requests
  BY DEF Idle, Requests
<1>1. 0 \in 0 .. IDX - 1
  BY VioblkAssumption
<1>2. /\ isrtab \in [Src -> BOOLEAN] /\ priority \in [Src -> 0 .. 1]
      /\ claimed \in Src \cup {NoSrc}
  BY DEF Init, PlicInit
<1>3. Typing
  BY <1>0, <1>1, <1>2 DEF Init, Typing, Labels
<1>4. CallerInv /\ SourceInv /\ RequestInv /\ QueueInv /\ PatientInv
  BY VioblkAssumption DEF Init, PlicInit, CallerInv, CallerOK, SourceInv, RequestInv, RequestOK,
    QueueInv, PatientInv, Outstanding, Idle, Waiting
<1> QED BY <1>3, <1>4 DEF DriverInv

LEMMA LockStep ==
  ASSUME DriverInv, NEW c \in Client, claimed = NoSrc, Lock(c)
  PROVE  DriverInv'
<1> USE VioblkAssumption DEF Lock, Go, queueVars, devVars, plicVars
<1>1. Typing'
  BY DEF DriverInv, Typing, Labels
<1>2. CallerInv'
  BY DEF DriverInv, Typing, CallerInv, CallerOK, Idle, Waiting, Requests, SourceInv
<1>3. SourceInv'
  BY DEF DriverInv, SourceInv
<1>4. RequestInv'
  BY DEF DriverInv, Typing, CallerInv, CallerOK, RequestInv, RequestOK, QueueInv,
       Outstanding, Waiting, Requests
<1>5. QueueInv'
  BY DEF DriverInv, Typing, CallerInv, CallerOK, RequestInv, RequestOK, QueueInv,
       Outstanding, Waiting
<1> QED BY <1>1, <1>2, <1>3, <1>4, <1>5 DEF DriverInv

LEMMA OpenDoneStep ==
  ASSUME DriverInv, NEW c \in Client, claimed = NoSrc, OpenDone(c)
  PROVE  DriverInv'
<1> USE VioblkAssumption DEF OpenDone, plic_enable_source, Go, queueVars, devVars, plicVars
<1>1. Typing'
  BY DEF DriverInv, Typing, Labels
<1>2. CallerInv'
  BY DEF DriverInv, Typing, CallerInv, CallerOK, Idle, Waiting, Requests, SourceInv
<1>3. SourceInv'
  BY DEF DriverInv, SourceInv, Typing, CallerInv, CallerOK
<1>4. RequestInv'
  BY DEF DriverInv, Typing, CallerInv, CallerOK, RequestInv, RequestOK, QueueInv,
       Outstanding, Waiting, Requests
<1>5. QueueInv'
  BY DEF DriverInv, Typing, CallerInv, CallerOK, RequestInv, RequestOK, QueueInv,
       Outstanding, Waiting
<1> QED BY <1>1, <1>2, <1>3, <1>4, <1>5 DEF DriverInv

LEMMA CloseDoneStep ==
  ASSUME DriverInv, NEW c \in Client, claimed = NoSrc, CloseDone(c)
  PROVE  DriverInv'
<1> USE VioblkAssumption DEF CloseDone, ClearIsr, Go, queueVars, devVars, plicVars
<1>1. Typing'
  BY DEF DriverInv, Typing, Labels
<1>2. CallerInv'
  BY DEF DriverInv, Typing, CallerInv, CallerOK, Idle, Waiting, Requests, SourceInv
<1>3. SourceInv'
  BY DEF DriverInv, SourceInv, Typing, CallerInv, CallerOK
<1>4. RequestInv'
  BY DEF DriverInv, Typing, CallerInv, CallerOK, RequestInv, RequestOK, QueueInv,
       Outstanding, Waiting, Requests
<1>5. QueueInv'
  BY DEF DriverInv, Typing, CallerInv, CallerOK, RequestInv, RequestOK, QueueInv,
       Outstanding, Waiting
<1> QED BY <1>1, <1>2, <1>3, <1>4, <1>5 DEF DriverInv

LEMMA DoneStep ==
  ASSUME DriverInv, NEW c \in Client, claimed = NoSrc, Done(c)
  PROVE  DriverInv'
<1> USE VioblkAssumption DEF Done, Leave, Go, queueVars, devVars, plicVars
<1>0. req'[c] \in Requests /\ req' = [req EXCEPT ![c] = req'[c]]
  BY RequestTypes DEF DriverInv, Typing, CallerInv, CallerOK, Waiting
<1>1. Typing'
  BY <1>0 DEF DriverInv, Typing, Labels
<1>2. CallerInv'
  BY DEF DriverInv, Typing, CallerInv, CallerOK, Idle, Waiting, Requests, SourceInv
<1>3. SourceInv'
  BY DEF DriverInv, SourceInv
<1>4. RequestInv'
  BY DEF DriverInv, Typing, CallerInv, CallerOK, RequestInv, RequestOK, QueueInv,
       Outstanding, Waiting, Requests
<1>5. QueueInv'
  BY DEF DriverInv, Typing, CallerInv, CallerOK, RequestInv, RequestOK, QueueInv,
       Outstanding, Waiting
<1> QED BY <1>1, <1>2, <1>3, <1>4, <1>5 DEF DriverInv

LEMMA PublishFetchStep ==
  ASSUME DriverInv, NEW c \in Client, claimed = NoSrc, PublishFetch(c)
  PROVE  DriverInv'
<1> USE VioblkAssumption DEF PublishFetch, Publish, Go, queueVars, devVars, plicVars
<1>1. Typing'
  BY IncOK DEF DriverInv, Typing, Labels
<1>2. CallerInv'
  BY DEF DriverInv, Typing, CallerInv, CallerOK, Idle, Waiting, Requests, SourceInv
<1>3. SourceInv'
  BY DEF DriverInv, SourceInv
<1>4. /\ avail = seen /\ avail' = Inc(seen) /\ avail' # seen' /\ seen' = seen /\ used' = used
      /\ status' = "pending" /\ header' = [op |-> req[c].op, sector |-> req[c].at]
      /\ req' = req /\ pc'[c] = "published" /\ (req[c].op = "store" => buf' = req[c].val)
      /\ prev' = prev /\ taken' = taken
  <2>1. \A d \in Client : pc[d] \notin Waiting
    BY OneHolder DEF DriverInv, Waiting
  <2> QED BY <2>1, IncOK DEF DriverInv, Typing, QueueInv, Outstanding
<1>5. RequestInv'
  <2>1. \A d \in Client \ {c} : pc'[d] = pc[d] /\ pc[d] \in {"idle", "lock"}
    BY OneHolder DEF DriverInv, Typing
  <2>2. \A d \in Client \ {c} : RequestOK(d)'
    BY <2>1 DEF RequestOK, Waiting
  <2>3. Outstanding'
    BY <1>4 DEF Outstanding
  <2>4. RequestOK(c)'
    BY <1>4, <2>3 DEF RequestOK
  <2> QED BY <2>2, <2>4 DEF RequestInv
<1>6. QueueInv'
  <2>1. ~taken
    BY <1>4 DEF DriverInv, QueueInv, Outstanding
  <2> QED BY <1>4, <2>1 DEF DriverInv, QueueInv, Outstanding, Waiting
<1> QED BY <1>1, <1>2, <1>3, <1>5, <1>6 DEF DriverInv

LEMMA PublishStoreStep ==
  ASSUME DriverInv, NEW c \in Client, claimed = NoSrc, PublishStore(c)
  PROVE  DriverInv'
<1> USE VioblkAssumption DEF PublishStore, Publish, Go, queueVars, devVars, plicVars
<1>1. buf' \in Value
  BY DEF DriverInv, CallerInv, CallerOK
<1>2. Typing'
  BY <1>1, IncOK DEF DriverInv, Typing, Labels
<1>3. CallerInv'
  BY DEF DriverInv, Typing, CallerInv, CallerOK, Idle, Waiting, Requests, SourceInv
<1>4. SourceInv'
  BY DEF DriverInv, SourceInv
<1>5. /\ avail = seen /\ avail' = Inc(seen) /\ avail' # seen' /\ seen' = seen /\ used' = used
      /\ status' = "pending" /\ header' = [op |-> req[c].op, sector |-> req[c].at]
      /\ req' = req /\ pc'[c] = "published" /\ (req[c].op = "store" => buf' = req[c].val)
      /\ prev' = prev /\ taken' = taken
  <2>1. \A d \in Client : pc[d] \notin Waiting
    BY OneHolder DEF DriverInv, Waiting
  <2> QED BY <2>1, IncOK DEF DriverInv, Typing, QueueInv, Outstanding
<1>6. RequestInv'
  <2>1. \A d \in Client \ {c} : pc'[d] = pc[d] /\ pc[d] \in {"idle", "lock"}
    BY OneHolder DEF DriverInv, Typing
  <2>2. \A d \in Client \ {c} : RequestOK(d)'
    BY <2>1 DEF RequestOK, Waiting
  <2>3. Outstanding'
    BY <1>5 DEF Outstanding
  <2>4. RequestOK(c)'
    BY <1>5, <2>3 DEF RequestOK
  <2> QED BY <2>2, <2>4 DEF RequestInv
<1>7. QueueInv'
  <2>1. ~taken
    BY <1>5 DEF DriverInv, QueueInv, Outstanding
  <2> QED BY <1>5, <2>1 DEF DriverInv, QueueInv, Outstanding, Waiting
<1> QED BY <1>2, <1>3, <1>4, <1>6, <1>7 DEF DriverInv

LEMMA NoteUsedStep ==
  ASSUME DriverInv, NEW c \in Client, claimed = NoSrc, NoteUsed(c)
  PROVE  DriverInv'
<1> USE VioblkAssumption DEF NoteUsed, Go, queueVars, devVars, plicVars
<1>1. Typing'
  BY DEF DriverInv, Typing, Labels
<1>2. CallerInv'
  BY DEF DriverInv, Typing, CallerInv, CallerOK, Idle, Waiting, Requests, SourceInv
<1>3. SourceInv'
  BY DEF DriverInv, SourceInv
<1>4. RequestInv'
  BY DEF DriverInv, Typing, CallerInv, CallerOK, RequestInv, RequestOK, QueueInv,
       Outstanding, Waiting, Requests
<1>5. QueueInv'
  BY DEF DriverInv, Typing, CallerInv, CallerOK, RequestInv, RequestOK, QueueInv,
       Outstanding, Waiting
<1> QED BY <1>1, <1>2, <1>3, <1>4, <1>5 DEF DriverInv

LEMMA NotifyStep ==
  ASSUME DriverInv, NEW c \in Client, claimed = NoSrc, Notify(c)
  PROVE  DriverInv'
<1> USE VioblkAssumption DEF Notify, Go, queueVars, devVars, plicVars
<1>1. Typing'
  BY DEF DriverInv, Typing, Labels
<1>2. CallerInv'
  BY DEF DriverInv, Typing, CallerInv, CallerOK, Idle, Waiting, Requests, SourceInv
<1>3. SourceInv'
  BY DEF DriverInv, SourceInv
<1>4. RequestInv'
  BY DEF DriverInv, Typing, CallerInv, CallerOK, RequestInv, RequestOK, QueueInv,
       Outstanding, Waiting, Requests
<1>5. QueueInv'
  BY DEF DriverInv, Typing, CallerInv, CallerOK, RequestInv, RequestOK, QueueInv,
       Outstanding, Waiting
<1> QED BY <1>1, <1>2, <1>3, <1>4, <1>5 DEF DriverInv

LEMMA SleepStep ==
  ASSUME DriverInv, NEW c \in Client, claimed = NoSrc, Sleep(c)
  PROVE  DriverInv'
<1> USE VioblkAssumption DEF Sleep, Go, queueVars, devVars, plicVars
<1>1. Typing'
  BY DEF DriverInv, Typing, Labels
<1>2. CallerInv'
  BY DEF DriverInv, Typing, CallerInv, CallerOK, Idle, Waiting, Requests, SourceInv
<1>3. SourceInv'
  BY DEF DriverInv, SourceInv
<1>4. RequestInv'
  BY DEF DriverInv, Typing, CallerInv, CallerOK, RequestInv, RequestOK, QueueInv,
       Outstanding, Waiting, Requests
<1>5. QueueInv'
  BY DEF DriverInv, Typing, CallerInv, CallerOK, RequestInv, RequestOK, QueueInv,
       Outstanding, Waiting
<1> QED BY <1>1, <1>2, <1>3, <1>4, <1>5 DEF DriverInv

LEMMA TakeFetchStep ==
  ASSUME DriverInv, NEW c \in Client, claimed = NoSrc, TakeFetch(c)
  PROVE  DriverInv'
<1> USE VioblkAssumption DEF TakeFetch, Take, Go, queueVars, devVars, plicVars
<1>0. req'[c] \in Requests /\ req' = [req EXCEPT ![c] = req'[c]]
  BY RequestTypes DEF DriverInv, Typing, CallerInv, CallerOK, Waiting
<1>1. Typing'
  BY <1>0 DEF DriverInv, Typing, Labels, Fetched, Advanced
<1>2. CallerInv'
  BY SMTT(30) DEF DriverInv, Typing, CallerInv, CallerOK, Idle, Waiting, Requests, SourceInv,
       Fetched, Advanced
<1>3. SourceInv'
  BY DEF DriverInv, SourceInv
<1>4. RequestInv'
  BY DEF DriverInv, Typing, CallerInv, CallerOK, RequestInv, RequestOK, QueueInv,
       Outstanding, Waiting, Requests, Fetched, Advanced
<1>6. ~Outstanding
  BY DEF DriverInv, RequestInv, RequestOK, Waiting, Answered
<1>5. QueueInv'
  BY <1>6 DEF DriverInv, Typing, CallerInv, CallerOK, RequestInv, RequestOK, QueueInv,
       Outstanding, Waiting, Fetched, Advanced
<1> QED BY <1>1, <1>2, <1>3, <1>4, <1>5 DEF DriverInv

LEMMA TakeStoreStep ==
  ASSUME DriverInv, NEW c \in Client, claimed = NoSrc, TakeStore(c)
  PROVE  DriverInv'
<1> USE VioblkAssumption DEF TakeStore, Take, Go, queueVars, devVars, plicVars
<1>0. req'[c] \in Requests /\ req' = [req EXCEPT ![c] = req'[c]]
  BY RequestTypes DEF DriverInv, Typing, CallerInv, CallerOK, Waiting
<1>1. Typing'
  BY <1>0 DEF DriverInv, Typing, Labels, Advanced
<1>2. CallerInv'
  BY SMTT(30) DEF DriverInv, Typing, CallerInv, CallerOK, Idle, Waiting, Requests, SourceInv, Advanced
<1>3. SourceInv'
  BY DEF DriverInv, SourceInv
<1>4. RequestInv'
  BY DEF DriverInv, Typing, CallerInv, CallerOK, RequestInv, RequestOK, QueueInv,
       Outstanding, Waiting, Requests, Advanced
<1>6. ~Outstanding
  BY DEF DriverInv, RequestInv, RequestOK, Waiting, Answered
<1>5. QueueInv'
  BY <1>6 DEF DriverInv, Typing, CallerInv, CallerOK, RequestInv, RequestOK, QueueInv,
       Outstanding, Waiting, Advanced
<1> QED BY <1>1, <1>2, <1>3, <1>4, <1>5 DEF DriverInv

LEMMA RefusedStep ==
  ASSUME DriverInv, NEW c \in Client, claimed = NoSrc, Refused(c)
  PROVE  DriverInv'
<1> USE VioblkAssumption DEF Refused, Leave, Go, queueVars, devVars, plicVars
<1>0. req'[c] \in Requests /\ req' = [req EXCEPT ![c] = req'[c]]
  BY RequestTypes DEF DriverInv, Typing, CallerInv, CallerOK, Waiting
<1>1. Typing'
  BY <1>0 DEF DriverInv, Typing, Labels
<1>2. CallerInv'
  BY DEF DriverInv, Typing, CallerInv, CallerOK, Idle, Waiting, Requests, SourceInv
<1>3. SourceInv'
  BY DEF DriverInv, SourceInv
<1>4. RequestInv'
  BY DEF DriverInv, Typing, CallerInv, CallerOK, RequestInv, RequestOK, QueueInv,
       Outstanding, Waiting, Requests
<1>5. QueueInv'
  BY DEF DriverInv, Typing, CallerInv, CallerOK, RequestInv, RequestOK, QueueInv,
       Outstanding, Waiting
<1> QED BY <1>1, <1>2, <1>3, <1>4, <1>5 DEF DriverInv

LEMMA OpenStep ==
  ASSUME DriverInv, NEW c \in Client, claimed = NoSrc, Open(c)
  PROVE  DriverInv'
<1> USE VioblkAssumption DEF Open, SetIsr, Go, queueVars, devVars, plicVars
<1>1. Typing'
  BY DEF DriverInv, Typing, Labels
<1>2. CallerInv'
  BY DEF DriverInv, Typing, CallerInv, CallerOK, Idle, Waiting, Requests, SourceInv
<1>3. SourceInv'
  BY DEF DriverInv, SourceInv, Typing
<1>4. RequestInv'
  BY DEF DriverInv, Typing, CallerInv, CallerOK, RequestInv, RequestOK, QueueInv,
       Outstanding, Waiting, Requests
<1>5. QueueInv'
  BY DEF DriverInv, Typing, CallerInv, CallerOK, RequestInv, RequestOK, QueueInv,
       Outstanding, Waiting
<1> QED BY <1>1, <1>2, <1>3, <1>4, <1>5 DEF DriverInv

LEMMA CloseStep ==
  ASSUME DriverInv, NEW c \in Client, claimed = NoSrc, Close(c)
  PROVE  DriverInv'
<1> USE VioblkAssumption DEF Close, plic_disable_source, Go, queueVars, devVars, plicVars
<1>1. Typing'
  BY DEF DriverInv, Typing, Labels
<1>2. CallerInv'
  BY DEF DriverInv, Typing, CallerInv, CallerOK, Idle, Waiting, Requests, SourceInv
<1>3. SourceInv'
  BY DEF DriverInv, SourceInv, Typing
<1>4. RequestInv'
  BY DEF DriverInv, Typing, CallerInv, CallerOK, RequestInv, RequestOK, QueueInv,
       Outstanding, Waiting, Requests
<1>5. QueueInv'
  BY DEF DriverInv, Typing, CallerInv, CallerOK, RequestInv, RequestOK, QueueInv,
       Outstanding, Waiting
<1> QED BY <1>1, <1>2, <1>3, <1>4, <1>5 DEF DriverInv

LEMMA IsrStartStep ==
  ASSUME DriverInv, IsrStart
  PROVE  DriverInv'
<1> USE VioblkAssumption DEF IsrStart, Claim, Go, queueVars, devVars, plicVars
<1>1. Typing'
  BY DEF DriverInv, Typing, Labels
<1>2. CallerInv'
  BY DEF DriverInv, Typing, CallerInv, CallerOK, Idle, Waiting, Requests, SourceInv
<1>3. SourceInv'
  BY DEF DriverInv, SourceInv, Typing
<1>4. RequestInv'
  BY DEF DriverInv, Typing, CallerInv, CallerOK, RequestInv, RequestOK, QueueInv,
       Outstanding, Waiting, Requests
<1>5. QueueInv'
  BY DEF DriverInv, Typing, CallerInv, CallerOK, RequestInv, RequestOK, QueueInv,
       Outstanding, Waiting
<1> QED BY <1>1, <1>2, <1>3, <1>4, <1>5 DEF DriverInv

LEMMA IsrEndStep ==
  ASSUME DriverInv, IsrEnd
  PROVE  DriverInv'
<1> USE VioblkAssumption DEF IsrEnd, Finish, Broadcast, Go, queueVars, devVars, plicVars
<1>1. Typing'
  BY DEF DriverInv, Typing, Labels
<1>2. CallerInv'
  BY DEF DriverInv, Typing, CallerInv, CallerOK, Idle, Waiting, Requests, SourceInv
<1>3. SourceInv'
  BY DEF DriverInv, SourceInv, Typing
<1>4. RequestInv'
  BY DEF DriverInv, Typing, CallerInv, CallerOK, RequestInv, RequestOK, QueueInv,
       Outstanding, Waiting, Requests
<1>5. QueueInv'
  BY DEF DriverInv, Typing, CallerInv, CallerOK, RequestInv, RequestOK, QueueInv,
       Outstanding, Waiting
<1> QED BY <1>1, <1>2, <1>3, <1>4, <1>5 DEF DriverInv

LEMMA DeviceTakeStep ==
  ASSUME DriverInv, DeviceTake
  PROVE  DriverInv'
<1> USE VioblkAssumption DEF DeviceTake, Go, queueVars, devVars, plicVars
<1>1. Typing'
  BY DEF DriverInv, Typing, Labels
<1>2. CallerInv'
  BY DEF DriverInv, Typing, CallerInv, CallerOK, Idle, Waiting, Requests, SourceInv
<1>3. SourceInv'
  BY DEF DriverInv, SourceInv
<1>4. RequestInv'
  BY DEF DriverInv, Typing, CallerInv, CallerOK, RequestInv, RequestOK, QueueInv,
       Outstanding, Waiting, Requests
<1>5. QueueInv'
  BY DEF DriverInv, Typing, CallerInv, CallerOK, RequestInv, RequestOK, QueueInv,
       Outstanding, Waiting
<1> QED BY <1>1, <1>2, <1>3, <1>4, <1>5 DEF DriverInv

LEMMA DeviceAnswerStep ==
  ASSUME DriverInv, DeviceAnswer
  PROVE  DriverInv'
<1> USE DEF DeviceAnswer, Outstanding, plicVars
<1>1. PICK c \in Client : pc[c] \in Waiting
  BY DEF DriverInv, QueueInv
<1>2. /\ More(req[c]) /\ req[c] \in Requests
      /\ header = [op |-> req[c].op, sector |-> req[c].at]
      /\ req[c].op = "store" => buf = req[c].val
  BY <1>1 DEF DriverInv, Typing, CallerInv, CallerOK, RequestInv, RequestOK
<1>3. header.sector \in Sector /\ header.op = req[c].op
  BY <1>2, SectorOK
<1>4. /\ avail = Inc(seen) /\ seen' = avail /\ used' = seen' /\ avail' = avail
      /\ status' \in {"ok", "error"}
  BY DEF DriverInv, QueueInv
<1>5. /\ buf' \in Value /\ disk' \in [Sector -> Value]
      /\ header.op = "store" => buf' = buf
  BY <1>3 DEF DriverInv, Typing
<1>6. Typing'
  BY <1>4, <1>5 DEF DriverInv, Typing
<1>7. CallerInv' /\ SourceInv'
  BY DEF DriverInv, CallerInv, CallerOK, SourceInv
<1>8. ASSUME NEW d \in Client
      PROVE  RequestOK(d)'
  <2>1. pc[d] \in Waiting => d = c
    BY <1>1, OneHolder DEF DriverInv, Waiting
  <2> QED BY <1>2, <1>3, <1>4, <1>5, <2>1 DEF RequestOK
<1>9. RequestInv' /\ QueueInv'
  BY <1>4, <1>8 DEF RequestInv, QueueInv
<1> QED BY <1>6, <1>7, <1>9 DEF DriverInv
(* A call begins.                                                          *)
LEMMA CallStep ==
  ASSUME DriverInv, NEW c \in Client, NEW r \in Requests, Call(c, r),
         r.op \in {"fetch", "store"}, r.op = "store" => r.val \in Value
  PROVE  DriverInv'
<1> USE DEF Call, Go, queueVars, devVars, plicVars
<1>1. Typing'
  BY DEF DriverInv, Typing, Labels
<1>2. CallerInv'
  BY DEF DriverInv, Typing, CallerInv, CallerOK, Waiting
<1>3. SourceInv' /\ RequestInv' /\ QueueInv'
  BY DEF DriverInv, Typing, SourceInv, RequestInv, RequestOK, QueueInv, Outstanding, Waiting
<1> QED BY <1>1, <1>2, <1>3 DEF DriverInv

LEMMA Calls ==
  ASSUME NEW c \in Client,
         \E at \in Sector, n \in 1 .. MaxLen :
           \/ vioblk_storage_fetch(c, at, n)
           \/ \E v \in Value : vioblk_storage_store(c, at, n, v)
  PROVE  \E op \in {"fetch", "store"}, at \in Sector, n \in 1 .. MaxLen, v \in Value \cup {0} :
           /\ op = "store" => v \in Value
           /\ Call(c, [op |-> op, at |-> at, left |-> n, val |-> v, got |-> <<>>])
BY DEF vioblk_storage_fetch, vioblk_storage_store

LEMMA DriverStep == DriverInv /\ [Next]_vars => DriverInv'
<1> SUFFICES ASSUME DriverInv, [Next]_vars PROVE DriverInv'
  OBVIOUS
<1>1. ASSUME NEW c \in Client, Step(c)
      PROVE  DriverInv'
  BY <1>1, LockStep, OpenDoneStep, CloseDoneStep, DoneStep, PublishFetchStep,
     PublishStoreStep, NoteUsedStep, NotifyStep, SleepStep, TakeFetchStep, TakeStoreStep,
     RefusedStep DEF Step
<1>2. ASSUME NEW c \in Client, Start(c)
      PROVE  DriverInv'
  <2>1. CASE \E at \in Sector, n \in 1 .. MaxLen :
               \/ vioblk_storage_fetch(c, at, n)
               \/ \E v \in Value : vioblk_storage_store(c, at, n, v)
    <3>1. PICK op \in {"fetch", "store"}, at \in Sector, n \in 1 .. MaxLen,
               v \in Value \cup {0} :
            /\ op = "store" => v \in Value
            /\ Call(c, [op |-> op, at |-> at, left |-> n, val |-> v, got |-> <<>>])
      BY <2>1, Calls
    <3>2. [op |-> op, at |-> at, left |-> n, val |-> v, got |-> <<>>] \in Requests
      BY VioblkAssumption DEF Requests, Sector
    <3> QED BY <3>1, <3>2, CallStep
  <2> QED BY <1>2, <2>1, OpenStep, CloseStep DEF Start
<1>3. CASE UNCHANGED vars
  BY <1>3 DEF vars, queueVars, devVars, plicVars, DriverInv, Typing, CallerInv, CallerOK,
    SourceInv, RequestInv, RequestOK, QueueInv, Outstanding, Answered
<1> QED BY <1>1, <1>2, <1>3, IsrStartStep, IsrEndStep, DeviceTakeStep, DeviceAnswerStep DEF Next

(* For every number of callers, sectors and values: nobody is in a call    *)
(* without the lock, the indices stay in range, and no interrupt is claimed*)
(* that has no handler.                                                    *)
THEOREM VioblkTyping == Spec => []TypeOK
<1>1. DriverInv => TypeOK
  BY DEF DriverInv, Typing, CallerInv, CallerOK, SourceInv, TypeOK, PlicTypeOK, HasHandler
<1> QED BY <1>1, DriverInit, DriverStep, PTL DEF Spec

(* From its publication to its answer the request is the device's: nobody  *)
(* writes header, buffer, status or the available index meanwhile.         *)
THEOREM RequestIsTheDevicesHolds == Spec => RequestIsTheDevices
<1> DEFINE Kept == Outstanding /\ seen' = seen => UNCHANGED <<header, buf, status, avail>>
<1>1. DriverInv /\ [Next]_vars => Kept
  <2> SUFFICES ASSUME DriverInv, [Next]_vars, Outstanding, seen' = seen
               PROVE  UNCHANGED <<header, buf, status, avail>>
    OBVIOUS
  <2>1. PICK c \in Client : pc[c] \in Waiting
    BY DEF DriverInv, QueueInv
  <2>2. ASSUME NEW d \in Client
        PROVE  pc[d] # "loop"
    BY <2>1, OneHolder DEF DriverInv, Waiting
  <2>3. ~DeviceAnswer
    BY IncOK DEF DeviceAnswer, DriverInv, Typing
  <2>4. ASSUME NEW d \in Client, Step(d) \/ Start(d)
        PROVE  UNCHANGED <<header, buf, status, avail>>
    BY <2>2, <2>4 DEF Step, Start, Lock, OpenDone, CloseDone, Done, PublishFetch,
      PublishStore, Publish, NoteUsed, Notify, Sleep, TakeFetch, TakeStore, Take, Refused,
      Call, vioblk_storage_fetch, vioblk_storage_store, Open, Close, queueVars
  <2> QED BY <2>3, <2>4 DEF Next, IsrStart, IsrEnd, DeviceTake, vars, queueVars
<1>2. DriverInv /\ [Next]_vars => [Kept]_vars
  BY <1>1
<1> HIDE DEF Kept
<1>3. Spec => [][Kept]_vars
  BY <1>2, DriverInit, DriverStep, PTL DEF Spec
<1> QED BY <1>3 DEF Kept, RequestIsTheDevices
----------------------------------------------------------------------------
(* The calls of the abstract disk, for a device that waits to be notified. *)

LEMMA PatientStep ==
  ASSUME ~Eager
  PROVE  DriverInv /\ PatientInv /\ [Next]_vars => PatientInv'
<1> SUFFICES ASSUME DriverInv, PatientInv, [Next]_vars PROVE PatientInv'
  OBVIOUS
<1> USE DEF PatientInv, Outstanding, queueVars, devVars
<1>1. ASSUME NEW c \in Client, NEW l \in {"published", "noted", "check", "asleep"}, pc[c] = l,
             NEW d \in Client, d # c
      PROVE  pc[d] \notin Waiting
  BY <1>1, OneHolder DEF DriverInv, Waiting
<1>2. ASSUME NEW c \in Client, PublishFetch(c) \/ PublishStore(c)
      PROVE  PatientInv'
  <2>1. \A d \in Client : pc[d] \notin Waiting
    BY <1>2, OneHolder DEF DriverInv, Waiting, PublishFetch, PublishStore, Publish
  <2>2. avail = seen /\ ~taken /\ ~kicked
    BY <2>1 DEF DriverInv, QueueInv
  <2>3. avail' # seen
    BY <1>2, <2>2, IncOK DEF PublishFetch, PublishStore, Publish, DriverInv, Typing
  <2> QED BY <1>2, <2>2, <2>3 DEF PublishFetch, PublishStore, Publish, Go
<1>3. ASSUME NEW c \in Client, NoteUsed(c)
      PROVE  PatientInv'
  BY <1>3 DEF NoteUsed, Go, DriverInv, Typing
<1>4. ASSUME NEW c \in Client, Notify(c)
      PROVE  PatientInv'
  BY <1>1, <1>4 DEF Notify, Go, DriverInv, Typing, Waiting
<1>5. ASSUME NEW c \in Client,
             \/ Lock(c) \/ OpenDone(c) \/ CloseDone(c) \/ Done(c) \/ Sleep(c)
             \/ TakeFetch(c) \/ TakeStore(c) \/ Refused(c) \/ Start(c)
      PROVE  PatientInv'
  <2>1. /\ \A d \in Client : pc'[d] \in {"published", "noted"} => pc[d] = pc'[d]
        /\ UNCHANGED <<avail, seen, taken, kicked>>
    BY <1>5 DEF Lock, OpenDone, CloseDone, Done, Leave, Sleep, TakeFetch, TakeStore, Take,
      Refused, Start, Open, Close, Call, vioblk_storage_fetch, vioblk_storage_store, Go,
      DriverInv, Typing
  <2> QED BY <2>1
<1>6. CASE IsrStart \/ IsrEnd
  BY <1>6 DEF IsrStart, IsrEnd, Broadcast
<1>7. CASE DeviceTake
  <2>1. /\ kicked /\ ~taken /\ taken' /\ ~kicked'
        /\ UNCHANGED <<avail, seen, pc>>
    BY <1>7 DEF DeviceTake
  <2> QED BY <2>1
<1>8. CASE DeviceAnswer
  <2>1. taken /\ ~taken' /\ UNCHANGED <<pc, kicked>>
    BY <1>8 DEF DeviceAnswer
  <2> QED BY <2>1
<1>9. CASE UNCHANGED vars
  BY <1>9 DEF vars
<1> QED BY <1>2, <1>3, <1>4, <1>5, <1>6, <1>7, <1>8, <1>9 DEF Next, Step

(* What the mapping shows of a caller.                                     *)
Calling == [c \in Client |-> AbstractCall(c)]

(* The answer has come, and the caller has not seen it.                    *)
HasAnswer(c) == pc[c] \in {"noted", "check", "asleep"} /\ ~Outstanding /\ status = "ok"

LEMMA Mapped ==
  ASSUME NEW c \in Client
  PROVE  AbstractCall(c) = IF ~HasAnswer(c) THEN req[c]
                           ELSE IF req[c].op = "fetch" THEN Fetched(req[c], buf)
                           ELSE Advanced(req[c])
BY DEF AbstractCall, HasAnswer

LEMMA MappedIdle ==
  ASSUME DriverInv, NEW c \in Client, pc[c] \notin Waiting
  PROVE  AbstractCall(c) = req[c]
BY DEF AbstractCall, Waiting

(* Where neither the callers nor the answer change, nothing is to be seen. *)
LEMMA Stutter ==
  ASSUME DriverInv,
         \A c \in Client : AbstractCall(c)' = AbstractCall(c),
         UNCHANGED <<disk, ret>>
  PROVE  UNCHANGED <<disk, Calling, ret>>
BY DEF Calling

LEMMA BeginMaps ==
  ASSUME DriverInv, NEW c \in Client,
         NEW op \in {"fetch", "store"}, NEW at \in Sector, NEW n \in 1 .. MaxLen,
         NEW v \in Value \cup {0},
         Call(c, [op |-> op, at |-> at, left |-> n, val |-> v, got |-> <<>>])
  PROVE  D!Begin(c)
<1> DEFINE r == [op |-> op, at |-> at, left |-> n, val |-> v, got |-> <<>>]
<1> USE DEF Call, Go, queueVars, devVars
<1>1. pc[c] = "idle" /\ req[c] = Idle /\ pc' = [pc EXCEPT ![c] = "lock"]
      /\ req' = [req EXCEPT ![c] = r]
  BY DEF DriverInv, CallerInv, CallerOK
<1>2. AbstractCall(c) = Idle /\ AbstractCall(c)' = r
  BY <1>1 DEF AbstractCall, DriverInv, Typing
<1>3. \A d \in Client \ {c} : AbstractCall(d)' = AbstractCall(d)
  <2>1. /\ \A d \in Client \ {c} : pc'[d] = pc[d] /\ req'[d] = req[d]
        /\ UNCHANGED <<avail, seen, buf, status>>
    BY <1>1 DEF DriverInv, Typing
  <2> QED BY <2>1 DEF AbstractCall, Outstanding
<1>4. Calling' = [Calling EXCEPT ![c] = r]
  BY <1>2, <1>3 DEF Calling
<1> QED BY <1>2, <1>4 DEF D!Begin, D!Idle, Idle, Calling

LEMMA AnswerMaps ==
  ASSUME ~Eager, DriverInv, PatientInv, DeviceAnswer
  PROVE  \/ \E c \in Client : D!Move(c)
         \/ UNCHANGED <<disk, Calling, ret>>
<1> USE DEF DeviceAnswer, Outstanding
<1>1. PICK c \in Client : pc[c] \in Waiting
  BY DEF DriverInv, QueueInv
<1>2. /\ More(req[c]) /\ req[c] \in Requests /\ req[c].op \in {"fetch", "store"}
      /\ header = [op |-> req[c].op, sector |-> req[c].at]
      /\ req[c].op = "store" => buf = req[c].val
      /\ req[c].at \in Sector /\ req[c].left > 0
  BY <1>1, SectorOK DEF DriverInv, Typing, CallerInv, CallerOK, RequestInv, RequestOK, Waiting
<1>3. pc[c] \in {"noted", "check", "asleep"} /\ avail # seen /\ avail' = seen'
  BY <1>1 DEF DriverInv, QueueInv, PatientInv, Waiting
<1>4. \A d \in Client \ {c} : AbstractCall(d)' = AbstractCall(d)
  BY <1>1, OneHolder, <1>3 DEF AbstractCall, DriverInv, Waiting
<1>5. AbstractCall(c) = req[c]
  BY <1>3 DEF AbstractCall
<1>6. CASE status' = "ok"
  <2>1. AbstractCall(c)' = IF req[c].op = "fetch" THEN Fetched(req[c], buf')
                           ELSE Advanced(req[c])
    BY <1>3, <1>6 DEF AbstractCall
  <2>2. CASE req[c].op = "fetch"
    <3>1. buf' = disk[req[c].at] /\ disk' = disk
      BY <1>2, <1>6, <2>2
    <3>2. AbstractCall(c)' = [AbstractCall(c) EXCEPT
                               !.at = @ + 1, !.left = @ - 1, !.got = Append(@, disk[req[c].at])]
      BY <1>2, <1>5, <2>1, <2>2, <3>1 DEF Fetched, Advanced, Requests
    <3>3. Calling' = [Calling EXCEPT ![c] = AbstractCall(c)']
      BY <1>4 DEF Calling
    <3> QED BY <1>2, <1>5, <2>2, <3>1, <3>2, <3>3 DEF D!Move, Calling
  <2>3. CASE req[c].op = "store"
    <3>1. disk' = [disk EXCEPT ![req[c].at] = req[c].val]
      BY <1>2, <1>6, <2>3
    <3>2. AbstractCall(c)' = [AbstractCall(c) EXCEPT
                               !.at = @ + 1, !.left = @ - 1, !.got = @]
      BY <1>2, <1>5, <2>1, <2>3 DEF Advanced, Requests
    <3>3. Calling' = [Calling EXCEPT ![c] = AbstractCall(c)']
      BY <1>4 DEF Calling
    <3>4. Calling[c] = AbstractCall(c) /\ DOMAIN Calling = Client
      BY DEF Calling
    <3>5. Calling' = [Calling EXCEPT ![c].at = @ + 1, ![c].left = @ - 1, ![c].got = @]
      BY <3>2, <3>3, <3>4
    <3>6. Calling[c].op = "store"
      BY <1>5, <2>3, <3>4
    <3> QED BY <1>2, <1>5, <3>1, <3>4, <3>5, <3>6 DEF D!Move, Calling
  <2> QED BY <1>2, <2>2, <2>3
<1>7. CASE status' = "error"
  <2>1. req' = req /\ UNCHANGED <<disk, ret>>
    BY <1>7
  <2>2. AbstractCall(c)' = AbstractCall(c)
    BY <1>5, <1>7, <2>1 DEF AbstractCall
  <2> QED BY <1>4, <2>1, <2>2, Stutter
<1> QED BY <1>6, <1>7

LEMMA ReturnMaps ==
  ASSUME DriverInv, NEW c \in Client, Done(c) \/ Refused(c)
  PROVE  D!Return(c) \/ D!Fail(c)
<1> USE DEF Done, Refused, Leave, Go, queueVars, devVars
<1>1. /\ pc[c] \in {"loop", "check"} /\ req[c] \in Requests
      /\ req[c].op \in {"fetch", "store"} /\ req[c] # Idle
  BY DEF DriverInv, Typing, CallerInv, CallerOK, Idle
<1>2. AbstractCall(c) = req[c] /\ AbstractCall(c)' = Idle
  BY <1>1 DEF AbstractCall, DriverInv, Typing
<1>3. \A d \in Client \ {c} : AbstractCall(d)' = AbstractCall(d)
  <2>1. /\ \A d \in Client \ {c} : pc'[d] = pc[d] /\ req'[d] = req[d]
        /\ UNCHANGED <<avail, seen, buf, status>>
    BY DEF DriverInv, Typing
  <2> QED BY <2>1 DEF AbstractCall, Outstanding
<1>4. Calling' = [Calling EXCEPT ![c] = Idle] /\ Calling[c] = req[c]
  BY <1>2, <1>3 DEF Calling
<1>5. CASE Done(c)
  <2>1. req[c].left = 0 \/ req[c].at \notin Sector
    BY <1>1, <1>5, VioblkAssumption DEF More, Requests, Sector
  <2>2. ret' = [ret EXCEPT ![c] = req[c].got]
    BY <1>5
  <2> QED BY <1>1, <1>4, <1>5, <2>1, <2>2 DEF D!Return, D!End, D!Idle, Idle, Calling
<1>6. CASE Refused(c)
  <2>1. ret' = [ret EXCEPT ![c] = "error"]
    BY <1>6
  <2> QED BY <1>1, <1>4, <1>6, <2>1 DEF D!Fail, D!End, D!Idle, Idle, Calling
<1> QED BY <1>5, <1>6

(* The caller sees the answer: it was counted when it came.                *)
LEMMA TakeMaps ==
  ASSUME DriverInv, NEW c \in Client, TakeFetch(c) \/ TakeStore(c)
  PROVE  UNCHANGED <<disk, Calling, ret>>
<1> USE DEF TakeFetch, TakeStore, Take, Go, queueVars, devVars
<1>1. pc[c] = "check" /\ ~Outstanding /\ status = "ok" /\ pc' = [pc EXCEPT ![c] = "loop"]
  BY DEF DriverInv, RequestInv, RequestOK, Answered, Waiting
<1>2. AbstractCall(c) = req'[c] /\ AbstractCall(c)' = req'[c]
  BY <1>1 DEF AbstractCall, DriverInv, Typing
<1>3. \A d \in Client \ {c} : AbstractCall(d)' = AbstractCall(d)
  <2>1. /\ \A d \in Client \ {c} : pc'[d] = pc[d] /\ req'[d] = req[d]
        /\ UNCHANGED <<avail, seen, buf, status>>
    BY <1>1 DEF DriverInv, Typing
  <2> QED BY <2>1 DEF AbstractCall, Outstanding
<1> QED BY <1>2, <1>3, Stutter

(* Every other step of a caller, of the handler and of the device.         *)
LEMMA SilentMaps ==
  ASSUME ~Eager, DriverInv, PatientInv, NEW c \in Client,
         \/ Lock(c) \/ Open(c) \/ OpenDone(c) \/ Close(c) \/ CloseDone(c)
         \/ PublishFetch(c) \/ PublishStore(c) \/ NoteUsed(c) \/ Notify(c) \/ Sleep(c)
  PROVE  UNCHANGED <<disk, Calling, ret>>
<1>1. CASE PublishFetch(c) \/ PublishStore(c)
  <2>1. /\ pc[c] = "loop" /\ pc' = [pc EXCEPT ![c] = "published"]
        /\ UNCHANGED <<req, disk, ret>>
    BY <1>1 DEF PublishFetch, PublishStore, Publish, Go, devVars
  <2>2. \A d \in Client : pc[d] \notin Waiting
    BY <2>1, OneHolder DEF DriverInv, Waiting
  <2>3. \A d \in Client : AbstractCall(d) = req[d] /\ AbstractCall(d)' = req[d]
    BY <2>1, <2>2 DEF AbstractCall, Waiting, DriverInv, Typing
  <2> QED BY <2>1, <2>3, Stutter
<1>2. CASE NoteUsed(c)
  <2>1. /\ pc[c] = "published" /\ pc' = [pc EXCEPT ![c] = "noted"] /\ avail # seen
        /\ UNCHANGED <<req, disk, ret, buf, status, avail, seen>>
    BY <1>2 DEF NoteUsed, Go, devVars, PatientInv, Outstanding
  <2>2. \A d \in Client : AbstractCall(d)' = AbstractCall(d)
    BY <2>1 DEF AbstractCall, Outstanding, DriverInv, Typing
  <2> QED BY <2>1, <2>2, Stutter
<1>3. CASE \/ Lock(c) \/ Open(c) \/ OpenDone(c) \/ Close(c) \/ CloseDone(c)
           \/ Notify(c) \/ Sleep(c)
  <2>1. /\ UNCHANGED <<req, disk, ret, buf, status, avail, seen>>
        /\ \A d \in Client : pc'[d] \in {"noted", "check", "asleep"}
                              <=> pc[d] \in {"noted", "check", "asleep"}
    BY <1>3 DEF Lock, Open, OpenDone, Close, CloseDone, Notify, Sleep, Go, queueVars,
      devVars, DriverInv, Typing
  <2>2. \A d \in Client : AbstractCall(d)' = AbstractCall(d)
    BY <2>1 DEF AbstractCall, Outstanding, Fetched, Advanced
  <2> QED BY <2>1, <2>2, Stutter
<1> QED BY <1>1, <1>2, <1>3

LEMMA HandlerMaps ==
  ASSUME DriverInv, IsrStart \/ IsrEnd \/ DeviceTake \/ UNCHANGED vars
  PROVE  UNCHANGED <<disk, Calling, ret>>
<1>1. /\ UNCHANGED <<req, disk, ret, buf, status, avail, seen>>
      /\ \A d \in Client : pc'[d] \in {"noted", "check", "asleep"}
                            <=> pc[d] \in {"noted", "check", "asleep"}
  BY DEF IsrStart, IsrEnd, Broadcast, DeviceTake, vars, queueVars, devVars
<1>2. \A d \in Client : AbstractCall(d)' = AbstractCall(d)
  BY <1>1 DEF AbstractCall, Outstanding, Fetched, Advanced
<1> QED BY <1>1, <1>2, Stutter

(* The driver, its handler and the device implement calls on a memory of   *)
(* sectors, each sector moved at once, when the device answers; if the     *)
(* device waits to be notified.                                            *)
THEOREM DiskRefinement ==
  ASSUME ~Eager
  PROVE  Spec => DiskSpec
<1>1. Init => D!Init
  <2> SUFFICES ASSUME Init PROVE D!Init
    OBVIOUS
  <2>1. Calling = [c \in Client |-> Idle]
    BY DEF Init, Calling, AbstractCall
  <2> QED BY <2>1 DEF Init, Calling, D!Init, D!Idle, Idle
<1>2. DriverInv /\ PatientInv /\ [Next]_vars => [D!Next]_<<disk, Calling, ret>>
  <2> SUFFICES ASSUME DriverInv, PatientInv, [Next]_vars
               PROVE  [D!Next]_<<disk, Calling, ret>>
    OBVIOUS
  <2>1. ASSUME NEW c \in Client, Step(c)
        PROVE  [D!Next]_<<disk, Calling, ret>>
    BY <2>1, ReturnMaps, TakeMaps, SilentMaps DEF Step, D!Next
  <2>2. ASSUME NEW c \in Client, Start(c)
        PROVE  [D!Next]_<<disk, Calling, ret>>
    <3>1. CASE Open(c) \/ Close(c)
      BY <3>1, SilentMaps
    <3>2. CASE \E at \in Sector, n \in 1 .. MaxLen :
                 \/ vioblk_storage_fetch(c, at, n)
                 \/ \E v \in Value : vioblk_storage_store(c, at, n, v)
      BY <3>2, Calls, BeginMaps DEF D!Next
    <3> QED BY <2>2, <3>1, <3>2 DEF Start
  <2> QED BY <2>1, <2>2, AnswerMaps, HandlerMaps DEF Next, D!Next
<1>3. Spec => []DriverInv
  BY DriverInit, DriverStep, PTL DEF Spec
<1>4. Spec => []PatientInv
  BY <1>3, DriverInit, PatientStep, PTL DEF Spec
<1> QED BY <1>1, <1>2, <1>3, <1>4, PTL DEF Spec, DiskSpec, D!Spec, Calling

----------------------------------------------------------------------------
(* The timer.                                                               *)

(* The inductive invariant: a sleeper that was woken is past its time, so  *)
(* it never waits again off the list.                                      *)
AlarmInv ==
  /\ AlarmsTypeOK /\ Armed
  /\ next_tick \in Nat
  /\ \A s \in Sleeper : state[s] = "woken" => twake[s] <= time

LEMMA LeastOf ==
  ASSUME NEW T \in SUBSET Nat, T # {}
  PROVE  \E m \in T : \A k \in T : m <= k
<1> DEFINE R == OpToRel(<, Nat)
<1>1. \A x, y \in Nat : x < y => <<x, y>> \in R
  BY DEF OpToRel
<1>2. IsWellFoundedOn(R, Nat)
  BY NatLessThanWellFounded
<1> HIDE DEF R
<1>3. PICK m \in T : \A y \in T : ~ (<<y, m>> \in R)
  BY <1>2, WFMin
<1>4. ASSUME NEW k \in T
      PROVE  m <= k
  <2>1. m \in Nat /\ k \in Nat /\ ~(k < m)
    BY <1>1, <1>3
  <2> QED BY <2>1
<1> QED BY <1>3, <1>4

(* The place of the first element of a list of which P, or the end.        *)
LEMMA FirstOf ==
  ASSUME NEW n \in Nat, NEW P \in SUBSET (1 .. n)
  PROVE  \E k \in 1 .. n + 1 : /\ \A i \in 1 .. k - 1 : i \notin P
                               /\ k <= n => k \in P
<1>1. CASE P = {}
  BY <1>1
<1>2. CASE P # {}
  <2>1. PICK m \in P : \A k \in P : m <= k
    BY <1>2, LeastOf
  <2> QED BY <2>1
<1> QED BY <1>1, <1>2

(* Whole periods fit into what they are counted in.                        *)
LEMMA Periods ==
  ASSUME NEW d \in Nat, NEW q \in Nat \ {0}
  PROVE  d \div q \in Nat /\ (d \div q) * q \in Nat /\ (d \div q) * q <= d
  OBVIOUS

(* Putting an element into a list: the others keep their order.            *)
LEMMA InsertAtProperties ==
  ASSUME NEW S, NEW s \in Seq(S), NEW e \in S, NEW k \in 1 .. Len(s) + 1
  PROVE  /\ InsertAt(s, k, e) \in Seq(S)
         /\ Len(InsertAt(s, k, e)) = Len(s) + 1
         /\ \A i \in 1 .. Len(s) + 1 :
              InsertAt(s, k, e)[i] = IF i < k THEN s[i] ELSE IF i = k THEN e ELSE s[i - 1]
<1> DEFINE n == Len(s)
           a == SubSeq(s, 1, k - 1)
           b == SubSeq(s, k, n)
<1>1. n \in Nat /\ DOMAIN s = 1 .. n /\ \A i \in 1 .. n : s[i] \in S
  BY LenProperties, ElementOfSeq
<1>2. a \in Seq(S) /\ Len(a) = k - 1 /\ \A i \in 1 .. k - 1 : a[i] = s[i]
  <2>1. \A i \in 1 .. k - 1 : s[i] \in S
    BY <1>1
  <2> QED BY <1>1, <2>1, SubSeqProperties
<1>3. b \in Seq(S) /\ Len(b) = n - k + 1 /\ \A i \in 1 .. n - k + 1 : b[i] = s[k + i - 1]
  <2>1. \A i \in k .. n : s[i] \in S
    BY <1>1
  <2> QED BY <1>1, <2>1, SubSeqProperties
<1>4. <<e>> \in Seq(S) /\ Len(<<e>>) = 1 /\ <<e>>[1] = e
  OBVIOUS
<1> HIDE DEF a, b
<1>5. /\ a \o <<e>> \in Seq(S) /\ Len(a \o <<e>>) = k
      /\ \A i \in 1 .. k : (a \o <<e>>)[i] = IF i < k THEN s[i] ELSE e
  BY <1>1, <1>2, <1>4, ConcatProperties
<1>6. /\ a \o <<e>> \o b \in Seq(S) /\ Len(a \o <<e>> \o b) = n + 1
      /\ \A i \in 1 .. n + 1 :
           (a \o <<e>> \o b)[i] = IF i <= k THEN (a \o <<e>>)[i] ELSE b[i - k]
  <2> DEFINE c == a \o <<e>>
  <2>1. /\ c \o b \in Seq(S) /\ Len(c \o b) = Len(c) + Len(b)
        /\ \A i \in 1 .. Len(c) + Len(b) :
             (c \o b)[i] = IF i <= Len(c) THEN c[i] ELSE b[i - Len(c)]
    <3> HIDE DEF c
    <3>1. c \in Seq(S) /\ b \in Seq(S)
      BY <1>3, <1>5 DEF c
    <3> QED BY <3>1, ConcatProperties
  <2>2. Len(c) = k /\ Len(b) = n - k + 1
    BY <1>3, <1>5
  <2>3. Len(c) + Len(b) = n + 1
    <3> HIDE DEF c, n
    <3> QED BY <1>1, <2>2 DEF n
  <2> QED BY <2>1, <2>2, <2>3
<1>7. \A i \in 1 .. n + 1 : i > k => b[i - k] = s[i - 1]
  BY <1>1, <1>3
<1>8. InsertAt(s, k, e) = a \o <<e>> \o b
  BY DEF InsertAt, a, b
<1> QED BY <1>1, <1>5, <1>6, <1>7, <1>8

(* alarm_sleep finds a place: those before are earlier, those behind not.  *)
LEMMA PlaceFound ==
  ASSUME AlarmInv, NEW t \in Nat
  PROVE  \E k \in 1 .. Len(sleep_list) + 1 :
           /\ \A i \in 1 .. k - 1 : twake[sleep_list[i]] < t
           /\ k <= Len(sleep_list) => twake[sleep_list[k]] >= t
<1> DEFINE n == Len(sleep_list)
           P == {i \in 1 .. n : twake[sleep_list[i]] >= t}
<1>1. n \in Nat /\ \A i \in 1 .. n : twake[sleep_list[i]] \in Nat
  BY AlarmsAssumption, LenProperties, ElementOfSeq DEF AlarmInv, AlarmsTypeOK
<1>2. PICK k \in 1 .. n + 1 : (\A i \in 1 .. k - 1 : i \notin P) /\ (k <= n => k \in P)
  <2>1. P \in SUBSET (1 .. n)
    OBVIOUS
  <2> HIDE DEF P
  <2> QED BY <1>1, <2>1, FirstOf
<1>3. \A i \in 1 .. k - 1 : i \in 1 .. n
  BY <1>1
<1>4. \A i \in 1 .. k - 1 : twake[sleep_list[i]] < t
  BY <1>1, <1>2, <1>3
<1> QED BY <1>2, <1>4

(* The handler finds where the alarms that have expired end.               *)
LEMMA EndFound ==
  ASSUME AlarmInv, NEW now \in Nat
  PROVE  \E k \in 0 .. Len(sleep_list) :
           /\ \A i \in 1 .. k : twake[sleep_list[i]] <= now
           /\ k < Len(sleep_list) => twake[sleep_list[k + 1]] > now
<1> DEFINE n == Len(sleep_list)
           P == {i \in 1 .. n : twake[sleep_list[i]] > now}
<1>1. n \in Nat /\ \A i \in 1 .. n : twake[sleep_list[i]] \in Nat
  BY AlarmsAssumption, LenProperties, ElementOfSeq DEF AlarmInv, AlarmsTypeOK
<1>2. PICK k \in 1 .. n + 1 : (\A i \in 1 .. k - 1 : i \notin P) /\ (k <= n => k \in P)
  <2>1. P \in SUBSET (1 .. n)
    OBVIOUS
  <2> HIDE DEF P
  <2> QED BY <1>1, <2>1, FirstOf
<1>3. \A i \in 1 .. k - 1 : i \in 1 .. n
  BY <1>1
<1>4. \A i \in 1 .. k - 1 : twake[sleep_list[i]] <= now
  BY <1>1, <1>2, <1>3
<1>5. k - 1 \in 0 .. n /\ (k - 1 < n => k <= n) /\ (k - 1) + 1 = k
  BY <1>1
<1> QED BY <1>2, <1>4, <1>5

LEMMA LaterType ==
  ASSUME NEW t \in 0 .. UINT64_MAX, NEW cnt \in Nat
  PROVE  Later(t, cnt) \in 0 .. UINT64_MAX
  BY AlarmsAssumption DEF Later

LEMMA CountsNat == Counts \subseteq Nat
  BY AlarmsAssumption DEF Counts

LEMMA AlarmInit ==
  ASSUME AlarmsInit
  PROVE  AlarmInv
<1>1. AlarmsTypeOK
  BY AlarmsAssumption DEF AlarmsInit, AlarmsTypeOK, IsInjective
<1>2. Armed
  BY DEF AlarmsInit, Armed, Contains
<1> QED BY AlarmsAssumption, <1>1, <1>2 DEF AlarmInv, AlarmsInit

LEMMA TickInv ==
  ASSUME AlarmInv, Tick
  PROVE  AlarmInv'
  BY AlarmsAssumption DEF AlarmInv, Tick, AlarmsTypeOK, Armed, timerVars, Contains

(* Changing the time of an alarm that is off the list changes nothing for  *)
(* the others.                                                             *)
LEMMA OffTheList ==
  ASSUME AlarmInv, NEW s \in Sleeper, state[s] = "running",
         \A r \in Sleeper : r # s => twake'[r] = twake[r],
         UNCHANGED <<stcmp, STIE, sleep_list, state>>
  PROVE  Armed'
<1>1. \A i \in DOMAIN sleep_list : twake'[sleep_list[i]] = twake[sleep_list[i]]
  <2> SUFFICES ASSUME NEW i \in DOMAIN sleep_list
               PROVE  sleep_list[i] \in Sleeper /\ sleep_list[i] # s
    OBVIOUS
  <2>1. sleep_list \in Seq(Sleeper) /\ i \in 1 .. Len(sleep_list)
    BY LenProperties DEF AlarmInv, AlarmsTypeOK
  <2>2. sleep_list[i] \in Sleeper
    BY <2>1, ElementOfSeq
  <2> QED BY <2>1, <2>2 DEF AlarmInv, Armed, Contains
<1>2. sleep_list # <<>> => Head(sleep_list) = sleep_list[1] /\ 1 \in DOMAIN sleep_list
  BY EmptySeq, LenProperties DEF AlarmInv, AlarmsTypeOK
<1> QED BY <1>1, <1>2 DEF AlarmInv, Armed, Contains

LEMMA ResetInv ==
  ASSUME AlarmInv, NEW s \in Sleeper, Reset(s)
  PROVE  AlarmInv'
<1>1. AlarmsTypeOK'
  BY AlarmsAssumption DEF AlarmInv, Reset, AlarmsTypeOK, timerVars
<1>2. /\ state[s] = "running"
      /\ \A r \in Sleeper : r # s => twake'[r] = twake[r]
      /\ UNCHANGED <<time, stcmp, STIE, sleep_list, state, next_tick>>
  BY DEF AlarmInv, Reset, AlarmsTypeOK, timerVars
<1>3. Armed'
  BY <1>2, OffTheList
<1> QED BY <1>1, <1>2, <1>3 DEF AlarmInv

LEMMA RecheckInv ==
  ASSUME AlarmInv, NEW s \in Sleeper, Recheck(s)
  PROVE  AlarmInv'
  BY AlarmsAssumption DEF AlarmInv, Recheck, AlarmsTypeOK, Armed, timerVars, Contains

LEMMA SleepNotInv ==
  ASSUME AlarmInv, NEW s \in Sleeper, NEW cnt \in Nat, SleepNot(s, cnt)
  PROVE  AlarmInv'
<1>1. twake' = [twake EXCEPT ![s] = Later(twake[s], cnt)] /\ state[s] = "running"
      /\ Later(twake[s], cnt) \in 0 .. UINT64_MAX
  BY LaterType DEF SleepNot, AlarmInv, AlarmsTypeOK
<1>2. AlarmsTypeOK'
  BY AlarmsAssumption, <1>1 DEF AlarmInv, SleepNot, AlarmsTypeOK, timerVars
<1>3. /\ \A r \in Sleeper : r # s => twake'[r] = twake[r]
      /\ UNCHANGED <<time, stcmp, STIE, sleep_list, state, next_tick>>
  BY <1>1 DEF AlarmInv, SleepNot, AlarmsTypeOK, timerVars
<1>4. Armed'
  BY <1>1, <1>3, OffTheList
<1> QED BY <1>1, <1>2, <1>3, <1>4 DEF AlarmInv

LEMMA SleepInv ==
  ASSUME AlarmInv, NEW s \in Sleeper, NEW cnt \in Nat, alarm_sleep(s, cnt)
  PROVE  AlarmInv'
<1> DEFINE L == sleep_list
           n == Len(L)
           t == Later(twake[s], cnt)
           k == CHOOSE j \in 1 .. n + 1 :
                  /\ \A i \in 1 .. j - 1 : twake[L[i]] < t
                  /\ j <= n => twake[L[j]] >= t
           M == sleep_list'
<1>1. /\ state[s] = "running" /\ t > time
      /\ twake' = [twake EXCEPT ![s] = t]
      /\ sleep_list' = InsertAt(L, k, s)
      /\ stcmp' = twake'[Head(sleep_list')]
      /\ STIE' = IF sleep_list = <<>> THEN TRUE ELSE STIE
      /\ state' = [state EXCEPT ![s] = "waiting"]
      /\ UNCHANGED <<time, ticks, next_tick>>
  BY DEF alarm_sleep, Inserted, Compare
<1>2. /\ n \in Nat /\ L \in Seq(Sleeper) /\ DOMAIN L = 1 .. n
      /\ \A i \in 1 .. n : L[i] \in Sleeper /\ twake[L[i]] \in Nat
      /\ t \in 0 .. UINT64_MAX /\ t \in Nat
  <2>1. /\ n \in Nat /\ L \in Seq(Sleeper) /\ DOMAIN L = 1 .. n
        /\ \A i \in 1 .. n : L[i] \in Sleeper /\ twake[L[i]] \in Nat
    BY AlarmsAssumption, LenProperties, ElementOfSeq DEF AlarmInv, AlarmsTypeOK
  <2>2. twake[s] \in 0 .. UINT64_MAX
    BY DEF AlarmInv, AlarmsTypeOK
  <2>3. t \in 0 .. UINT64_MAX /\ t \in Nat
    <3>1. t \in 0 .. UINT64_MAX
      BY <2>2, LaterType DEF AlarmInv
    <3> HIDE DEF t
    <3> QED BY AlarmsAssumption, <3>1 DEF AlarmInv
  <2> QED BY <2>1, <2>3
<1>3. /\ k \in 1 .. n + 1
      /\ \A i \in 1 .. k - 1 : twake[L[i]] < t
      /\ k <= n => twake[L[k]] >= t
  <2> HIDE DEF t
  <2> QED BY <1>2, PlaceFound
<1> HIDE DEF k, t
<1>4. /\ M \in Seq(Sleeper) /\ Len(M) = n + 1 /\ DOMAIN M = 1 .. n + 1
      /\ \A i \in 1 .. n + 1 : M[i] = IF i < k THEN L[i] ELSE IF i = k THEN s ELSE L[i - 1]
  <2>1. /\ M \in Seq(Sleeper) /\ Len(M) = n + 1
        /\ \A i \in 1 .. n + 1 : M[i] = IF i < k THEN L[i] ELSE IF i = k THEN s ELSE L[i - 1]
    <3>1. L \in Seq(Sleeper) /\ k \in 1 .. Len(L) + 1 /\ M = InsertAt(L, k, s)
      BY <1>1, <1>2, <1>3
    <3> DEFINE r == InsertAt(L, k, s)
    <3>2. /\ r \in Seq(Sleeper) /\ Len(r) = Len(L) + 1
          /\ \A i \in 1 .. Len(L) + 1 :
               r[i] = IF i < k THEN L[i] ELSE IF i = k THEN s ELSE L[i - 1]
      <4> HIDE DEF L
      <4> QED BY <3>1, InsertAtProperties, SMTT(30)
    <3> HIDE DEF r
    <3>3. M = r
      BY <3>1 DEF r
    <3> QED BY <3>2, <3>3
  <2>2. DOMAIN M = 1 .. Len(M)
    BY <2>1, LenProperties
  <2> QED BY <2>1, <2>2
<1>5. \A i \in 1 .. n : L[i] # s
  BY <1>1, <1>2 DEF AlarmInv, Armed, Contains
<1>6. \A i, j \in 1 .. n : L[i] = L[j] => i = j
  BY <1>2 DEF AlarmInv, AlarmsTypeOK, IsInjective
<1>7. twake \in [Sleeper -> 0 .. UINT64_MAX]
  BY DEF AlarmInv, AlarmsTypeOK
<1>8. \A i \in 1 .. n + 1 :
        /\ i < k => i \in 1 .. n
        /\ i > k => i - 1 \in 1 .. n
  BY <1>2, <1>3
<1>9. \A i \in 1 .. n + 1 :
        twake'[M[i]] = IF i < k THEN twake[L[i]] ELSE IF i = k THEN t ELSE twake[L[i - 1]]
  <2>1. twake'[s] = t /\ \A r \in Sleeper : r # s => twake'[r] = twake[r]
    BY <1>1, <1>7
  <2> SUFFICES ASSUME NEW i \in 1 .. n + 1
               PROVE  twake'[M[i]] = IF i < k THEN twake[L[i]]
                                     ELSE IF i = k THEN t ELSE twake[L[i - 1]]
    OBVIOUS
  <2>2. CASE i < k
    BY <1>2, <1>4, <1>5, <1>8, <2>1, <2>2
  <2>3. CASE i = k
    BY <1>4, <2>1, <2>3
  <2>4. CASE i > k
    <3>1. i - 1 \in 1 .. n /\ ~(i < k) /\ i # k
      BY <1>3, <1>8, <2>4
    <3> QED BY <1>2, <1>4, <1>5, <2>1, <3>1
  <2> QED BY <1>3, <2>2, <2>3, <2>4
<1> DEFINE Old(i) == IF i < k THEN i ELSE i - 1
<1>OldAt. \A i \in 1 .. n + 1 :
        i # k => Old(i) \in 1 .. n /\ M[i] = L[Old(i)] /\ twake'[M[i]] = twake[L[Old(i)]]
  BY <1>3, <1>4, <1>8, <1>9
<1>OldOrder. \A i, j \in 1 .. n + 1 :
        i # k /\ j # k => (i < j => Old(i) < Old(j)) /\ (Old(i) = Old(j) => i = j)
  BY <1>2, <1>3
<1>OldSide. \A i \in 1 .. n + 1 :
        (i < k => Old(i) < k) /\ (i > k => k <= Old(i) /\ k <= n)
  BY <1>2, <1>3
<1> HIDE DEF Old
<1>10. IsInjective(M)
  <2> SUFFICES ASSUME NEW i \in 1 .. n + 1, NEW j \in 1 .. n + 1, M[i] = M[j]
               PROVE  i = j
    BY <1>4 DEF IsInjective
  <2>1. i = k <=> j = k
    <3>1. \A l \in 1 .. n + 1 : l # k => M[l] # s
      BY <1>5, <1>OldAt
    <3>2. M[k] = s
      BY <1>3, <1>4
    <3> QED BY <3>1, <3>2
  <2>2. CASE i # k /\ j # k
    <3>1. Old(i) = Old(j)
      BY <1>6, <1>OldAt, <2>2
    <3> QED BY <1>OldOrder, <2>2, <3>1
  <2> QED BY <2>1, <2>2
<1>11. \A i, j \in 1 .. n : i < j => twake[L[i]] <= twake[L[j]]
  BY <1>2 DEF AlarmInv, Armed
<1>12. \A i, j \in 1 .. n + 1 : i < j => twake'[M[i]] <= twake'[M[j]]
  <2> SUFFICES ASSUME NEW i \in 1 .. n + 1, NEW j \in 1 .. n + 1, i < j
               PROVE  twake'[M[i]] <= twake'[M[j]]
    OBVIOUS
  <2>1. CASE i # k /\ j # k
    <3>1. Old(i) \in 1 .. n /\ Old(j) \in 1 .. n /\ Old(i) < Old(j)
      BY <1>OldAt, <1>OldOrder, <2>1
    <3>2. twake[L[Old(i)]] <= twake[L[Old(j)]]
      BY <1>11, <3>1
    <3> QED BY <1>OldAt, <2>1, <3>2
  <2>2. CASE j = k
    <3>1. i \in 1 .. k - 1 /\ i # k /\ i < k
      BY <1>3, <2>2
    <3>2. twake'[M[i]] = twake[L[i]] /\ twake'[M[k]] = t
      BY <1>3, <1>9, <3>1
    <3>3. twake[L[i]] < t /\ twake[L[i]] \in Nat
      BY <1>2, <1>3, <1>8, <3>1
    <3> QED BY <1>2, <2>2, <3>2, <3>3
  <2>3. CASE i = k
    <3>1. j # k /\ k <= n /\ k <= Old(j) /\ Old(j) \in 1 .. n /\ k \in 1 .. n
      BY <1>2, <1>3, <1>OldAt, <1>OldSide, <2>3
    <3>2. twake[L[k]] <= twake[L[Old(j)]]
      <4>1. CASE k = Old(j)
        BY <1>2, <3>1, <4>1
      <4>2. CASE k < Old(j)
        BY <1>11, <3>1, <4>2
      <4> QED BY <1>2, <3>1, <4>1, <4>2
    <3>3. twake'[M[i]] = t /\ twake'[M[j]] = twake[L[Old(j)]]
      BY <1>3, <1>9, <1>OldAt, <2>3, <3>1
    <3>4. t <= twake[L[k]] /\ twake[L[k]] \in Nat /\ twake[L[Old(j)]] \in Nat
      BY <1>2, <1>3, <3>1
    <3> QED BY <1>2, <3>2, <3>3, <3>4
  <2> QED BY <2>1, <2>2, <2>3
<1>13. \A r \in Sleeper : state'[r] = "waiting" <=> \E i \in 1 .. n + 1 : M[i] = r
  <2> SUFFICES ASSUME NEW r \in Sleeper
               PROVE  state'[r] = "waiting" <=> \E i \in 1 .. n + 1 : M[i] = r
    OBVIOUS
  <2>1. state \in [Sleeper -> {"running", "waiting", "woken"}]
    BY DEF AlarmInv, AlarmsTypeOK
  <2>2. CASE r = s
    BY <1>1, <1>3, <1>4, <2>1, <2>2
  <2>3. CASE r # s
    <3>1. state'[r] = "waiting" <=> \E i \in 1 .. n : L[i] = r
      BY <1>1, <2>1, <2>3 DEF AlarmInv, Armed, Contains
    <3>2. ASSUME NEW i \in 1 .. n, L[i] = r
          PROVE  \E j \in 1 .. n + 1 : M[j] = r
      <4>1. CASE i < k
        BY <1>2, <1>4, <3>2, <4>1
      <4>2. CASE i >= k
        <5>1. i + 1 \in 1 .. n + 1 /\ ~(i + 1 < k) /\ i + 1 # k /\ (i + 1) - 1 = i
          BY <1>2, <1>3, <4>2
        <5> QED BY <1>4, <3>2, <5>1
      <4> QED BY <1>3, <4>1, <4>2
    <3>3. ASSUME NEW j \in 1 .. n + 1, M[j] = r
          PROVE  \E i \in 1 .. n : L[i] = r
      BY <1>3, <1>4, <1>8, <2>3, <3>3
    <3> QED BY <3>1, <3>2, <3>3
  <2> QED BY <2>2, <2>3
<1>14. Head(M) = M[1] /\ twake'[Head(M)] \in Nat
  BY <1>1, <1>2, <1>4, <1>7, <1>9, <1>3, <1>8, EmptySeq
<1>15. AlarmsTypeOK'
  BY <1>1, <1>2, <1>4, <1>10, <1>14 DEF AlarmInv, AlarmsTypeOK
<1>16. Armed'
  <2>1. (\A i, j \in DOMAIN sleep_list : i < j => twake[sleep_list[i]] <= twake[sleep_list[j]])'
    BY <1>4, <1>12
  <2>2. (\A r \in Sleeper : state[r] = "waiting" <=> Contains(sleep_list, r))'
    BY <1>4, <1>13 DEF Contains
  <2>3. (STIE /\ sleep_list # <<>> => stcmp <= twake[Head(sleep_list)])'
    BY <1>1, <1>14
  <2> QED BY <2>1, <2>2, <2>3 DEF Armed
<1>17. (\A r \in Sleeper : state[r] = "woken" => twake[r] <= time)'
  BY <1>1 DEF AlarmInv, AlarmsTypeOK
<1> QED BY <1>1, <1>15, <1>16, <1>17 DEF AlarmInv

LEMMA InterruptInv ==
  ASSUME AlarmInv, Interrupt
  PROVE  AlarmInv'
<1> DEFINE L == sleep_list
           n == Len(L)
           k == CHOOSE j \in 0 .. n :
                  /\ \A i \in 1 .. j : twake[L[i]] <= time
                  /\ j < n => twake[L[j + 1]] > time
           out == SubSeq(L, 1, k)
           rest == SubSeq(L, k + 1, n)
           next == IF time >= next_tick
                   THEN next_tick + ((time - next_tick) \div TICK + 1) * TICK ELSE next_tick
<1>1. /\ n \in Nat /\ L \in Seq(Sleeper) /\ DOMAIN L = 1 .. n
      /\ \A i \in 1 .. n : L[i] \in Sleeper /\ twake[L[i]] \in Nat
      /\ time \in Nat
  BY AlarmsAssumption, LenProperties, ElementOfSeq DEF AlarmInv, AlarmsTypeOK
<1>2. /\ k \in 0 .. n
      /\ \A i \in 1 .. k : twake[L[i]] <= time
  BY <1>1, EndFound
<1>3. out = Popped(sleep_list, time)
  BY DEF Popped
<1> HIDE DEF k
<1>4. /\ out \in Seq(Sleeper) /\ Len(out) = k
      /\ \A i \in 1 .. k : out[i] = L[i]
  <2>1. \A i \in 1 .. k : L[i] \in Sleeper
    BY <1>1, <1>2
  <2> QED BY <1>1, <1>2, <2>1, SubSeqProperties
<1>5. /\ rest \in Seq(Sleeper) /\ Len(rest) = n - k
      /\ \A i \in 1 .. n - k : rest[i] = L[k + i]
  <2>1. \A i \in k + 1 .. n : L[i] \in Sleeper
    BY <1>1, <1>2
  <2>2. /\ rest \in Seq(Sleeper)
        /\ Len(rest) = IF k + 1 <= n THEN n - (k + 1) + 1 ELSE 0
        /\ \A i \in 1 .. n - (k + 1) + 1 : rest[i] = L[k + 1 + i - 1]
    BY <1>1, <1>2, <2>1, SubSeqProperties
  <2> HIDE DEF rest, n
  <2> QED BY <1>1, <1>2, <2>2
<1> HIDE DEF out
<1>6. /\ sleep_list' = rest
      /\ state' = [s \in Sleeper |-> IF Contains(out, s) THEN "woken" ELSE state[s]]
      /\ next_tick' = next
      /\ stcmp' = IF rest = <<>> THEN next ELSE Lesser(next, twake[Head(rest)])
      /\ ticks' = TICK /\ STIE' = FALSE /\ UNCHANGED <<time, twake>>
  <2> HIDE DEF next, n
  <2> QED BY <1>3, <1>4 DEF Interrupt, next, n
<1>7. next \in Nat /\ next <= time + TICK
  <2>1. TICK \in Nat \ {0} /\ next_tick \in Nat /\ next_tick <= time + TICK
    BY AlarmsAssumption DEF AlarmInv, AlarmsTypeOK
  <2>2. CASE time >= next_tick
    <3> DEFINE d == time - next_tick
               q == d \div TICK
    <3>1. d \in Nat /\ next_tick + d = time
      BY <1>1, <2>1, <2>2
    <3>2. q \in Nat /\ q * TICK \in Nat /\ q * TICK <= d
      <4> HIDE DEF d
      <4> QED BY <2>1, <3>1, Periods
    <3>3. next = next_tick + (q + 1) * TICK
      BY <2>2
    <3> HIDE DEF d, q, next
    <3>4. (q + 1) * TICK = q * TICK + TICK
      BY <2>1, <3>2
    <3> DEFINE m == q * TICK
    <3>5. m \in Nat /\ m <= d /\ next = next_tick + (m + TICK)
      BY <3>2, <3>3, <3>4
    <3> HIDE DEF m
    <3> QED BY <1>1, <2>1, <3>1, <3>5
  <2>3. CASE ~(time >= next_tick)
    BY <2>1, <2>3
  <2> QED BY <2>2, <2>3
<1> HIDE DEF next, rest
<1>8. DOMAIN rest = 1 .. n - k /\ n - k \in Nat
  BY <1>1, <1>2, <1>5, LenProperties
<1>9. IsInjective(rest)
  <2>1. \A i, j \in 1 .. n : L[i] = L[j] => i = j
    BY <1>1 DEF AlarmInv, AlarmsTypeOK, IsInjective
  <2>2. \A i \in 1 .. n - k : k + i \in 1 .. n
    BY <1>1, <1>2
  <2> SUFFICES ASSUME NEW i \in 1 .. n - k, NEW j \in 1 .. n - k, rest[i] = rest[j]
               PROVE  i = j
    BY <1>8 DEF IsInjective
  <2>3. k + i = k + j
    BY <1>5, <2>1, <2>2
  <2> QED BY <1>2, <2>3
<1>10. stcmp' \in Nat
  <2>1. CASE rest = <<>>
    BY <1>6, <1>7, <2>1
  <2>2. CASE rest # <<>>
    <3>1. Head(rest) \in Sleeper
      BY <1>5, <2>2, HeadTailProperties
    <3>2. twake[Head(rest)] \in Nat
      BY AlarmsAssumption, <3>1 DEF AlarmInv, AlarmsTypeOK
    <3> QED BY <1>6, <1>7, <2>2, <3>2 DEF Lesser
  <2> QED BY <2>1, <2>2
<1>11. \A s \in Sleeper : Contains(out, s) <=> \E i \in 1 .. k : L[i] = s
  BY <1>4 DEF Contains
<1>12. \A s \in Sleeper : Contains(rest, s) <=> \E i \in k + 1 .. n : L[i] = s
  <2> SUFFICES ASSUME NEW s \in Sleeper
               PROVE  (\E i \in 1 .. n - k : rest[i] = s) <=> \E i \in k + 1 .. n : L[i] = s
    BY <1>5 DEF Contains
  <2>1. ASSUME NEW i \in 1 .. n - k, rest[i] = s
        PROVE  \E j \in k + 1 .. n : L[j] = s
    <3>1. k + i \in k + 1 .. n
      BY <1>1, <1>2
    <3> QED BY <1>5, <2>1, <3>1
  <2>2. ASSUME NEW i \in k + 1 .. n, L[i] = s
        PROVE  \E j \in 1 .. n - k : rest[j] = s
    <3>1. i - k \in 1 .. n - k /\ k + (i - k) = i
      BY <1>1, <1>2
    <3> QED BY <1>5, <2>2, <3>1
  <2> QED BY <2>1, <2>2
<1>13. \A s \in Sleeper : state'[s] = "waiting" <=> Contains(rest, s)
  <2> SUFFICES ASSUME NEW s \in Sleeper
               PROVE  state'[s] = "waiting" <=> \E i \in k + 1 .. n : L[i] = s
    BY <1>12
  <2>1. state[s] = "waiting" <=> \E i \in 1 .. n : L[i] = s
    BY DEF AlarmInv, Armed, Contains
  <2>2. \A i \in 1 .. n : i \in 1 .. k \/ i \in k + 1 .. n
    BY <1>1, <1>2
  <2>3. (\A i \in 1 .. k : i \in 1 .. n) /\ (\A i \in k + 1 .. n : i \in 1 .. n /\ i \notin 1 .. k)
    BY <1>1, <1>2
  <2>4. \A i, j \in 1 .. n : L[i] = L[j] => i = j
    BY <1>1 DEF AlarmInv, AlarmsTypeOK, IsInjective
  <2>5. state'[s] = IF \E i \in 1 .. k : L[i] = s THEN "woken" ELSE state[s]
    BY <1>6, <1>11
  <2> QED BY <2>1, <2>2, <2>3, <2>4, <2>5
<1>14. \A i, j \in 1 .. n - k : i < j => twake[rest[i]] <= twake[rest[j]]
  <2> SUFFICES ASSUME NEW i \in 1 .. n - k, NEW j \in 1 .. n - k, i < j
               PROVE  twake[rest[i]] <= twake[rest[j]]
    OBVIOUS
  <2>1. k + i \in 1 .. n /\ k + j \in 1 .. n /\ k + i < k + j
    BY <1>1, <1>2
  <2>2. twake[L[k + i]] <= twake[L[k + j]]
    BY <1>1, <2>1 DEF AlarmInv, Armed
  <2> QED BY <1>5, <2>2
<1>15. AlarmsTypeOK'
  BY <1>5, <1>6, <1>7, <1>9, <1>10 DEF AlarmInv, AlarmsTypeOK
<1>16. Armed'
  BY <1>6, <1>8, <1>13, <1>14 DEF Armed
<1>17. (\A s \in Sleeper : state[s] = "woken" => twake[s] <= time)'
  <2> SUFFICES ASSUME NEW s \in Sleeper, state'[s] = "woken"
               PROVE  twake[s] <= time
    BY <1>6
  <2>1. CASE Contains(out, s)
    BY <1>2, <1>11, <2>1
  <2>2. CASE ~Contains(out, s)
    BY <1>6, <2>2 DEF AlarmInv
  <2> QED BY <2>1, <2>2
<1> QED BY <1>6, <1>7, <1>15, <1>16, <1>17 DEF AlarmInv

LEMMA AlarmStep == AlarmInv /\ [AlarmsNext]_alarmVars => AlarmInv'
<1> SUFFICES ASSUME AlarmInv, [AlarmsNext]_alarmVars
             PROVE  AlarmInv'
  OBVIOUS
<1>1. CASE Tick
  BY <1>1, TickInv
<1>2. CASE Interrupt
  BY <1>2, InterruptInv
<1>3. ASSUME NEW s \in Sleeper, Reset(s)
      PROVE  AlarmInv'
  BY <1>3, ResetInv
<1>4. ASSUME NEW s \in Sleeper, Recheck(s)
      PROVE  AlarmInv'
  BY <1>4, RecheckInv
<1>5. ASSUME NEW s \in Sleeper, NEW cnt \in Counts, SleepNot(s, cnt)
      PROVE  AlarmInv'
  BY <1>5, SleepNotInv, CountsNat DEF AlarmInv
<1>6. ASSUME NEW s \in Sleeper, NEW cnt \in Counts, alarm_sleep(s, cnt)
      PROVE  AlarmInv'
  BY <1>6, SleepInv, CountsNat DEF AlarmInv
<1>7. CASE UNCHANGED alarmVars
  <2>1. UNCHANGED <<time, stcmp, STIE, sleep_list, twake, ticks, next_tick, state>>
    BY <1>7 DEF alarmVars, timerVars
  <2>2. AlarmsTypeOK'
    BY <2>1 DEF AlarmInv, AlarmsTypeOK
  <2>3. Armed'
    BY <2>1 DEF AlarmInv, Armed, Contains
  <2> QED BY <2>1, <2>2, <2>3 DEF AlarmInv
<1> QED BY <1>1, <1>2, <1>3, <1>4, <1>5, <1>6, <1>7 DEF AlarmsNext

(* Types, and no alarm is twice on the list; the next tick of the clock is  *)
(* at most one period away.                                                *)
THEOREM AlarmTyping == AlarmsSpec => []AlarmsTypeOK
<1>1. AlarmsInit => AlarmInv
  BY AlarmInit
<1>2. AlarmInv => AlarmsTypeOK
  BY DEF AlarmInv
<1> QED BY <1>1, <1>2, AlarmStep, PTL DEF AlarmsSpec

(* alarm_sleep and the handler keep the list sorted and the compare        *)
(* register no later than its head while the interrupt is enabled, for any *)
(* number of sleepers.                                                     *)
THEOREM ArmedHolds == AlarmsSpec => []Armed
<1>1. AlarmsInit => AlarmInv
  BY AlarmInit
<1>2. AlarmInv => Armed
  BY DEF AlarmInv
<1> QED BY <1>1, <1>2, AlarmStep, PTL DEF AlarmsSpec
=============================================================================
