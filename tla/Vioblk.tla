------------------------------- MODULE Vioblk -------------------------------
(***************************************************************************)
(* The block device driver dev/vioblk.c and the device behind its queue.   *)
(*                                                                         *)
(* There is one request at a time: one header, one buffer and one chain of *)
(* descriptors, guarded by virtq_lock, which is held while the caller      *)
(* waits for the device. The device and the interrupt handler take their   *)
(* steps between any two steps of a caller. The check of the used index    *)
(* and the wait are one step: interrupts are off (Threads shows that no    *)
(* wake-up is lost then). A sector holds one value; requests start at      *)
(* multiples of the block size, as those of the cache do.                  *)
(***************************************************************************)
EXTENDS Plic, Integers, Sequences

CONSTANTS
  Client,    \* threads that use the device
  capacity,  \* sectors
  Value,     \* what a sector may hold
  MaxLen,    \* sectors per call (bound)
  IDX,       \* 2^16 in the code: indices are taken modulo IDX
  Eager,     \* may the device look for requests before it is notified?
  irqno      \* its interrupt source

NoOne == "no one"

ASSUME VioblkAssumption ==
  /\ irqno \in Src /\ capacity \in Nat \ {0} /\ MaxLen \in Nat \ {0}
  /\ IDX \in Nat /\ IDX >= 2 /\ Eager \in BOOLEAN /\ Client # {} /\ Value # {}
  /\ NoOne \notin Client

VARIABLES
  opened, owner,       \* vbd->opened; the holder of vbd->virtq_lock
  avail, used, prev,   \* avail->idx, used->idx, prev_used_idx
  header, buf, status, \* the request, its data, its status byte
  ready, kicked,       \* queue_ready; a notification the device has not seen
  taken, seen,         \* the device works on a request; requests it has done
  isrbit,              \* interrupt_status
  disk,                \* the device's sectors
  pc, req, ret         \* where each caller is, its call, what the last returned

queueVars == <<avail, used, prev, header, buf, status>>
devVars   == <<ready, kicked, taken, seen, isrbit, disk>>
vars      == <<opened, owner, queueVars, devVars, pc, req, ret, plicVars>>

Sector == 0 .. capacity - 1
Idle   == [op |-> "idle", at |-> 0, left |-> 0, val |-> 0, got |-> <<>>]

Labels == {"idle", "lock", "open2", "close2", "loop", "published", "noted",
           "check", "asleep"}

Inc(i) == (i + 1) % IDX
Go(c, label) == pc' = [pc EXCEPT ![c] = label]

(* lock_release and the return of a call.                                  *)
Leave(c, result) ==
  /\ owner' = NoOne
  /\ Go(c, "idle")
  /\ req' = [req EXCEPT ![c] = Idle]
  /\ ret' = [ret EXCEPT ![c] = result]
----------------------------------------------------------------------------
(* A call; the device is tested to be open before the lock.                *)
Call(c, r) ==
  /\ pc[c] = "idle" /\ opened
  /\ Go(c, "lock")
  /\ req' = [req EXCEPT ![c] = r]
  /\ ret' = [ret EXCEPT ![c] = <<>>]
  /\ UNCHANGED <<opened, owner, queueVars, devVars, plicVars>>

vioblk_storage_fetch(c, at, n) ==
  Call(c, [op |-> "fetch", at |-> at, left |-> n, val |-> 0, got |-> <<>>])
vioblk_storage_store(c, at, n, v) ==
  Call(c, [op |-> "store", at |-> at, left |-> n, val |-> v, got |-> <<>>])

(* Fault: the buffer has no lock.                                          *)
LockNothing(c) ==
  /\ pc[c] = "lock"
  /\ owner' = c
  /\ Go(c, "loop")
  /\ UNCHANGED <<opened, queueVars, devVars, req, ret, plicVars>>

Lock(c) ==
  /\ pc[c] = "lock" /\ owner = NoOne
  /\ owner' = c
  /\ Go(c, "loop")
  /\ UNCHANGED <<opened, queueVars, devVars, req, ret, plicVars>>

(* vioblk_storage_open: handler, then priority and queue.                  *)
Open(c) ==
  /\ pc[c] = "idle" /\ ~opened /\ owner = NoOne
  /\ owner' = c
  /\ SetIsr(irqno)
  /\ Go(c, "open2")
  /\ UNCHANGED <<opened, queueVars, devVars, req, ret>>

OpenDone(c) ==
  /\ pc[c] = "open2"
  /\ plic_enable_source(irqno)
  /\ ready' = TRUE /\ opened' = TRUE
  /\ owner' = NoOne /\ Go(c, "idle")
  /\ UNCHANGED <<queueVars, kicked, taken, seen, isrbit, disk, req, ret>>

(* vioblk_storage_close. The queue is reset, the indices stay.             *)
Close(c) ==
  /\ pc[c] = "idle" /\ opened /\ owner = NoOne
  /\ owner' = c
  /\ plic_disable_source(irqno)
  /\ Go(c, "close2")
  /\ UNCHANGED <<opened, queueVars, devVars, req, ret>>

CloseDone(c) ==
  /\ pc[c] = "close2"
  /\ ClearIsr(irqno)
  /\ ready' = FALSE /\ opened' = FALSE
  /\ owner' = NoOne /\ Go(c, "idle")
  /\ UNCHANGED <<queueVars, kicked, taken, seen, isrbit, disk, req, ret>>

(* One more sector is wanted, and it is not beyond the capacity.           *)
More(r) == r.left > 0 /\ r.at + 1 <= capacity

(* The loop ends: all is done, or the next sector is beyond the capacity.  *)
Done(c) ==
  /\ pc[c] = "loop" /\ ~More(req[c])
  /\ Leave(c, req[c].got)
  /\ UNCHANGED <<opened, queueVars, devVars, plicVars>>

(* The request is written and made available ...                           *)
Publish(c, op) ==
  /\ pc[c] = "loop" /\ req[c].op = op /\ More(req[c])
  /\ header' = [op |-> op, sector |-> req[c].at]
  /\ status' = "pending"
  /\ avail' = Inc(avail)
  /\ Go(c, "published")
  /\ UNCHANGED <<opened, owner, used, prev, devVars, req, ret, plicVars>>

(* ... with the data of a store in the buffer.                             *)
PublishFetch(c) == Publish(c, "fetch") /\ UNCHANGED buf
PublishStore(c) == Publish(c, "store") /\ buf' = req[c].val

(* Fault: the used index is not read anew.                                 *)
KeepUsed(c) ==
  /\ pc[c] = "published"
  /\ Go(c, "noted")
  /\ UNCHANGED <<opened, owner, queueVars, devVars, req, ret, plicVars>>

NoteUsed(c) ==
  /\ pc[c] = "published"
  /\ prev' = used
  /\ Go(c, "noted")
  /\ UNCHANGED <<opened, owner, avail, used, header, buf, status, devVars, req, ret, plicVars>>

(* virtio_notify_avail.                                                    *)
Notify(c) ==
  /\ pc[c] = "noted"
  /\ kicked' = TRUE
  /\ Go(c, "check")
  /\ UNCHANGED <<opened, owner, queueVars, ready, taken, seen, isrbit, disk, req, ret, plicVars>>

Sleep(c) ==
  /\ pc[c] = "check" /\ used = prev
  /\ Go(c, "asleep")
  /\ UNCHANGED <<opened, owner, queueVars, devVars, req, ret, plicVars>>

Answered == used # prev

(* The sector was moved; the caller goes on with the next one.             *)
Advanced(r) == [r EXCEPT !.at = @ + 1, !.left = @ - 1]
Fetched(r, v) == [Advanced(r) EXCEPT !.got = Append(@, v)]

Take(c, op, r) ==
  /\ pc[c] = "check" /\ Answered /\ status # "error" /\ req[c].op = op
  /\ req' = [req EXCEPT ![c] = r]
  /\ Go(c, "loop")
  /\ UNCHANGED <<opened, owner, queueVars, devVars, ret, plicVars>>

TakeFetch(c) == Take(c, "fetch", Fetched(req[c], buf))
TakeStore(c) == Take(c, "store", Advanced(req[c]))

(* Unsupported, or an I/O error.                                           *)
Refused(c) ==
  /\ pc[c] = "check" /\ Answered /\ status = "error"
  /\ Leave(c, "error")
  /\ UNCHANGED <<opened, queueVars, devVars, plicVars>>
----------------------------------------------------------------------------
(* vioblk_isr, from the claim to the read of interrupt_status, and from the*)
(* acknowledgement to the end.                                             *)
IsrStart ==
  /\ isrbit
  /\ Claim(irqno)
  /\ UNCHANGED <<opened, owner, queueVars, devVars, pc, req, ret>>

(* Fault: the interrupt wakes nobody.                                      *)
BroadcastNobody == UNCHANGED pc

Broadcast == pc' = [c \in Client |-> IF pc[c] = "asleep" THEN "check" ELSE pc[c]]

IsrEnd ==
  /\ Finish(irqno)
  /\ isrbit' = FALSE
  /\ Broadcast
  /\ UNCHANGED <<opened, owner, queueVars, ready, kicked, taken, seen, disk, req, ret>>
----------------------------------------------------------------------------
(* The device takes the available request ...                              *)
DeviceTake ==
  /\ ~taken /\ ready /\ seen # avail /\ (kicked \/ Eager)
  /\ taken' = TRUE /\ kicked' = FALSE
  /\ UNCHANGED <<opened, owner, queueVars, ready, seen, isrbit, disk, pc, req, ret, plicVars>>

(* ... and answers it: data and status, then the used index, then the      *)
(* interrupt.                                                              *)
DeviceAnswer ==
  /\ taken
  /\ taken' = FALSE
  /\ seen' = Inc(seen) /\ used' = Inc(used)
  /\ isrbit' = TRUE
  /\ \/ /\ status' = "ok"
        /\ IF header.op = "fetch"
           THEN buf' = disk[header.sector] /\ UNCHANGED disk
           ELSE disk' = [disk EXCEPT ![header.sector] = buf] /\ UNCHANGED buf
     \/ status' = "error" /\ UNCHANGED <<buf, disk>>
  /\ UNCHANGED <<opened, owner, avail, prev, header, ready, kicked, pc, req, ret, plicVars>>
----------------------------------------------------------------------------
Init ==
  /\ opened = FALSE /\ owner = NoOne
  /\ avail = 0 /\ used = 0 /\ prev = 0
  /\ header = [op |-> "none", sector |-> 0] /\ status = "none"
  /\ buf \in Value /\ disk \in [Sector -> Value]
  /\ ready = FALSE /\ kicked = FALSE /\ taken = FALSE /\ seen = 0 /\ isrbit = FALSE
  /\ pc = [c \in Client |-> "idle"] /\ req = [c \in Client |-> Idle]
  /\ ret = [c \in Client |-> <<>>]
  /\ PlicInit

(* What a caller does by itself once it is in a call.                      *)
Step(c) ==
  /\ claimed = NoSrc
  /\ \/ Lock(c) \/ OpenDone(c) \/ CloseDone(c) \/ Done(c) \/ PublishFetch(c) \/ PublishStore(c)
     \/ NoteUsed(c) \/ Notify(c) \/ Sleep(c) \/ TakeFetch(c) \/ TakeStore(c) \/ Refused(c)

(* The device is closed by its last user: nobody is in a call then, and    *)
(* nobody starts one.                                                      *)
Start(c) ==
  /\ claimed = NoSrc /\ \A d \in Client : pc[d] # "close2"
  /\ \/ \E at \in Sector, n \in 1 .. MaxLen :
          \/ vioblk_storage_fetch(c, at, n)
          \/ \E v \in Value : vioblk_storage_store(c, at, n, v)
     \/ Open(c)
     \/ Close(c) /\ \A d \in Client : pc[d] = "idle"

Next ==
  \/ \E c \in Client : Step(c) \/ Start(c)
  \/ IsrStart \/ IsrEnd \/ DeviceTake \/ DeviceAnswer

(* The hart runs whoever is ready, an asserted interrupt is taken, the     *)
(* device answers.                                                         *)
Fairness ==
  /\ \A c \in Client : WF_vars(Step(c))
  /\ WF_vars(IsrStart) /\ WF_vars(IsrEnd)
  /\ WF_vars(DeviceTake) /\ WF_vars(DeviceAnswer)

Spec == Init /\ [][Next]_vars /\ Fairness
----------------------------------------------------------------------------
(* Types; every source that is on has its handler, and whoever is past the *)
(* lock of the driver is its owner, so a caller that waits is the one that *)
(* asked.                                                                  *)
TypeOK ==
  /\ PlicTypeOK /\ HasHandler
  /\ owner \in Client \cup {NoOne} /\ pc \in [Client -> Labels]
  /\ {avail, used, prev, seen} \subseteq 0 .. IDX - 1
  /\ status \in {"none", "pending", "ok", "error"} /\ buf \in Value
  /\ disk \in [Sector -> Value]
  /\ \A c \in Client : pc[c] \notin {"idle", "lock"} => owner = c

(* While the device has the request, from its publication to its answer,   *)
(* nobody writes the header, the buffer or the status byte, and no second  *)
(* request is made available.                                              *)
Outstanding == avail # seen
RequestIsTheDevices ==
  [][Outstanding /\ seen' = seen => UNCHANGED <<header, buf, status, avail>>]_vars

(* A request that was made available is answered, and its caller goes on.  *)
Answers ==
  \A c \in Client : pc[c] = "published" ~> pc[c] \in {"idle", "loop"}

(* A call of the abstract disk: a sector counts as moved when the device   *)
(* has answered.                                                           *)
AbstractCall(c) ==
  IF pc[c] \in {"noted", "check", "asleep"} /\ ~Outstanding /\ status = "ok"
  THEN IF req[c].op = "fetch" THEN Fetched(req[c], buf) ELSE Advanced(req[c])
  ELSE req[c]

D == INSTANCE Disk WITH content <- disk, call <- [c \in Client |-> AbstractCall(c)]
DiskSpec == D!Spec
=============================================================================
