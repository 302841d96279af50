------------------------------ MODULE Devices -------------------------------
(***************************************************************************)
(* How a name becomes a device and a device becomes a file: the mount      *)
(* table of filesys.c, the device list and the device file system of       *)
(* device.c, and the handles (struct uio) that make byte-wise calls on a   *)
(* device that transfers blocks only.                                      *)
(*                                                                         *)
(* One process uses a handle at a time, and a device has one handle, so a  *)
(* call is one step although it waits for the device. The device is the    *)
(* block driver of Vioblk: it refuses a call for no bytes, moves the       *)
(* blocks that lie before its end, and may report an error after any of    *)
(* them.                                                                   *)
(***************************************************************************)
EXTENDS Integers, Sequences, SequencesExt, FiniteSets

CONSTANTS
  Handle,    \* handles a process may hold
  Boot,      \* the <<name, type>> pairs in the order drivers register them
  Mounts,    \* the <<mount point, file system>> pairs in the order of mounting
  Blk,       \* the number in the device list of the storage device
  BLK, capacity, Byte,  \* its block size and size in bytes, what a byte holds
  MaxBytes,    \* bytes per call (bound)
  Fault,     \* what may go wrong in a call: <<part, blocks moved before>>
  PastEnd    \* may a call reach beyond the end of the device?

ASSUME DevicesAssumption ==
  /\ Boot \in Seq(STRING \X {"serial", "storage"}) /\ Mounts \in Seq(STRING \X {"devfs", "nullfs"})
  /\ Blk \in DOMAIN Boot /\ Boot[Blk][2] = "storage"
  /\ BLK \in Nat \ {0} /\ capacity \in Nat /\ capacity % BLK = 0
  /\ MaxBytes \in Nat /\ PastEnd \in BOOLEAN /\ Byte # {}
  /\ <<"none", 0>> \in Fault /\ Fault \subseteq {"none", "head", "body", "tail"} \X Nat

VARIABLES
  devlist,   \* the device records in order: name, instance number, type
  mplist,    \* the mount points in order: name and file system
  opened,    \* the devices (their numbers in devlist) that are open
  uio,       \* uio[h]: closed, a listing, or a device with pos and bounce buffer
  disk,      \* the bytes of the storage device
  last       \* the bytes of the last call: those a read returned, a write was given

tables == <<devlist, mplist>>
devVars   == <<tables, opened, uio, disk, last>>

Closed == [kind |-> "closed", at |-> 0, pos |-> 0, buffer |-> <<>>]
----------------------------------------------------------------------------
Instance(name) == Cardinality({i \in DOMAIN devlist : devlist[i].name = name})

(* register_device: the drivers attach one after the other.                *)
Register ==
  /\ Len(devlist) < Len(Boot)
  /\ LET dev == Boot[Len(devlist) + 1]
     IN devlist' = Append(devlist, [name |-> dev[1], instno |-> Instance(dev[1]), type |-> dev[2]])
  /\ UNCHANGED <<mplist, opened, uio, disk, last>>

(* attach_filesystem: not under a name that is taken.                      *)
AttachFilesystem ==
  \E mp \in Range(Mounts) :
    /\ \A i \in DOMAIN mplist : mplist[i][1] # mp[1]
    /\ mplist' = Append(mplist, mp)
    /\ UNCHANGED <<devlist, opened, uio, disk, last>>

getfs(mpname) ==
  IF \E i \in DOMAIN mplist : mplist[i][1] = mpname
  THEN mplist[CHOOSE i \in DOMAIN mplist : mplist[i][1] = mpname][2] ELSE "none"

(* The record devfs_open_file finds, the first that fits.                  *)
Found(name, instno) ==
  {i \in DOMAIN devlist : /\ devlist[i].name = name /\ devlist[i].instno = instno
                          /\ \A j \in 1 .. i - 1 : devlist[j].name # name \/ devlist[j].instno # instno}

(* Fault: a device that is open can be opened again.                       *)
MayOpenAgain(d) == TRUE
MayOpen(d) == d \notin opened

serial_open(d)   == MayOpen(d) /\ opened' = opened \cup {d}
storage_open(d)  == MayOpen(d) /\ opened' = opened \cup {d}
serial_close(d)  == opened' = opened \ {d}
storage_close(d) == opened' = opened \ {d}

serial_open_uio(h, d) ==
  /\ devlist[d].type = "serial" /\ serial_open(d)
  /\ uio' = [uio EXCEPT ![h] = [Closed EXCEPT !.kind = "serial", !.at = d]]

storage_open_uio(h, d) ==
  /\ devlist[d].type = "storage" /\ storage_open(d)
  /\ uio' = [uio EXCEPT ![h] = [kind |-> "storage", at |-> d, pos |-> 0,
                                buffer |-> [i \in 0 .. BLK - 1 |-> CHOOSE b \in Byte : TRUE]]]

(* open_file with a device. Without a mount point of that name, without a  *)
(* device, or when the driver refuses, it fails and changes nothing.       *)
OpenFile(h, mpname, name, instno) ==
  /\ uio[h] = Closed /\ getfs(mpname) = "devfs"
  /\ \E d \in Found(name, instno) : serial_open_uio(h, d) \/ storage_open_uio(h, d)
  /\ last' = <<>>
  /\ UNCHANGED <<tables, disk>>

(* open_file without a device, or without a mount point: a listing, which  *)
(* stands at the first name.                                               *)
Listing(h, kind, list) ==
  /\ uio[h] = Closed
  /\ uio' = [uio EXCEPT ![h] = [Closed EXCEPT !.kind = kind, !.at = IF list = <<>> THEN 0 ELSE 1]]
  /\ last' = <<>>
  /\ UNCHANGED <<tables, opened, disk>>

devfs_open_listing(h) ==
  (\E i \in DOMAIN mplist : mplist[i][2] = "devfs") /\ Listing(h, "devices", devlist)
fs_open_listing(h) == Listing(h, "mounts", mplist)

(* One name per read, then none. A name that is added to a list before the *)
(* last one is read is read too.                                           *)
NextName(h, kind, list) ==
  /\ uio[h].kind = kind /\ uio[h].at # 0
  /\ uio' = [uio EXCEPT ![h].at = IF @ < Len(list) THEN @ + 1 ELSE 0]
  /\ last' = <<>>
  /\ UNCHANGED <<tables, opened, disk>>

devfs_listing_read(h) == NextName(h, "devices", devlist)
fs_listing_read(h)    == NextName(h, "mounts", mplist)

(* uio_close of the last reference.                                        *)
Freed(h) == uio' = [uio EXCEPT ![h] = Closed] /\ last' = <<>> /\ UNCHANGED <<tables, disk>>

serial_uio_close(h)  == uio[h].kind = "serial" /\ serial_close(uio[h].at) /\ Freed(h)
storage_uio_close(h) == uio[h].kind = "storage" /\ storage_close(uio[h].at) /\ Freed(h)
ListingClose(h) == uio[h].kind \in {"devices", "mounts"} /\ Freed(h) /\ UNCHANGED opened

(* storage_uio_cntl, FCNTL_SETPOS.                                         *)
SetPos(h, p) ==
  /\ uio[h].kind = "storage" /\ p <= capacity
  /\ uio' = [uio EXCEPT ![h].pos = p]
  /\ last' = <<>>
  /\ UNCHANGED <<tables, opened, disk>>
----------------------------------------------------------------------------
(* A call is worked on in up to three parts. Between them its state is a   *)
(* record: the position, the bytes read, what is left to do (a number of   *)
(* bytes, or the bytes themselves), the buffer, the disk, whether it ends  *)
(* here, and the fault it meets: <<part, n>>, in that part the device      *)
(* moves n blocks and then reports an error.                               *)
Smaller(a, b) == IF a < b THEN a ELSE b
Down(n) == (n \div BLK) * BLK

(* What the device moves of n bytes from p on.                             *)
Moved(p, n) == IF p >= capacity THEN 0 ELSE Smaller(n, capacity - p)

(* The number of bytes, or an error, a negative number. No bytes at all    *)
(* are refused by the driver.                                              *)
storage_fetch(p, n, fails) == IF fails \/ n < BLK \/ p % BLK # 0 THEN -1 ELSE Moved(p, n)
storage_store(p, n, fails) == IF fails \/ n < BLK \/ p % BLK # 0 THEN -1 ELSE Moved(p, n)

Block(st)  == Down(st.pos)
Offset(st) == st.pos % BLK

(* The bounce buffer after its block was fetched.                          *)
Buffered(st) ==
  IF Moved(Block(st), BLK) = BLK
  THEN [i \in 0 .. BLK - 1 |-> st.disk[Block(st) + i]] ELSE st.buffer

(* d with the bytes s from p on.                                           *)
Overlaid(d, p, s) ==
  [i \in 0 .. capacity - 1 |-> IF i - p \in 0 .. Len(s) - 1 THEN s[i - p + 1] ELSE d[i]]

(* A block into the buffer, part of it to the caller.                      *)
unaligned_fetch(st, part) ==
  LET k == Smaller(BLK - Offset(st), st.left)
      b == Buffered(st)
  IN IF storage_fetch(Block(st), BLK, st.fault[1] = part) < 0 THEN [st EXCEPT !.ends = TRUE]
     ELSE [st EXCEPT !.buffer = b, !.pos = @ + k, !.left = @ - k,
                     !.read = @ \o [i \in 1 .. k |-> b[Offset(st) + i - 1]]]

(* The whole blocks, straight into the caller's buffer. Those that were    *)
(* moved before an error are not counted.                                  *)
AlignedFetch(st) ==
  LET n == Down(st.left)
      k == storage_fetch(st.pos, n, st.fault[1] = "body")
  IN IF k < 0 THEN [st EXCEPT !.ends = TRUE]
     ELSE [st EXCEPT !.pos = @ + k, !.left = @ - k, !.ends = (k < n),
                     !.read = @ \o [i \in 1 .. k |-> st.disk[st.pos + i - 1]]]

FetchHead(st) == IF Offset(st) # 0 THEN unaligned_fetch(st, "head") ELSE st
FetchBody(st) == IF st.ends \/ st.left = 0 THEN [st EXCEPT !.ends = TRUE] ELSE AlignedFetch(st)
FetchTail(st) == IF st.ends \/ st.left % BLK = 0 THEN st ELSE unaligned_fetch(st, "tail")

(* The first k bytes are on the disk, in the block the buffer holds.       *)
Patched(st, b, k) ==
  [st EXCEPT !.buffer = b, !.pos = @ + k, !.data = SubSeq(@, k + 1, Len(@)),
             !.disk = Overlaid(@, Block(st), [i \in 1 .. BLK |-> b[i - 1]])]

(* The buffer b with the first k bytes of the call.                        *)
Patch(st, b, k) ==
  [i \in 0 .. BLK - 1 |->
     IF i - Offset(st) \in 0 .. k - 1 THEN st.data[i - Offset(st) + 1] ELSE b[i]]

(* Fault: the block is not read before a part of it is overwritten.        *)
StoreWithoutFetch(st, part) ==
  LET k == Smaller(BLK - Offset(st), Len(st.data))
  IN Patched(st, Patch(st, st.buffer, k), k)

(* The block is read, changed in the buffer and written.                   *)
unaligned_store(st, part) ==
  LET k == Smaller(BLK - Offset(st), Len(st.data))
      b == Patch(st, Buffered(st), k)
  IN IF storage_fetch(Block(st), BLK, st.fault = <<part, 0>>) < 0 THEN [st EXCEPT !.ends = TRUE]
     ELSE IF storage_store(Block(st), BLK, st.fault = <<part, 1>>) < 0
     THEN [st EXCEPT !.buffer = b, !.ends = TRUE]
     ELSE Patched(st, b, k)

(* The blocks that were stored before an error are on the disk, but are    *)
(* not counted.                                                            *)
AlignedStore(st) ==
  LET n == Down(Len(st.data))
      whole == Moved(st.pos, n)
      fails == st.fault[1] = "body" /\ st.fault[2] * BLK < whole
      k == storage_store(st.pos, n, fails)
  IN IF k < 0
     THEN [st EXCEPT !.ends = TRUE,
             !.disk = IF fails THEN Overlaid(@, st.pos, SubSeq(st.data, 1, st.fault[2] * BLK)) ELSE @]
     ELSE [st EXCEPT !.pos = @ + k, !.data = SubSeq(@, k + 1, Len(@)), !.ends = (k < n),
                     !.disk = Overlaid(@, st.pos, SubSeq(st.data, 1, k))]

StoreHead(st) == IF Offset(st) # 0 THEN unaligned_store(st, "head") ELSE st
StoreBody(st) == IF st.ends \/ st.data = <<>> THEN [st EXCEPT !.ends = TRUE] ELSE AlignedStore(st)
StoreTail(st) == IF st.ends \/ Len(st.data) % BLK = 0 THEN st ELSE unaligned_store(st, "tail")

Begun(h, n, s, fault) ==
  [pos |-> uio[h].pos, buffer |-> uio[h].buffer, disk |-> disk, read |-> <<>>,
   left |-> n, data |-> s, ends |-> FALSE, fault |-> fault]

Ended(h, st) ==
  /\ uio' = [uio EXCEPT ![h].pos = st.pos, ![h].buffer = st.buffer]
  /\ disk' = st.disk
  /\ UNCHANGED <<tables, opened>>

storage_uio_read(h, n, fault) ==
  /\ uio[h].kind = "storage" /\ (PastEnd \/ uio[h].pos + n <= capacity)
  /\ LET st == FetchTail(FetchBody(FetchHead(Begun(h, n, <<>>, fault))))
     IN Ended(h, st) /\ last' = st.read

storage_uio_write(h, s, fault) ==
  /\ uio[h].kind = "storage" /\ (PastEnd \/ uio[h].pos + Len(s) <= capacity)
  /\ Ended(h, StoreTail(StoreBody(StoreHead(Begun(h, 0, s, fault)))))
  /\ last' = s
----------------------------------------------------------------------------
DevInit ==
  /\ devlist = <<>> /\ mplist = <<>> /\ opened = {}
  /\ uio = [h \in Handle |-> Closed]
  /\ disk \in [0 .. capacity - 1 -> Byte] /\ last = <<>>

DevNext ==
  \/ Register \/ AttachFilesystem
  \/ \E h \in Handle :
       \/ \E mp \in Range(Mounts), d \in Range(Boot), i \in 0 .. Len(Boot) - 1 :
            OpenFile(h, mp[1], d[1], i)
       \/ devfs_open_listing(h) \/ devfs_listing_read(h)
       \/ fs_open_listing(h) \/ fs_listing_read(h)
       \/ serial_uio_close(h) \/ storage_uio_close(h) \/ ListingClose(h)
       \/ \E p \in 0 .. capacity : SetPos(h, p)
       \/ \E n \in 0 .. MaxBytes, fault \in Fault :
            \/ storage_uio_read(h, n, fault)
            \/ \E s \in [1 .. n -> Byte] : storage_uio_write(h, s, fault)

DevSpec == DevInit /\ [][DevNext]_devVars
----------------------------------------------------------------------------
(* Types, and the tables: a name and number mean one device, the devices of*)
(* a name are numbered from 0 without gaps, a mount point means one file   *)
(* system, and a device is open if and only if exactly one handle leads to *)
(* it, whichever was opened or closed before. While calls end within the   *)
(* device, so does every position.                                         *)
DevTypeOK ==
  /\ \A i, j \in DOMAIN devlist :
       devlist[i].name = devlist[j].name /\ devlist[i].instno = devlist[j].instno => i = j
  /\ \A i \in DOMAIN devlist : \A k \in 0 .. devlist[i].instno - 1 :
       \E j \in DOMAIN devlist : devlist[j].name = devlist[i].name /\ devlist[j].instno = k
  /\ \A i, j \in DOMAIN mplist : mplist[i][1] = mplist[j][1] => i = j
  /\ opened \subseteq DOMAIN devlist /\ disk \in [0 .. capacity - 1 -> Byte]
  /\ \A d \in DOMAIN devlist :
       LET on == {h \in Handle : uio[h].kind \in {"serial", "storage"} /\ uio[h].at = d}
       IN IF d \in opened THEN \E h \in Handle : on = {h} ELSE on = {}
  /\ PastEnd \/ \A h \in Handle : uio[h].pos \in 0 .. capacity

(* The storage device is a file of bytes.                                  *)
B == INSTANCE ByteFile WITH content <- disk, pos <- [h \in Handle |-> uio[h].pos],
                        MaxReq <- MaxBytes
ByteFileSpec == B!Spec
=============================================================================
