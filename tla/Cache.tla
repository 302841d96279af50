------------------------------- MODULE Cache --------------------------------
(***************************************************************************)
(* The write-back block cache of src/src/modified/sys/cache.c: an LRU list *)
(* of pinned and unpinned blocks, filled from and written back to a        *)
(* storage device, under a lock that is held while the device works.       *)
(*                                                                         *)
(* A thread suspends only while it waits for the lock or for the device;   *)
(* the code between two suspensions is one action.  Before it gets the lock*)
(* a call has touched nothing, so a thread that waits for the lock is one  *)
(* that has not called yet.  While a thread waits for the device, threads  *)
(* that have pinned blocks go on changing them in place, without the lock. *)
(***************************************************************************)
EXTENDS Naturals, Sequences, SequencesExt, FiniteSets

CONSTANTS
  Clients,     \* the threads that use the cache
  Pos,         \* the positions of the blocks on the device
  Vals,        \* what a block may contain
  CACHE_BLKS,  \* blocks the cache holds
  MaxPins,     \* pins a client holds at a time (bound)
  Faults       \* the requests the device may fail: "fill", "fetch", "store"

ASSUME CacheAssumption ==
  /\ CACHE_BLKS \in Nat \ {0} /\ MaxPins \in Nat \ {0}
  /\ Faults \subseteq {"fill", "fetch", "store"}
  /\ IsFiniteSet(Clients) /\ Pos # {} /\ Vals # {}

Slot == 1 .. CACHE_BLKS
None == "none"
NoSlot == 0
ASSUME NoneAssumption == None \notin Clients \cup Pos

VARIABLES
  lru,    \* the list from cache->head (least recently used) to cache->tail
  pos,    \* blk->pos
  buf,    \* blk->buf
  dirty,  \* blk->dirty
  pin,    \* blk->pin_count
  owner,  \* cache_lock->owner
  disk,   \* the contents of the device
  pc,     \* where each client is
  want,   \* the position asked for, while the victim is written back
  slot,   \* the block the call works on: victim or currBlock
  hold,   \* hold[c][s]: pins of block s that client c has and not released
  wrote   \* wrote[c][s]: has c changed s since it last released it dirty?

blkVars == <<lru, pos, buf, dirty, pin>>
cliVars == <<hold, wrote>>
argVars == <<want, slot>>
vars    == <<blkVars, owner, disk, pc, argVars, cliVars>>

Labels == {"idle", "fill", "store", "stored", "fetch", "flush", "fstore", "fstored"}

Hits(p)   == {s \in Range(lru) : pos[s] = p}
At(s)     == CHOOSE i \in DOMAIN lru : lru[i] = s
ToTail(s) == Append(RemoveAt(lru, At(s)), s)
Pinned(c) == {s \in Slot : hold[c][s] > 0}
Pins(c)   == {x \in Slot \X (1 .. MaxPins) : x[2] <= hold[c][x[1]]}
Goto(c, l) == pc' = [pc EXCEPT ![c] = l]

(* lock_acquire by the running client; lock_release.                       *)
Free    == owner = None
Lock(c) == Free /\ owner' = c
Unlock  == owner' = None
----------------------------------------------------------------------------
Init ==
  /\ lru = <<>>
  /\ pos \in [Slot -> {CHOOSE p \in Pos : TRUE}]
  /\ buf \in [Slot -> {CHOOSE v \in Vals : TRUE}]
  /\ dirty = [s \in Slot |-> FALSE]
  /\ pin = [s \in Slot |-> 0]
  /\ owner = None
  /\ disk \in [Pos -> Vals]
  /\ pc = [c \in Clients |-> "idle"]
  /\ want = [c \in Clients |-> None]
  /\ slot = [c \in Clients |-> NoSlot]
  /\ hold = [c \in Clients |-> [s \in Slot |-> 0]]
  /\ wrote = [c \in Clients |-> [s \in Slot |-> FALSE]]

----------------------------------------------------------------------------
(* The file system changes a block while it has it pinned, and may pin a   *)
(* block twice (ktfs_delete and delete_dentry).  It holds fewer than       *)
(* MaxPins pins when it asks for another.                                  *)
MayGet(c) == pc[c] = "idle" /\ Free /\ Cardinality(Pins(c)) < MaxPins

Write(c, s, v) ==
  /\ pc[c] = "idle" /\ s \in Pinned(c)
  /\ buf' = [buf EXCEPT ![s] = v]
  /\ wrote' = [wrote EXCEPT ![c][s] = TRUE]
  /\ UNCHANGED <<lru, pos, dirty, pin, owner, disk, pc, argVars, hold>>

----------------------------------------------------------------------------
(* cache_get_block.                                                        *)

(* The call's arguments end with it.                                       *)
Return(c) ==
  /\ Goto(c, "idle")
  /\ want' = [want EXCEPT ![c] = None]
  /\ slot' = [slot EXCEPT ![c] = NoSlot]

(* *pptr = blk->buf: the call succeeds and c holds block s.                *)
Obtain(c, s) ==
  /\ hold' = [hold EXCEPT ![c][s] = @ + 1]
  /\ Return(c)
  /\ UNCHANGED wrote

Fail(c) == Unlock /\ Return(c) /\ UNCHANGED cliVars

(* A hit pins the block and makes it the most recently used.               *)
GetHit(c, p) ==
  /\ MayGet(c)
  /\ \E s \in Hits(p) :
       /\ pin' = [pin EXCEPT ![s] = @ + 1]
       /\ lru' = ToTail(s)
       /\ Obtain(c, s)
  /\ UNCHANGED <<pos, buf, dirty, owner, disk>>

(* cache_fetch_into(blk, pos), up to the wait for the device.              *)
Fetch(c, s, p, l) ==
  /\ pos' = [pos EXCEPT ![s] = p]
  /\ dirty' = [dirty EXCEPT ![s] = FALSE]
  /\ pin' = [pin EXCEPT ![s] = 0]
  /\ slot' = [slot EXCEPT ![c] = s]
  /\ Goto(c, l)

(* A new block is linked only once it is filled.                           *)
NewBlock(c, p) ==
  /\ MayGet(c) /\ Lock(c)
  /\ \E s \in Slot \ Range(lru) :
       /\ \A r \in Slot \ Range(lru) : s <= r
       /\ Fetch(c, s, p, "fill")
  /\ UNCHANGED <<lru, buf, disk, want, cliVars>>

(* The first block becomes head and tail at once, but is unlinked again    *)
(* when the fill fails, all under the lock.                                *)
GetFirst(c, p) == lru = <<>> /\ NewBlock(c, p)

(* A miss while there is room.                                             *)
GetGrow(c, p) ==
  lru # <<>> /\ Hits(p) = {} /\ Len(lru) < CACHE_BLKS /\ NewBlock(c, p)

Filled(c) ==
  /\ pc[c] = "fill"
  /\ buf' = [buf EXCEPT ![slot[c]] = disk[pos[slot[c]]]]
  /\ lru' = Append(lru, slot[c])
  /\ pin' = [pin EXCEPT ![slot[c]] = 1]
  /\ Obtain(c, slot[c]) /\ Unlock
  /\ UNCHANGED <<pos, dirty, disk>>

(* Fault: a pinned block may be evicted.                                   *)
VictimAnyBlock(s) == s = Head(lru)

(* The victim of a miss in a full cache: the least recently used block     *)
(* that nobody has pinned.                                                 *)
Victim(s) ==
  \E i \in DOMAIN lru : /\ s = lru[i] /\ pin[s] = 0
                        /\ \A j \in 1 .. i - 1 : pin[lru[j]] > 0

Full(c, p) == MayGet(c) /\ Hits(p) = {} /\ Len(lru) = CACHE_BLKS

GetAllPinned(c, p) ==
  /\ Full(c, p) /\ ~ \E s \in Slot : Victim(s)
  /\ Fail(c)
  /\ UNCHANGED <<blkVars, disk>>

(* Fault: the victim's dirty flag is not looked at.                        *)
NeedsStoreNever(s) == FALSE

NeedsStore(s) == dirty[s]

(* A dirty victim is written back first, ...                               *)
GetEvictDirty(c, p) ==
  /\ Full(c, p) /\ Lock(c)
  /\ want' = [want EXCEPT ![c] = p]
  /\ \E s \in Slot : Victim(s) /\ NeedsStore(s) /\ slot' = [slot EXCEPT ![c] = s]
  /\ Goto(c, "store")
  /\ UNCHANGED <<blkVars, disk, cliVars>>

GetEvictClean(c, p) ==
  /\ Full(c, p) /\ Lock(c)
  /\ \E s \in Slot : Victim(s) /\ ~NeedsStore(s) /\ Fetch(c, s, p, "fetch")
  /\ UNCHANGED <<lru, buf, disk, want, cliVars>>

(* ... and then its buffer is filled with the block asked for.             *)
GetEvictStored(c) ==
  /\ pc[c] = "stored"
  /\ Fetch(c, slot[c], want[c], "fetch")
  /\ want' = [want EXCEPT ![c] = None]
  /\ UNCHANGED <<lru, buf, owner, disk, cliVars>>

Fetched(c) ==
  /\ pc[c] = "fetch"
  /\ buf' = [buf EXCEPT ![slot[c]] = disk[pos[slot[c]]]]
  /\ lru' = ToTail(slot[c])
  /\ pin' = [pin EXCEPT ![slot[c]] = 1]
  /\ Obtain(c, slot[c]) /\ Unlock
  /\ UNCHANGED <<pos, dirty, disk>>

(* The device fails a fetch.  A new block is freed; a reused one stays on  *)
(* the list, with the position it was to be filled from and the contents   *)
(* it had.                                                                 *)
FetchFailed(c) ==
  /\ pc[c] \in {"fill", "fetch"} \cap Faults
  /\ Fail(c)
  /\ UNCHANGED <<blkVars, disk>>

----------------------------------------------------------------------------
(* storage_store of the block in slot[c], by an eviction or by a flush.    *)
(* The device has taken the data before it completes the request.          *)
Store(c) ==
  /\ pc[c] \in {"store", "fstore"}
  /\ disk' = [disk EXCEPT ![pos[slot[c]]] = buf[slot[c]]]
  /\ Goto(c, IF pc[c] = "store" THEN "stored" ELSE "fstored")
  /\ UNCHANGED <<blkVars, owner, argVars, cliVars>>

StoreFailed(c) ==
  /\ pc[c] \in {"store", "stored", "fstore", "fstored"} /\ "store" \in Faults
  /\ Fail(c)
  /\ UNCHANGED <<blkVars, disk>>

----------------------------------------------------------------------------
(* A release adds to the block's dirtiness, it never clears it.            *)
Dirtied(s, d) == dirty[s] \/ d

Unpinned(s) == IF pin[s] > 0 THEN pin[s] - 1 ELSE pin[s]

(* cache_release_block(s, d); a client releases as dirty what it changed.  *)
Release(c, s, d) ==
  /\ pc[c] = "idle" /\ Free /\ s \in Pinned(c) /\ (wrote[c][s] => d)
  /\ pin' = [pin EXCEPT ![s] = Unpinned(s)]
  /\ dirty' = [dirty EXCEPT ![s] = Dirtied(s, d)]
  /\ hold' = [hold EXCEPT ![c][s] = @ - 1]
  /\ wrote' = [wrote EXCEPT ![c][s] = FALSE]
  /\ UNCHANGED <<lru, pos, buf, owner, disk, pc, argVars>>

----------------------------------------------------------------------------
(* cache_flush: the dirty blocks are stored one after the other, in list   *)
(* order.  FirstDirty is where the loop stops next; slot[c] is where it is.*)
After(c) == IF slot[c] = NoSlot THEN 1 ELSE 1 + At(slot[c])

(* Fault: the loop looks at every block but the last.                      *)
AheadButTail(c) == {i \in DOMAIN lru : i >= After(c) /\ i # Len(lru)}

Ahead(c) == {i \in DOMAIN lru : i >= After(c)}

DirtyAhead(c) == {i \in Ahead(c) : dirty[lru[i]]}

FlushStart(c) ==
  /\ pc[c] = "idle" /\ Lock(c)
  /\ Goto(c, "flush")
  /\ UNCHANGED <<blkVars, disk, argVars, cliVars>>

FlushStore(c) ==
  /\ pc[c] = "flush"
  /\ \E i \in DirtyAhead(c) :
       /\ \A j \in DirtyAhead(c) : i <= j
       /\ slot' = [slot EXCEPT ![c] = lru[i]]
  /\ Goto(c, "fstore")
  /\ UNCHANGED <<blkVars, owner, disk, want, cliVars>>

FlushStored(c) ==
  /\ pc[c] = "fstored"
  /\ dirty' = [dirty EXCEPT ![slot[c]] = FALSE]
  /\ Goto(c, "flush")
  /\ UNCHANGED <<lru, pos, buf, pin, owner, disk, argVars, cliVars>>

FlushReturn(c) ==
  /\ pc[c] = "flush" /\ DirtyAhead(c) = {}
  /\ Fail(c)
  /\ UNCHANGED <<blkVars, disk>>

----------------------------------------------------------------------------
(* What a thread with no call in progress may do.                          *)
Calls(c) ==
  \/ \E p \in Pos : \/ GetHit(c, p) \/ GetFirst(c, p) \/ GetGrow(c, p)
                   \/ GetAllPinned(c, p) \/ GetEvictDirty(c, p) \/ GetEvictClean(c, p)
  \/ \E s \in Slot : \/ \E d \in BOOLEAN : Release(c, s, d)
                     \/ \E v \in Vals : Write(c, s, v)
  \/ FlushStart(c)

(* Steps of a call in progress.                                            *)
Progress(c) ==
  \/ GetEvictStored(c) \/ Filled(c) \/ Fetched(c) \/ FetchFailed(c)
  \/ Store(c) \/ StoreFailed(c)
  \/ FlushStore(c) \/ FlushStored(c) \/ FlushReturn(c)

Next == \E c \in Clients : Calls(c) \/ Progress(c)

Spec == Init /\ [][Next]_vars
----------------------------------------------------------------------------
(* Properties.                                                             *)

(* Blocks whose buffer holds the block at their position.                  *)
Valid == {s \in Range(lru) : \A c \in Clients : pc[c] = "fetch" => slot[c] # s}

PinSum(s) == Cardinality({x \in Clients \X (1 .. MaxPins) : x[2] <= hold[x[1]][s]})

(* The types, and the consistency of the list: a position is cached once,  *)
(* a linked block is counted pinned as often as clients hold it, nothing   *)
(* else is pinned, and the lock is held exactly by the call in progress.   *)
TypeOK ==
  /\ lru \in Seq(Slot)
  /\ pos \in [Slot -> Pos] /\ buf \in [Slot -> Vals]
  /\ dirty \in [Slot -> BOOLEAN] /\ pin \in [Slot -> 0 .. MaxPins * Cardinality(Clients)]
  /\ owner \in Clients \cup {None}
  /\ disk \in [Pos -> Vals]
  /\ pc \in [Clients -> Labels]
  /\ want \in [Clients -> Pos \cup {None}] /\ slot \in [Clients -> Slot \cup {NoSlot}]
  /\ hold \in [Clients -> [Slot -> 0 .. MaxPins]]
  /\ wrote \in [Clients -> [Slot -> BOOLEAN]]
  /\ IsInjective(lru)
  /\ \A r, s \in Valid : pos[r] = pos[s] => r = s
  /\ \A s \in Slot : pin[s] = PinSum(s)
  /\ \A c \in Clients : Pinned(c) \subseteq Valid
  /\ \A c \in Clients : owner = c <=> pc[c] # "idle"

(* The contents of the block at p: cached, or else on the device.          *)
Logical(p) == IF \E s \in Valid : pos[s] = p
              THEN buf[CHOOSE s \in Valid : pos[s] = p] ELSE disk[p]

(* The cache behaves as a memory of blocks: no update is lost by eviction, *)
(* write-back or a failed store, no client sees another block's contents,  *)
(* and a pinned block stays where it is.                                   *)
PinsOf(c, p) == IF \E s \in Pinned(c) : pos[s] = p
                THEN hold[c][CHOOSE s \in Pinned(c) : pos[s] = p] ELSE 0
Mem == INSTANCE Blocks WITH
  mem  <- [p \in Pos |-> Logical(p)],
  pins <- [c \in Clients |-> [p \in Pos |-> PinsOf(c, p)]]
BlocksSpec == Mem!Spec

(* A flush that succeeds leaves no dirty block, and every cached block that*)
(* no client is changing equals the block on the device ("Reads a          *)
(* CACHE_BLKSZ sized block from the backing interface into the cache",     *)
(* cache.c:89), whatever was changed or released while it ran.             *)
FlushStores ==
  [][\A c \in Clients : pc[c] = "flush" /\ pc'[c] = "idle"
       => \A s \in Range(lru) :
            /\ ~dirty[s]
            /\ (\A d \in Clients : ~wrote[d][s]) => buf[s] = disk[pos[s]]]_vars
=============================================================================
