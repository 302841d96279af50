----------------------------- MODULE CacheProofs ----------------------------
(***************************************************************************)
(* Proofs about Cache: for any number of clients, blocks and positions the *)
(* list, the pins and the lock are consistent, a flush that succeeds has   *)
(* stored every block, and the cache implements the memory of Blocks.      *)
(***************************************************************************)
EXTENDS Cache, ListLemmas, FiniteSetTheorems

Typing ==
  /\ lru \in Seq(Slot)
  /\ pos \in [Slot -> Pos] /\ buf \in [Slot -> Vals]
  /\ dirty \in [Slot -> BOOLEAN] /\ pin \in [Slot -> Nat]
  /\ owner \in Clients \cup {None}
  /\ disk \in [Pos -> Vals]
  /\ pc \in [Clients -> Labels]
  /\ want \in [Clients -> Pos \cup {None}] /\ slot \in [Clients -> Slot \cup {NoSlot}]
  /\ hold \in [Clients -> [Slot -> 0 .. MaxPins]]
  /\ wrote \in [Clients -> [Slot -> BOOLEAN]]

(* A block is linked once, and no position is cached twice.                *)
ListInv ==
  /\ IsInjective(lru)
  /\ \A r, s \in Range(lru) : pos[r] = pos[s] => r = s

(* Pins are counted; only linked blocks are pinned, only pinned blocks are *)
(* changed.                                                                *)
PinInv ==
  /\ \A s \in Slot : pin[s] = PinSum(s)
  /\ \A c \in Clients : Pinned(c) \subseteq Range(lru)
  /\ \A c \in Clients : \A s \in Slot : wrote[c][s] => s \in Pinned(c)

(* What a call knows of the block it works on while it waits.              *)
CallOK(c) ==
  /\ owner = c <=> pc[c] # "idle"
  /\ pc[c] = "idle" => slot[c] = NoSlot /\ want[c] = None
  /\ pc[c] = "flush" => slot[c] \in Range(lru) \cup {NoSlot}
  /\ pc[c] \in {"store", "stored", "fetch", "fstore", "fstored"} => slot[c] \in Range(lru)
  /\ pc[c] \in {"store", "stored"} =>
       pin[slot[c]] = 0 /\ want[c] \in Pos /\ Hits(want[c]) = {}
  /\ pc[c] = "fill" => slot[c] \in Slot \ Range(lru) /\ Hits(pos[slot[c]]) = {}
  /\ pc[c] = "fetch" => pin[slot[c]] = 0 /\ ~dirty[slot[c]]
  /\ pc[c] \in {"fill", "fetch", "flush", "fstore", "fstored"} => want[c] = None
CallInv == \A c \in Clients : CallOK(c)

CacheInv == Typing /\ ListInv /\ PinInv /\ CallInv

----------------------------------------------------------------------------
(* Counting pins.                                                          *)

LEMMA PinsFinite ==
  ASSUME Typing
  PROVE  /\ \A s \in Slot :
              /\ IsFiniteSet({x \in Clients \X (1 .. MaxPins) : x[2] <= hold[x[1]][s]})
              /\ PinSum(s) \in 0 .. MaxPins * Cardinality(Clients)
         /\ \A c \in Clients : IsFiniteSet(Pins(c))
<1>1. IsFiniteSet(Clients) /\ Cardinality(Clients) \in Nat /\ MaxPins \in Nat
  BY CacheAssumption, FS_CardinalityType
<1>2. IsFiniteSet(1 .. MaxPins) /\ Cardinality(1 .. MaxPins) = MaxPins
  BY <1>1, FS_Interval
<1>3. /\ IsFiniteSet(Clients \X (1 .. MaxPins))
      /\ Cardinality(Clients \X (1 .. MaxPins)) = Cardinality(Clients) * MaxPins
  BY <1>1, <1>2, FS_Product
<1>4. ASSUME NEW s \in Slot
      PROVE  /\ IsFiniteSet({x \in Clients \X (1 .. MaxPins) : x[2] <= hold[x[1]][s]})
             /\ PinSum(s) \in 0 .. MaxPins * Cardinality(Clients)
  <2> DEFINE S == {x \in Clients \X (1 .. MaxPins) : x[2] <= hold[x[1]][s]}
  <2>1. S \in SUBSET (Clients \X (1 .. MaxPins))
    OBVIOUS
  <2>2. IsFiniteSet(S) /\ Cardinality(S) <= Cardinality(Clients) * MaxPins
    BY <1>3, <2>1, FS_Subset
  <2>3. Cardinality(S) \in Nat
    BY <2>2, FS_CardinalityType
  <2>4. Cardinality(Clients) * MaxPins = MaxPins * Cardinality(Clients)
    BY <1>1
  <2>5. PinSum(s) = Cardinality(S)
    BY DEF PinSum
  <2> HIDE DEF S
  <2>6. Cardinality(S) \in 0 .. MaxPins * Cardinality(Clients)
    BY <1>1, <2>2, <2>3, <2>4
  <2> QED BY <2>2, <2>5, <2>6 DEF S
<1>5. ASSUME NEW c \in Clients PROVE IsFiniteSet(Pins(c))
  <2>1. IsFiniteSet(Slot)
    BY CacheAssumption, FS_Interval DEF Slot
  <2>2. IsFiniteSet(Slot \X (1 .. MaxPins))
    BY <1>2, <2>1, FS_Product
  <2>3. Pins(c) \in SUBSET (Slot \X (1 .. MaxPins))
    BY DEF Pins
  <2> QED BY <2>2, <2>3, FS_Subset
<1> QED BY <1>4, <1>5

(* A block is pinned by somebody iff its count is positive.                *)
LEMMA PinZero ==
  ASSUME Typing, NEW s \in Slot
  PROVE  PinSum(s) = 0 <=> \A c \in Clients : hold[c][s] = 0
<1> DEFINE S == {x \in Clients \X (1 .. MaxPins) : x[2] <= hold[x[1]][s]}
<1>1. IsFiniteSet(S)
  BY PinsFinite
<1>2. PinSum(s) = 0 <=> S = {}
  BY <1>1, FS_EmptySet DEF PinSum
<1>3. \A c \in Clients : hold[c][s] # 0 => <<c, 1>> \in S
  BY CacheAssumption DEF Typing
<1>4. (\A c \in Clients : hold[c][s] = 0) => S = {}
  BY CacheAssumption DEF Typing
<1> QED BY <1>2, <1>3, <1>4

(* One more pin.                                                           *)
LEMMA HoldUp ==
  ASSUME Typing, NEW c \in Clients, NEW s \in Slot, hold[c][s] < MaxPins,
         hold' = [hold EXCEPT ![c][s] = @ + 1]
  PROVE  /\ hold' \in [Clients -> [Slot -> 0 .. MaxPins]]
         /\ \A d \in Clients, r \in Slot :
              hold'[d][r] = IF d = c /\ r = s THEN hold[c][s] + 1 ELSE hold[d][r]
         /\ PinSum(s)' = PinSum(s) + 1
         /\ \A r \in Slot \ {s} : PinSum(r)' = PinSum(r)
<1> DEFINE S(r) == {x \in Clients \X (1 .. MaxPins) : x[2] <= hold[x[1]][r]}
<1>0. MaxPins \in Nat /\ hold[c][s] \in 0 .. MaxPins
  BY CacheAssumption DEF Typing
<1>1. hold[c][s] + 1 \in 1 .. MaxPins
  BY <1>0
<1>2. /\ hold' \in [Clients -> [Slot -> 0 .. MaxPins]]
      /\ \A d \in Clients, r \in Slot :
           hold'[d][r] = IF d = c /\ r = s THEN hold[c][s] + 1 ELSE hold[d][r]
  BY <1>0, <1>1 DEF Typing
<1>3. S(s)' = S(s) \cup {<<c, hold[c][s] + 1>>} /\ <<c, hold[c][s] + 1>> \notin S(s)
  BY <1>0, <1>1, <1>2 DEF Typing
<1>4. \A r \in Slot \ {s} : S(r)' = S(r)
  BY <1>2
<1>5. Cardinality(S(s)') = Cardinality(S(s)) + 1
  BY <1>3, PinsFinite, FS_AddElement, ZenonT(40)
<1> QED BY <1>2, <1>4, <1>5 DEF PinSum

(* One pin less.                                                           *)
LEMMA HoldDown ==
  ASSUME Typing, NEW c \in Clients, NEW s \in Slot, hold[c][s] > 0,
         hold' = [hold EXCEPT ![c][s] = @ - 1]
  PROVE  /\ hold' \in [Clients -> [Slot -> 0 .. MaxPins]]
         /\ \A d \in Clients, r \in Slot :
              hold'[d][r] = IF d = c /\ r = s THEN hold[c][s] - 1 ELSE hold[d][r]
         /\ PinSum(s)' = PinSum(s) - 1
         /\ \A r \in Slot \ {s} : PinSum(r)' = PinSum(r)
<1> DEFINE S(r) == {x \in Clients \X (1 .. MaxPins) : x[2] <= hold[x[1]][r]}
<1>0. MaxPins \in Nat /\ hold[c][s] \in 1 .. MaxPins
  BY CacheAssumption DEF Typing
<1>1. hold[c][s] - 1 \in 0 .. MaxPins
  BY <1>0
<1>2. /\ hold' \in [Clients -> [Slot -> 0 .. MaxPins]]
      /\ \A d \in Clients, r \in Slot :
           hold'[d][r] = IF d = c /\ r = s THEN hold[c][s] - 1 ELSE hold[d][r]
  BY <1>0, <1>1 DEF Typing
<1>3. S(s)' = S(s) \ {<<c, hold[c][s]>>} /\ <<c, hold[c][s]>> \in S(s)
  BY <1>0, <1>1, <1>2 DEF Typing
<1>4. \A r \in Slot \ {s} : S(r)' = S(r)
  BY <1>2
<1>5. Cardinality(S(s)') = Cardinality(S(s)) - 1
  <2>1. IsFiniteSet(S(s))
    BY PinsFinite
  <2> HIDE DEF S
  <2>2. Cardinality(S(s) \ {<<c, hold[c][s]>>}) = Cardinality(S(s)) - 1
    BY <1>3, <2>1, FS_RemoveElement
  <2> QED BY <1>3, <2>2
<1> QED BY <1>2, <1>4, <1>5 DEF PinSum

(* A client that may ask for a block can pin any block once more.          *)
LEMMA MayPin ==
  ASSUME Typing, NEW c \in Clients, NEW s \in Slot, MayGet(c)
  PROVE  hold[c][s] < MaxPins
<1>0. MaxPins \in Nat /\ hold[c][s] \in 0 .. MaxPins
  BY CacheAssumption DEF Typing
<1>1. PICK h \in 0 .. MaxPins : h = hold[c][s]
  BY <1>0
<1>2. IsFiniteSet({s}) /\ Cardinality({s}) = 1
  BY FS_Singleton
<1>3. IsFiniteSet(1 .. h) /\ Cardinality(1 .. h) = h
  <2>1. h \in Int /\ h >= 0
    BY <1>0
  <2>2. /\ IsFiniteSet(1 .. h)
        /\ Cardinality(1 .. h) = IF 1 > h THEN 0 ELSE h - 1 + 1
    BY <2>1, FS_Interval
  <2> QED BY <2>1, <2>2
<1>4. Cardinality({s} \X (1 .. h)) = 1 * h
  BY <1>2, <1>3, FS_Product
<1>5. {s} \X (1 .. h) \in SUBSET Pins(c)
  BY <1>0, <1>1 DEF Pins
<1>6. Cardinality({s} \X (1 .. h)) <= Cardinality(Pins(c)) /\ Cardinality(Pins(c)) \in Nat
  BY <1>5, PinsFinite, FS_Subset, FS_CardinalityType
<1> QED BY <1>0, <1>1, <1>4, <1>6 DEF MayGet

----------------------------------------------------------------------------
(* The list and the lock.                                                  *)

LEMMA AtFacts ==
  ASSUME NEW s \in Range(lru)
  PROVE  At(s) \in DOMAIN lru /\ lru[At(s)] = s
<1>1. \E i \in DOMAIN lru : lru[i] = s
  BY DEF Range
<1> QED BY <1>1 DEF At

LEMMA ToTailFacts ==
  ASSUME Typing, IsInjective(lru), NEW s \in Range(lru)
  PROVE  /\ ToTail(s) \in Seq(Slot) /\ IsInjective(ToTail(s))
         /\ Range(ToTail(s)) = Range(lru)
<1>1. At(s) \in DOMAIN lru /\ lru[At(s)] = s /\ lru \in Seq(Slot)
  BY AtFacts DEF Typing
<1>2. /\ RemoveAt(lru, At(s)) \in Seq(Slot)
      /\ Range(RemoveAt(lru, At(s))) = Range(lru) \ {s}
      /\ IsInjective(RemoveAt(lru, At(s)))
  BY <1>1, UnlinkProperties
<1>3. s \in Slot
  BY <1>1
<1>4. /\ Range(Append(RemoveAt(lru, At(s)), s)) = (Range(lru) \ {s}) \cup {s}
      /\ IsInjective(Append(RemoveAt(lru, At(s)), s))
      /\ Append(RemoveAt(lru, At(s)), s) \in Seq(Slot)
  BY <1>2, <1>3, RangeAppend, InjectiveAppend
<1> QED BY <1>4 DEF ToTail

LEMMA RangeSlots ==
  ASSUME Typing
  PROVE  Range(lru) \subseteq Slot
  BY DEF Typing, Range

(* At most one call is in progress.                                        *)
LEMMA Alone ==
  ASSUME CallInv, NEW c \in Clients, owner = c \/ Free
  PROVE  /\ \A d \in Clients \ {c} :
              pc[d] = "idle" /\ slot[d] = NoSlot /\ want[d] = None /\ owner # d
         /\ pc[c] = "idle" <=> Free
  BY NoneAssumption DEF CallInv, CallOK, Free

(* While a fetch is in progress its block is not what its position says.   *)
ValidOK ==
  /\ Valid \subseteq Range(lru)
  /\ \A c \in Clients : Pinned(c) \subseteq Valid
  /\ Free => Valid = Range(lru)
  /\ \A c \in Clients : pc[c] \notin {"idle", "fetch"} => Valid = Range(lru)
  /\ \A c \in Clients : pc[c] = "fetch" => Valid = Range(lru) \ {slot[c]}

LEMMA ValidFacts == CacheInv => ValidOK
<1> SUFFICES ASSUME CacheInv PROVE ValidOK
  OBVIOUS
<1>1. Valid \subseteq Range(lru)
  BY DEF Valid
<1>2. ASSUME NEW c \in Clients PROVE Pinned(c) \subseteq Valid
  <2>1. ASSUME NEW s \in Pinned(c), NEW d \in Clients, pc[d] = "fetch", slot[d] = s
        PROVE  FALSE
    <3>1. pin[s] = 0 /\ s \in Slot /\ hold[c][s] # 0 /\ PinSum(s) = 0
      BY <2>1, CacheAssumption DEF CacheInv, CallInv, CallOK, Pinned, PinInv, Typing
    <3> QED BY <3>1, PinZero DEF CacheInv
  <2> QED BY <2>1 DEF Valid, CacheInv, PinInv
<1>3. ASSUME NEW c \in Clients, pc[c] # "idle"
      PROVE  \A d \in Clients \ {c} : pc[d] = "idle"
  BY <1>3, Alone DEF CacheInv, CallInv, CallOK
<1>4. Free => \A d \in Clients : pc[d] = "idle"
  BY NoneAssumption DEF Free, CacheInv, CallInv, CallOK
<1> QED BY <1>1, <1>2, <1>3, <1>4 DEF Valid, ValidOK

LEMMA InvTypeOK == CacheInv => TypeOK
<1> SUFFICES ASSUME CacheInv PROVE TypeOK
  OBVIOUS
<1>1. pin \in [Slot -> 0 .. MaxPins * Cardinality(Clients)] /\ \A s \in Slot : pin[s] = PinSum(s)
  <2>1. Typing /\ pin \in [Slot -> Nat] /\ \A s \in Slot : pin[s] = PinSum(s)
    BY DEF CacheInv, PinInv, Typing
  <2>2. \A s \in Slot : PinSum(s) \in 0 .. MaxPins * Cardinality(Clients)
    BY <2>1, PinsFinite
  <2> QED BY <2>1, <2>2
<1>2. \A r, s \in Valid : pos[r] = pos[s] => r = s
  BY ValidFacts DEF ValidOK, CacheInv, ListInv
<1>3. \A c \in Clients : owner = c <=> pc[c] # "idle"
  BY DEF CacheInv, CallInv, CallOK
<1> QED BY <1>1, <1>2, <1>3, ValidFacts DEF ValidOK, TypeOK, CacheInv, Typing, ListInv

----------------------------------------------------------------------------
(* The steps keep the invariant.                                           *)

LEMMA CallsKept ==
  ASSUME Typing, CallInv, NEW c \in Clients, owner = c \/ Free,
         NEW l \in Labels, pc' = [pc EXCEPT ![c] = l],
         \A d \in Clients \ {c} : want'[d] = want[d] /\ slot'[d] = slot[d],
         owner' = (IF l = "idle" THEN None ELSE c), CallOK(c)'
  PROVE  CallInv'
<1>1. ASSUME NEW d \in Clients, d # c PROVE CallOK(d)'
  <2>1. pc[d] = "idle" /\ slot[d] = NoSlot /\ want[d] = None
    BY <1>1, Alone
  <2>2. pc'[d] = "idle" /\ slot'[d] = NoSlot /\ want'[d] = None /\ owner' # d
    BY <1>1, <2>1, NoneAssumption DEF Typing
  <2> QED BY <2>2 DEF CallOK
<1> QED BY <1>1 DEF CallInv

LEMMA InvFrame ==
  ASSUME ListInv, PinInv, UNCHANGED <<lru, pos, pin, cliVars>>
  PROVE  ListInv' /\ PinInv'
<1>1. UNCHANGED <<lru, pos, pin, hold, wrote>>
  BY DEF cliVars
<1>2. \A s \in Slot : PinSum(s)' = PinSum(s)
  BY <1>1 DEF PinSum
<1>3. \A c \in Clients : Pinned(c)' = Pinned(c)
  BY <1>1 DEF Pinned
<1> QED BY <1>1, <1>2, <1>3 DEF ListInv, PinInv

(* A call that returns without a block.                                    *)
LEMMA EndStep ==
  ASSUME CacheInv, NEW c \in Clients, owner = c \/ Free, Fail(c), UNCHANGED <<blkVars, disk>>
  PROVE  CacheInv'
<1>1. /\ pc' = [pc EXCEPT ![c] = "idle"] /\ want' = [want EXCEPT ![c] = None]
      /\ slot' = [slot EXCEPT ![c] = NoSlot] /\ owner' = None
      /\ UNCHANGED <<lru, pos, buf, dirty, pin, disk, hold, wrote>>
  BY DEF Fail, Return, Unlock, Goto, blkVars, cliVars
<1>2. Typing'
  BY <1>1 DEF CacheInv, Typing, Labels
<1>3. CallOK(c)'
  <2>1. pc'[c] = "idle" /\ want'[c] = None /\ slot'[c] = NoSlot /\ owner' # c
    BY <1>1, NoneAssumption DEF CacheInv, Typing
  <2> QED BY <2>1 DEF CallOK
<1>4. CallInv'
  <2>1. "idle" \in Labels
    BY DEF Labels
  <2>2. \A d \in Clients \ {c} : want'[d] = want[d] /\ slot'[d] = slot[d]
    BY <1>1 DEF CacheInv, Typing
  <2> QED BY <1>1, <1>3, <2>1, <2>2, CallsKept DEF CacheInv
<1>5. ListInv' /\ PinInv'
  BY <1>1, InvFrame DEF CacheInv, cliVars
<1> QED BY <1>2, <1>4, <1>5 DEF CacheInv

(* A step of a call that changes neither list nor pins.                    *)
LEMMA WaitStep ==
  ASSUME CacheInv, NEW c \in Clients, NEW l \in Labels \ {"idle"}, owner = c \/ Free,
         pc' = [pc EXCEPT ![c] = l], owner' = c,
         want' \in [Clients -> Pos \cup {None}], slot' \in [Clients -> Slot \cup {NoSlot}],
         \A d \in Clients \ {c} : want'[d] = want[d] /\ slot'[d] = slot[d],
         disk' \in [Pos -> Vals], dirty' \in [Slot -> BOOLEAN],
         UNCHANGED <<lru, pos, buf, pin, cliVars>>, CallOK(c)'
  PROVE  CacheInv'
<1>1. Typing'
  BY DEF CacheInv, Typing, cliVars
<1>2. ListInv' /\ PinInv'
  BY InvFrame DEF CacheInv
<1>3. CallInv'
  BY CallsKept DEF CacheInv
<1> QED BY <1>1, <1>2, <1>3 DEF CacheInv

LEMMA FlushSteps ==
  ASSUME CacheInv, NEW c \in Clients,
         \/ FlushStart(c) \/ FlushStore(c) \/ FlushStored(c)
         \/ Store(c)
         \/ \E p \in Pos : GetEvictDirty(c, p)
  PROVE  CacheInv'
<1>1. CASE FlushStart(c)
  <2>1. /\ pc' = [pc EXCEPT ![c] = "flush"] /\ owner' = c /\ pc[c] = "idle" /\ Free
        /\ UNCHANGED <<lru, pos, buf, dirty, pin, disk, want, slot, cliVars>>
    BY <1>1 DEF FlushStart, Lock, Goto, blkVars, argVars
  <2>2. slot[c] = NoSlot /\ want[c] = None
    BY <2>1 DEF CacheInv, CallInv, CallOK
  <2>3. CallOK(c)'
    BY <2>1, <2>2 DEF CallOK, CacheInv, Typing
  <2> QED BY <2>1, <2>3, WaitStep DEF CacheInv, Typing, Labels
<1>2. CASE FlushStore(c)
  <2>1. PICK i \in DOMAIN lru :
          /\ pc[c] = "flush" /\ pc' = [pc EXCEPT ![c] = "fstore"]
          /\ slot' = [slot EXCEPT ![c] = lru[i]]
          /\ UNCHANGED <<lru, pos, buf, dirty, pin, owner, disk, want, cliVars>>
    BY <1>2 DEF FlushStore, DirtyAhead, Ahead, Goto, blkVars
  <2>2. owner = c /\ want[c] = None
    BY <2>1 DEF CacheInv, CallInv, CallOK
  <2>3. lru[i] \in Range(lru) /\ lru[i] \in Slot
    BY <2>1 DEF CacheInv, Typing, Range
  <2>4. CallOK(c)'
    <3>1. /\ pc'[c] = "fstore" /\ slot'[c] \in Range(lru)' /\ want'[c] = None /\ owner' = c
      BY <2>1, <2>2, <2>3 DEF CacheInv, Typing
    <3> QED BY <3>1 DEF CallOK
  <2> QED BY <2>1, <2>2, <2>3, <2>4, WaitStep DEF CacheInv, Typing, Labels
<1>3. CASE FlushStored(c)
  <2>1. /\ pc[c] = "fstored" /\ pc' = [pc EXCEPT ![c] = "flush"]
        /\ dirty' = [dirty EXCEPT ![slot[c]] = FALSE]
        /\ UNCHANGED <<lru, pos, buf, pin, owner, disk, want, slot, cliVars>>
    BY <1>3 DEF FlushStored, Goto, argVars
  <2>2. owner = c /\ slot[c] \in Range(lru) /\ want[c] = None
    BY <2>1 DEF CacheInv, CallInv, CallOK
  <2>3. CallOK(c)'
    <3>1. pc'[c] = "flush" /\ slot'[c] \in Range(lru)' /\ want'[c] = None /\ owner' = c
      BY <2>1, <2>2 DEF CacheInv, Typing
    <3> QED BY <3>1 DEF CallOK
  <2> QED BY <2>1, <2>2, <2>3, WaitStep DEF CacheInv, Typing, Labels
<1>4. CASE Store(c)
  <2>1. PICK l \in {"stored", "fstored"} :
          /\ pc[c] \in {"store", "fstore"} /\ l = (IF pc[c] = "store" THEN "stored" ELSE "fstored")
          /\ pc' = [pc EXCEPT ![c] = l]
          /\ disk' = [disk EXCEPT ![pos[slot[c]]] = buf[slot[c]]]
          /\ UNCHANGED <<lru, pos, buf, dirty, pin, owner, want, slot, cliVars>>
    BY <1>4 DEF Store, Goto, blkVars, argVars
  <2>2. owner = c /\ slot[c] \in Range(lru) /\ slot[c] \in Slot
    BY <2>1, RangeSlots DEF CacheInv, CallInv, CallOK
  <2>3. Hits(want[c])' = Hits(want[c])
    BY <2>1 DEF Hits
  <2>4. CallOK(c)'
    <3>1. pc'[c] = l /\ CallOK(c)
      BY <2>1 DEF CacheInv, Typing, CallInv
    <3> QED BY <2>1, <2>3, <3>1 DEF CallOK
  <2> QED BY <2>1, <2>2, <2>4, WaitStep DEF CacheInv, Typing, Labels
<1>5. ASSUME NEW p \in Pos, GetEvictDirty(c, p)
      PROVE  CacheInv'
  <2>1. PICK s \in Slot :
          /\ Victim(s) /\ pc[c] = "idle" /\ Free /\ owner' = c /\ Hits(p) = {}
          /\ pc' = [pc EXCEPT ![c] = "store"]
          /\ want' = [want EXCEPT ![c] = p] /\ slot' = [slot EXCEPT ![c] = s]
          /\ UNCHANGED <<lru, pos, buf, dirty, pin, disk, cliVars>>
    BY <1>5 DEF GetEvictDirty, Full, MayGet, Lock, Goto, blkVars
  <2>2. s \in Range(lru) /\ pin[s] = 0
    BY <2>1 DEF Victim, Range
  <2>3. Hits(p)' = Hits(p)
    BY <2>1 DEF Hits
  <2>4. CallOK(c)'
    <3>1. pc'[c] = "store" /\ slot'[c] = s /\ want'[c] = p
      BY <2>1 DEF CacheInv, Typing
    <3> QED BY <2>1, <2>2, <2>3, <3>1 DEF CallOK
  <2> QED BY <2>1, <2>2, <2>4, WaitStep DEF CacheInv, Typing, Labels
<1> QED BY <1>1, <1>2, <1>3, <1>4, <1>5

(* A change in place: only the buffer.                                     *)
LEMMA WriteStep ==
  ASSUME CacheInv, NEW c \in Clients, NEW s \in Slot, NEW v \in Vals, Write(c, s, v)
  PROVE  CacheInv'
<1>1. /\ s \in Pinned(c) /\ buf' = [buf EXCEPT ![s] = v]
      /\ wrote' = [wrote EXCEPT ![c][s] = TRUE]
      /\ UNCHANGED <<lru, pos, dirty, pin, owner, disk, pc, want, slot, hold>>
  BY DEF Write, argVars
<1>2. /\ wrote' \in [Clients -> [Slot -> BOOLEAN]]
      /\ \A d \in Clients, r \in Slot : wrote'[d][r] = IF d = c /\ r = s THEN TRUE ELSE wrote[d][r]
  BY <1>1 DEF CacheInv, Typing
<1>3. Typing'
  BY <1>1, <1>2 DEF CacheInv, Typing
<1>4. ListInv'
  BY <1>1 DEF CacheInv, ListInv
<1>5. PinInv'
  <2>1. \A r \in Slot : PinSum(r)' = PinSum(r)
    BY <1>1 DEF PinSum
  <2>2. \A d \in Clients : Pinned(d)' = Pinned(d)
    BY <1>1 DEF Pinned
  <2> QED BY <1>1, <1>2, <2>1, <2>2 DEF CacheInv, PinInv
<1>6. CallInv'
  <2>1. \A p : Hits(p)' = Hits(p)
    BY <1>1 DEF Hits
  <2> QED BY <1>1, <2>1 DEF CacheInv, CallInv, CallOK
<1> QED BY <1>3, <1>4, <1>5, <1>6 DEF CacheInv

(* cache_release_block: one pin less, and the block dirty if it was so or  *)
(* is released so.                                                         *)
LEMMA ReleaseFacts ==
  ASSUME CacheInv, NEW c \in Clients, NEW s \in Slot, NEW d \in BOOLEAN, Release(c, s, d)
  PROVE  /\ Free /\ pc[c] = "idle" /\ s \in Pinned(c) /\ s \in Range(lru)
         /\ hold[c][s] > 0 /\ (wrote[c][s] => d)
         /\ pin' = [pin EXCEPT ![s] = pin[s] - 1] /\ pin[s] > 0
         /\ dirty' = [dirty EXCEPT ![s] = dirty[s] \/ d]
         /\ hold' = [hold EXCEPT ![c][s] = @ - 1]
         /\ wrote' = [wrote EXCEPT ![c][s] = FALSE]
         /\ UNCHANGED <<lru, pos, buf, owner, disk, pc, want, slot>>
<1>1. /\ Free /\ pc[c] = "idle" /\ s \in Pinned(c) /\ (wrote[c][s] => d)
      /\ pin' = [pin EXCEPT ![s] = Unpinned(s)]
      /\ dirty' = [dirty EXCEPT ![s] = dirty[s] \/ d]
      /\ hold' = [hold EXCEPT ![c][s] = @ - 1]
      /\ wrote' = [wrote EXCEPT ![c][s] = FALSE]
      /\ UNCHANGED <<lru, pos, buf, owner, disk, pc, want, slot>>
  BY DEF Release, Dirtied, argVars
<1>2. s \in Range(lru) /\ hold[c][s] > 0
  BY <1>1 DEF CacheInv, PinInv, Pinned
<1>3. pin[s] > 0
  <2>1. PinSum(s) # 0
    BY <1>2, PinZero, CacheAssumption DEF CacheInv, Typing
  <2> QED BY <2>1 DEF CacheInv, PinInv, Typing
<1> QED BY <1>1, <1>2, <1>3 DEF Unpinned

LEMMA ReleaseStep ==
  ASSUME CacheInv, NEW c \in Clients, NEW s \in Slot, NEW d \in BOOLEAN, Release(c, s, d)
  PROVE  CacheInv'
<1>1. /\ hold[c][s] > 0 /\ pin[s] > 0
      /\ pin' = [pin EXCEPT ![s] = pin[s] - 1]
      /\ dirty' = [dirty EXCEPT ![s] = dirty[s] \/ d]
      /\ hold' = [hold EXCEPT ![c][s] = @ - 1]
      /\ wrote' = [wrote EXCEPT ![c][s] = FALSE]
      /\ UNCHANGED <<lru, pos, buf, owner, disk, pc, want, slot>>
      /\ Free
  BY ReleaseFacts
<1>2. /\ hold' \in [Clients -> [Slot -> 0 .. MaxPins]]
      /\ \A e \in Clients, r \in Slot :
           hold'[e][r] = IF e = c /\ r = s THEN hold[c][s] - 1 ELSE hold[e][r]
      /\ PinSum(s)' = PinSum(s) - 1
      /\ \A r \in Slot \ {s} : PinSum(r)' = PinSum(r)
  BY <1>1, HoldDown DEF CacheInv
<1>3. /\ wrote' \in [Clients -> [Slot -> BOOLEAN]]
      /\ \A e \in Clients, r \in Slot : wrote'[e][r] = IF e = c /\ r = s THEN FALSE ELSE wrote[e][r]
  BY <1>1 DEF CacheInv, Typing
<1>4. Typing'
  BY <1>1, <1>2, <1>3 DEF CacheInv, Typing
<1>5. ListInv'
  BY <1>1 DEF CacheInv, ListInv
<1>6. PinInv'
  <2>1. \A r \in Slot : pin'[r] = PinSum(r)'
    BY <1>1, <1>2 DEF CacheInv, PinInv, Typing
  <2>2. \A e \in Clients : Pinned(e)' \subseteq Pinned(e) /\ Pinned(e) \ {s} \subseteq Pinned(e)'
    <3>1. \A e \in Clients, r \in Slot : r # s => hold'[e][r] = hold[e][r]
      BY <1>2
    <3>2. \A e \in Clients : hold'[e][s] > 0 => hold[e][s] > 0
      BY <1>1, <1>2
    <3> QED BY <3>1, <3>2 DEF Pinned
  <2>3. \A e \in Clients \ {c} : Pinned(e)' = Pinned(e)
    BY <1>2 DEF Pinned
  <2> QED BY <1>1, <1>3, <2>1, <2>2, <2>3 DEF CacheInv, PinInv
<1>7. CallInv'
  <2>1. \A e \in Clients : pc[e] = "idle"
    BY <1>1, NoneAssumption DEF Free, CacheInv, CallInv, CallOK
  <2> QED BY <1>1, <2>1 DEF CacheInv, CallInv, CallOK
<1> QED BY <1>4, <1>5, <1>6, <1>7 DEF CacheInv

(* A client obtains block s: it was linked already, or is linked now.      *)
LEMMA ObtainStep ==
  ASSUME CacheInv, NEW c \in Clients, NEW s \in Slot, owner = c \/ Free,
         hold[c][s] < MaxPins,
         lru' \in Seq(Slot), IsInjective(lru'), Range(lru') = Range(lru) \cup {s},
         \A r \in Range(lru) : pos[r] = pos[s] => r = s,
         pin' = [pin EXCEPT ![s] = pin[s] + 1],
         buf' \in [Slot -> Vals], owner' = None, Obtain(c, s),
         UNCHANGED <<pos, dirty, disk>>
  PROVE  CacheInv'
<1>1. /\ hold' = [hold EXCEPT ![c][s] = @ + 1]
      /\ pc' = [pc EXCEPT ![c] = "idle"] /\ want' = [want EXCEPT ![c] = None]
      /\ slot' = [slot EXCEPT ![c] = NoSlot] /\ UNCHANGED wrote
  BY DEF Obtain, Return, Goto
<1>2. /\ hold' \in [Clients -> [Slot -> 0 .. MaxPins]]
      /\ \A e \in Clients, r \in Slot :
           hold'[e][r] = IF e = c /\ r = s THEN hold[c][s] + 1 ELSE hold[e][r]
      /\ PinSum(s)' = PinSum(s) + 1
      /\ \A r \in Slot \ {s} : PinSum(r)' = PinSum(r)
  BY <1>1, HoldUp DEF CacheInv
<1>3. Typing'
  <2>1. pin' \in [Slot -> Nat] /\ dirty' \in [Slot -> BOOLEAN]
    BY DEF CacheInv, Typing
  <2>2. /\ pc' \in [Clients -> Labels] /\ want' \in [Clients -> Pos \cup {None}]
        /\ slot' \in [Clients -> Slot \cup {NoSlot}]
    BY <1>1 DEF CacheInv, Typing, Labels
  <2> QED BY <1>1, <1>2, <2>1, <2>2 DEF CacheInv, Typing
<1>4. ListInv'
  BY DEF CacheInv, ListInv
<1>5. PinInv'
  <2>1. \A r \in Slot : pin'[r] = PinSum(r)'
    BY <1>2 DEF CacheInv, PinInv, Typing
  <2>2. /\ \A e \in Clients \ {c} : Pinned(e)' = Pinned(e)
        /\ Pinned(c)' = Pinned(c) \cup {s}
    BY <1>2, CacheAssumption DEF Pinned, CacheInv, Typing
  <2> QED BY <1>1, <2>1, <2>2 DEF CacheInv, PinInv
<1>6. CallInv'
  <2>1. CallOK(c)'
    <3>1. pc'[c] = "idle" /\ slot'[c] = NoSlot /\ want'[c] = None /\ owner' # c
      BY <1>1, NoneAssumption DEF CacheInv, Typing
    <3> QED BY <3>1 DEF CallOK
  <2>2. "idle" \in Labels /\ \A d \in Clients \ {c} : want'[d] = want[d] /\ slot'[d] = slot[d]
    BY <1>1 DEF Labels, CacheInv, Typing
  <2> QED BY <1>1, <2>1, <2>2, CallsKept DEF CacheInv
<1> QED BY <1>3, <1>4, <1>5, <1>6 DEF CacheInv

(* The block of a fill or a fetch that is answered is pinned by nobody.    *)
LEMMA FillFacts ==
  ASSUME CacheInv, NEW c \in Clients, pc[c] \in {"fill", "fetch"}
  PROVE  /\ slot[c] \in Slot /\ owner = c /\ pin[slot[c]] = 0
         /\ \A d \in Clients : hold[d][slot[c]] = 0
         /\ \A r \in Range(lru) : pos[r] = pos[slot[c]] => r = slot[c]
         /\ pc[c] = "fill" => slot[c] \notin Range(lru)
         /\ pc[c] = "fetch" => slot[c] \in Range(lru)
<1>1. /\ owner = c /\ slot[c] \in Slot
      /\ pc[c] = "fill" => slot[c] \notin Range(lru)
      /\ pc[c] = "fetch" => slot[c] \in Range(lru)
  BY RangeSlots DEF CacheInv, CallInv, CallOK
<1>2. pin[slot[c]] = 0 /\ \A d \in Clients : hold[d][slot[c]] = 0
  <2>1. pin[slot[c]] = PinSum(slot[c])
    BY <1>1 DEF CacheInv, PinInv
  <2>2. CASE pc[c] = "fetch"
    <3>1. pin[slot[c]] = 0
      BY <2>2 DEF CacheInv, CallInv, CallOK
    <3> QED BY <1>1, <2>1, <3>1, PinZero DEF CacheInv
  <2>3. CASE pc[c] = "fill"
    <3>1. ASSUME NEW d \in Clients PROVE hold[d][slot[c]] = 0
      BY <1>1, <2>3, CacheAssumption DEF CacheInv, PinInv, Pinned, Typing
    <3> QED BY <1>1, <2>1, <3>1, PinZero DEF CacheInv
  <2> QED BY <2>2, <2>3
<1>3. \A r \in Range(lru) : pos[r] = pos[slot[c]] => r = slot[c]
  BY <1>1 DEF CacheInv, CallInv, CallOK, ListInv, Hits
<1> QED BY <1>1, <1>2, <1>3

LEMMA FilledStep ==
  ASSUME CacheInv, NEW c \in Clients, Filled(c) \/ Fetched(c)
  PROVE  CacheInv'
<1>1. PICK s \in Slot :
        /\ s = slot[c] /\ owner = c /\ pin[s] = 0 /\ hold[c][s] = 0
        /\ \A r \in Range(lru) : pos[r] = pos[s] => r = s
        /\ pc[c] = "fill" => s \notin Range(lru)
        /\ pc[c] = "fetch" => s \in Range(lru)
  BY FillFacts DEF Filled, Fetched
<1>2. /\ buf' = [buf EXCEPT ![s] = disk[pos[s]]] /\ pin' = [pin EXCEPT ![s] = 1]
      /\ Obtain(c, s) /\ owner' = None /\ UNCHANGED <<pos, dirty, disk>>
  BY <1>1 DEF Filled, Fetched, Unlock
<1>3. lru' \in Seq(Slot) /\ IsInjective(lru') /\ Range(lru') = Range(lru) \cup {s}
  <2>1. CASE Filled(c)
    <3>1. lru' = Append(lru, s) /\ s \notin Range(lru) /\ lru \in Seq(Slot)
      BY <1>1, <2>1 DEF Filled, CacheInv, Typing
    <3> QED BY <3>1, RangeAppend, InjectiveAppend DEF CacheInv, ListInv
  <2>2. CASE Fetched(c)
    <3>1. lru' = ToTail(s) /\ s \in Range(lru)
      BY <1>1, <2>2 DEF Fetched
    <3> QED BY <3>1, ToTailFacts DEF CacheInv, ListInv
  <2> QED BY <2>1, <2>2
<1>4. buf' \in [Slot -> Vals] /\ pin' = [pin EXCEPT ![s] = pin[s] + 1] /\ hold[c][s] < MaxPins
  BY <1>1, <1>2, CacheAssumption DEF CacheInv, Typing
<1> QED BY <1>1, <1>2, <1>3, <1>4, ObtainStep

LEMMA HitStep ==
  ASSUME CacheInv, NEW c \in Clients, NEW p \in Pos, GetHit(c, p)
  PROVE  CacheInv'
<1>1. PICK s \in Range(lru) :
        /\ pos[s] = p /\ MayGet(c)
        /\ pin' = [pin EXCEPT ![s] = @ + 1] /\ lru' = ToTail(s) /\ Obtain(c, s)
        /\ UNCHANGED <<pos, buf, dirty, owner, disk>>
  BY DEF GetHit, Hits
<1>2. s \in Slot /\ Free /\ owner' = None
  BY <1>1, RangeSlots DEF CacheInv, MayGet, Free
<1>3. hold[c][s] < MaxPins
  BY <1>1, <1>2, MayPin DEF CacheInv
<1>4. lru' \in Seq(Slot) /\ IsInjective(lru') /\ Range(lru') = Range(lru) \cup {s}
  BY <1>1, ToTailFacts DEF CacheInv, ListInv
<1>5. \A r \in Range(lru) : pos[r] = pos[s] => r = s
  BY DEF CacheInv, ListInv
<1>6. buf' \in [Slot -> Vals]
  BY <1>1 DEF CacheInv, Typing
<1> QED BY <1>1, <1>2, <1>3, <1>4, <1>5, <1>6, ObtainStep

(* cache_fetch_into, for a new block or for a victim nobody has pinned.    *)
LEMMA FetchStep ==
  ASSUME CacheInv, NEW c \in Clients, NEW s \in Slot, NEW p \in Pos, NEW l \in {"fill",
       "fetch"},
         owner = c \/ Free, owner' = c, Fetch(c, s, p, l),
         Hits(p) = {}, pin[s] = 0, want' = [want EXCEPT ![c] = None],
         l = "fill" <=> s \notin Range(lru),
         UNCHANGED <<lru, buf, disk, cliVars>>
  PROVE  CacheInv'
<1>1. /\ pos' = [pos EXCEPT ![s] = p] /\ dirty' = [dirty EXCEPT ![s] = FALSE]
      /\ pin' = [pin EXCEPT ![s] = 0] /\ slot' = [slot EXCEPT ![c] = s]
      /\ pc' = [pc EXCEPT ![c] = l]
      /\ UNCHANGED <<hold, wrote>>
  BY DEF Fetch, Goto, cliVars
<1>2. pin' = pin
  BY <1>1 DEF CacheInv, Typing
<1>3. Typing'
  <2>1. pc' \in [Clients -> Labels] /\ owner' \in Clients \cup {None}
    BY <1>1 DEF CacheInv, Typing, Labels
  <2>2. pos' \in [Slot -> Pos] /\ dirty' \in [Slot -> BOOLEAN]
    BY <1>1 DEF CacheInv, Typing
  <2>3. /\ slot' \in [Clients -> Slot \cup {NoSlot}] /\ want' \in [Clients -> Pos \cup {None}]
    BY <1>1 DEF CacheInv, Typing
  <2> QED BY <1>1, <1>2, <2>1, <2>2, <2>3 DEF CacheInv, Typing
<1>4. \A r \in Range(lru) : r \in Slot /\ pos[r] # p
  BY RangeSlots DEF Hits, CacheInv
<1>5. ListInv'
  <2>1. \A r \in Range(lru) : pos'[r] = IF r = s THEN p ELSE pos[r]
    BY <1>1, <1>4 DEF CacheInv, Typing
  <2> QED BY <1>4, <2>1 DEF CacheInv, ListInv
<1>6. PinInv'
  <2>1. \A r \in Slot : PinSum(r)' = PinSum(r)
    BY <1>1 DEF PinSum
  <2>2. \A d \in Clients : Pinned(d)' = Pinned(d)
    BY <1>1 DEF Pinned
  <2> QED BY <1>1, <1>2, <2>1, <2>2 DEF CacheInv, PinInv
<1>7. CallOK(c)'
  <2>1. /\ pc'[c] = l /\ slot'[c] = s /\ want'[c] = None /\ pos'[s] = p /\ ~dirty'[s]
        /\ pin'[s] = 0
    BY <1>1, <1>2 DEF CacheInv, Typing
  <2>2. l = "fill" => Hits(p)' = {}
    BY <1>1, <1>4 DEF Hits, CacheInv, Typing
  <2> QED BY <2>1, <2>2 DEF CallOK
<1>8. CallInv'
  <2>1. l \in Labels /\ l # "idle"
    BY DEF Labels
  <2>2. \A d \in Clients \ {c} : want'[d] = want[d] /\ slot'[d] = slot[d]
    BY <1>1 DEF CacheInv, Typing
  <2> QED BY <1>1, <1>7, <2>1, <2>2, CallsKept DEF CacheInv
<1> QED BY <1>3, <1>5, <1>6, <1>8 DEF CacheInv

(* The three ways to fetch, in the terms of that lemma.                    *)
FetchSteps(c) ==
  \/ \E p \in Pos : GetFirst(c, p) \/ GetGrow(c, p) \/ GetEvictClean(c, p)
  \/ GetEvictStored(c)

LEMMA FetchFacts ==
  ASSUME CacheInv, NEW c \in Clients, FetchSteps(c)
  PROVE  \E s \in Slot, p \in Pos, l \in {"fill", "fetch"} :
           /\ owner = c \/ Free
           /\ owner' = c /\ Fetch(c, s, p, l) /\ Hits(p) = {} /\ pin[s] = 0
           /\ want' = [want EXCEPT ![c] = None]
           /\ l = "fill" <=> s \notin Range(lru)
           /\ l = "fetch" => ~dirty[s] \/ (pc[c] = "stored" /\ s = slot[c])
           /\ l = "fetch" => Valid = Range(lru)
           /\ UNCHANGED <<lru, buf, disk, cliVars>>
<1>1. ASSUME NEW p \in Pos, GetFirst(c, p) \/ GetGrow(c, p)
      PROVE  \E s \in Slot :
               /\ Free /\ owner' = c /\ Fetch(c, s, p, "fill") /\ Hits(p) = {} /\ pin[s] = 0
               /\ want' = [want EXCEPT ![c] = None]
               /\ s \notin Range(lru)
               /\ UNCHANGED <<lru, buf, disk, cliVars>>
  <2>1. PICK s \in Slot \ Range(lru) :
          /\ MayGet(c) /\ Free /\ owner' = c /\ Fetch(c, s, p, "fill")
          /\ UNCHANGED <<lru, buf, disk, want, cliVars>>
    BY <1>1 DEF GetFirst, GetGrow, NewBlock, Lock
  <2>2. Hits(p) = {}
    BY <1>1, EmptyList DEF GetFirst, GetGrow, Hits
  <2>3. pin[s] = 0
    <3>1. \A d \in Clients : hold[d][s] = 0
      BY <2>1, CacheAssumption DEF CacheInv, PinInv, Pinned, Typing
    <3> QED BY <3>1, PinZero DEF CacheInv, PinInv
  <2>4. want' = [want EXCEPT ![c] = None]
    BY <2>1 DEF MayGet, CacheInv, Typing, CallInv, CallOK
  <2> QED BY <2>1, <2>2, <2>3, <2>4
<1>2. ASSUME NEW p \in Pos, GetEvictClean(c, p)
      PROVE  \E s \in Range(lru) :
               /\ s \in Slot /\ Free /\ owner' = c /\ Fetch(c, s, p, "fetch")
               /\ Hits(p) = {} /\ pin[s] = 0 /\ ~dirty[s]
               /\ want' = [want EXCEPT ![c] = None]
               /\ UNCHANGED <<lru, buf, disk, cliVars>>
  <2>1. PICK s \in Slot :
          /\ MayGet(c) /\ Free /\ owner' = c /\ Fetch(c, s, p, "fetch")
          /\ Victim(s) /\ ~dirty[s] /\ Hits(p) = {}
          /\ UNCHANGED <<lru, buf, disk, want, cliVars>>
    BY <1>2 DEF GetEvictClean, Full, Lock, NeedsStore
  <2>2. s \in Range(lru) /\ pin[s] = 0
    BY <2>1 DEF Victim, Range
  <2>3. want' = [want EXCEPT ![c] = None]
    BY <2>1 DEF MayGet, CacheInv, Typing, CallInv, CallOK
  <2> QED BY <2>1, <2>2, <2>3
<1>3. ASSUME GetEvictStored(c)
      PROVE  /\ slot[c] \in Range(lru) /\ slot[c] \in Slot /\ want[c] \in Pos
             /\ owner = c /\ owner' = c /\ Fetch(c, slot[c], want[c], "fetch")
             /\ Hits(want[c]) = {} /\ pin[slot[c]] = 0 /\ pc[c] = "stored"
             /\ want' = [want EXCEPT ![c] = None]
             /\ UNCHANGED <<lru, buf, disk, cliVars>>
  <2>1. /\ pc[c] = "stored" /\ Fetch(c, slot[c], want[c], "fetch")
        /\ want' = [want EXCEPT ![c] = None]
        /\ UNCHANGED <<lru, buf, owner, disk, cliVars>>
    BY <1>3 DEF GetEvictStored
  <2> QED BY <2>1, RangeSlots DEF CacheInv, CallInv, CallOK
<1>4. (Free \/ pc[c] = "stored") => Valid = Range(lru)
  BY ValidFacts DEF ValidOK
<1>5. CASE \E p \in Pos : GetFirst(c, p) \/ GetGrow(c, p)
  BY <1>1, <1>4, <1>5
<1>6. CASE \E p \in Pos : GetEvictClean(c, p)
  <2>1. PICK p \in Pos : GetEvictClean(c, p)
    BY <1>6
  <2>2. PICK s \in Range(lru) :
          /\ s \in Slot /\ Free /\ owner' = c /\ Fetch(c, s, p, "fetch")
          /\ Hits(p) = {} /\ pin[s] = 0 /\ ~dirty[s]
          /\ want' = [want EXCEPT ![c] = None]
          /\ UNCHANGED <<lru, buf, disk, cliVars>>
    BY <1>2, <2>1
  <2> QED BY <1>4, <2>2
<1>7. CASE GetEvictStored(c)
  BY <1>3, <1>4, <1>7
<1> QED BY <1>5, <1>6, <1>7 DEF FetchSteps

(* The ways to end a call without a block.                                 *)
EndSteps(c) ==
  \/ \E p \in Pos : GetAllPinned(c, p)
  \/ FetchFailed(c) \/ StoreFailed(c) \/ FlushReturn(c)

LEMMA EndFacts ==
  ASSUME CacheInv, NEW c \in Clients, EndSteps(c)
  PROVE  (owner = c \/ Free) /\ Fail(c) /\ UNCHANGED <<blkVars, disk>>
<1>1. CASE \E p \in Pos : GetAllPinned(c, p)
  BY <1>1 DEF GetAllPinned, Full, MayGet
<1>2. CASE FetchFailed(c) \/ StoreFailed(c) \/ FlushReturn(c)
  BY <1>2 DEF FetchFailed, StoreFailed, FlushReturn, CacheInv, CallInv, CallOK
<1> QED BY <1>1, <1>2 DEF EndSteps

(* The steps that only go on with a call.                                  *)
WaitSteps(c) ==
  \/ FlushStart(c) \/ FlushStore(c) \/ FlushStored(c) \/ Store(c)
  \/ \E p \in Pos : GetEvictDirty(c, p)

(* What a step is, for the cases below.                                    *)
LEMMA StepCases ==
  ASSUME Next
  PROVE  \E c \in Clients :
           \/ \E p \in Pos : GetHit(c, p)
           \/ \E s \in Slot : \E d \in BOOLEAN : Release(c, s, d)
           \/ \E s \in Slot : \E v \in Vals : Write(c, s, v)
           \/ Filled(c) \/ Fetched(c) \/ FetchSteps(c) \/ EndSteps(c) \/ WaitSteps(c)
  BY Zenon DEF Next, Calls, Progress, FetchSteps, EndSteps, WaitSteps

LEMMA CacheInit == Init => CacheInv
<1> SUFFICES ASSUME Init PROVE CacheInv
  OBVIOUS
<1>1. /\ MaxPins \in Nat /\ 0 \in 0 .. MaxPins
      /\ (CHOOSE p \in Pos : TRUE) \in Pos /\ (CHOOSE v \in Vals : TRUE) \in Vals
  BY CacheAssumption
<1>2. pos \in [Slot -> Pos] /\ buf \in [Slot -> Vals]
  BY <1>1 DEF Init
<1>3. Typing
  BY <1>1, <1>2 DEF Init, Typing, Labels
<1>4. ListInv
  BY EmptyList DEF Init, ListInv
<1>5. PinInv
  <2>1. \A s \in Slot : \A c \in Clients : hold[c][s] = 0 /\ ~wrote[c][s]
    BY DEF Init
  <2>2. \A s \in Slot : PinSum(s) = 0
    BY <1>3, <2>1, PinZero
  <2>3. \A c \in Clients : Pinned(c) = {}
    BY <2>1 DEF Pinned
  <2> QED BY <2>1, <2>2, <2>3 DEF PinInv, Init
<1>6. CallInv
  BY NoneAssumption DEF Init, CallInv, CallOK
<1> QED BY <1>3, <1>4, <1>5, <1>6 DEF CacheInv

LEMMA CacheStutter ==
  ASSUME CacheInv, UNCHANGED vars
  PROVE  CacheInv'
<1>1. UNCHANGED <<lru, pos, buf, dirty, pin, owner, disk, pc, want, slot, hold, wrote>>
  BY DEF vars, blkVars, argVars, cliVars
<1>2. ListInv' /\ PinInv'
  BY <1>1, InvFrame DEF CacheInv, cliVars
<1>3. \A p : Hits(p)' = Hits(p)
  BY <1>1 DEF Hits
<1>4. Typing' /\ CallInv'
  BY <1>1, <1>3 DEF CacheInv, Typing, CallInv, CallOK
<1> QED BY <1>2, <1>4 DEF CacheInv

LEMMA CacheStep == CacheInv /\ [Next]_vars => CacheInv'
<1> SUFFICES ASSUME CacheInv, Next PROVE CacheInv'
  BY CacheStutter
<1>1. ASSUME NEW c \in Clients, EndSteps(c) PROVE CacheInv'
  BY <1>1, EndFacts, EndStep
<1>2. ASSUME NEW c \in Clients, WaitSteps(c) PROVE CacheInv'
  BY <1>2, FlushSteps DEF WaitSteps
<1>3. ASSUME NEW c \in Clients, FetchSteps(c) PROVE CacheInv'
  BY <1>3, FetchFacts, FetchStep
<1> QED BY <1>1, <1>2, <1>3, StepCases, HitStep, ReleaseStep, WriteStep, FilledStep

(* Every variable has its type, a position is cached once, the counts of   *)
(* pins are exact, a pinned block is linked and holds its contents, and    *)
(* the lock is held exactly by the call in progress: for any number of     *)
(* clients, blocks and pins and whatever requests the device fails.        *)
THEOREM CacheTyping == Spec => []TypeOK
BY CacheInit, CacheStep, InvTypeOK, PTL DEF Spec

----------------------------------------------------------------------------
(* What the buffers hold, on a device that does not fail a fetch.          *)

Changing(s) == \E c \in Clients : wrote[c][s]
Stored(s) == buf[s] = disk[pos[s]]

DataInv ==
  /\ \A s \in Valid : dirty[s] \/ Changing(s) \/ Stored(s)
  /\ \A c \in Clients : pc[c] = "stored" => Stored(slot[c])
  /\ \A c \in Clients : pc[c] = "fstored" => Changing(slot[c]) \/ Stored(slot[c])

(* The part of the list that a flush has gone through has no dirty block.  *)
FlushInv ==
  \A c \in Clients :
    /\ pc[c] = "flush" => \A i \in DOMAIN lru : i < After(c) => ~dirty[lru[i]]
    /\ pc[c] \in {"fstore", "fstored"} =>
         \A i \in DOMAIN lru : i < At(slot[c]) => ~dirty[lru[i]]

LEMMA ValidNext == CacheInv' => ValidOK'
BY ValidFacts, PTL

(* Nothing is asked of a client that has no call in progress.              *)
LEMMA IdleNext ==
  ASSUME CacheInv', NEW c \in Clients,
         \A s \in Valid' : (dirty[s] \/ Changing(s) \/ Stored(s))',
         owner' = c \/ Free',
         pc'[c] = "stored" => Stored(slot[c])',
         pc'[c] = "fstored" => (Changing(slot[c]) \/ Stored(slot[c]))'
  PROVE  DataInv'
<1>1. \A d \in Clients \ {c} : pc'[d] = "idle"
  BY NoneAssumption DEF CacheInv, CallInv, CallOK, Free
<1> QED BY <1>1 DEF DataInv

LEMMA EndData ==
  ASSUME CacheInv, CacheInv', DataInv, NEW c \in Clients, EndSteps(c), "fetch" \notin Faults
  PROVE  DataInv'
<1>1. (owner = c \/ Free) /\ Fail(c) /\ UNCHANGED <<blkVars, disk>>
  BY EndFacts
<1>2. /\ UNCHANGED <<lru, pos, buf, dirty, disk, wrote>> /\ owner' = None
      /\ pc' = [pc EXCEPT ![c] = "idle"]
  BY <1>1 DEF Fail, Return, Unlock, Goto, blkVars, cliVars
<1>3. pc[c] # "fetch"
  BY DEF EndSteps, GetAllPinned, Full, MayGet, FetchFailed, StoreFailed, FlushReturn
<1>4. Valid = Range(lru)
  BY <1>1, <1>3, ValidFacts, Alone DEF ValidOK, CacheInv
<1>5. Valid' = Valid
  BY <1>2, <1>4, ValidNext DEF ValidOK, Free
<1>6. \A s \in Valid' : (dirty[s] \/ Changing(s) \/ Stored(s))'
  BY <1>2, <1>5 DEF DataInv, Changing, Stored
<1> QED BY <1>2, <1>6, IdleNext DEF Free, CacheInv, Typing

LEMMA FetchData ==
  ASSUME CacheInv, CacheInv', DataInv, NEW c \in Clients, FetchSteps(c)
  PROVE  DataInv'
<1>1. PICK s \in Slot, p \in Pos, l \in {"fill", "fetch"} :
        /\ owner' = c /\ Fetch(c, s, p, l)
        /\ l = "fill" <=> s \notin Range(lru)
        /\ l = "fetch" => Valid = Range(lru)
        /\ owner = c \/ Free
        /\ UNCHANGED <<lru, buf, disk, cliVars>>
  BY FetchFacts
<1>2. /\ pos' = [pos EXCEPT ![s] = p] /\ dirty' = [dirty EXCEPT ![s] = FALSE]
      /\ slot' = [slot EXCEPT ![c] = s] /\ pc' = [pc EXCEPT ![c] = l]
      /\ UNCHANGED <<hold, wrote>>
  BY <1>1 DEF Fetch, Goto, cliVars
<1>3. pc'[c] = l /\ slot'[c] = s
  BY <1>2 DEF CacheInv, Typing
<1>4. Range(lru)' = Range(lru)
  BY <1>1
<1>5. Valid' \subseteq Range(lru) \ {s}
  <2>1. CASE l = "fill"
    BY <1>1, <1>3, <1>4, <2>1, ValidNext DEF ValidOK
  <2>2. CASE l = "fetch"
    BY <1>1, <1>3, <1>4, <2>2, ValidNext DEF ValidOK
  <2> QED BY <2>1, <2>2
<1>6. Valid = Range(lru)
  <2>1. Free \/ pc[c] \in {"stored", "idle"}
    BY Alone DEF FetchSteps, GetFirst, GetGrow, NewBlock, GetEvictClean, Full, MayGet,
                 GetEvictStored, CacheInv
  <2>2. pc[c] = "idle" => Free
    BY <1>1, NoneAssumption DEF CacheInv, CallInv, CallOK
  <2> QED BY <2>1, <2>2, ValidFacts DEF ValidOK
<1>7. \A r \in Valid' : (dirty[r] \/ Changing(r) \/ Stored(r))'
  <2> TAKE r \in Valid'
  <2>1. r \in Valid /\ r \in Slot /\ r # s
    BY <1>5, <1>6, RangeSlots DEF CacheInv
  <2>2. dirty'[r] = dirty[r] /\ pos'[r] = pos[r] /\ buf' = buf /\ disk' = disk /\ wrote' = wrote
    BY <1>1, <1>2, <2>1 DEF CacheInv, Typing
  <2> QED BY <2>1, <2>2 DEF DataInv, Changing, Stored
<1> QED BY <1>1, <1>3, <1>7, IdleNext

(* The block that is filled is stored; the others are as they were.        *)
LEMMA FillStepFacts ==
  ASSUME CacheInv, CacheInv', NEW c \in Clients, Filled(c) \/ Fetched(c)
  PROVE  \E s \in Slot :
           /\ s = slot[c] /\ s \notin Valid /\ Valid' = Valid \cup {s}
           /\ Range(lru)' = Range(lru) \cup {s}
           /\ \A d \in Clients : hold[d][s] = 0
           /\ \A r \in Range(lru) : pos[r] = pos[s] => r = s
           /\ buf' = [buf EXCEPT ![s] = disk[pos[s]]]
           /\ hold' = [hold EXCEPT ![c][s] = @ + 1] /\ hold[c][s] < MaxPins
           /\ owner' = None
           /\ UNCHANGED <<pos, dirty, disk, wrote>>
<1>1. PICK s \in Slot :
        /\ s = slot[c] /\ owner = c /\ pin[s] = 0 /\ \A d \in Clients : hold[d][s] = 0
        /\ \A r \in Range(lru) : pos[r] = pos[s] => r = s
        /\ pc[c] = "fill" => s \notin Range(lru)
        /\ pc[c] = "fetch" => s \in Range(lru)
  BY FillFacts DEF Filled, Fetched
<1>2. /\ buf' = [buf EXCEPT ![s] = disk[pos[s]]]
      /\ hold' = [hold EXCEPT ![c][s] = @ + 1]
      /\ owner' = None /\ UNCHANGED <<pos, dirty, disk, wrote>>
  BY <1>1 DEF Filled, Fetched, Unlock, Obtain
<1>3. Range(lru)' = Range(lru) \cup {s}
  <2>1. CASE Filled(c)
    BY <1>1, <2>1, RangeAppend DEF Filled, CacheInv, Typing
  <2>2. CASE Fetched(c)
    BY <1>1, <2>2, ToTailFacts DEF Fetched, CacheInv, ListInv
  <2> QED BY <2>1, <2>2
<1>4. s \notin Valid /\ Valid' = Valid \cup {s}
  <2>1. Valid' = Range(lru)'
    BY <1>2, ValidNext DEF ValidOK, Free
  <2>2. CASE pc[c] = "fill"
    BY <1>1, <1>3, <2>1, <2>2, ValidFacts DEF ValidOK
  <2>3. CASE pc[c] = "fetch"
    BY <1>1, <1>3, <2>1, <2>3, ValidFacts DEF ValidOK
  <2> QED BY <2>2, <2>3 DEF Filled, Fetched
<1>5. hold[c][s] < MaxPins
  BY <1>1, CacheAssumption
<1> QED BY <1>1, <1>2, <1>3, <1>4, <1>5

LEMMA FillData ==
  ASSUME CacheInv, CacheInv', DataInv, NEW c \in Clients, Filled(c) \/ Fetched(c)
  PROVE  DataInv'
<1>1. PICK s \in Slot :
        /\ Valid' = Valid \cup {s} /\ buf' = [buf EXCEPT ![s] = disk[pos[s]]]
        /\ owner' = None /\ UNCHANGED <<pos, dirty, disk, wrote>>
  BY FillStepFacts
<1>2. \A r \in Valid' : (dirty[r] \/ Changing(r) \/ Stored(r))'
  <2> TAKE r \in Valid'
  <2>1. r \in Slot
    BY RangeSlots, ValidFacts, <1>1 DEF ValidOK, CacheInv
  <2>2. CASE r = s
    BY <1>1, <2>2 DEF Stored, CacheInv, Typing
  <2>3. CASE r # s
    BY <1>1, <2>1, <2>3 DEF DataInv, Changing, Stored, CacheInv, Typing
  <2> QED BY <2>2, <2>3
<1>3. Free' /\ pc'[c] = "idle"
  BY <1>1, NoneAssumption DEF Free, CacheInv, CallInv, CallOK
<1> QED BY <1>2, <1>3, IdleNext

LEMMA HitStepFacts ==
  ASSUME CacheInv, CacheInv', NEW c \in Clients, NEW p \in Pos, GetHit(c, p)
  PROVE  \E s \in Valid :
           /\ s \in Slot /\ pos[s] = p /\ hold[c][s] < MaxPins /\ owner' = None
           /\ Range(lru)' = Range(lru) /\ Valid' = Valid
           /\ hold' = [hold EXCEPT ![c][s] = @ + 1]
           /\ UNCHANGED <<pos, buf, dirty, disk, wrote>>
<1>1. PICK s \in Range(lru) :
        /\ pos[s] = p /\ MayGet(c) /\ lru' = ToTail(s) /\ Obtain(c, s)
        /\ UNCHANGED <<pos, buf, dirty, owner, disk>>
  BY DEF GetHit, Hits
<1>2. s \in Slot /\ Free /\ owner' = None
  BY <1>1, RangeSlots DEF CacheInv, MayGet, Free
<1>3. hold[c][s] < MaxPins
  BY <1>1, <1>2, MayPin DEF CacheInv
<1>4. Range(lru)' = Range(lru)
  BY <1>1, ToTailFacts DEF CacheInv, ListInv
<1>5. Valid = Range(lru) /\ Valid' = Range(lru)'
  BY <1>2, ValidFacts, ValidNext DEF ValidOK, Free
<1> QED BY <1>1, <1>2, <1>3, <1>4, <1>5 DEF Obtain

LEMMA HitData ==
  ASSUME CacheInv, CacheInv', DataInv, NEW c \in Clients, NEW p \in Pos, GetHit(c, p)
  PROVE  DataInv'
<1>1. /\ Valid' = Valid /\ owner' = None /\ UNCHANGED <<pos, buf, dirty, disk, wrote>>
  BY HitStepFacts
<1>2. \A r \in Valid' : (dirty[r] \/ Changing(r) \/ Stored(r))'
  BY <1>1 DEF DataInv, Changing, Stored
<1>3. Free' /\ pc'[c] = "idle"
  BY <1>1, NoneAssumption DEF Free, CacheInv, CallInv, CallOK
<1> QED BY <1>2, <1>3, IdleNext

LEMMA ReleaseData ==
  ASSUME CacheInv, CacheInv', DataInv, NEW c \in Clients, NEW s \in Slot, NEW d \in BOOLEAN,
         Release(c, s, d)
  PROVE  DataInv'
<1>1. /\ Free /\ (wrote[c][s] => d)
      /\ dirty' = [dirty EXCEPT ![s] = dirty[s] \/ d]
      /\ wrote' = [wrote EXCEPT ![c][s] = FALSE]
      /\ UNCHANGED <<lru, pos, buf, owner, disk, pc, want, slot>>
  BY ReleaseFacts
<1>2. Valid' = Valid
  BY <1>1 DEF Valid
<1>3. \A r \in Valid' : (dirty[r] \/ Changing(r) \/ Stored(r))'
  <2> TAKE r \in Valid'
  <2>1. r \in Valid /\ r \in Slot
    BY <1>2, RangeSlots, ValidFacts DEF ValidOK, CacheInv
  <2>2. Stored(r)' <=> Stored(r)
    BY <1>1 DEF Stored
  <2>3. CASE r # s
    <3>1. dirty'[r] = dirty[r] /\ \A e \in Clients : wrote'[e][r] = wrote[e][r]
      BY <1>1, <2>1, <2>3 DEF CacheInv, Typing
    <3> QED BY <2>1, <2>2, <3>1 DEF DataInv, Changing
  <2>4. CASE r = s
    <3>1. /\ dirty'[s] <=> dirty[s] \/ d
          /\ \A e \in Clients \ {c} : wrote'[e][s] = wrote[e][s]
      BY <1>1 DEF CacheInv, Typing
    <3> QED BY <1>1, <2>1, <2>2, <2>4, <3>1 DEF DataInv, Changing
  <2> QED BY <2>3, <2>4
<1>4. Free' /\ pc'[c] = "idle"
  BY <1>1, NoneAssumption DEF Free, CacheInv, CallInv, CallOK
<1> QED BY <1>3, <1>4, IdleNext

LEMMA WriteData ==
  ASSUME CacheInv, CacheInv', DataInv, NEW c \in Clients, NEW s \in Slot, NEW v \in Vals,
         Write(c, s, v)
  PROVE  DataInv'
<1>1. /\ s \in Pinned(c) /\ buf' = [buf EXCEPT ![s] = v]
      /\ wrote' = [wrote EXCEPT ![c][s] = TRUE]
      /\ UNCHANGED <<lru, pos, dirty, pin, owner, disk, pc, want, slot, hold>>
  BY DEF Write, argVars
<1>2. /\ Changing(s)'
      /\ \A r \in Slot : Changing(r) => Changing(r)'
      /\ \A r \in Slot \ {s} : Stored(r) => Stored(r)'
  BY <1>1 DEF Changing, Stored, CacheInv, Typing
<1>3. Valid' = Valid /\ Valid \subseteq Slot
  <2>1. Valid' = Valid
    BY <1>1 DEF Valid
  <2> QED BY <2>1, RangeSlots, ValidFacts DEF ValidOK, CacheInv
<1>4. ASSUME NEW d \in Clients, pc[d] = "stored" PROVE slot[d] \in Slot \ {s}
  <2>1. pin[slot[d]] = 0 /\ slot[d] \in Slot
    BY <1>4, RangeSlots DEF CacheInv, CallInv, CallOK
  <2>2. hold[c][slot[d]] = 0
    BY <2>1, PinZero DEF CacheInv, PinInv
  <2> QED BY <1>1, <2>1, <2>2 DEF Pinned
<1>5. ASSUME NEW d \in Clients, pc[d] = "fstored" PROVE slot[d] \in Slot
  BY <1>5, RangeSlots DEF CacheInv, CallInv, CallOK
<1> QED BY <1>1, <1>2, <1>3, <1>4, <1>5 DEF DataInv

LEMMA WaitData ==
  ASSUME CacheInv, CacheInv', DataInv, NEW c \in Clients, WaitSteps(c)
  PROVE  DataInv'
<1>1. /\ UNCHANGED <<lru, pos, buf, wrote>> /\ owner' = c
      /\ pc[c] \in {"idle", "flush", "fstored", "store", "fstore"}
      /\ pc'[c] \in {"flush", "fstore", "store", "stored", "fstored"}
  <2>1. CASE Store(c)
    BY <2>1 DEF Store, Goto, CacheInv, Typing, CallInv, CallOK, blkVars, cliVars
  <2>2. CASE FlushStored(c) \/ FlushStore(c)
    BY <2>2 DEF FlushStored, FlushStore, Goto, CacheInv, Typing, CallInv, CallOK, blkVars,
         cliVars
  <2>3. CASE FlushStart(c) \/ \E p \in Pos : GetEvictDirty(c, p)
    BY <2>3 DEF FlushStart, GetEvictDirty, Full, MayGet, Lock, Goto, CacheInv, Typing,
                blkVars, cliVars
  <2> QED BY <2>1, <2>2, <2>3 DEF WaitSteps
<1>2. Valid = Range(lru) /\ Valid' = Range(lru) /\ Valid \subseteq Slot
  <2>1. pc[c] = "idle" => Free
    BY NoneAssumption DEF WaitSteps, FlushStart, FlushStore, FlushStored, Store, GetEvictDirty,
                          Lock, Free
  <2>2. Valid = Range(lru)
    BY <1>1, <2>1, ValidFacts DEF ValidOK
  <2>3. Valid' = Range(lru)'
    BY <1>1, ValidNext DEF ValidOK
  <2> QED BY <1>1, <2>2, <2>3, RangeSlots DEF CacheInv
<1>3. CASE Store(c)
  <2>1. /\ slot[c] \in Range(lru) /\ slot[c] \in Slot /\ pc[c] \in {"store", "fstore"}
        /\ disk' = [disk EXCEPT ![pos[slot[c]]] = buf[slot[c]]]
        /\ UNCHANGED <<dirty, slot>>
    BY <1>2, <1>3 DEF Store, CacheInv, CallInv, CallOK, blkVars, argVars
  <2>2. Stored(slot[c])'
    BY <1>1, <2>1 DEF Stored, CacheInv, Typing
  <2>3. \A r \in Valid \ {slot[c]} : Stored(r) => Stored(r)'
    BY <1>1, <1>2, <2>1 DEF Stored, CacheInv, Typing, ListInv
  <2>4. \A r \in Valid' : (dirty[r] \/ Changing(r) \/ Stored(r))'
    BY <1>1, <1>2, <2>1, <2>2, <2>3 DEF DataInv, Changing
  <2> QED BY <1>1, <2>2, <2>4, IdleNext
<1>4. CASE FlushStored(c)
  <2>1. /\ dirty' = [dirty EXCEPT ![slot[c]] = FALSE] /\ pc[c] = "fstored" /\ pc'[c] = "flush"
        /\ UNCHANGED <<disk, slot>>
    BY <1>4 DEF FlushStored, Goto, argVars, CacheInv, Typing
  <2>2. \A r \in Valid' : (dirty[r] \/ Changing(r) \/ Stored(r))'
    <3> TAKE r \in Valid'
    <3>1. r \in Valid /\ r \in Slot
      BY <1>2
    <3>2. /\ Changing(r)' <=> Changing(r)
          /\ Stored(r)' <=> Stored(r)
      BY <1>1, <2>1 DEF Changing, Stored
    <3>3. CASE r = slot[c]
      BY <2>1, <3>2, <3>3 DEF DataInv
    <3>4. CASE r # slot[c]
      <4>1. dirty'[r] = dirty[r]
        BY <2>1, <3>1, <3>4 DEF CacheInv, Typing
      <4> QED BY <3>1, <3>2, <4>1 DEF DataInv
    <3> QED BY <3>3, <3>4
  <2> QED BY <1>1, <2>1, <2>2, IdleNext
<1>5. CASE FlushStart(c) \/ FlushStore(c) \/ \E p \in Pos : GetEvictDirty(c, p)
  <2>1. UNCHANGED <<dirty, disk>> /\ pc'[c] \in {"flush", "fstore", "store"}
    BY <1>5 DEF FlushStart, FlushStore, GetEvictDirty, Goto, blkVars, CacheInv, Typing
  <2>2. \A r \in Valid' : (dirty[r] \/ Changing(r) \/ Stored(r))'
    BY <1>1, <1>2, <2>1 DEF DataInv, Changing, Stored
  <2> QED BY <1>1, <2>1, <2>2, IdleNext
<1> QED BY <1>3, <1>4, <1>5 DEF WaitSteps

----------------------------------------------------------------------------
(* The flush.                                                              *)

(* A list without duplicates has one index for each member.                *)
LEMMA AtIndex ==
  ASSUME CacheInv, NEW i \in DOMAIN lru
  PROVE  At(lru[i]) = i /\ lru[i] \in Range(lru)
<1>1. lru[i] \in Range(lru)
  BY DEF Range
<1>2. At(lru[i]) \in DOMAIN lru /\ lru[At(lru[i])] = lru[i]
  BY <1>1, AtFacts
<1> QED BY <1>1, <1>2 DEF CacheInv, ListInv, IsInjective

LEMMA FlushIdle ==
  ASSUME CacheInv', owner' = None
  PROVE  FlushInv'
<1>1. \A d \in Clients : pc'[d] = "idle"
  BY NoneAssumption DEF CacheInv, CallInv, CallOK
<1> QED BY <1>1 DEF FlushInv

LEMMA FlushAlone ==
  ASSUME CacheInv', NEW c \in Clients, owner' = c,
         (pc[c] = "flush" => \A i \in DOMAIN lru : i < After(c) => ~dirty[lru[i]])',
         (pc[c] \in {"fstore", "fstored"} =>
            \A i \in DOMAIN lru : i < At(slot[c]) => ~dirty[lru[i]])'
  PROVE  FlushInv'
<1>1. \A d \in Clients \ {c} : pc'[d] = "idle"
  BY NoneAssumption DEF CacheInv, CallInv, CallOK
<1> QED BY <1>1 DEF FlushInv

LEMMA WaitFlush ==
  ASSUME CacheInv, CacheInv', FlushInv, NEW c \in Clients, WaitSteps(c)
  PROVE  FlushInv'
<1>0. DOMAIN lru \subseteq Nat
  <2>1. lru \in Seq(Slot)
    BY DEF CacheInv, Typing
  <2> QED BY <2>1
<1>1. CASE FlushStart(c)
  <2>1. lru' = lru /\ owner' = c /\ pc'[c] = "flush" /\ slot'[c] = NoSlot
    BY <1>1 DEF FlushStart, Lock, Goto, blkVars, argVars, CacheInv, Typing, CallInv, CallOK
  <2>2. After(c)' = 1
    BY <2>1 DEF After
  <2>3. \A i \in DOMAIN lru : ~(i < 1)
    BY DEF CacheInv, Typing
  <2> QED BY <2>1, <2>2, <2>3, FlushAlone
<1>2. CASE FlushStore(c)
  <2>1. PICK i \in DirtyAhead(c) :
          /\ \A j \in DirtyAhead(c) : i <= j
          /\ slot' = [slot EXCEPT ![c] = lru[i]] /\ pc[c] = "flush" /\ owner = c
          /\ pc'[c] = "fstore" /\ UNCHANGED <<lru, dirty, owner>>
    BY <1>2 DEF FlushStore, Goto, blkVars, CacheInv, Typing, CallInv, CallOK
  <2>2. i \in DOMAIN lru /\ slot'[c] = lru[i]
    BY <2>1 DEF DirtyAhead, Ahead, CacheInv, Typing
  <2>4. ASSUME NEW j \in DOMAIN lru, j < i PROVE ~dirty[lru[j]]
    <3>1. CASE pc[c] = "flush" /\ j < After(c)
      BY <3>1 DEF FlushInv
    <3>2. CASE ~(j < After(c))
      <4>1. After(c) \in Nat
        BY <2>1, AtFacts, <1>0 DEF After, CacheInv, CallInv, CallOK, NoSlot
      <4>2. j \in Ahead(c) /\ j \notin DirtyAhead(c)
        BY <1>0, <2>1, <2>2, <2>4, <3>2, <4>1 DEF Ahead
      <4> QED BY <4>2 DEF DirtyAhead
    <3> QED BY <2>1, <3>1, <3>2
  <2>5. (\A j \in DOMAIN lru : j < At(slot[c]) => ~dirty[lru[j]])'
    <3>1. At(slot[c])' = CHOOSE k \in DOMAIN lru : lru[k] = lru[i]
      BY <2>1, <2>2 DEF At
    <3>2. At(slot[c])' = i
      BY <2>2, <3>1, AtIndex DEF At
    <3> QED BY <2>1, <2>4, <3>2
  <2> QED BY <2>1, <2>5, FlushAlone
<1>3. CASE FlushStored(c)
  <2>1. /\ pc[c] = "fstored" /\ pc'[c] = "flush" /\ owner = c /\ slot[c] \in Range(lru)
        /\ dirty' = [dirty EXCEPT ![slot[c]] = FALSE] /\ UNCHANGED <<lru, slot, owner>>
    BY <1>3 DEF FlushStored, Goto, argVars, CacheInv, Typing, CallInv, CallOK
  <2>2. slot[c] \in Slot /\ slot[c] # NoSlot
    BY <2>1, RangeSlots DEF CacheInv, Slot, NoSlot
  <2>3. After(c)' = 1 + At(slot[c]) /\ At(slot[c]) \in DOMAIN lru
    BY <2>1, <2>2, AtFacts DEF After, At
  <2>4. ASSUME NEW i \in DOMAIN lru, i < 1 + At(slot[c]) PROVE ~dirty'[lru[i]]
    <3>1. lru[i] \in Slot
      BY RangeSlots DEF Range, CacheInv
    <3>2. CASE lru[i] = slot[c]
      BY <2>1, <3>1, <3>2 DEF CacheInv, Typing
    <3>3. CASE lru[i] # slot[c]
      <4>1. i # At(slot[c])
        BY <2>1, <3>3, AtFacts
      <4>2. i < At(slot[c])
        BY <1>0, <2>3, <2>4, <4>1
      <4>3. ~dirty[lru[i]]
        BY <2>1, <4>2 DEF FlushInv
      <4> QED BY <2>1, <3>1, <3>3, <4>3 DEF CacheInv, Typing
    <3> QED BY <3>2, <3>3
  <2> QED BY <2>1, <2>3, <2>4, FlushAlone
<1>4. CASE Store(c)
  <2>1. /\ pc[c] \in {"store", "fstore"} /\ pc'[c] \in {"stored", "fstored"} /\ owner = c
        /\ pc'[c] = "fstored" => pc[c] = "fstore"
        /\ UNCHANGED <<lru, dirty, slot, owner>>
    BY <1>4 DEF Store, Goto, blkVars, argVars, CacheInv, Typing, CallInv, CallOK
  <2>2. At(slot[c])' = At(slot[c])
    BY <2>1 DEF At
  <2>3. (pc[c] \in {"fstore", "fstored"} =>
            \A i \in DOMAIN lru : i < At(slot[c]) => ~dirty[lru[i]])'
    BY <2>1, <2>2 DEF FlushInv
  <2> QED BY <2>1, <2>3, FlushAlone
<1>5. ASSUME NEW p \in Pos, GetEvictDirty(c, p) PROVE FlushInv'
  <2>1. pc'[c] = "store" /\ owner' = c
    BY <1>5 DEF GetEvictDirty, Lock, Goto, CacheInv, Typing
  <2> QED BY <2>1, FlushAlone
<1> QED BY <1>1, <1>2, <1>3, <1>4, <1>5 DEF WaitSteps

LEMMA FlushFrame ==
  ASSUME FlushInv, UNCHANGED <<lru, dirty, pc, slot>>
  PROVE  FlushInv'
<1>1. \A c \in Clients : After(c)' = After(c) /\ At(slot[c])' = At(slot[c])
  BY DEF After, At
<1> QED BY <1>1 DEF FlushInv

(* The whole invariant on a device that does not fail a fetch.             *)
FullInv == CacheInv /\ DataInv /\ FlushInv

LEMMA FullInit == Init => FullInv
<1> SUFFICES ASSUME Init PROVE FullInv
  OBVIOUS
<1>1. CacheInv
  BY CacheInit
<1>2. Valid = {}
  BY EmptyList DEF Init, Valid
<1> QED BY <1>1, <1>2 DEF FullInv, DataInv, FlushInv, Init

LEMMA FullStep ==
  ASSUME "fetch" \notin Faults
  PROVE  FullInv /\ [Next]_vars => FullInv'
<1> SUFFICES ASSUME FullInv, [Next]_vars PROVE FullInv'
  OBVIOUS
<1>0. CacheInv /\ DataInv /\ FlushInv
  BY DEF FullInv
<1>1. CacheInv'
  BY <1>0, CacheStep
<1>2. CASE UNCHANGED vars
  <2>1. UNCHANGED <<lru, pos, buf, dirty, owner, disk, pc, slot, wrote>>
    BY <1>2 DEF vars, blkVars, argVars, cliVars
  <2>2. DataInv'
    BY <1>0, <2>1 DEF DataInv, Valid, Changing, Stored
  <2> QED BY <1>0, <1>1, <2>1, <2>2, FlushFrame DEF FullInv
<1>3. ASSUME NEW c \in Clients, \E p \in Pos : GetHit(c, p) PROVE FullInv'
  <2>1. owner' = None
    BY <1>0, <1>1, <1>3, HitStepFacts
  <2> QED BY <1>0, <1>1, <1>3, <2>1, HitData, FlushIdle DEF FullInv
<1>4. ASSUME NEW c \in Clients, \E s \in Slot : \E d \in BOOLEAN : Release(c, s, d) PROVE FullInv'
  <2>1. owner' = None
    BY <1>0, <1>4, ReleaseFacts DEF Free
  <2> QED BY <1>0, <1>1, <1>4, <2>1, ReleaseData, FlushIdle DEF FullInv
<1>5. ASSUME NEW c \in Clients, \E s \in Slot : \E v \in Vals : Write(c, s, v) PROVE FullInv'
  <2>1. UNCHANGED <<lru, dirty, pc, slot>>
    BY <1>5 DEF Write, argVars
  <2> QED BY <1>0, <1>1, <1>5, <2>1, WriteData, FlushFrame DEF FullInv
<1>6. ASSUME NEW c \in Clients, Filled(c) \/ Fetched(c) PROVE FullInv'
  <2>1. owner' = None
    BY <1>6 DEF Filled, Fetched, Unlock
  <2> QED BY <1>0, <1>1, <1>6, <2>1, FillData, FlushIdle DEF FullInv
<1>7. ASSUME NEW c \in Clients, FetchSteps(c) PROVE FullInv'
  <2>1. PICK l \in {"fill", "fetch"} : owner' = c /\ pc' = [pc EXCEPT ![c] = l]
    BY <1>0, <1>7, FetchFacts DEF Fetch, Goto
  <2>2. pc'[c] \in {"fill", "fetch"}
    BY <1>0, <2>1 DEF CacheInv, Typing
  <2> QED BY <1>0, <1>1, <1>7, <2>1, <2>2, FetchData, FlushAlone DEF FullInv
<1>8. ASSUME NEW c \in Clients, EndSteps(c) PROVE FullInv'
  <2>1. owner' = None
    BY <1>0, <1>8, EndFacts DEF Fail, Unlock
  <2> QED BY <1>0, <1>1, <1>8, <2>1, EndData, FlushIdle DEF FullInv
<1>9. ASSUME NEW c \in Clients, WaitSteps(c) PROVE FullInv'
  BY <1>0, <1>1, <1>9, WaitData, WaitFlush DEF FullInv
<1>10. CASE Next
  BY <1>3, <1>4, <1>5, <1>6, <1>7, <1>8, <1>9, <1>10, StepCases
<1> QED BY <1>2, <1>10

(* Only cache_flush itself leaves the state "flush" for "idle".            *)
LEMMA FlushEnds ==
  ASSUME CacheInv, [Next]_vars, NEW c \in Clients, pc[c] = "flush", pc'[c] = "idle"
  PROVE  DirtyAhead(c) = {}
<1>1. owner = c /\ ~Free /\ \A d \in Clients \ {c} : pc[d] = "idle"
  BY NoneAssumption, Alone DEF CacheInv, CallInv, CallOK, Free
<1>2. PICK d \in Clients : Calls(d) \/ Progress(d)
  BY DEF Next, vars
<1>3. CASE Calls(d)
  <2>1. UNCHANGED pc
    BY <1>1, <1>3 DEF Calls, GetHit, GetFirst, GetGrow, NewBlock, GetAllPinned, GetEvictDirty,
                      GetEvictClean, Full, MayGet, Release, Write, FlushStart, Lock
  <2> QED BY <2>1
<1>4. CASE Progress(d)
  <2>1. pc[d] # "idle"
    BY <1>4 DEF Progress, GetEvictStored, Filled, Fetched, FetchFailed, Store, StoreFailed,
                FlushStore, FlushStored, FlushReturn
  <2>2. d = c
    BY <1>1, <2>1
  <2>3. FlushStore(c) \/ FlushReturn(c)
    BY <1>4, <2>2 DEF Progress, GetEvictStored, Filled, Fetched, FetchFailed, Store,
         StoreFailed,
                FlushStored
  <2>4. ~FlushStore(c)
    BY DEF FlushStore, Goto, CacheInv, Typing
  <2> QED BY <2>3, <2>4 DEF FlushReturn
<1> QED BY <1>2, <1>3, <1>4

(* On a device that fails no fetch, whatever the clients change in place   *)
(* while the flush waits for the device: when cache_flush succeeds, every  *)
(* block is clean, and equal to the block on the device unless a client is *)
(* changing it.                                                            *)
THEOREM FlushStoresHolds ==
  ASSUME "fetch" \notin Faults
  PROVE  Spec => FlushStores
<1> DEFINE Done ==
      \A c \in Clients : pc[c] = "flush" /\ pc'[c] = "idle"
        => \A s \in Range(lru) :
             /\ ~dirty[s]
             /\ (\A d \in Clients : ~wrote[d][s]) => buf[s] = disk[pos[s]]
<1>1. FullInv /\ [Next]_vars => Done
  <2> SUFFICES ASSUME FullInv, [Next]_vars,
                      NEW c \in Clients, pc[c] = "flush", pc'[c] = "idle", NEW s \in Range(lru)
               PROVE  /\ ~dirty[s]
                      /\ (\A d \in Clients : ~wrote[d][s]) => buf[s] = disk[pos[s]]
    OBVIOUS
  <2>1. DirtyAhead(c) = {}
    BY FlushEnds DEF FullInv
  <2>2. Valid = Range(lru)
    BY ValidFacts DEF ValidOK, FullInv
  <2>3. PICK i \in DOMAIN lru : s = lru[i]
    BY DEF Range
  <2>4. ~dirty[s]
    <3>1. CASE i < After(c)
      BY <2>3, <3>1 DEF FullInv, FlushInv
    <3>2. CASE ~(i < After(c))
      <4>1. i \in Nat
        <5>1. lru \in Seq(Slot)
          BY DEF FullInv, CacheInv, Typing
        <5> QED BY <5>1
      <4>2. After(c) \in Nat
        <5>1. CASE slot[c] = NoSlot
          BY <5>1 DEF After
        <5>2. CASE slot[c] # NoSlot
          <6>1. slot[c] \in Range(lru) /\ lru \in Seq(Slot)
            BY <5>2 DEF FullInv, CacheInv, CallInv, CallOK, Typing
          <6>2. At(slot[c]) \in Nat
            BY <6>1, AtFacts
          <6> QED BY <5>2, <6>2 DEF After
        <5> QED BY <5>1, <5>2
      <4>3. i \in Ahead(c)
        BY <3>2, <4>1, <4>2 DEF Ahead
      <4> QED BY <2>1, <2>3, <4>3 DEF DirtyAhead
    <3> QED BY <3>1, <3>2
  <2> QED BY <2>2, <2>4 DEF FullInv, DataInv, Changing, Stored
<1> HIDE DEF Done
<1>2. Spec => [][Done]_vars
  BY <1>1, FullInit, FullStep, PTL DEF Spec
<1> QED BY <1>2 DEF FlushStores, Done

----------------------------------------------------------------------------
(* The memory that the cache implements.                                   *)

mem  == [p \in Pos |-> Logical(p)]
pins == [c \in Clients |-> [p \in Pos |-> PinsOf(c, p)]]

MemOK ==
  /\ \A s \in Valid : Logical(pos[s]) = buf[s]
  /\ \A p \in Pos : (\A s \in Valid : pos[s] # p) => Logical(p) = disk[p]
  /\ \A c \in Clients : \A s \in Range(lru) : PinsOf(c, pos[s]) = hold[c][s]
  /\ \A c \in Clients, p \in Pos : (\A s \in Range(lru) : pos[s] # p) => PinsOf(c, p) = 0

LEMMA MemFacts == CacheInv => MemOK
<1> SUFFICES ASSUME CacheInv PROVE MemOK
  OBVIOUS
<1>1. /\ Valid \subseteq Range(lru) /\ \A c \in Clients : Pinned(c) \subseteq Range(lru)
      /\ \A r, s \in Range(lru) : pos[r] = pos[s] => r = s
  BY ValidFacts DEF ValidOK, CacheInv, ListInv, PinInv
<1>2. ASSUME NEW s \in Valid PROVE Logical(pos[s]) = buf[s]
  <2>1. (CHOOSE r \in Valid : pos[r] = pos[s]) = s
    BY <1>1
  <2> QED BY <2>1 DEF Logical
<1>3. ASSUME NEW c \in Clients, NEW s \in Range(lru) PROVE PinsOf(c, pos[s]) = hold[c][s]
  <2>1. s \in Slot /\ hold[c][s] \in Nat
    BY RangeSlots, CacheAssumption DEF CacheInv, Typing
  <2>2. CASE s \in Pinned(c)
    <3>1. (CHOOSE r \in Pinned(c) : pos[r] = pos[s]) = s
      BY <1>1, <2>2
    <3> QED BY <2>2, <3>1 DEF PinsOf
  <2>3. CASE s \notin Pinned(c)
    <3>1. hold[c][s] = 0
      BY <2>1, <2>3 DEF Pinned
    <3>2. \A r \in Pinned(c) : pos[r] # pos[s]
      BY <1>1, <2>3
    <3> QED BY <3>1, <3>2 DEF PinsOf
  <2> QED BY <2>2, <2>3
<1>4. \A p \in Pos : (\A s \in Valid : pos[s] # p) => Logical(p) = disk[p]
  BY DEF Logical
<1>5. \A c \in Clients, p \in Pos : (\A s \in Range(lru) : pos[s] # p) => PinsOf(c, p) = 0
  BY <1>1 DEF PinsOf
<1> QED BY <1>2, <1>3, <1>4, <1>5 DEF MemOK

LEMMA MemNext == CacheInv' => MemOK'
BY MemFacts, PTL

LEMMA MemTypes ==
  ASSUME CacheInv, NEW p \in Pos
  PROVE  Logical(p) \in Vals
<1>1. MemOK /\ Valid \subseteq Slot
  BY MemFacts, ValidFacts, RangeSlots DEF ValidOK, CacheInv
<1>2. CASE \E s \in Valid : pos[s] = p
  BY <1>1, <1>2 DEF MemOK, CacheInv, Typing
<1>3. CASE \A s \in Valid : pos[s] # p
  BY <1>1, <1>3, ZenonT(40) DEF MemOK, CacheInv, Typing
<1> QED BY <1>2, <1>3

(* A step that changes no buffer, position, pin or block of the device.    *)
LEMMA MemSame ==
  ASSUME Valid' = Valid, UNCHANGED <<pos, buf, disk, hold>>
  PROVE  UNCHANGED <<mem, pins>>
<1>1. \A p : Logical(p)' = Logical(p)
  BY DEF Logical
<1>2. \A c, p : PinsOf(c, p)' = PinsOf(c, p)
  BY DEF PinsOf, Pinned
<1> QED BY <1>1, <1>2 DEF mem, pins

(* While a victim's block is replaced it is on the device.                 *)
LEMMA FetchMem ==
  ASSUME CacheInv, CacheInv', DataInv, NEW c \in Clients, FetchSteps(c)
  PROVE  UNCHANGED <<mem, pins>>
<1>1. PICK s \in Slot, p \in Pos, l \in {"fill", "fetch"} :
        /\ owner' = c /\ Fetch(c, s, p, l) /\ Hits(p) = {} /\ pin[s] = 0
        /\ l = "fill" <=> s \notin Range(lru)
        /\ l = "fetch" => ~dirty[s] \/ (pc[c] = "stored" /\ s = slot[c])
        /\ owner = c \/ Free
        /\ UNCHANGED <<lru, buf, disk, cliVars>>
  BY FetchFacts
<1>2. /\ pos' = [pos EXCEPT ![s] = p]
      /\ slot' = [slot EXCEPT ![c] = s] /\ pc' = [pc EXCEPT ![c] = l]
      /\ UNCHANGED <<hold, wrote>>
  BY <1>1 DEF Fetch, Goto, cliVars
<1>3. pc'[c] = l /\ slot'[c] = s
  BY <1>2 DEF CacheInv, Typing
<1>4. /\ Range(lru)' = Range(lru) /\ Range(lru) \subseteq Slot
      /\ \A r \in Range(lru) : pos[r] # p
      /\ \A r \in Slot : pos'[r] = IF r = s THEN p ELSE pos[r]
  BY <1>1, <1>2, RangeSlots DEF Hits, CacheInv, Typing
<1>5. Valid' = Range(lru) \ {s}
  <2>1. CASE l = "fill"
    BY <1>1, <1>3, <1>4, <2>1, ValidNext DEF ValidOK
  <2>2. CASE l = "fetch"
    BY <1>1, <1>3, <1>4, <2>2, ValidNext DEF ValidOK
  <2> QED BY <2>1, <2>2
<1>6. Valid = Range(lru)
  <2>1. Free \/ pc[c] \in {"stored", "idle"}
    BY DEF FetchSteps, GetFirst, GetGrow, NewBlock, GetEvictClean, Full, MayGet, GetEvictStored
  <2>2. pc[c] = "idle" => Free
    BY <1>1, NoneAssumption DEF CacheInv, CallInv, CallOK
  <2> QED BY <2>1, <2>2, ValidFacts DEF ValidOK
<1>7. \A d \in Clients : hold[d][s] = 0 /\ ~wrote[d][s]
  <2>1. \A d \in Clients : hold[d][s] = 0
    BY <1>1, PinZero DEF CacheInv, PinInv
  <2> QED BY <2>1 DEF CacheInv, PinInv, Pinned
<1>8. s \in Range(lru) => buf[s] = disk[pos[s]]
  BY <1>1, <1>6, <1>7 DEF DataInv, Stored, Changing
<1>9. MemOK /\ MemOK'
  BY MemFacts, MemNext
<1>10. ASSUME NEW q \in Pos PROVE Logical(q)' = Logical(q)
  <2>1. CASE \E r \in Range(lru) \ {s} : pos[r] = q
    <3>1. PICK r \in Range(lru) \ {s} : pos[r] = q
      BY <2>1
    <3>2. r \in Valid /\ r \in Valid' /\ pos'[r] = q
      BY <1>4, <1>5, <1>6, <3>1
    <3> QED BY <1>1, <1>9, <3>1, <3>2 DEF MemOK
  <2>2. CASE \A r \in Range(lru) \ {s} : pos[r] # q
    <3>1. Logical(q)' = disk[q]
      BY <1>1, <1>4, <1>5, <1>9, <2>2 DEF MemOK
    <3>2. Logical(q) = disk[q]
      BY <1>6, <1>8, <1>9, <2>2 DEF MemOK
    <3> QED BY <3>1, <3>2
  <2> QED BY <2>1, <2>2
<1>11. ASSUME NEW d \in Clients, NEW q \in Pos PROVE PinsOf(d, q)' = PinsOf(d, q)
  <2>1. CASE \E r \in Range(lru) \ {s} : pos[r] = q
    <3>1. PICK r \in Range(lru) \ {s} : pos[r] = q
      BY <2>1
    <3>2. r \in Range(lru)' /\ pos'[r] = q
      BY <1>4, <3>1
    <3>3. PinsOf(d, q) = hold[d][r]
      BY <1>9, <3>1 DEF MemOK
    <3>4. PinsOf(d, q)' = hold'[d][r]
      BY <1>9, <3>2 DEF MemOK
    <3> QED BY <1>2, <3>3, <3>4
  <2>2. CASE \A r \in Range(lru) \ {s} : pos[r] # q
    <3>1. PinsOf(d, q) = 0
      BY <1>7, <1>9, <2>2 DEF MemOK
    <3>2. PinsOf(d, q)' = 0
      <4>1. CASE s \in Range(lru) /\ q = p
        <5>1. s \in Range(lru)' /\ pos'[s] = q
          BY <1>4, <4>1
        <5>2. PinsOf(d, q)' = hold'[d][s]
          BY <1>9, <5>1 DEF MemOK
        <5> QED BY <1>2, <1>7, <5>2
      <4>2. CASE ~(s \in Range(lru) /\ q = p)
        <5>1. \A r \in Range(lru)' : pos'[r] # q
          BY <1>4, <2>2, <4>2
        <5> QED BY <1>9, <5>1 DEF MemOK
      <4> QED BY <4>1, <4>2
    <3> QED BY <3>1, <3>2
  <2> QED BY <2>1, <2>2
<1> QED BY <1>10, <1>11 DEF mem, pins

(* Pins of one client at one position change as its pins of that block do. *)
LEMMA PinsChange ==
  ASSUME CacheInv, CacheInv', NEW c \in Clients, NEW s \in Slot, NEW n \in Int,
         UNCHANGED pos, s \in Range(lru)',
         \/ Range(lru)' = Range(lru)
         \/ /\ Range(lru)' = Range(lru) \cup {s}
            /\ \A d \in Clients : hold[d][s] = 0,
         \A d \in Clients, r \in Slot :
           hold'[d][r] = IF d = c /\ r = s THEN hold[d][r] + n ELSE hold[d][r]
  PROVE  pins' = [pins EXCEPT ![c][pos[s]] = @ + n]
<1>1. MemOK /\ MemOK'
  BY MemFacts, MemNext
<1>2. /\ Range(lru)' \subseteq Slot /\ Range(lru) \subseteq Range(lru)'
      /\ \A r \in Range(lru)' : r # s => r \in Range(lru)
      /\ \A r, t \in Range(lru)' : pos[r] = pos[t] => r = t
  <2>1. Range(lru)' \subseteq Slot
    BY RangeSlots DEF CacheInv, Typing, Range
  <2> QED BY <2>1 DEF CacheInv, ListInv
<1>3. \A d \in Clients : PinsOf(d, pos[s]) = hold[d][s]
  <2>1. CASE s \in Range(lru)
    BY <1>1, <2>1 DEF MemOK
  <2>2. CASE s \notin Range(lru)
    <3>1. \A r \in Range(lru) : pos[r] # pos[s]
      BY <1>2, <2>2
    <3>2. pos[s] \in Pos
      BY DEF CacheInv, Typing
    <3>3. \A d \in Clients : hold[d][s] = 0
      BY <2>2
    <3> QED BY <1>1, <3>1, <3>2, <3>3 DEF MemOK
  <2> QED BY <2>1, <2>2
<1>4. \A d \in Clients : PinsOf(d, pos[s])' = hold'[d][s]
  BY <1>1 DEF MemOK
<1>5. ASSUME NEW d \in Clients, NEW q \in Pos, q # pos[s] PROVE PinsOf(d, q)' = PinsOf(d, q)
  <2>1. CASE \E r \in Range(lru) : pos[r] = q
    <3>1. PICK r \in Range(lru) : pos[r] = q
      BY <2>1
    <3>2. r # s /\ r \in Slot /\ r \in Range(lru)' /\ pos'[r] = q
      BY <1>2, <1>5, <3>1
    <3>3. PinsOf(d, q) = hold[d][r] /\ PinsOf(d, q)' = hold'[d][r]
      BY <1>1, <3>1, <3>2 DEF MemOK
    <3> QED BY <3>2, <3>3
  <2>2. CASE \A r \in Range(lru) : pos[r] # q
    <3>1. \A r \in Range(lru)' : pos'[r] # q
      BY <1>2, <1>5, <2>2
    <3> QED BY <1>1, <2>2, <3>1 DEF MemOK
  <2> QED BY <2>1, <2>2
<1>6. \A d \in Clients : PinsOf(d, pos[s])' = IF d = c THEN PinsOf(d, pos[s]) + n ELSE PinsOf(d, pos[s])
  BY <1>3, <1>4
<1>7. /\ pins' = [d \in Clients |-> [q \in Pos |-> PinsOf(d, q)']]
      /\ pos[s] \in Pos
  BY DEF pins, CacheInv, Typing
<1>8. \A d \in Clients, q \in Pos :
        PinsOf(d, q)' = [pins EXCEPT ![c][pos[s]] = @ + n][d][q]
  BY <1>5, <1>6, <1>7 DEF pins
<1> QED BY <1>7, <1>8, ZenonT(40) DEF pins

(* The block asked for is filled with what the memory holds there.         *)
LEMMA ObtainMem ==
  ASSUME CacheInv, CacheInv', NEW c \in Clients,
         \/ Filled(c) \/ Fetched(c)
         \/ \E p \in Pos : GetHit(c, p)
  PROVE  \E p \in Pos : Mem!Get(c, p)
<1>1. ASSUME NEW s \in Slot, UNCHANGED pos, s \in Range(lru)',
             \/ Range(lru)' = Range(lru)
             \/ /\ Range(lru)' = Range(lru) \cup {s}
                /\ \A d \in Clients : hold[d][s] = 0,
             hold[c][s] < MaxPins, hold' = [hold EXCEPT ![c][s] = @ + 1],
             UNCHANGED mem
      PROVE  \E p \in Pos : Mem!Get(c, p)
  <2>1. \A d \in Clients, r \in Slot :
          hold'[d][r] = IF d = c /\ r = s THEN hold[d][r] + 1 ELSE hold[d][r]
    BY <1>1 DEF CacheInv, Typing
  <2>2. pins' = [pins EXCEPT ![c][pos[s]] = @ + 1]
    BY <1>1, <2>1, PinsChange
  <2>3. pos[s] \in Pos
    BY DEF CacheInv, Typing
  <2> QED BY <1>1, <2>2, <2>3 DEF Mem!Get, mem, pins
<1>2. CASE Filled(c) \/ Fetched(c)
  <2>1. PICK s \in Slot :
          /\ s \notin Valid /\ Valid' = Valid \cup {s}
          /\ Range(lru)' = Range(lru) \cup {s}
          /\ \A d \in Clients : hold[d][s] = 0
          /\ \A r \in Range(lru) : pos[r] = pos[s] => r = s
          /\ buf' = [buf EXCEPT ![s] = disk[pos[s]]]
          /\ hold' = [hold EXCEPT ![c][s] = @ + 1] /\ hold[c][s] < MaxPins
          /\ UNCHANGED <<pos, dirty, disk, wrote>>
    BY <1>2, FillStepFacts
  <2>2. MemOK /\ MemOK' /\ Valid \subseteq Range(lru) /\ Range(lru) \subseteq Slot
    BY MemFacts, MemNext, ValidFacts, RangeSlots DEF ValidOK, CacheInv
  <2>3. ASSUME NEW q \in Pos PROVE Logical(q)' = Logical(q)
    <3>1. CASE q = pos[s]
      <4>1. Logical(q)' = disk[q]
        BY <2>1, <2>2, <3>1 DEF MemOK, CacheInv, Typing
      <4>2. \A r \in Valid : pos[r] # q
        BY <2>1, <2>2, <3>1
      <4> QED BY <2>2, <4>1, <4>2 DEF MemOK
    <3>2. CASE \E r \in Valid : pos[r] = q
      <4>1. PICK r \in Valid : pos[r] = q
        BY <3>2
      <4>2. r \in Valid' /\ pos'[r] = q /\ buf'[r] = buf[r]
        BY <2>1, <2>2, <4>1 DEF CacheInv, Typing
      <4> QED BY <2>2, <4>1, <4>2 DEF MemOK
    <3>3. CASE q # pos[s] /\ \A r \in Valid : pos[r] # q
      <4>1. \A r \in Valid' : pos'[r] # q
        BY <2>1, <3>3
      <4> QED BY <2>1, <2>2, <3>3, <4>1 DEF MemOK
    <3> QED BY <3>1, <3>2, <3>3
  <2>4. UNCHANGED mem
    BY <2>3 DEF mem
  <2> QED BY <1>1, <2>1, <2>4
<1>3. CASE \E p \in Pos : GetHit(c, p)
  <2>1. PICK s \in Valid :
          /\ s \in Slot /\ hold[c][s] < MaxPins
          /\ Range(lru)' = Range(lru) /\ Valid' = Valid
          /\ hold' = [hold EXCEPT ![c][s] = @ + 1]
          /\ UNCHANGED <<pos, buf, dirty, disk, wrote>>
    BY <1>3, HitStepFacts
  <2>2. UNCHANGED mem
    BY <2>1 DEF mem, Logical
  <2>3. s \in Range(lru)'
    BY <2>1, ValidFacts DEF ValidOK
  <2> QED BY <1>1, <2>1, <2>2, <2>3
<1> QED BY <1>2, <1>3

LEMMA ReleaseMem ==
  ASSUME CacheInv, CacheInv', NEW c \in Clients, NEW s \in Slot, NEW d \in BOOLEAN,
         Release(c, s, d)
  PROVE  \E p \in Pos : Mem!Release(c, p)
<1>1. /\ s \in Range(lru) /\ hold[c][s] > 0 /\ hold' = [hold EXCEPT ![c][s] = @ - 1]
      /\ UNCHANGED <<lru, pos, buf, owner, disk, pc, want, slot>>
  BY ReleaseFacts
<1>2. Valid' = Valid
  BY <1>1 DEF Valid
<1>3. UNCHANGED mem
  BY <1>1, <1>2 DEF mem, Logical
<1>4. PICK n \in Int : n = -1
  OBVIOUS
<1>5. pins' = [pins EXCEPT ![c][pos[s]] = @ + n]
  <2>1. \A e \in Clients, r \in Slot :
          hold'[e][r] = IF e = c /\ r = s THEN hold[e][r] + n ELSE hold[e][r]
    BY <1>1, <1>4, HoldDown DEF CacheInv, Typing
  <2>2. Range(lru)' = Range(lru) /\ s \in Range(lru)'
    BY <1>1
  <2> QED BY <1>1, <2>1, <2>2, PinsChange
<1>6. pos[s] \in Pos /\ pins[c][pos[s]] = hold[c][s] /\ hold[c][s] \in Nat
  <2>1. pos[s] \in Pos /\ hold[c][s] \in Nat
    BY CacheAssumption DEF CacheInv, Typing
  <2>2. PinsOf(c, pos[s]) = hold[c][s]
    BY <1>1, MemFacts DEF MemOK
  <2> QED BY <2>1, <2>2 DEF pins
<1>7. pins' = [pins EXCEPT ![c][pos[s]] = @ - 1]
  BY <1>4, <1>5, <1>6 DEF pins
<1> QED BY <1>1, <1>3, <1>6, <1>7 DEF Mem!Release, mem, pins

LEMMA WriteMem ==
  ASSUME CacheInv, CacheInv', NEW c \in Clients, NEW s \in Slot, NEW v \in Vals, Write(c, s, v)
  PROVE  \E p \in Pos : Mem!Put(c, p)
<1>1. /\ s \in Pinned(c) /\ buf' = [buf EXCEPT ![s] = v]
      /\ UNCHANGED <<lru, pos, dirty, pin, owner, disk, pc, want, slot, hold>>
  BY DEF Write, argVars
<1>2. /\ Valid' = Valid /\ s \in Valid /\ s \in Range(lru) /\ Valid \subseteq Slot
      /\ \A r \in Valid : pos[r] = pos[s] => r = s
  BY <1>1, ValidFacts, RangeSlots DEF Valid, ValidOK, CacheInv, ListInv
<1>3. MemOK /\ MemOK' /\ pos[s] \in Pos
  BY MemFacts, MemNext DEF CacheInv, Typing
<1>4. \A q \in Pos : Logical(q)' = IF q = pos[s] THEN v ELSE Logical(q)
  <2> TAKE q \in Pos
  <2>1. CASE q = pos[s]
    BY <1>1, <1>2, <1>3, <2>1 DEF MemOK, CacheInv, Typing
  <2>2. CASE q # pos[s] /\ \E r \in Valid : pos[r] = q
    <3>1. PICK r \in Valid : pos[r] = q
      BY <2>2
    <3>2. r # s /\ buf'[r] = buf[r] /\ r \in Valid' /\ pos'[r] = q
      BY <1>1, <1>2, <2>2, <3>1 DEF CacheInv, Typing
    <3> QED BY <1>3, <2>2, <3>1, <3>2 DEF MemOK
  <2>3. CASE q # pos[s] /\ \A r \in Valid : pos[r] # q
    BY <1>1, <1>2, <1>3, <2>3 DEF MemOK
  <2> QED BY <2>1, <2>2, <2>3
<1>5. mem' = [mem EXCEPT ![pos[s]] = v]
  BY <1>4 DEF mem
<1>6. pins' = pins
  BY <1>1 DEF pins, PinsOf, Pinned
<1>7. pins[c][pos[s]] > 0
  <2>1. PinsOf(c, pos[s]) = hold[c][s]
    BY <1>2, <1>3 DEF MemOK
  <2> QED BY <1>1, <1>3, <2>1 DEF pins, Pinned
<1> QED BY <1>3, <1>5, <1>6, <1>7 DEF Mem!Put, mem, pins

(* A write-back does not change what the memory holds.                     *)
LEMMA WaitMem ==
  ASSUME CacheInv, CacheInv', NEW c \in Clients, WaitSteps(c)
  PROVE  UNCHANGED <<mem, pins>>
<1>1. UNCHANGED <<lru, pos, buf, hold>> /\ owner' = c /\ pc[c] # "fetch" /\ pc'[c] \notin {"idle", "fetch"}
  <2>1. CASE Store(c)
    BY <2>1 DEF Store, Goto, CacheInv, Typing, CallInv, CallOK, blkVars, cliVars
  <2>2. CASE FlushStored(c) \/ FlushStore(c)
    BY <2>2 DEF FlushStored, FlushStore, Goto, CacheInv, Typing, CallInv, CallOK, blkVars,
         cliVars
  <2>3. CASE FlushStart(c) \/ \E p \in Pos : GetEvictDirty(c, p)
    BY <2>3 DEF FlushStart, GetEvictDirty, Full, MayGet, Lock, Goto, CacheInv, Typing,
                blkVars, cliVars
  <2> QED BY <2>1, <2>2, <2>3 DEF WaitSteps
<1>2. Valid = Range(lru) /\ Valid' = Range(lru)' /\ Range(lru) \subseteq Slot
  <2>1. pc[c] = "idle" => Free
    BY NoneAssumption DEF WaitSteps, FlushStart, FlushStore, FlushStored, Store, GetEvictDirty,
                          Lock, Free
  <2> QED BY <1>1, <2>1, ValidFacts, ValidNext, RangeSlots DEF ValidOK, CacheInv
<1>3. CASE ~Store(c)
  <2>1. UNCHANGED disk
    BY <1>3 DEF WaitSteps, FlushStart, FlushStore, FlushStored, GetEvictDirty
  <2> QED BY <1>1, <1>2, <2>1, MemSame
<1>4. CASE Store(c)
  <2>1. /\ slot[c] \in Valid
        /\ disk' = [disk EXCEPT ![pos[slot[c]]] = buf[slot[c]]]
    BY <1>2, <1>4 DEF Store, CacheInv, CallInv, CallOK
  <2>2. MemOK /\ MemOK'
    BY MemFacts, MemNext
  <2>3. ASSUME NEW q \in Pos PROVE Logical(q)' = Logical(q)
    <3>1. CASE \E r \in Valid : pos[r] = q
      <4>1. PICK r \in Valid : pos[r] = q
        BY <3>1
      <4>2. r \in Valid' /\ pos'[r] = q /\ buf'[r] = buf[r]
        BY <1>1, <1>2, <4>1
      <4> QED BY <2>2, <4>1, <4>2 DEF MemOK
    <3>2. CASE \A r \in Valid : pos[r] # q
      <4>1. disk'[q] = disk[q]
        BY <2>1, <3>2 DEF CacheInv, Typing
      <4>2. \A r \in Valid' : pos'[r] # q
        BY <1>1, <1>2, <3>2
      <4> QED BY <2>2, <3>2, <4>1, <4>2 DEF MemOK
    <3> QED BY <3>1, <3>2
  <2>4. \A d, q : PinsOf(d, q)' = PinsOf(d, q)
    BY <1>1 DEF PinsOf, Pinned
  <2> QED BY <2>3, <2>4 DEF mem, pins
<1> QED BY <1>3, <1>4

LEMMA EndMem ==
  ASSUME CacheInv, CacheInv', NEW c \in Clients, EndSteps(c), "fetch" \notin Faults
  PROVE  UNCHANGED <<mem, pins>>
<1>1. (owner = c \/ Free) /\ Fail(c) /\ UNCHANGED <<blkVars, disk>>
  BY EndFacts
<1>2. UNCHANGED <<lru, pos, buf, disk, hold>> /\ owner' = None
  BY <1>1 DEF Fail, Unlock, blkVars, cliVars
<1>3. pc[c] # "fetch"
  BY DEF EndSteps, GetAllPinned, Full, MayGet, FetchFailed, StoreFailed, FlushReturn
<1>4. Valid = Range(lru)
  BY <1>1, <1>3, ValidFacts, Alone DEF ValidOK, CacheInv
<1>5. Valid' = Valid
  BY <1>2, <1>4, ValidNext DEF ValidOK, Free
<1> QED BY <1>2, <1>5, MemSame

LEMMA MemInit == Init => Mem!Init
<1> SUFFICES ASSUME Init PROVE Mem!Init
  OBVIOUS
<1>1. CacheInv /\ MemOK
  BY CacheInit, MemFacts
<1>2. Range(lru) = {} /\ Valid = {}
  BY EmptyList DEF Init, Valid
<1>3. \A p \in Pos : Logical(p) \in Vals
  BY <1>1, MemTypes
<1>4. \A c \in Clients, p \in Pos : PinsOf(c, p) = 0
  BY <1>1, <1>2 DEF MemOK
<1> QED BY <1>3, <1>4 DEF Mem!Init

LEMMA MemStep ==
  ASSUME "fetch" \notin Faults
  PROVE  FullInv /\ FullInv' /\ [Next]_vars => [Mem!Next]_<<mem, pins>>
<1> SUFFICES ASSUME FullInv, FullInv', [Next]_vars
             PROVE  Mem!Next \/ UNCHANGED <<mem, pins>>
  BY DEF mem, pins
<1>0. CacheInv /\ CacheInv' /\ DataInv
  BY DEF FullInv
<1>1. CASE UNCHANGED vars
  <2>1. UNCHANGED <<lru, pos, buf, disk, hold, pc, slot>>
    BY <1>1 DEF vars, blkVars, argVars, cliVars
  <2>2. Valid' = Valid
    BY <2>1 DEF Valid
  <2> QED BY <2>1, <2>2, MemSame
<1>2. ASSUME NEW c \in Clients,
             \/ Filled(c) \/ Fetched(c)
             \/ \E p \in Pos : GetHit(c, p)
      PROVE  Mem!Next
  BY <1>0, <1>2, ObtainMem DEF Mem!Next
<1>3. ASSUME NEW c \in Clients, \E s \in Slot : \E d \in BOOLEAN : Release(c, s, d)
      PROVE  Mem!Next
  BY <1>0, <1>3, ReleaseMem DEF Mem!Next
<1>4. ASSUME NEW c \in Clients, \E s \in Slot : \E v \in Vals : Write(c, s, v)
      PROVE  Mem!Next
  BY <1>0, <1>4, WriteMem DEF Mem!Next
<1>5. ASSUME NEW c \in Clients, FetchSteps(c) \/ EndSteps(c) \/ WaitSteps(c)
      PROVE  UNCHANGED <<mem, pins>>
  BY <1>0, <1>5, FetchMem, EndMem, WaitMem
<1> QED BY <1>1, <1>2, <1>3, <1>4, <1>5, StepCases

(* For any number of clients, blocks and positions, on a device that fails *)
(* no fetch: the cache is a memory of blocks. Evictions, write-backs and   *)
(* failed stores lose no update and show no client another block, and a    *)
(* block's contents change only under a client that has it pinned.         *)
THEOREM BlocksRefinement ==
  ASSUME "fetch" \notin Faults
  PROVE  Spec => BlocksSpec
<1>1. FullInv /\ FullInv' /\ [Next]_vars
        => [Mem!Next]_<<[p \in Pos |-> Logical(p)],
                        [c \in Clients |-> [p \in Pos |-> PinsOf(c, p)]]>>
  BY MemStep DEF mem, pins
<1> QED BY <1>1, FullInit, FullStep, MemInit, PTL DEF Spec, BlocksSpec, Mem!Spec, Mem!vars
=============================================================================
