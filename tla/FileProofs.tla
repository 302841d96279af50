----------------------------- MODULE FileProofs -----------------------------
(***************************************************************************)
(* Proofs about two kinds of open files.                                   *)
(* Pipe: for any number of processes and descriptors and any size of the   *)
(* buffer the reference counts are exact, and the ring buffer implements   *)
(* the FIFO channel of Channel.                                            *)
(* Devices: for any number of devices, mount points and handles and any    *)
(* size of the blocks a device is open exactly while one handle leads to   *)
(* it, and byte-wise calls make it the file of bytes of ByteFile.          *)
(***************************************************************************)
EXTENDS Pipe, Devices, SequenceTheorems, FiniteSetTheorems, TLAPS

(* A process in a call holds the end it works on; its request is what the  *)
(* caller gave.  A process that does not exist has no descriptor.          *)
CallOK(p) ==
  /\ pc[p] \in {"r", "rwait"} => Holds(p, "r") /\ rv[p] \in 0 .. MaxReq
  /\ pc[p] \in {"w", "wwait"} =>
       Holds(p, "w") /\ rv[p] \in 0 .. MaxReq /\ Len(buf[p]) = rv[p]
  /\ pc[p] = "dead" => \A fd \in FD : uiotab[p][fd] = "none"
CallInv == \A p \in Procs : CallOK(p)

RingInv == tpos = Advance(hpos, bytecnt)

(* The counts, without the calls in progress.                              *)
CountInv ==
  /\ \A e \in Ends : refcnt[e] = Cardinality(Refs(e)) /\ (open[e] <=> refcnt[e] > 0)
  /\ freed = IF open["r"] \/ open["w"] THEN 0 ELSE 1

PipeInv == TypeOK /\ CallInv /\ RingInv /\ CountInv

----------------------------------------------------------------------------
(* Arithmetic of the ring.                                                 *)

(* A sum of two positions wraps at most once.                              *)
LEMMA AdvanceOnce ==
  ASSUME NEW k \in 0 .. PAGE_SIZE - 1, NEW n \in 0 .. PAGE_SIZE
  PROVE  /\ Advance(k, n) = IF k + n < PAGE_SIZE THEN k + n ELSE k + n - PAGE_SIZE
         /\ Advance(k, n) \in 0 .. PAGE_SIZE - 1
<1> USE PipeAssumption
<1>1. CASE k + n < PAGE_SIZE
  <2>1. (k + n) \in 0 .. PAGE_SIZE - 1
    BY <1>1
  <2> QED BY <1>1, <2>1 DEF Advance
<1>2. CASE ~(k + n < PAGE_SIZE)
  <2>1. (k + n) \in PAGE_SIZE .. 2 * PAGE_SIZE - 1
    BY <1>2
  <2> QED BY <1>2, <2>1 DEF Advance
<1> QED BY <1>1, <1>2

(* Two advances are one.                                                   *)
LEMMA AdvanceTwice ==
  ASSUME NEW k \in 0 .. PAGE_SIZE - 1, NEW m \in 0 .. PAGE_SIZE, NEW n \in 0 .. PAGE_SIZE,
         m + n <= PAGE_SIZE
  PROVE  Advance(Advance(k, m), n) = Advance(k, m + n)
<1> USE PipeAssumption
<1>1. m + n \in 0 .. PAGE_SIZE
  OBVIOUS
<1>2. Advance(k, m) \in 0 .. PAGE_SIZE - 1
  BY AdvanceOnce
<1>3. Advance(Advance(k, m), n) = IF Advance(k, m) + n < PAGE_SIZE
        THEN Advance(k, m) + n ELSE Advance(k, m) + n - PAGE_SIZE
  BY <1>2, AdvanceOnce
<1>4. Advance(k, m + n) = IF k + (m + n) < PAGE_SIZE
        THEN k + (m + n) ELSE k + (m + n) - PAGE_SIZE
  BY <1>1, AdvanceOnce
<1>5. Advance(k, m) = IF k + m < PAGE_SIZE THEN k + m ELSE k + m - PAGE_SIZE
  BY AdvanceOnce
<1> QED BY <1>3, <1>4, <1>5

(* Different distances below PAGE_SIZE lead to different places.           *)
LEMMA AdvanceInjective ==
  ASSUME NEW k \in 0 .. PAGE_SIZE - 1,
         NEW m \in 0 .. PAGE_SIZE - 1, NEW n \in 0 .. PAGE_SIZE - 1,
         Advance(k, m) = Advance(k, n)
  PROVE  m = n
<1>1. PAGE_SIZE \in Nat /\ m \in 0 .. PAGE_SIZE /\ n \in 0 .. PAGE_SIZE
  BY PipeAssumption
<1>2. Advance(k, m) = IF k + m < PAGE_SIZE THEN k + m ELSE k + m - PAGE_SIZE
  BY <1>1, AdvanceOnce
<1>3. Advance(k, n) = IF k + n < PAGE_SIZE THEN k + n ELSE k + n - PAGE_SIZE
  BY <1>1, AdvanceOnce
<1>4. (IF k + m < PAGE_SIZE THEN k + m ELSE k + m - PAGE_SIZE)
        = (IF k + n < PAGE_SIZE THEN k + n ELSE k + n - PAGE_SIZE)
  BY <1>2, <1>3
<1> QED BY <1>1, <1>4

----------------------------------------------------------------------------
(* References.                                                             *)

LEMMA TablesFinite ==
  /\ IsFiniteSet(FD)
  /\ IsFiniteSet(Procs \X FD)
  /\ \A e : IsFiniteSet(Refs(e)) /\ Cardinality(Refs(e)) \in Nat
  /\ \A e : Cardinality(Refs(e)) > 0 <=> Refs(e) # {}
  /\ \A p : \A e : IsFiniteSet({fd \in FD : uiotab[p][fd] = e})
<1>1. IsFiniteSet(FD)
  BY PipeAssumption, FS_Interval DEF FD
<1>2. IsFiniteSet(Procs \X FD)
  BY <1>1, PipeAssumption, FS_Product
<1>3. \A e : IsFiniteSet(Refs(e)) /\ Cardinality(Refs(e)) \in Nat
  BY <1>2, FS_Subset, FS_CardinalityType DEF Refs
<1>4. \A e : Cardinality(Refs(e)) > 0 <=> Refs(e) # {}
  BY <1>3, FS_EmptySet
<1>5. \A p : \A e : IsFiniteSet({fd \in FD : uiotab[p][fd] = e})
  <2>1. \A p : \A e : {fd \in FD : uiotab[p][fd] = e} \in SUBSET FD
    OBVIOUS
  <2> QED BY <1>1, <2>1, FS_Subset
<1> QED BY <1>1, <1>2, <1>3, <1>4, <1>5

(* An end that somebody holds is open.                                     *)
LEMMA HeldOpen ==
  ASSUME PipeInv, NEW p \in Procs, NEW e \in Ends, Holds(p, e)
  PROVE  open[e] /\ refcnt[e] > 0
<1>1. PICK fd \in FD : uiotab[p][fd] = e
  BY DEF Holds
<1>2. <<p, fd>> \in Refs(e)
  BY <1>1 DEF Refs
<1>3. refcnt[e] > 0
  BY <1>2, TablesFinite DEF PipeInv, CountInv
<1> QED BY <1>3 DEF PipeInv, CountInv

LEMMA InvExact == PipeInv => RefcntExact
<1> SUFFICES ASSUME PipeInv PROVE RefcntExact
  OBVIOUS
<1>1. ASSUME NEW p \in Procs, pc[p] \in {"r", "w", "rwait", "wwait"}
      PROVE  freed = 0
  <2>1. PICK e \in Ends : Holds(p, e)
    BY <1>1 DEF PipeInv, CallInv, CallOK, Ends
  <2>2. open[e]
    BY <2>1, HeldOpen
  <2> QED BY <2>2 DEF PipeInv, CountInv, Ends
<1> QED BY <1>1 DEF PipeInv, CountInv, RefcntExact

(* A broadcast makes waiting processes go on with their call.              *)
LEMMA WokenFacts ==
  ASSUME TypeOK, NEW e \in Ends
  PROVE  /\ Woken(e) \in [Procs -> Labels]
         /\ \A q \in Procs : \/ Woken(e)[q] = pc[q]
                             \/ pc[q] = "rwait" /\ Woken(e)[q] = "r"
                             \/ pc[q] = "wwait" /\ Woken(e)[q] = "w"
  BY DEF TypeOK, Woken, Ends, Labels

----------------------------------------------------------------------------
(* The steps.                                                              *)

(* A step that touches neither the ends nor the ring.                      *)
LEMMA CallStep ==
  ASSUME PipeInv, UNCHANGED <<pipeVars, endVars>>,
         pc' \in [Procs -> Labels], buf' \in [Procs -> Seq(Bytes)], rv' \in [Procs -> Int],
         CallInv'
  PROVE  PipeInv'
<1>1. TypeOK'
  BY DEF PipeInv, TypeOK, pipeVars, endVars
<1>2. RingInv' /\ CountInv'
  BY DEF PipeInv, RingInv, CountInv, Refs, Advance, pipeVars, endVars
<1> QED BY <1>1, <1>2 DEF PipeInv

(* uio_close.                                                              *)
LEMMA CloseStep ==
  ASSUME PipeInv, NEW p \in Procs, NEW fd \in FD, pc[p] \in {"run", "exit"}, UioClose(p, fd)
  PROVE  PipeInv'
<1>0. PICK e \in Ends : e = uiotab[p][fd]
  BY DEF UioClose, PipeInv, TypeOK
<1>1. Peer(e) \in Ends /\ Peer(e) # e /\ Ends = {e, Peer(e)}
  BY DEF Peer, Ends
<1>2. refcnt[e] > 0 /\ open[e] /\ <<p, fd>> \in Refs(e)
  BY <1>0, HeldOpen DEF Holds, Refs
<1>3. refcnt[e] \in Nat /\ refcnt[e] - 1 \in Nat
  BY <1>1, <1>2 DEF PipeInv, TypeOK
<1>4. /\ refcnt' = [refcnt EXCEPT ![e] = refcnt[e] - 1]
      /\ uiotab' = [uiotab EXCEPT ![p][fd] = "none"]
      /\ IF refcnt[e] - 1 = 0 THEN EndClosed(e) ELSE UNCHANGED <<open, freed, pc>>
      /\ UNCHANGED <<pipeVars, buf, rv>>
  BY <1>0, <1>2, <1>3 DEF UioClose
<1>5. /\ uiotab' \in [Procs -> [FD -> Ends \cup {"none"}]]
      /\ \A q \in Procs, g \in FD :
           uiotab'[q][g] = IF q = p /\ g = fd THEN "none" ELSE uiotab[q][g]
  BY <1>4 DEF PipeInv, TypeOK
<1>6. Refs(e)' = Refs(e) \ {<<p, fd>>}
  BY <1>0, <1>5 DEF Refs, Ends
<1>7. \A f \in Ends \ {e} : Refs(f)' = Refs(f)
  BY <1>0, <1>5 DEF Refs, Ends
<1>8. \A f \in Ends : refcnt'[f] = Cardinality(Refs(f)')
  <2>1. Cardinality(Refs(e)') = Cardinality(Refs(e)) - 1
    BY <1>2, <1>6, TablesFinite, FS_RemoveElement
  <2> QED BY <1>1, <1>4, <1>7, <2>1 DEF PipeInv, CountInv, TypeOK
<1>9. /\ open' = [open EXCEPT ![e] = ~(refcnt[e] - 1 = 0)]
      /\ freed' = IF refcnt[e] - 1 = 0 /\ ~open[Peer(e)] THEN 1 ELSE freed
      /\ pc' = pc \/ pc' = Woken(Peer(e))
  <2>1. freed = 0
    BY <1>1, <1>2 DEF PipeInv, CountInv, Ends
  <2>2. CASE refcnt[e] - 1 = 0
    <3>1. /\ open' = [open EXCEPT ![e] = FALSE]
          /\ freed' = (IF ~open[Peer(e)] THEN freed + 1 ELSE freed)
          /\ pc' = Woken(Peer(e))
      BY <1>4, <2>2 DEF EndClosed, LastClose
    <3>2. freed' = IF refcnt[e] - 1 = 0 /\ ~open[Peer(e)] THEN 1 ELSE freed
      BY <2>1, <2>2, <3>1
    <3>3. (~(refcnt[e] - 1 = 0)) = FALSE
      BY <2>2
    <3> QED BY <3>1, <3>2, <3>3
  <2>3. CASE ~(refcnt[e] - 1 = 0)
    <3>1. open' = open /\ freed' = freed /\ pc' = pc
      BY <1>4, <2>3
    <3>2. open = [open EXCEPT ![e] = TRUE]
      BY <1>2 DEF PipeInv, TypeOK
    <3> QED BY <2>3, <3>1, <3>2
  <2> QED BY <2>2, <2>3
<1>10. CountInv'
  <2>1. /\ open'[e] <=> ~(refcnt[e] - 1 = 0)
        /\ open'[Peer(e)] <=> open[Peer(e)]
    BY <1>1, <1>9 DEF PipeInv, TypeOK
  <2>2. refcnt'[e] = refcnt[e] - 1 /\ refcnt'[Peer(e)] = refcnt[Peer(e)]
    BY <1>1, <1>4 DEF PipeInv, TypeOK
  <2>3. \A f \in Ends : open'[f] <=> refcnt'[f] > 0
    BY <1>1, <1>3, <2>1, <2>2 DEF CountInv, PipeInv
  <2>4. freed = 0
    BY <1>1, <1>2 DEF PipeInv, CountInv, Ends
  <2>5. open'["r"] \/ open'["w"] <=> open'[e] \/ open'[Peer(e)]
    BY DEF Ends, Peer
  <2>6. freed' = IF open'["r"] \/ open'["w"] THEN 0 ELSE 1
    BY <1>9, <2>1, <2>4, <2>5
  <2> QED BY <1>8, <2>3, <2>6 DEF CountInv
<1>11. TypeOK'
  BY <1>1, <1>3, <1>4, <1>5, <1>9, WokenFacts DEF PipeInv, TypeOK, pipeVars
<1>12. CallInv'
  <2>1. \A q \in Procs : \/ pc'[q] = pc[q]
                         \/ pc[q] = "rwait" /\ pc'[q] = "r"
                         \/ pc[q] = "wwait" /\ pc'[q] = "w"
    BY <1>1, <1>9, WokenFacts DEF PipeInv
  <2>2. \A q \in Procs \ {p} : \A f : Holds(q, f)' <=> Holds(q, f)
    BY <1>5 DEF Holds
  <2> QED BY <1>4, <1>5, <2>1, <2>2 DEF PipeInv, CallInv, CallOK
<1> QED BY <1>4, <1>10, <1>11, <1>12 DEF PipeInv, RingInv, Advance, pipeVars

LEMMA DupStep ==
  ASSUME PipeInv, NEW p \in Procs, NEW old \in FD, NEW new \in FD, SysUiodup(p, old, new)
  PROVE  PipeInv'
<1>1. PICK e \in Ends : e = uiotab[p][old]
  BY DEF SysUiodup, PipeInv, TypeOK
<1>2. /\ uiotab' \in [Procs -> [FD -> Ends \cup {"none"}]]
      /\ \A q \in Procs, g \in FD :
           uiotab'[q][g] = IF q = p /\ g = new THEN e ELSE uiotab[q][g]
  BY <1>1 DEF SysUiodup, PipeInv, TypeOK
<1>3. Refs(e)' = Refs(e) \cup {<<p, new>>} /\ <<p, new>> \notin Refs(e)
  BY <1>1, <1>2 DEF SysUiodup, Refs, Ends
<1>4. \A f \in Ends \ {e} : Refs(f)' = Refs(f)
  BY <1>1, <1>2 DEF SysUiodup, Refs, Ends
<1>5. open[e] /\ refcnt[e] > 0
  BY <1>1, HeldOpen DEF Holds
<1>6. Cardinality(Refs(e)') = Cardinality(Refs(e)) + 1
  BY <1>3, TablesFinite, FS_AddElement
<1>7. CountInv'
  BY <1>1, <1>4, <1>5, <1>6 DEF SysUiodup, CountInv, PipeInv, TypeOK
<1>8. TypeOK'
  BY <1>1, <1>2 DEF SysUiodup, PipeInv, TypeOK, pipeVars
<1>9. CallInv'
  <2>1. \A q \in Procs \ {p} : \A f : Holds(q, f)' <=> Holds(q, f)
    BY <1>2 DEF Holds
  <2> QED BY <1>2, <2>1 DEF SysUiodup, PipeInv, CallInv, CallOK
<1> QED BY <1>7, <1>8, <1>9 DEF SysUiodup, PipeInv, RingInv, Advance, pipeVars

(* process_fork: the child's descriptors are added to the counts.          *)
LEMMA ForkStep ==
  ASSUME PipeInv, NEW p \in Procs, NEW q \in Procs, Fork(p, q)
  PROVE  PipeInv'
<1>1. p # q /\ \A g \in FD : uiotab[q][g] = "none"
  BY DEF Fork, PipeInv, CallInv, CallOK
<1>2. /\ uiotab' \in [Procs -> [FD -> Ends \cup {"none"}]]
      /\ \A x \in Procs : uiotab'[x] = IF x = q THEN uiotab[p] ELSE uiotab[x]
  BY DEF Fork, PipeInv, TypeOK
<1>3. ASSUME NEW e \in Ends
      PROVE  /\ Inherited(p, e) \in Nat
             /\ Cardinality(Refs(e)') = Cardinality(Refs(e)) + Inherited(p, e)
             /\ Inherited(p, e) > 0 => open[e]
  <2> DEFINE S == {fd \in FD : uiotab[p][fd] = e}
  <2>1. IsFiniteSet(S) /\ Cardinality(S) \in Nat
    BY TablesFinite, FS_CardinalityType, Zenon
  <2>2. IsFiniteSet({q} \X S) /\ Cardinality({q} \X S) = Cardinality(S)
    <3> HIDE DEF S
    <3>1. IsFiniteSet({q}) /\ Cardinality({q}) = 1
      BY FS_Singleton
    <3>2. IsFiniteSet({q} \X S) /\ Cardinality({q} \X S) = 1 * Cardinality(S)
      BY <2>1, <3>1, FS_Product
    <3> QED BY <2>1, <3>2
  <2>3. Refs(e)' = Refs(e) \cup ({q} \X S) /\ Refs(e) \cap ({q} \X S) = {}
    BY <1>1, <1>2 DEF Refs, Ends
  <2>4. Cardinality(Refs(e)') = Cardinality(Refs(e)) + Cardinality(S)
    <3> HIDE DEF S
    <3>1. Cardinality({}) = 0 /\ IsFiniteSet(Refs(e)) /\ Cardinality(Refs(e)) \in Nat
      BY TablesFinite, FS_EmptySet
    <3>2. Cardinality(Refs(e) \cup ({q} \X S))
            = Cardinality(Refs(e)) + Cardinality({q} \X S) - Cardinality(Refs(e) \cap ({q} \X S))
      BY <2>2, <3>1, FS_Union
    <3>3. Cardinality(Refs(e) \cap ({q} \X S)) = 0
      BY <2>3, <3>1
    <3>4. Cardinality(Refs(e) \cup ({q} \X S)) = Cardinality(Refs(e)) + Cardinality(S)
      BY <2>1, <2>2, <3>1, <3>2, <3>3
    <3>5. Refs(e)' = Refs(e) \cup ({q} \X S)
      BY <2>3
    <3> QED BY <3>4, <3>5
  <2>5. Cardinality(S) > 0 => \E fd \in FD : uiotab[p][fd] = e
    BY <2>1, FS_EmptySet
  <2> QED BY <2>1, <2>4, <2>5, HeldOpen DEF Inherited, Holds
<1>4. CountInv'
  BY <1>3 DEF Fork, CountInv, PipeInv, TypeOK, Ends
<1>5. TypeOK'
  BY <1>2, <1>3 DEF Fork, PipeInv, TypeOK, pipeVars, Labels
<1>6. CallInv'
  <2>1. \A x \in Procs \ {q} : \A f : Holds(x, f)' <=> Holds(x, f)
    BY <1>2 DEF Holds
  <2> QED BY <1>1, <1>2, <2>1 DEF Fork, PipeInv, CallInv, CallOK, TypeOK
<1> QED BY <1>4, <1>5, <1>6 DEF Fork, PipeInv, RingInv, Advance, pipeVars

(* A return, with the processes woken that wait for what has changed.      *)
LEMMA ReturnKeepsCalls ==
  ASSUME PipeInv, NEW p \in Procs, NEW n, NEW bytes, NEW pcs, UNCHANGED uiotab,
         n \in Int, bytes \in Seq(Bytes),
         pcs = pc \/ (\E e \in Ends : pcs = Woken(e)),
         Return(p, n, bytes, pcs)
  PROVE  /\ CallInv'
         /\ pc' \in [Procs -> Labels] /\ buf' \in [Procs -> Seq(Bytes)] /\ rv' \in [Procs -> Int]
<1>1. /\ pcs \in [Procs -> Labels]
      /\ \A q \in Procs : \/ pcs[q] = pc[q]
                          \/ pc[q] = "rwait" /\ pcs[q] = "r"
                          \/ pc[q] = "wwait" /\ pcs[q] = "w"
  BY WokenFacts DEF PipeInv, TypeOK
<1>2. pc' = [pcs EXCEPT ![p] = "run"] /\ rv' = [rv EXCEPT ![p] = n] /\ buf' = [buf EXCEPT ![p] = bytes]
  BY DEF Return
<1>3. pc' \in [Procs -> Labels] /\ buf' \in [Procs -> Seq(Bytes)] /\ rv' \in [Procs -> Int]
  BY <1>1, <1>2 DEF PipeInv, TypeOK, Labels
<1>4. \A q \in Procs : \A f : Holds(q, f)' <=> Holds(q, f)
  BY DEF Holds
<1>5. /\ pc'[p] = "run"
      /\ \A q \in Procs \ {p} : pc'[q] = pcs[q] /\ rv'[q] = rv[q] /\ buf'[q] = buf[q]
  BY <1>1, <1>2 DEF PipeInv, TypeOK
<1>6. CallInv'
  BY <1>1, <1>4, <1>5 DEF PipeInv, CallInv, CallOK
<1> QED BY <1>3, <1>6

LEMMA CallStarts ==
  ASSUME PipeInv, NEW p \in Procs, NEW e \in Ends, NEW n \in 0 .. MaxReq,
         NEW bytes \in Seq(Bytes), e = "w" => Len(bytes) = n, Call(p, e, n, bytes)
  PROVE  PipeInv'
<1>1. pc' \in [Procs -> Labels] /\ buf' \in [Procs -> Seq(Bytes)] /\ rv' \in [Procs -> Int]
  BY PipeAssumption DEF Call, PipeInv, TypeOK, Labels, Ends
<1>2. \A q \in Procs : \A f : Holds(q, f)' <=> Holds(q, f)
  BY DEF Call, endVars, Holds
<1>3. CallInv'
  BY <1>2 DEF Call, PipeInv, CallInv, CallOK, TypeOK, Ends, endVars
<1> QED BY <1>1, <1>3, CallStep DEF Call

LEMMA WaitStep ==
  ASSUME PipeInv, NEW p \in Procs, ReadWait(p) \/ WriteWait(p)
  PROVE  PipeInv'
<1>1. pc' \in [Procs -> Labels] /\ buf' \in [Procs -> Seq(Bytes)] /\ rv' \in [Procs -> Int]
  BY DEF ReadWait, WriteWait, PipeInv, TypeOK, Labels
<1>2. \A q \in Procs : \A f : Holds(q, f)' <=> Holds(q, f)
  BY DEF ReadWait, WriteWait, endVars, Holds
<1>3. /\ \A q \in Procs \ {p} : pc'[q] = pc[q]
      /\ \/ pc[p] = "r" /\ pc'[p] = "rwait"
         \/ pc[p] = "w" /\ pc'[p] = "wwait"
      /\ UNCHANGED <<uiotab, buf, rv>>
  BY DEF ReadWait, WriteWait, PipeInv, TypeOK, endVars
<1>4. CallInv'
  <2>1. ASSUME NEW q \in Procs PROVE CallOK(q)'
    <3>1. CallOK(q)
      BY DEF PipeInv, CallInv
    <3>2. CASE q = p
      BY <1>2, <1>3, <3>1, <3>2 DEF CallOK
    <3>3. CASE q # p
      BY <1>2, <1>3, <3>1, <3>3 DEF CallOK
    <3> QED BY <3>2, <3>3
  <2> QED BY <2>1 DEF CallInv
<1> QED BY <1>1, <1>4, CallStep DEF ReadWait, WriteWait

(* What a read moves.                                                      *)
LEMMA ReadCountFacts ==
  ASSUME PipeInv, NEW p \in Procs, pc[p] = "r", rv[p] > 0, bytecnt > 0
  PROVE  /\ ReadCount(p) \in 1 .. bytecnt
         /\ ReadCount(p) = Lesser(rv[p], bytecnt)
         /\ rv[p] \in Nat
  BY PipeAssumption DEF PipeInv, TypeOK, CallInv, CallOK, ReadCount, Lesser

LEMMA TakeStep ==
  ASSUME PipeInv, NEW p \in Procs, ReadTake(p)
  PROVE  PipeInv'
<1>1. ReadCount(p) \in 1 .. bytecnt
  BY ReadCountFacts DEF ReadTake
<1>2. PICK n \in 1 .. bytecnt : n = ReadCount(p)
  BY <1>1
<1>3. bytecnt \in 0 .. PAGE_SIZE /\ PAGE_SIZE \in Nat /\ hpos \in 0 .. PAGE_SIZE - 1
  BY PipeAssumption DEF PipeInv, TypeOK
<1>4. n \in 0 .. PAGE_SIZE /\ bytecnt - n \in 0 .. PAGE_SIZE /\ n + (bytecnt - n) = bytecnt
  BY <1>3
<1>5. [i \in 1 .. n |-> data[Advance(hpos, i - 1)]] \in Seq(Bytes)
  <2>1. \A i \in 1 .. n : Advance(hpos, i - 1) \in 0 .. PAGE_SIZE - 1
    <3> TAKE i \in 1 .. n
    <3>1. i - 1 \in 0 .. PAGE_SIZE
      BY <1>3
    <3> QED BY <1>3, <3>1, AdvanceOnce
  <2> QED BY <2>1, <1>3 DEF PipeInv, TypeOK
<1>6. /\ Return(p, n, [i \in 1 .. n |-> data[Advance(hpos, i - 1)]], Woken("w"))
      /\ hpos' = Advance(hpos, n) /\ bytecnt' = bytecnt - n
      /\ UNCHANGED <<data, tpos, endVars>>
  BY <1>2 DEF ReadTake
<1>7. /\ CallInv'
      /\ pc' \in [Procs -> Labels] /\ buf' \in [Procs -> Seq(Bytes)] /\ rv' \in [Procs -> Int]
  BY <1>5, <1>6, ReturnKeepsCalls DEF endVars, Ends
<1>8. RingInv'
  <2>1. Advance(Advance(hpos, n), bytecnt - n) = Advance(hpos, bytecnt)
    BY <1>3, <1>4, AdvanceTwice
  <2> QED BY <1>6, <2>1 DEF RingInv, PipeInv, Advance
<1>9. TypeOK'
  BY <1>3, <1>4, <1>6, <1>7, AdvanceOnce DEF PipeInv, TypeOK, endVars
<1>10. CountInv'
  BY <1>6 DEF PipeInv, CountInv, Refs, endVars
<1> QED BY <1>7, <1>8, <1>9, <1>10 DEF PipeInv

(* What a write stores: its bytes behind the tail, in order, and nothing   *)
(* among the bytes that are waiting to be read.                            *)
LEMMA PutFacts ==
  ASSUME PipeInv, NEW p \in Procs, WritePut(p)
  PROVE  \E n \in 1 .. PAGE_SIZE - bytecnt :
           /\ n = WriteCount(p) /\ n <= Len(buf[p]) /\ buf[p] \in Seq(Bytes)
           /\ data' \in [0 .. PAGE_SIZE - 1 -> Bytes]
           /\ tpos' = Advance(tpos, n) /\ bytecnt' = bytecnt + n
           /\ Return(p, n, <<>>, Woken("r"))
           /\ UNCHANGED <<hpos, endVars>>
           /\ \A i \in 1 .. bytecnt :
                data'[Advance(hpos, i - 1)] = data[Advance(hpos, i - 1)]
           /\ \A i \in 1 .. n : data'[Advance(hpos, bytecnt + i - 1)] = buf[p][i]
<1>1. /\ PAGE_SIZE \in Nat /\ bytecnt \in 0 .. PAGE_SIZE - 1
      /\ hpos \in 0 .. PAGE_SIZE - 1 /\ tpos \in 0 .. PAGE_SIZE - 1
      /\ rv[p] \in Nat /\ rv[p] > 0
      /\ buf[p] \in Seq(Bytes) /\ Len(buf[p]) = rv[p]
  BY PipeAssumption DEF PipeInv, TypeOK, CallInv, CallOK, WritePut
<1>2. WriteCount(p) \in 1 .. PAGE_SIZE - bytecnt /\ WriteCount(p) <= Len(buf[p])
  BY <1>1 DEF WriteCount, Lesser
<1>3. PICK n \in 1 .. PAGE_SIZE - bytecnt : n = WriteCount(p)
  BY <1>2
<1>4. /\ data' = [j \in 0 .. PAGE_SIZE - 1 |->
                    IF \E i \in 1 .. n : Stored(p, j, i)
                    THEN buf[p][CHOOSE i \in 1 .. n : Stored(p, j, i)]
                    ELSE data[j]]
      /\ tpos' = Advance(tpos, n) /\ bytecnt' = bytecnt + n
      /\ Return(p, n, <<>>, Woken("r"))
      /\ UNCHANGED <<hpos, endVars>>
  BY <1>3 DEF WritePut
<1>5. ASSUME NEW i \in 1 .. n
      PROVE  /\ bytecnt + i - 1 \in 0 .. PAGE_SIZE - 1
             /\ Advance(tpos, i - 1) = Advance(hpos, bytecnt + i - 1)
             /\ Advance(tpos, i - 1) \in 0 .. PAGE_SIZE - 1
  <2>1. /\ i - 1 \in 0 .. PAGE_SIZE /\ bytecnt \in 0 .. PAGE_SIZE
        /\ bytecnt + (i - 1) <= PAGE_SIZE
        /\ bytecnt + (i - 1) = bytecnt + i - 1
        /\ bytecnt + i - 1 \in 0 .. PAGE_SIZE - 1
    BY <1>1
  <2>2. Advance(Advance(hpos, bytecnt), i - 1) = Advance(hpos, bytecnt + (i - 1))
    BY <1>1, <2>1, AdvanceTwice
  <2>3. Advance(tpos, i - 1) \in 0 .. PAGE_SIZE - 1
    BY <1>1, <2>1, AdvanceOnce
  <2> QED BY <2>1, <2>2, <2>3 DEF PipeInv, RingInv
<1>6. ASSUME NEW i \in 1 .. n
      PROVE  data'[Advance(hpos, bytecnt + i - 1)] = buf[p][i]
  <2> DEFINE j == Advance(tpos, i - 1)
  <2>1. Stored(p, j, i) /\ j \in 0 .. PAGE_SIZE - 1 /\ j = Advance(hpos, bytecnt + i - 1)
    BY <1>5 DEF Stored
  <2>2. ASSUME NEW k \in 1 .. n, Stored(p, j, k) PROVE k = i
    <3>1. Advance(tpos, i - 1) = Advance(tpos, k - 1)
      BY <2>2 DEF Stored
    <3>2. i - 1 \in 0 .. PAGE_SIZE - 1 /\ k - 1 \in 0 .. PAGE_SIZE - 1
      BY <1>1
    <3>3. i - 1 = k - 1
      BY <1>1, <3>1, <3>2, AdvanceInjective
    <3> QED BY <1>1, <3>3
  <2>3. (CHOOSE k \in 1 .. n : Stored(p, j, k)) = i
    BY <2>1, <2>2
  <2>4. data'[j] = buf[p][CHOOSE k \in 1 .. n : Stored(p, j, k)]
    BY <1>4, <2>1
  <2> QED BY <2>1, <2>3, <2>4
<1>7. ASSUME NEW i \in 1 .. bytecnt
      PROVE  data'[Advance(hpos, i - 1)] = data[Advance(hpos, i - 1)]
  <2> DEFINE j == Advance(hpos, i - 1)
  <2>0. i - 1 \in 0 .. PAGE_SIZE - 1 /\ i - 1 \in 0 .. PAGE_SIZE
    BY <1>1
  <2>1. j \in 0 .. PAGE_SIZE - 1
    BY <1>1, <2>0, AdvanceOnce
  <2>2. ASSUME NEW k \in 1 .. n, Stored(p, j, k) PROVE FALSE
    <3>1. Advance(hpos, i - 1) = Advance(hpos, bytecnt + k - 1)
      BY <1>5, <2>2 DEF Stored
    <3>2. bytecnt + k - 1 \in 0 .. PAGE_SIZE - 1
      BY <1>5
    <3>3. i - 1 = bytecnt + k - 1
      BY <1>1, <2>0, <3>1, <3>2, AdvanceInjective
    <3> QED BY <1>1, <3>3
  <2> QED BY <1>4, <2>1, <2>2
<1>8. data' \in [0 .. PAGE_SIZE - 1 -> Bytes]
  <2>1. ASSUME NEW j \in 0 .. PAGE_SIZE - 1, NEW i \in 1 .. n, Stored(p, j, i)
        PROVE  buf[p][CHOOSE k \in 1 .. n : Stored(p, j, k)] \in Bytes
    <3>1. PICK c \in 1 .. n : c = CHOOSE k \in 1 .. n : Stored(p, j, k)
      BY <2>1
    <3>2. c \in 1 .. Len(buf[p])
      BY <1>1, <1>2, <1>3
    <3> QED BY <1>1, <3>1, <3>2
  <2> QED BY <1>4, <2>1 DEF PipeInv, TypeOK
<1> QED BY <1>1, <1>2, <1>3, <1>4, <1>6, <1>7, <1>8

LEMMA PutStep ==
  ASSUME PipeInv, NEW p \in Procs, WritePut(p)
  PROVE  PipeInv'
<1>1. PICK n \in 1 .. PAGE_SIZE - bytecnt :
           /\ data' \in [0 .. PAGE_SIZE - 1 -> Bytes]
           /\ tpos' = Advance(tpos, n) /\ bytecnt' = bytecnt + n
           /\ Return(p, n, <<>>, Woken("r"))
           /\ UNCHANGED <<hpos, endVars>>
  BY PutFacts
<1>2. /\ bytecnt \in 0 .. PAGE_SIZE /\ PAGE_SIZE \in Nat
      /\ hpos \in 0 .. PAGE_SIZE - 1 /\ tpos \in 0 .. PAGE_SIZE - 1
  BY PipeAssumption DEF PipeInv, TypeOK
<1>3. n \in 0 .. PAGE_SIZE /\ bytecnt + n \in 0 .. PAGE_SIZE
  BY <1>2
<1>4. /\ CallInv'
      /\ pc' \in [Procs -> Labels] /\ buf' \in [Procs -> Seq(Bytes)] /\ rv' \in [Procs -> Int]
  <2>1. n \in Int /\ <<>> \in Seq(Bytes) /\ UNCHANGED uiotab
    BY <1>1 DEF endVars
  <2> QED BY <1>1, <2>1, ReturnKeepsCalls DEF Ends
<1>5. RingInv'
  <2>1. Advance(Advance(hpos, bytecnt), n) = Advance(hpos, bytecnt + n)
    BY <1>2, <1>3, AdvanceTwice
  <2> QED BY <1>1, <2>1 DEF RingInv, PipeInv, Advance
<1>6. TypeOK'
  BY <1>1, <1>2, <1>3, <1>4, AdvanceOnce DEF PipeInv, TypeOK, endVars
<1>7. CountInv'
  BY <1>1 DEF PipeInv, CountInv, Refs, endVars
<1> QED BY <1>4, <1>5, <1>6, <1>7 DEF PipeInv

LEMMA ExitStep ==
  ASSUME PipeInv, NEW p \in Procs, ExitStart(p) \/ ExitDone(p)
  PROVE  PipeInv'
<1>1. pc' \in [Procs -> Labels] /\ buf' \in [Procs -> Seq(Bytes)] /\ rv' \in [Procs -> Int]
  BY DEF ExitStart, ExitDone, PipeInv, TypeOK, Labels
<1>2. \A q \in Procs : \A f : Holds(q, f)' <=> Holds(q, f)
  BY DEF ExitStart, ExitDone, endVars, Holds
<1>3. /\ \A q \in Procs \ {p} : pc'[q] = pc[q]
      /\ pc'[p] \in {"exit", "dead"}
      /\ pc'[p] = "dead" => \A fd \in FD : uiotab[p][fd] = "none"
      /\ UNCHANGED <<uiotab, buf, rv>>
  BY DEF ExitStart, ExitDone, PipeInv, TypeOK, endVars
<1>4. CallInv'
  <2>1. ASSUME NEW q \in Procs PROVE CallOK(q)'
    <3>1. CallOK(q)
      BY DEF PipeInv, CallInv
    <3>2. CASE q = p
      BY <1>3, <3>2 DEF CallOK
    <3>3. CASE q # p
      BY <1>2, <1>3, <3>1, <3>3 DEF CallOK
    <3> QED BY <3>2, <3>3
  <2> QED BY <2>1 DEF CallInv
<1> QED BY <1>1, <1>4, CallStep DEF ExitStart, ExitDone

LEMMA PipeInit == Init => PipeInv
<1> SUFFICES ASSUME Init PROVE PipeInv
  OBVIOUS
<1>1. /\ First \in Procs /\ UIOMAX \in Nat /\ UIOMAX >= 2 /\ PAGE_SIZE \in Nat \ {0}
      /\ 0 \in FD /\ 1 \in FD
  BY PipeAssumption DEF FD
<1>2. \A p \in Procs, fd \in FD :
        uiotab[p][fd] = IF p = First /\ fd = 0 THEN "w"
                        ELSE IF p = First /\ fd = 1 THEN "r" ELSE "none"
  BY DEF Init
<1>3. uiotab \in [Procs -> [FD -> Ends \cup {"none"}]]
  BY DEF Init, Ends
<1>4. TypeOK
  BY <1>1, <1>3 DEF Init, TypeOK, Ends, Labels
<1>5. CallInv
  BY <1>1, <1>2 DEF Init, CallInv, CallOK, Holds
<1>6. RingInv
  <2>1. 0 \in 0 .. PAGE_SIZE - 1 /\ 0 \in 0 .. PAGE_SIZE /\ 0 + 0 < PAGE_SIZE
    BY <1>1
  <2>2. Advance(0, 0) = 0 + 0
    BY <2>1, AdvanceOnce
  <2> QED BY <2>2 DEF Init, RingInv
<1>7. CountInv
  <2>1. Refs("w") = {<<First, 0>>} /\ Refs("r") = {<<First, 1>>}
    BY <1>1, <1>2 DEF Refs
  <2>2. Cardinality(Refs("w")) = 1 /\ Cardinality(Refs("r")) = 1
    BY <2>1, FS_Singleton
  <2> QED BY <2>2 DEF Init, CountInv, Ends
<1> QED BY <1>4, <1>5, <1>6, <1>7 DEF PipeInv

(* The two ways to return from a call that moves no byte.                  *)
LEMMA ReturnStep ==
  ASSUME PipeInv, NEW p \in Procs, ReadNothing(p) \/ WriteNothing(p) \/ WriteFail(p)
  PROVE  PipeInv'
<1>1. PICK n \in {0, EPIPE} : Return(p, n, <<>>, pc)
  BY DEF ReadNothing, WriteNothing, WriteFail
<1>2. UNCHANGED <<pipeVars, endVars>>
  BY DEF ReadNothing, WriteNothing, WriteFail
<1>3. n \in Int /\ <<>> \in Seq(Bytes) /\ UNCHANGED uiotab
  BY <1>2 DEF EPIPE, endVars
<1> QED BY <1>1, <1>2, <1>3, ReturnKeepsCalls, CallStep

LEMMA PipeStep == PipeInv /\ [Next]_vars => PipeInv'
<1> SUFFICES ASSUME PipeInv, [Next]_vars PROVE PipeInv'
  OBVIOUS
<1>1. CASE UNCHANGED vars
  <2>1. UNCHANGED <<pipeVars, endVars, pc, buf, rv>>
    BY <1>1 DEF vars
  <2>2. CallInv'
    BY <2>1 DEF PipeInv, CallInv, CallOK, Holds, endVars
  <2>3. pc' \in [Procs -> Labels] /\ buf' \in [Procs -> Seq(Bytes)] /\ rv' \in [Procs -> Int]
    BY <2>1 DEF PipeInv, TypeOK
  <2> QED BY <2>1, <2>2, <2>3, CallStep
<1>2. ASSUME NEW p \in Procs, NEW n \in 0 .. MaxReq, Call(p, "r", n, <<>>)
      PROVE  PipeInv'
  <2>1. "r" \in Ends /\ "r" # "w" /\ <<>> \in Seq(Bytes)
    BY DEF Ends
  <2> QED BY <1>2, <2>1, CallStarts
<1>3. ASSUME NEW p \in Procs, NEW s \in BoundedSeq(Bytes, MaxReq), Call(p, "w", Len(s), s)
      PROVE  PipeInv'
  <2>1. s \in Seq(Bytes) /\ Len(s) \in 0 .. MaxReq /\ "w" \in Ends
    BY PipeAssumption DEF BoundedSeq, SeqOf, Ends
  <2> QED BY <1>3, <2>1, CallStarts
<1>4. ASSUME NEW p \in Procs, NEW fd \in FD, SysClose(p, fd) \/ ExitClose(p, fd)
      PROVE  PipeInv'
  BY <1>4, CloseStep DEF SysClose, ExitClose
<1>5. ASSUME NEW p \in Procs, NEW old \in FD, NEW new \in FD, SysUiodup(p, old, new)
      PROVE  PipeInv'
  BY <1>5, DupStep
<1>6. ASSUME NEW p \in Procs, NEW q \in Procs, Fork(p, q)
      PROVE  PipeInv'
  BY <1>6, ForkStep
<1>7. ASSUME NEW p \in Procs, ExitStart(p) \/ Progress(p)
      PROVE  PipeInv'
  BY <1>4, <1>7, ExitStep, ReturnStep, WaitStep, TakeStep, PutStep DEF Progress
<1> QED BY <1>1, <1>2, <1>3, <1>4, <1>5, <1>6, <1>7 DEF Next

----------------------------------------------------------------------------
(* The theorems.                                                           *)

(* Every variable of the pipe has its type.                                *)
THEOREM PipeTyping == Spec => []TypeOK
<1>1. PipeInv => TypeOK
  BY DEF PipeInv
<1> QED BY <1>1, PipeInit, PipeStep, PTL DEF Spec

(* For any number of processes and descriptors: fork, dup, close and exit  *)
(* keep the counts equal to the number of descriptors, an end is closed by *)
(* its last holder and by nobody else, the pipe is freed once, and never   *)
(* under a process that is in pipe_read or pipe_write.                     *)
THEOREM RefcntExactHolds == Spec => []RefcntExact
BY PipeInit, PipeStep, InvExact, PTL DEF Spec

----------------------------------------------------------------------------
(* The refinement: the bytes between head and tail are the channel.        *)

LEMMA ContentsFacts ==
  ASSUME PipeInv
  PROVE  /\ Contents \in Seq(Bytes) /\ Len(Contents) = bytecnt
         /\ bytecnt \in 0 .. PAGE_SIZE /\ PAGE_SIZE \in Nat
         /\ \A i \in 1 .. bytecnt : Contents[i] = data[Advance(hpos, i - 1)]
<1>1. bytecnt \in 0 .. PAGE_SIZE /\ PAGE_SIZE \in Nat /\ hpos \in 0 .. PAGE_SIZE - 1
  BY PipeAssumption DEF PipeInv, TypeOK
<1>2. ASSUME NEW i \in 1 .. bytecnt
      PROVE  data[Advance(hpos, i - 1)] \in Bytes
  <2>1. i - 1 \in 0 .. PAGE_SIZE
    BY <1>1
  <2>2. Advance(hpos, i - 1) \in 0 .. PAGE_SIZE - 1
    BY <1>1, <2>1, AdvanceOnce
  <2> QED BY <2>2 DEF PipeInv, TypeOK
<1>3. Contents \in [1 .. bytecnt -> Bytes]
  BY <1>2 DEF Contents
<1> QED BY <1>1, <1>3 DEF Contents

(* A step that leaves the ring alone leaves the channel alone.             *)
LEMMA ContentsFrame == UNCHANGED pipeVars => Contents' = Contents
  BY DEF Contents, Advance, pipeVars

LEMMA TakeImplements ==
  ASSUME PipeInv, PipeInv', NEW p \in Procs, ReadTake(p)
  PROVE  Chan!Read(p)
<1>1. ReadCount(p) \in 1 .. bytecnt /\ ReadCount(p) = Lesser(rv[p], bytecnt)
  BY ReadCountFacts DEF ReadTake
<1>2. PICK n \in 1 .. bytecnt : n = ReadCount(p)
  BY <1>1
<1>3. /\ Return(p, n, [i \in 1 .. n |-> data[Advance(hpos, i - 1)]], Woken("w"))
      /\ hpos' = Advance(hpos, n) /\ bytecnt' = bytecnt - n
      /\ UNCHANGED <<data, tpos, endVars>>
  BY <1>2 DEF ReadTake
<1>4. /\ Contents \in Seq(Bytes) /\ Len(Contents) = bytecnt
      /\ bytecnt \in 0 .. PAGE_SIZE /\ PAGE_SIZE \in Nat
      /\ \A i \in 1 .. bytecnt : Contents[i] = data[Advance(hpos, i - 1)]
  BY ContentsFacts
<1>5. SubSeq(Contents, 1, n) = [i \in 1 .. n |-> data[Advance(hpos, i - 1)]]
  <2>1. SubSeq(Contents, 1, n) \in Seq(Bytes) /\ Len(SubSeq(Contents, 1, n)) = n
    BY <1>4
  <2>2. \A i \in 1 .. n : SubSeq(Contents, 1, n)[i] = Contents[i]
    BY <1>4
  <2>3. SubSeq(Contents, 1, n) = [i \in 1 .. n |-> SubSeq(Contents, 1, n)[i]]
    BY <2>1
  <2> DEFINE w == SubSeq(Contents, 1, n)
  <2>4. w = [i \in 1 .. n |-> w[i]]
    BY <2>3
  <2>5. \A i \in 1 .. n : w[i] = data[Advance(hpos, i - 1)]
    BY <1>4, <2>2
  <2> HIDE DEF w
  <2>6. w = [i \in 1 .. n |-> data[Advance(hpos, i - 1)]]
    BY ONLY <2>4, <2>5
  <2> QED BY <2>6 DEF w
<1>6. Contents' = SubSeq(Contents, n + 1, Len(Contents))
  <2> DEFINE u == SubSeq(Contents, n + 1, Len(Contents))
  <2>7. n \in Int /\ n <= bytecnt /\ \A i \in n + 1 .. bytecnt : Contents[i] \in Bytes
    BY <1>2, <1>4, ElementOfSeq
  <2>8. /\ u \in Seq(Bytes)
        /\ Len(u) = IF n + 1 <= bytecnt THEN bytecnt - (n + 1) + 1 ELSE 0
        /\ \A i \in 1 .. bytecnt - (n + 1) + 1 : u[i] = Contents[n + 1 + i - 1]
    BY <1>4, <2>7, SubSeqProperties
  <2>1. u \in Seq(Bytes) /\ Len(u) = bytecnt - n
    BY <1>4, <2>7, <2>8
  <2>2. \A i \in 1 .. bytecnt - n : u[i] = data[Advance(hpos, n + i - 1)]
    BY <1>4
  <2>3. \A i \in 1 .. bytecnt - n : Advance(Advance(hpos, n), i - 1) = Advance(hpos, n + i - 1)
    <3> TAKE i \in 1 .. bytecnt - n
    <3>1. /\ hpos \in 0 .. PAGE_SIZE - 1 /\ n \in 0 .. PAGE_SIZE /\ i - 1 \in 0 .. PAGE_SIZE
          /\ n + (i - 1) <= PAGE_SIZE /\ n + (i - 1) = n + i - 1
      BY <1>4 DEF PipeInv, TypeOK
    <3> QED BY <3>1, AdvanceTwice
  <2>4. u = [i \in 1 .. bytecnt - n |-> u[i]]
    BY <2>1
  <2>5. Contents' = [i \in 1 .. bytecnt - n |-> data[Advance(Advance(hpos, n), i - 1)]]
    BY <1>3 DEF Contents, Advance
  <2> HIDE DEF u
  <2>6. Contents' = u
    BY <2>2, <2>3, <2>4, <2>5
  <2> QED BY <2>6 DEF u
<1>7. /\ AbstractOp[p] = "read"
      /\ AbstractOp' = [AbstractOp EXCEPT ![p] = "idle"]
  BY <1>3 DEF AbstractOp, Return, ReadTake, Woken, PipeInv, TypeOK, Labels
<1>8. Chan!Return(p, n, SubSeq(Contents, 1, n))
  BY <1>3, <1>5, <1>7 DEF Return, Chan!Return
<1>9. Chan!Lesser(rv[p], Len(Contents)) = n
  BY <1>1, <1>2, <1>4 DEF Lesser, Chan!Lesser
<1> QED BY <1>3, <1>6, <1>7, <1>8, <1>9 DEF Chan!Read, endVars

LEMMA PutImplements ==
  ASSUME PipeInv, PipeInv', NEW p \in Procs, WritePut(p)
  PROVE  Chan!Write(p)
<1>1. PICK n \in 1 .. PAGE_SIZE - bytecnt :
        /\ n = WriteCount(p) /\ n <= Len(buf[p]) /\ buf[p] \in Seq(Bytes)
        /\ bytecnt' = bytecnt + n
        /\ Return(p, n, <<>>, Woken("r"))
        /\ UNCHANGED <<hpos, endVars>>
        /\ \A i \in 1 .. bytecnt :
             data'[Advance(hpos, i - 1)] = data[Advance(hpos, i - 1)]
        /\ \A i \in 1 .. n : data'[Advance(hpos, bytecnt + i - 1)] = buf[p][i]
  BY PutFacts
<1>2. /\ Contents \in Seq(Bytes) /\ Len(Contents) = bytecnt
      /\ bytecnt \in 0 .. PAGE_SIZE /\ PAGE_SIZE \in Nat
      /\ \A i \in 1 .. bytecnt : Contents[i] = data[Advance(hpos, i - 1)]
  BY ContentsFacts
<1>3. Contents' = Contents \o SubSeq(buf[p], 1, n)
  <2> DEFINE u == Contents \o SubSeq(buf[p], 1, n)
  <2>1. /\ SubSeq(buf[p], 1, n) \in Seq(Bytes) /\ Len(SubSeq(buf[p], 1, n)) = n
        /\ \A i \in 1 .. n : SubSeq(buf[p], 1, n)[i] = buf[p][i]
    <3> DEFINE s == buf[p]
    <3>1. n \in Nat /\ n <= Len(s) /\ s \in Seq(Bytes) /\ Len(s) \in Nat /\ n >= 1
      BY <1>1, <1>2, LenProperties
    <3> HIDE DEF s
    <3>2. \A i \in 1 .. n : s[i] \in Bytes
      BY <3>1, ElementOfSeq
    <3>3. /\ SubSeq(s, 1, n) \in Seq(Bytes) /\ Len(SubSeq(s, 1, n)) = IF 1 <= n THEN n - 1 + 1 ELSE 0
          /\ \A i \in 1 .. n - 1 + 1 : SubSeq(s, 1, n)[i] = s[1 + i - 1]
      BY <3>1, <3>2, SubSeqProperties
    <3>4. \A i \in 1 .. n : SubSeq(s, 1, n)[i] = s[i]
      BY <3>1, <3>3
    <3> QED BY <3>1, <3>3, <3>4 DEF s
  <2>2. /\ u \in Seq(Bytes) /\ Len(u) = bytecnt + n
        /\ \A i \in 1 .. bytecnt + n :
             u[i] = IF i <= bytecnt THEN Contents[i] ELSE SubSeq(buf[p], 1, n)[i - bytecnt]
    <3> DEFINE s == SubSeq(buf[p], 1, n)
    <3>1. s \in Seq(Bytes) /\ Len(s) = n /\ u = Contents \o s
      BY <2>1
    <3> HIDE DEF s, u
    <3>2. /\ Contents \o s \in Seq(Bytes) /\ Len(Contents \o s) = Len(Contents) + Len(s)
          /\ \A i \in 1 .. Len(Contents) + Len(s) :
               (Contents \o s)[i] = IF i <= Len(Contents) THEN Contents[i] ELSE s[i - Len(Contents)]
      BY <1>2, <3>1, ConcatProperties
    <3> QED BY <1>2, <3>1, <3>2 DEF s
  <2>3. u = [i \in 1 .. bytecnt + n |-> u[i]]
    BY <2>2
  <2>4. Contents' = [i \in 1 .. bytecnt + n |-> data'[Advance(hpos, i - 1)]]
    BY <1>1 DEF Contents, Advance
  <2> HIDE DEF u
  <2>5. ASSUME NEW i \in 1 .. bytecnt + n PROVE u[i] = data'[Advance(hpos, i - 1)]
    <3>1. CASE i <= bytecnt
      <4>1. i \in 1 .. bytecnt
        BY <1>2, <3>1
      <4> QED BY <1>1, <1>2, <2>2, <3>1, <4>1
    <3>2. CASE ~(i <= bytecnt)
      <4>1. i - bytecnt \in 1 .. n /\ bytecnt + (i - bytecnt) - 1 = i - 1
        BY <1>2, <3>2
      <4>2. u[i] = buf[p][i - bytecnt]
        BY <2>1, <2>2, <3>2, <4>1
      <4>3. data'[Advance(hpos, bytecnt + (i - bytecnt) - 1)] = buf[p][i - bytecnt]
        BY <1>1, <4>1
      <4> QED BY <4>1, <4>2, <4>3
    <3> QED BY <3>1, <3>2
  <2>6. Contents' = u
    BY <2>3, <2>4, <2>5
  <2> QED BY <2>6 DEF u
<1>4. /\ AbstractOp[p] = "write"
      /\ AbstractOp' = [AbstractOp EXCEPT ![p] = "idle"]
  <2>0. /\ Woken("r") \in [Procs -> Labels]
        /\ \A q \in Procs : \/ Woken("r")[q] = pc[q]
                            \/ pc[q] = "rwait" /\ Woken("r")[q] = "r"
                            \/ pc[q] = "wwait" /\ Woken("r")[q] = "w"
    BY WokenFacts DEF PipeInv, Ends
  <2>1. /\ pc'[p] = "run" /\ pc[p] = "w"
        /\ \A q \in Procs \ {p} : \/ pc'[q] = pc[q]
                                  \/ pc[q] = "rwait" /\ pc'[q] = "r"
                                  \/ pc[q] = "wwait" /\ pc'[q] = "w"
    <3>1. pc' = [Woken("r") EXCEPT ![p] = "run"] /\ pc[p] = "w"
      BY <1>1 DEF Return, WritePut
    <3> QED BY <2>0, <3>1
  <2> QED BY <2>1 DEF AbstractOp
<1>5. Chan!Return(p, n, <<>>)
  BY <1>1, <1>4 DEF Return, Chan!Return
<1>6. Chan!Lesser(rv[p], PAGE_SIZE - Len(Contents)) = n
  BY <1>1, <1>2 DEF Lesser, Chan!Lesser, WriteCount
<1>7. n # 0 /\ UNCHANGED open /\ open["r"]
  BY <1>1, <1>2 DEF WritePut, endVars
<1> QED BY <1>3, <1>4, <1>5, <1>6, <1>7 DEF Chan!Write

(* A call begins.                                                          *)
LEMMA CallImplements ==
  ASSUME PipeInv, NEW p \in Procs, NEW n, NEW bytes
  PROVE  /\ Call(p, "r", n, bytes) => Chan!Call(p, "read", n, bytes)
         /\ Call(p, "w", n, bytes) => Chan!Call(p, "write", n, bytes)
<1>1. ASSUME NEW e \in Ends, Call(p, e, n, bytes)
      PROVE  Chan!Call(p, IF e = "r" THEN "read" ELSE "write", n, bytes)
  <2>1. /\ AbstractOp[p] = "idle"
        /\ AbstractOp' = [AbstractOp EXCEPT ![p] = IF e = "r" THEN "read" ELSE "write"]
    BY <1>1 DEF AbstractOp, Call, PipeInv, TypeOK, Labels, Ends
  <2>2. Contents' = Contents
    BY <1>1, ContentsFrame DEF Call
  <2> QED BY <1>1, <2>1, <2>2 DEF Chan!Call, Call, endVars
<1> QED BY <1>1 DEF Ends

(* A call that moves no byte returns.                                      *)
LEMMA ReturnImplements ==
  ASSUME PipeInv, NEW p \in Procs
  PROVE  /\ ReadNothing(p) => Chan!Read(p)
         /\ WriteNothing(p) => Chan!Write(p)
         /\ WriteFail(p) => Chan!WriteFail(p)
<1>1. /\ Contents \in Seq(Bytes) /\ Len(Contents) = bytecnt
      /\ bytecnt \in 0 .. PAGE_SIZE /\ PAGE_SIZE \in Nat
  BY ContentsFacts
<1>2. ASSUME NEW n, Return(p, n, <<>>, pc), pc[p] \in {"r", "w"}
      PROVE  /\ Chan!Return(p, n, <<>>)
             /\ AbstractOp[p] = IF pc[p] = "r" THEN "read" ELSE "write"
  <2>1. /\ AbstractOp[p] = IF pc[p] = "r" THEN "read" ELSE "write"
        /\ AbstractOp' = [AbstractOp EXCEPT ![p] = "idle"]
    BY <1>2 DEF AbstractOp, Return, PipeInv, TypeOK, Labels
  <2> QED BY <1>2, <2>1 DEF Return, Chan!Return
<1>3. /\ SubSeq(Contents, 1, 0) = <<>> /\ SubSeq(Contents, 1, Len(Contents)) = Contents
      /\ Contents \o <<>> = Contents /\ SubSeq(buf[p], 1, 0) = <<>>
  BY <1>1 DEF PipeInv, TypeOK
<1>4. ASSUME ReadNothing(p) PROVE Chan!Read(p)
  <2>1. Contents' = Contents /\ UNCHANGED <<open, bytecnt>>
    BY <1>4, ContentsFrame DEF ReadNothing, endVars, pipeVars
  <2>2. rv[p] \in Nat
    BY <1>4, PipeAssumption DEF ReadNothing, PipeInv, CallInv, CallOK
  <2>3. Chan!Lesser(rv[p], Len(Contents)) = 0
    BY <1>1, <1>4, <2>2 DEF Chan!Lesser, ReadNothing
  <2>4. 0 + 1 = 1
    OBVIOUS
  <2>5. Chan!Return(p, 0, SubSeq(Contents, 1, 0)) /\ AbstractOp[p] = "read"
    BY <1>2, <1>3, <1>4 DEF ReadNothing
  <2> QED BY <1>3, <1>4, <2>1, <2>3, <2>4, <2>5 DEF Chan!Read, ReadNothing
<1>5. ASSUME WriteNothing(p) PROVE Chan!Write(p)
  <2>1. Contents' = Contents /\ UNCHANGED open
    BY <1>5, ContentsFrame DEF WriteNothing, endVars
  <2>2. Chan!Lesser(rv[p], PAGE_SIZE - Len(Contents)) = 0
    BY <1>1, <1>5 DEF Chan!Lesser, WriteNothing
  <2>3. Chan!Return(p, 0, <<>>) /\ AbstractOp[p] = "write"
    BY <1>2, <1>5 DEF WriteNothing
  <2> QED BY <1>3, <1>5, <2>1, <2>2, <2>3 DEF Chan!Write, WriteNothing
<1>6. ASSUME WriteFail(p) PROVE Chan!WriteFail(p)
  <2>1. Contents' = Contents /\ UNCHANGED open
    BY <1>6, ContentsFrame DEF WriteFail, endVars
  <2>2. Chan!Return(p, EPIPE, <<>>) /\ AbstractOp[p] = "write"
    BY <1>2, <1>6 DEF WriteFail
  <2> QED BY <1>6, <2>1, <2>2 DEF Chan!WriteFail, WriteFail, EPIPE, Chan!EPIPE
<1> QED BY <1>4, <1>5, <1>6

(* A wait, a fork, an exit and a duplicated descriptor change nothing that *)
(* the channel has.                                                        *)
LEMMA StutterSteps ==
  ASSUME PipeInv, NEW p \in Procs,
         \/ ReadWait(p) \/ WriteWait(p) \/ ExitStart(p) \/ ExitDone(p)
         \/ \E q \in Procs : Fork(p, q)
         \/ \E old, new \in FD : SysUiodup(p, old, new)
  PROVE  UNCHANGED <<Contents, open, AbstractOp, buf, rv>>
<1>1. UNCHANGED <<pipeVars, open, buf, rv>>
  BY DEF ReadWait, WriteWait, ExitStart, ExitDone, Fork, SysUiodup, endVars
<1>2. AbstractOp' = AbstractOp
  <2>1. CASE ReadWait(p) \/ WriteWait(p)
    BY <2>1 DEF ReadWait, WriteWait, AbstractOp, PipeInv, TypeOK
  <2>2. CASE ExitStart(p) \/ ExitDone(p)
    BY <2>2 DEF ExitStart, ExitDone, AbstractOp, PipeInv, TypeOK
  <2>3. CASE \E q \in Procs : Fork(p, q)
    BY <2>3 DEF Fork, AbstractOp, PipeInv, TypeOK
  <2>4. CASE \E old, new \in FD : SysUiodup(p, old, new)
    BY <2>4 DEF SysUiodup, AbstractOp
  <2> QED BY <2>1, <2>2, <2>3, <2>4
<1> QED BY <1>1, <1>2, ContentsFrame

LEMMA CloseImplements ==
  ASSUME PipeInv, NEW p \in Procs, NEW fd \in FD, UioClose(p, fd)
  PROVE  Chan!Close \/ UNCHANGED <<Contents, open, AbstractOp, buf, rv>>
<1>0. PICK e \in Ends : e = uiotab[p][fd]
  BY DEF UioClose, PipeInv, TypeOK
<1>1. open[e]
  BY <1>0, HeldOpen DEF Holds
<1>2. UNCHANGED <<Contents, buf, rv>>
  BY ContentsFrame DEF UioClose
<1>3. \/ open' = [open EXCEPT ![e] = FALSE] /\ pc' = Woken(Peer(e))
      \/ open' = open /\ pc' = pc
  BY <1>0 DEF UioClose, EndClosed
<1>4. AbstractOp' = AbstractOp
  <2>1. \A q \in Procs : \/ pc'[q] = pc[q]
                         \/ pc[q] = "rwait" /\ pc'[q] = "r"
                         \/ pc[q] = "wwait" /\ pc'[q] = "w"
    BY <1>3, WokenFacts DEF PipeInv, Peer, Ends
  <2> QED BY <2>1 DEF AbstractOp
<1>5. CASE open' = [open EXCEPT ![e] = FALSE]
  BY <1>1, <1>2, <1>4, <1>5 DEF Chan!Close, PipeInv, TypeOK, Ends
<1> QED BY <1>2, <1>3, <1>4, <1>5

LEMMA ChannelStep ==
  PipeInv /\ PipeInv' /\ [Next]_vars
    => [Chan!Next]_<<Contents, open["r"], open["w"], AbstractOp, buf, rv>>
<1> DEFINE same == UNCHANGED <<Contents, open, AbstractOp, buf, rv>>
<1> SUFFICES ASSUME PipeInv, PipeInv', [Next]_vars PROVE Chan!Next \/ same
  OBVIOUS
<1>1. CASE UNCHANGED vars
  <2>1. UNCHANGED <<pipeVars, open, pc, buf, rv>>
    BY <1>1 DEF vars, endVars
  <2> QED BY <2>1, ContentsFrame DEF AbstractOp
<1>2. ASSUME NEW p \in Procs, NEW n \in 0 .. MaxReq, Call(p, "r", n, <<>>)
      PROVE  Chan!Next
  BY <1>2, CallImplements DEF Chan!Next
<1>3. ASSUME NEW p \in Procs, NEW s \in BoundedSeq(Bytes, MaxReq), Call(p, "w", Len(s), s)
      PROVE  Chan!Next
  <2>1. s \in Chan!BoundedSeq(Bytes, MaxReq)
    BY <1>3 DEF BoundedSeq, SeqOf, Chan!BoundedSeq, Chan!SeqOf
  <2>2. Chan!Call(p, "write", Len(s), s)
    BY <1>3, CallImplements
  <2> QED BY <2>1, <2>2 DEF Chan!Next
<1>4. ASSUME NEW p \in Procs, NEW fd \in FD, SysClose(p, fd) \/ ExitClose(p, fd)
      PROVE  Chan!Next \/ same
  BY <1>4, CloseImplements DEF SysClose, ExitClose, Chan!Next
<1>5. ASSUME NEW p \in Procs,
             \/ ExitStart(p)
             \/ \E q \in Procs : Fork(p, q)
             \/ \E old, new \in FD : SysUiodup(p, old, new)
      PROVE  same
  BY <1>5, StutterSteps
<1>6. ASSUME NEW p \in Procs, Progress(p)
      PROVE  Chan!Next \/ same
  <2>1. CASE ReadWait(p) \/ WriteWait(p) \/ ExitDone(p)
    BY <2>1, StutterSteps
  <2>2. CASE ReadNothing(p) \/ WriteNothing(p) \/ WriteFail(p)
    BY <2>2, ReturnImplements DEF Chan!Next
  <2>3. CASE ReadTake(p) \/ WritePut(p)
    BY <2>3, TakeImplements, PutImplements DEF Chan!Next
  <2> QED BY <1>4, <1>6, <2>1, <2>2, <2>3 DEF Progress
<1> HIDE DEF same
<1> QED BY <1>1, <1>2, <1>3, <1>4, <1>5, <1>6 DEF Next

(* For any number of processes and any size of the buffer the pipe is a    *)
(* FIFO channel of PAGE_SIZE bytes: every byte written is read once and in *)
(* order whatever the readers and writers interleave, a read returns       *)
(* nothing only at end of file, a write fails only when no reader is left. *)
THEOREM ChannelRefinement == Spec => ChannelSpec
<1>1. Init => Chan!Init
  <2> SUFFICES ASSUME Init PROVE Chan!Init
    OBVIOUS
  <2>1. Contents = <<>>
    BY PipeInit, ContentsFacts DEF Init
  <2>2. open["r"] = TRUE /\ open["w"] = TRUE
    BY DEF Init, Ends
  <2>3. AbstractOp = [p \in Procs |-> "idle"]
    BY DEF Init, AbstractOp
  <2> QED BY <2>1, <2>2, <2>3 DEF Init, Chan!Init
<1> QED BY <1>1, PipeInit, PipeStep, ChannelStep, PTL DEF Spec, ChannelSpec, Chan!Spec,
     Chan!vars

----------------------------------------------------------------------------
(* Devices: the tables and the handles.                                    *)

Device == [name : STRING, instno : Nat, type : {"serial", "storage"}]
Bounce == [0 .. BLK - 1 -> Byte]
Image  == [0 .. capacity - 1 -> Byte]

(* The handles of device d.                                                *)
On(d) == {h \in Handle : uio[h].kind \in {"serial", "storage"} /\ uio[h].at = d}

(* The devices of a name in a list.                                        *)
Count(list, name) == Cardinality({i \in DOMAIN list : list[i].name = name})

(* The devices of a name are numbered from 0 to their count, less one.     *)
TablesOK ==
  /\ devlist \in Seq(Device) /\ Len(devlist) <= Len(Boot)
  /\ \A i \in DOMAIN devlist : devlist[i].instno < Count(devlist, devlist[i].name)
  /\ \A name \in STRING : \A k \in 0 .. Count(devlist, name) - 1 :
       \E j \in DOMAIN devlist : devlist[j].name = name /\ devlist[j].instno = k
  /\ \A i, j \in DOMAIN devlist :
       devlist[i].name = devlist[j].name /\ devlist[i].instno = devlist[j].instno => i = j
  /\ mplist \in Seq(STRING \X {"devfs", "nullfs"})
  /\ \A i, j \in DOMAIN mplist : mplist[i][1] = mplist[j][1] => i = j

(* A device is open while exactly one handle leads to it.                  *)
OpenOK ==
  /\ opened \subseteq DOMAIN devlist
  /\ \A h \in Handle : uio[h].kind \in {"serial", "storage"} => uio[h].at \in opened
  /\ \A h, g \in Handle :
       /\ uio[h].kind \in {"serial", "storage"} /\ uio[g].kind \in {"serial", "storage"}
       /\ uio[h].at = uio[g].at
       => h = g
  /\ \A d \in opened : On(d) # {}

HandlesOK ==
  /\ uio \in [Handle -> [kind : {"closed", "serial", "storage", "devices", "mounts"},
                         at : Nat, pos : Nat, buffer : {<<>>} \cup Bounce]]
  /\ \A h \in Handle :
       /\ uio[h].kind = "storage" => uio[h].buffer \in Bounce
       /\ uio[h].kind # "storage" => uio[h].pos = 0
       /\ PastEnd \/ uio[h].pos <= capacity

DevInv == TablesOK /\ OpenOK /\ HandlesOK /\ disk \in Image

----------------------------------------------------------------------------
(* Registration and mounting.                                              *)

LEMMA DevSizes ==
  /\ BLK \in Nat \ {0} /\ capacity \in Nat /\ capacity % BLK = 0 /\ MaxBytes \in Nat
  /\ Boot \in Seq(STRING \X {"serial", "storage"}) /\ Len(Boot) \in Nat
  /\ PastEnd \in BOOLEAN /\ Byte # {}
BY DevicesAssumption, LenProperties

\* Arithmetic: an index below a count that grew by at most one is below the old
\* count or is the old count.
LEMMA BelowGrown ==
  ASSUME NEW c \in Nat, NEW cc, NEW k \in 0 .. cc - 1, cc = c \/ cc = c + 1
  PROVE  k \in 0 .. c - 1 \/ (k = c /\ cc = c + 1)
  OBVIOUS

LEMMA RegisterStep ==
  ASSUME TablesOK, Register
  PROVE  /\ TablesOK' /\ Len(devlist') = Len(devlist) + 1 /\ DOMAIN devlist \subseteq DOMAIN devlist'
         /\ UNCHANGED <<mplist, opened, uio, disk, last>>
<1> DEFINE b == Boot[Len(devlist) + 1]
           r == [name |-> b[1], instno |-> Instance(b[1]), type |-> b[2]]
           n == Len(devlist)
           Same(name) == {i \in DOMAIN devlist : devlist[i].name = name}
<1>1. devlist \in Seq(Device) /\ n \in Nat /\ n < Len(Boot) /\ DOMAIN devlist = 1 .. n
  BY LenProperties DEF TablesOK, Register
<1>2. b \in STRING \X {"serial", "storage"}
  BY <1>1, DevSizes, ElementOfSeq
<1>3. \A name : IsFiniteSet(Same(name)) /\ Cardinality(Same(name)) \in Nat
  <2>1. IsFiniteSet(DOMAIN devlist)
    BY <1>1, FS_Interval
  <2> QED BY <2>1, FS_Subset, FS_CardinalityType
<1>4. Instance(b[1]) \in Nat
  BY <1>3 DEF Instance
<1>5. r \in Device
  BY <1>2, <1>4 DEF Device
<1>6. devlist' = Append(devlist, r) /\ UNCHANGED <<mplist, opened, uio, disk, last>>
  BY DEF Register
<1> HIDE DEF r, b
<1>7. /\ devlist' \in Seq(Device) /\ Len(devlist') = n + 1 /\ DOMAIN devlist' = 1 .. n + 1
      /\ \A i \in 1 .. n : devlist'[i] = devlist[i]
      /\ devlist'[n + 1] = r
  BY <1>1, <1>5, <1>6, AppendProperties, LenProperties
<1>8. r.name = b[1] /\ r.instno = Cardinality(Same(b[1]))
  BY DEF r, Instance
<1>9. \A name : {i \in DOMAIN devlist' : devlist'[i].name = name}
                  = IF name = b[1] THEN Same(name) \cup {n + 1} ELSE Same(name)
  BY <1>1, <1>7, <1>8
<1>10. \A name : Count(devlist', name) = Cardinality(Same(name)) + (IF name = b[1] THEN 1 ELSE 0)
  <2>1. SUFFICES ASSUME NEW name
                 PROVE  Count(devlist', name) = Cardinality(Same(name)) + (IF name = b[1] THEN 1 ELSE 0)
    OBVIOUS
  <2>2. Count(devlist', name) = Cardinality({i \in DOMAIN devlist' : devlist'[i].name = name})
    BY DEF Count
  <2>3. n + 1 \notin Same(name)
    BY <1>1
  <2>4. Cardinality(Same(name) \cup {n + 1}) = Cardinality(Same(name)) + 1
    <3>1. IsFiniteSet(Same(name))
      BY <1>3
    <3> HIDE DEF Same
    <3> QED BY <2>3, <3>1, FS_AddElement
  <2>5. Cardinality(Same(name)) \in Nat
    BY <1>3
  <2> HIDE DEF Same
  <2>6. {i \in DOMAIN devlist' : devlist'[i].name = name}
          = IF name = b[1] THEN Same(name) \cup {n + 1} ELSE Same(name)
    BY <1>9
  <2>7. CASE name = b[1]
    BY <2>2, <2>4, <2>6, <2>7
  <2>8. CASE name # b[1]
    <3>1. Count(devlist', name) = Cardinality(Same(name))
      BY <2>2, <2>6, <2>8, Zenon
    <3> QED BY <2>5, <2>8, <3>1
  <2> QED BY <2>7, <2>8
<1>11. \A i \in 1 .. n : devlist[i].instno < Cardinality(Same(devlist[i].name))
  BY <1>1 DEF TablesOK, Count
<1>12. \A i \in 1 .. n : devlist[i].instno \in Nat
  <2>1. \A i \in 1 .. n : devlist[i] \in Device
    BY <1>1, ElementOfSeq
  <2> QED BY <2>1 DEF Device
<1> HIDE DEF Same
<1>13. \A i \in DOMAIN devlist' : devlist'[i].instno < Count(devlist', devlist'[i].name)
  <2>1. SUFFICES ASSUME NEW i \in 1 .. n + 1
                 PROVE  devlist'[i].instno < Count(devlist', devlist'[i].name)
    BY <1>7
  <2>2. CASE i = n + 1
    <3>1. Count(devlist', b[1]) = Cardinality(Same(b[1])) + 1
      BY <1>10, Zenon
    <3>2. devlist'[i].instno = Cardinality(Same(b[1])) /\ devlist'[i].name = b[1]
      BY <2>2, <1>7, <1>8
    <3>3. Cardinality(Same(b[1])) \in Nat
      BY <1>3
    <3> QED BY <3>1, <3>2, <3>3
  <2>3. CASE i # n + 1
    <3>1. i \in 1 .. n
      BY <2>3, <1>1
    <3> DEFINE x == devlist[i].name
    <3>2. devlist'[i] = devlist[i] /\ devlist[i].instno < Cardinality(Same(x))
          /\ devlist[i].instno \in Nat
      BY <3>1, <1>7, <1>11, <1>12
    <3>3. Count(devlist', x) = Cardinality(Same(x)) + (IF x = b[1] THEN 1 ELSE 0) /\ Cardinality(Same(x)) \in Nat
      BY <1>10, <1>3, Zenon
    <3>4. devlist'[i].name = x
      BY <3>2
    <3> HIDE DEF x
    <3> QED BY <3>2, <3>3, <3>4
  <2> QED BY <2>2, <2>3
<1>21. ASSUME NEW name \in STRING, NEW k \in 0 .. Count(devlist', name) - 1
       PROVE  \E j \in DOMAIN devlist' : devlist'[j].name = name /\ devlist'[j].instno = k
  <2> DEFINE c  == Count(devlist, name)
             cc == Count(devlist', name)
  <2>1. cc = Cardinality(Same(name)) + (IF name = b[1] THEN 1 ELSE 0)
    BY <1>10, Zenon
  <2>2. c = Cardinality(Same(name))
    BY DEF Count, Same
  <2>3. c \in Nat
    BY <1>3, <2>2
  <2>4. k \in 0 .. cc - 1
    OBVIOUS
  <2> HIDE DEF c, cc
  <2>5. name # b[1] => cc = c
    <3>1. ASSUME name # b[1]
          PROVE  cc = c + 0
      BY <2>1, <2>2, <3>1, Zenon
    <3>2. c + 0 = c
      BY <2>3
    <3> QED BY <3>1, <3>2, Zenon
  <2>6. cc = c \/ cc = c + 1
    <3>1. CASE name = b[1]
      BY <2>1, <2>2, <2>3, <3>1
    <3>2. CASE name # b[1]
      BY <2>5, <3>2, Zenon
    <3> QED BY <3>1, <3>2
  <2>7. k \in 0 .. c - 1 \/ (k = c /\ cc = c + 1)
    BY <2>3, <2>4, <2>6, BelowGrown, Zenon
  <2>8. cc = c + 1 => name = b[1]
    <3>1. c # c + 1
      BY <2>3
    <3> QED BY <2>5, <3>1, Zenon
  <2>9. CASE k \in 0 .. c - 1
    <3>1. k \in 0 .. Count(devlist, name) - 1
      BY <2>9 DEF c
    <3>2. PICK j \in DOMAIN devlist : devlist[j].name = name /\ devlist[j].instno = k
      BY <3>1 DEF TablesOK
    <3> QED BY <1>1, <1>7, <3>2
  <2>10. CASE k = c /\ cc = c + 1
    <3>1. name = b[1] /\ k = c
      BY <2>10, <2>8, Zenon
    <3>2. devlist'[n + 1].name = name /\ devlist'[n + 1].instno = k /\ n + 1 \in DOMAIN devlist'
      BY <1>1, <1>7, <1>8, <2>2, <3>1
    <3> QED BY <3>2
  <2> QED BY <2>9, <2>10, <2>7, Zenon
<1>14. \A i \in 1 .. n : devlist[i].name = r.name => devlist[i].instno # r.instno
  BY <1>8, <1>11, <1>12, <1>3
<1>15. \A i, j \in 1 .. n :
         devlist[i].name = devlist[j].name /\ devlist[i].instno = devlist[j].instno => i = j
  BY <1>1 DEF TablesOK
<1>16. \A i, j \in DOMAIN devlist' :
         devlist'[i].name = devlist'[j].name /\ devlist'[i].instno = devlist'[j].instno => i = j
  BY <1>1, <1>7, <1>14, <1>15
<1>17. mplist' = mplist /\ mplist \in Seq(STRING \X {"devfs", "nullfs"})
       /\ \A i, j \in DOMAIN mplist : mplist[i][1] = mplist[j][1] => i = j
  BY <1>6 DEF TablesOK
<1>18. n + 1 <= Len(Boot)
  BY <1>1, DevSizes
<1>19. devlist' \in Seq(Device) /\ Len(devlist') <= Len(Boot)
  BY <1>7, <1>18
<1>20. TablesOK'
  BY <1>13, <1>16, <1>17, <1>19, <1>21, Zenon DEF TablesOK
<1> QED BY <1>1, <1>6, <1>7, <1>20

LEMMA MountStep ==
  ASSUME TablesOK, AttachFilesystem
  PROVE  TablesOK' /\ UNCHANGED <<devlist, opened, uio, disk, last>>
<1>1. PICK mp \in Range(Mounts) :
        /\ \A i \in DOMAIN mplist : mplist[i][1] # mp[1]
        /\ mplist' = Append(mplist, mp)
        /\ UNCHANGED <<devlist, opened, uio, disk, last>>
  BY DEF AttachFilesystem
<1> DEFINE P == STRING \X {"devfs", "nullfs"}
           n == Len(mplist)
<1>2. Mounts \in Seq(P)
  BY DevicesAssumption
<1>3. mp \in P
  BY <1>2, ElementOfSeq, LenProperties DEF Range
<1>4. mplist \in Seq(P) /\ n \in Nat /\ DOMAIN mplist = 1 .. n
  BY LenProperties DEF TablesOK
<1> HIDE DEF P
<1>5. /\ mplist' \in Seq(P) /\ DOMAIN mplist' = 1 .. n + 1
      /\ \A i \in 1 .. n : mplist'[i] = mplist[i]
      /\ mplist'[n + 1] = mp
  BY <1>1, <1>3, <1>4, AppendProperties, LenProperties
<1>6. \A i, j \in 1 .. n : mplist[i][1] = mplist[j][1] => i = j
  BY <1>4 DEF TablesOK
<1>7. \A i \in 1 .. n : mplist[i][1] # mp[1]
  BY <1>1, <1>4
<1>8. \A i, j \in DOMAIN mplist' : mplist'[i][1] = mplist'[j][1] => i = j
  BY <1>4, <1>5, <1>6, <1>7
<1>9. devlist' = devlist /\ UNCHANGED <<devlist, opened, uio, disk, last>>
  BY <1>1
<1> QED BY <1>5, <1>8, <1>9 DEF TablesOK, P

----------------------------------------------------------------------------
(* Opening, listing and closing.                                           *)


LEMMA TablesFrame ==
  ASSUME TablesOK, UNCHANGED tables
  PROVE  TablesOK'
<1>1. devlist' = devlist /\ mplist' = mplist
  BY DEF tables
<1> QED BY <1>1 DEF TablesOK

(* A handle that is given another device, or none.                         *)
LEMMA HandleSet ==
  ASSUME HandlesOK, NEW h \in Handle, NEW v, uio' = [uio EXCEPT ![h] = v],
         v \in [kind : {"closed", "serial", "storage", "devices", "mounts"},
                at : Nat, pos : Nat, buffer : {<<>>} \cup Bounce],
         v.kind = "storage" => v.buffer \in Bounce,
         v.kind # "storage" => v.pos = 0,
         PastEnd \/ v.pos <= capacity
  PROVE  /\ HandlesOK'
         /\ uio'[h] = v
         /\ \A g \in Handle \ {h} : uio'[g] = uio[g]
BY DEF HandlesOK

(* Opening a device that is closed through a closed handle.                *)
LEMMA OpenDevice ==
  ASSUME OpenOK, HandlesOK, NEW h \in Handle, NEW d \in DOMAIN devlist, uio[h] = Closed,
         d \notin opened, opened' = opened \cup {d}, HandlesOK',
         uio'[h].kind \in {"serial", "storage"}, uio'[h].at = d,
         \A g \in Handle \ {h} : uio'[g] = uio[g], devlist' = devlist
  PROVE  OpenOK'
<1>1. opened' \subseteq DOMAIN devlist'
  BY DEF OpenOK
<1>2. uio[h].kind \notin {"serial", "storage"}
  BY DEF Closed
<1>3. \A g \in Handle : uio'[g].kind \in {"serial", "storage"} => uio'[g].at \in opened'
  BY DEF OpenOK
<1>4. \A g \in Handle \ {h} : uio'[g].kind \in {"serial", "storage"} => uio'[g].at # d
  BY DEF OpenOK
<1>5. \A g, k \in Handle :
       /\ uio'[g].kind \in {"serial", "storage"} /\ uio'[k].kind \in {"serial", "storage"}
       /\ uio'[g].at = uio'[k].at
       => g = k
  BY <1>4 DEF OpenOK
<1>6. \A e \in opened' : On(e)' # {}
  <2>1. SUFFICES ASSUME NEW e \in opened'
                 PROVE  On(e)' # {}
    OBVIOUS
  <2>2. CASE e = d
    BY <2>2 DEF On
  <2>3. CASE e # d
    <3>1. PICK g \in On(e) : TRUE
      BY <2>3 DEF OpenOK
    <3>2. g \in Handle \ {h}
      BY <3>1, <1>2 DEF On
    <3> QED BY <3>1, <3>2 DEF On
  <2> QED BY <2>2, <2>3
<1> QED BY <1>1, <1>3, <1>5, <1>6 DEF OpenOK

(* Closing the handle that leads to a device.                              *)
LEMMA CloseDevice ==
  ASSUME OpenOK, HandlesOK, NEW h \in Handle, uio[h].kind \in {"serial", "storage"},
         opened' = opened \ {uio[h].at}, uio'[h] = Closed,
         \A g \in Handle \ {h} : uio'[g] = uio[g], devlist' = devlist
  PROVE  OpenOK'
<1>1. opened' \subseteq DOMAIN devlist'
  BY DEF OpenOK
<1>2. uio'[h].kind \notin {"serial", "storage"}
  BY DEF Closed
<1>3. \A g \in Handle : uio'[g].kind \in {"serial", "storage"} => uio'[g].at \in opened'
  BY <1>2 DEF OpenOK
<1>5. \A g, k \in Handle :
       /\ uio'[g].kind \in {"serial", "storage"} /\ uio'[k].kind \in {"serial", "storage"}
       /\ uio'[g].at = uio'[k].at
       => g = k
  BY <1>2 DEF OpenOK
<1>6. \A e \in opened' : On(e)' # {}
  <2>1. SUFFICES ASSUME NEW e \in opened'
                 PROVE  On(e)' # {}
    OBVIOUS
  <2>2. PICK g \in On(e) : TRUE
    BY DEF OpenOK
  <2>3. g \in Handle \ {h}
    BY <2>2 DEF On
  <2> QED BY <2>2, <2>3 DEF On
<1> QED BY <1>1, <1>3, <1>5, <1>6 DEF OpenOK

(* A change that leaves all handles where they are.                        *)
LEMMA OpenFrame ==
  ASSUME OpenOK, UNCHANGED opened, DOMAIN devlist \subseteq DOMAIN devlist',
         \A g \in Handle : uio'[g].kind = uio[g].kind /\ uio'[g].at = uio[g].at
  PROVE  OpenOK'
<1>1. \A d : On(d)' = On(d)
  BY DEF On
<1> QED BY <1>1 DEF OpenOK

(* A change of a handle that leads to no device before and after.          *)
LEMMA OpenListed ==
  ASSUME OpenOK, UNCHANGED <<opened, devlist>>, NEW h \in Handle,
         uio[h].kind \notin {"serial", "storage"}, uio'[h].kind \notin {"serial", "storage"},
         \A g \in Handle \ {h} : uio'[g] = uio[g]
  PROVE  OpenOK'
<1>1. \A d : On(d)' = On(d)
  BY DEF On
<1> QED BY <1>1 DEF OpenOK

(* What a handle has before a call.                                        *)
LEMMA HandleFacts ==
  ASSUME HandlesOK, NEW h \in Handle
  PROVE  /\ uio[h] \in [kind : {"closed", "serial", "storage", "devices", "mounts"},
                        at : Nat, pos : Nat, buffer : {<<>>} \cup Bounce]
         /\ uio[h].at \in Nat /\ uio[h].pos \in Nat
         /\ uio[h].buffer \in {<<>>} \cup Bounce
         /\ uio[h].kind = "storage" => uio[h].buffer \in Bounce
         /\ uio[h].kind # "storage" => uio[h].pos = 0
         /\ PastEnd \/ uio[h].pos <= capacity
BY DEF HandlesOK

LEMMA ClosedOK ==
  /\ Closed \in [kind : {"closed", "serial", "storage", "devices", "mounts"},
                 at : Nat, pos : Nat, buffer : {<<>>} \cup Bounce]
  /\ Closed.kind = "closed" /\ Closed.pos = 0 /\ 0 <= capacity
BY DevSizes DEF Closed

LEMMA ClosedWith ==
  ASSUME NEW kind, NEW at
  PROVE  [Closed EXCEPT !.kind = kind, !.at = at]
           = [kind |-> kind, at |-> at, pos |-> 0, buffer |-> <<>>]
<1> DEFINE e == [Closed EXCEPT !.kind = kind]
<1>1. e = [kind |-> kind, at |-> 0, pos |-> 0, buffer |-> <<>>]
  BY DEF Closed
<1> HIDE DEF e
<1>2. [e EXCEPT !.at = at] = [kind |-> kind, at |-> at, pos |-> 0, buffer |-> <<>>]
  BY <1>1
<1> QED BY <1>2 DEF e

LEMMA OpenFileStep ==
  ASSUME DevInv, NEW h \in Handle, NEW mp, NEW name, NEW i, OpenFile(h, mp, name, i)
  PROVE  DevInv' /\ UNCHANGED disk /\ last' = <<>> /\ \A g \in Handle : uio'[g].pos = uio[g].pos
<1>1. PICK d \in Found(name, i) : serial_open_uio(h, d) \/ storage_open_uio(h, d)
  BY DEF OpenFile
<1>2. d \in DOMAIN devlist /\ DOMAIN devlist \subseteq Nat
  BY <1>1, LenProperties DEF Found, DevInv, TablesOK
<1>3. uio[h] = Closed /\ UNCHANGED <<tables, disk>> /\ last' = <<>>
  BY DEF OpenFile
<1>4. /\ d \notin opened /\ opened' = opened \cup {d}
      /\ \E v :
           /\ uio' = [uio EXCEPT ![h] = v] /\ v.at = d
           /\ v.kind \in {"serial", "storage"} /\ v.pos = 0
           /\ v \in [kind : {"closed", "serial", "storage", "devices", "mounts"},
                     at : Nat, pos : Nat, buffer : {<<>>} \cup Bounce]
           /\ v.kind = "storage" => v.buffer \in Bounce
  <2>1. CASE serial_open_uio(h, d)
    <3>1. d \notin opened /\ opened' = opened \cup {d}
      BY <2>1 DEF serial_open_uio, serial_open, MayOpen
    <3> DEFINE v == [Closed EXCEPT !.kind = "serial", !.at = d]
    <3>2. uio' = [uio EXCEPT ![h] = v]
      BY <2>1 DEF serial_open_uio
    <3>3. v = [kind |-> "serial", at |-> d, pos |-> 0, buffer |-> <<>>]
      BY ClosedWith
    <3> HIDE DEF v
    <3>4. /\ v.at = d /\ v.kind \in {"serial", "storage"} /\ v.pos = 0
          /\ v \in [kind : {"closed", "serial", "storage", "devices", "mounts"},
                    at : Nat, pos : Nat, buffer : {<<>>} \cup Bounce]
          /\ v.kind = "storage" => v.buffer \in Bounce
      BY <1>2, <3>3
    <3> QED BY <3>1, <3>2, <3>4
  <2>2. CASE storage_open_uio(h, d)
    <3>1. d \notin opened /\ opened' = opened \cup {d}
      BY <2>2 DEF storage_open_uio, storage_open, MayOpen
    <3> DEFINE b == [j \in 0 .. BLK - 1 |-> CHOOSE x \in Byte : TRUE]
               v == [kind |-> "storage", at |-> d, pos |-> 0, buffer |-> b]
    <3>2. uio' = [uio EXCEPT ![h] = v]
      BY <2>2 DEF storage_open_uio
    <3>3. b \in Bounce
      BY DevSizes DEF Bounce
    <3> HIDE DEF b
    <3>4. /\ v.at = d /\ v.kind \in {"serial", "storage"} /\ v.pos = 0
          /\ v \in [kind : {"closed", "serial", "storage", "devices", "mounts"},
                    at : Nat, pos : Nat, buffer : {<<>>} \cup Bounce]
          /\ v.kind = "storage" => v.buffer \in Bounce
      BY <1>2, <3>3
    <3> HIDE DEF v
    <3> QED BY <3>1, <3>2, <3>4
  <2> QED BY <1>1, <2>1, <2>2
<1>5. PICK v : /\ uio' = [uio EXCEPT ![h] = v] /\ v.at = d
               /\ v.kind \in {"serial", "storage"} /\ v.pos = 0
               /\ v \in [kind : {"closed", "serial", "storage", "devices", "mounts"},
                         at : Nat, pos : Nat, buffer : {<<>>} \cup Bounce]
               /\ v.kind = "storage" => v.buffer \in Bounce
  BY <1>4, Zenon
<1>6. PastEnd \/ v.pos <= capacity
  BY <1>5, DevSizes
<1>7. HandlesOK' /\ uio'[h] = v /\ \A g \in Handle \ {h} : uio'[g] = uio[g]
  BY <1>5, <1>6, HandleSet DEF DevInv
<1>8. OpenOK'
  BY <1>2, <1>3, <1>4, <1>5, <1>7, OpenDevice DEF DevInv, tables
<1>9. \A g \in Handle : uio'[g].pos = uio[g].pos
  BY <1>3, <1>5, <1>7 DEF Closed
<1> QED BY <1>3, <1>7, <1>8, <1>9, TablesFrame DEF DevInv

LEMMA ListingStep ==
  ASSUME DevInv, NEW h \in Handle, NEW kind \in {"devices", "mounts"}, NEW list,
         Listing(h, kind, list)
  PROVE  DevInv' /\ UNCHANGED disk /\ last' = <<>> /\ \A g \in Handle : uio'[g].pos = uio[g].pos
<1> DEFINE v == [Closed EXCEPT !.kind = kind, !.at = IF list = <<>> THEN 0 ELSE 1]
<1>1. /\ uio[h] = Closed /\ uio' = [uio EXCEPT ![h] = v]
      /\ last' = <<>> /\ UNCHANGED <<tables, opened, disk>>
  BY DEF Listing
<1>2. v = [kind |-> kind, at |-> IF list = <<>> THEN 0 ELSE 1, pos |-> 0, buffer |-> <<>>]
  BY ClosedWith
<1> HIDE DEF v
<1>3. /\ v \in [kind : {"closed", "serial", "storage", "devices", "mounts"},
                at : Nat, pos : Nat, buffer : {<<>>} \cup Bounce]
      /\ v.kind \in {"devices", "mounts"} /\ v.pos = 0 /\ (PastEnd \/ v.pos <= capacity)
  BY <1>2, DevSizes
<1>4. HandlesOK' /\ uio'[h] = v /\ \A g \in Handle \ {h} : uio'[g] = uio[g]
  <2>1. v.kind # "storage"
    BY <1>3
  <2> QED BY <1>1, <1>3, <2>1, HandleSet DEF DevInv
<1>5. uio[h].kind = "closed" /\ uio[h].pos = 0
  BY <1>1, ClosedOK
<1>6. OpenOK'
  <2>1. uio[h].kind \notin {"serial", "storage"} /\ uio'[h].kind \notin {"serial", "storage"}
    BY <1>3, <1>4, <1>5
  <2> QED BY <1>1, <1>4, <2>1, OpenListed DEF DevInv, tables
<1>7. \A g \in Handle : uio'[g].pos = uio[g].pos
  BY <1>3, <1>4, <1>5
<1> QED BY <1>1, <1>4, <1>6, <1>7, TablesFrame DEF DevInv

LEMMA NextNameStep ==
  ASSUME DevInv, NEW h \in Handle, NEW kind \in {"devices", "mounts"}, NEW list, list \in {devlist, mplist},
         NextName(h, kind, list)
  PROVE  DevInv' /\ UNCHANGED disk /\ last' = <<>> /\ \A g \in Handle : uio'[g].pos = uio[g].pos
<1> DEFINE a == IF uio[h].at < Len(list) THEN uio[h].at + 1 ELSE 0
<1>1. /\ uio[h].kind = kind /\ uio' = [uio EXCEPT ![h].at = a]
      /\ last' = <<>> /\ UNCHANGED <<tables, opened, disk>>
  BY DEF NextName
<1>2. uio[h].at \in Nat /\ HandlesOK
  BY HandleFacts DEF DevInv
<1>3. a \in Nat
  BY <1>2
<1> HIDE DEF a
<1>4. HandlesOK'
  BY <1>1, <1>2, <1>3 DEF HandlesOK
<1>5. /\ uio'[h].kind = kind /\ uio'[h].pos = uio[h].pos
      /\ \A g \in Handle \ {h} : uio'[g] = uio[g]
  BY <1>1, <1>2 DEF HandlesOK
<1>6. OpenOK'
  BY <1>1, <1>5, OpenListed DEF DevInv, tables
<1> QED BY <1>1, <1>4, <1>5, <1>6, TablesFrame DEF DevInv

LEMMA DevCloseStep ==
  ASSUME DevInv, NEW h \in Handle, Freed(h),
         \/ uio[h].kind \in {"serial", "storage"} /\ opened' = opened \ {uio[h].at}
         \/ uio[h].kind \in {"devices", "mounts"} /\ UNCHANGED opened
  PROVE  /\ DevInv' /\ UNCHANGED disk /\ last' = <<>>
         /\ uio'[h].pos = 0 /\ \A g \in Handle \ {h} : uio'[g] = uio[g]
<1>1. uio' = [uio EXCEPT ![h] = Closed] /\ last' = <<>> /\ UNCHANGED <<tables, disk>>
  BY DEF Freed
<1>2. HandlesOK' /\ uio'[h] = Closed /\ \A g \in Handle \ {h} : uio'[g] = uio[g]
  BY <1>1, ClosedOK, HandleSet DEF DevInv
<1>3. OpenOK'
  <2>1. CASE uio[h].kind \in {"serial", "storage"} /\ opened' = opened \ {uio[h].at}
    BY <1>1, <1>2, <2>1, CloseDevice DEF DevInv, tables
  <2>2. CASE uio[h].kind \in {"devices", "mounts"} /\ UNCHANGED opened
    BY <1>1, <1>2, <2>2, OpenListed DEF DevInv, tables, Closed
  <2> QED BY <2>1, <2>2
<1> QED BY <1>1, <1>2, <1>3, ClosedOK, TablesFrame DEF DevInv

LEMMA SetPosStep ==
  ASSUME DevInv, NEW h \in Handle, NEW p \in 0 .. capacity, SetPos(h, p)
  PROVE  /\ DevInv' /\ UNCHANGED disk /\ last' = <<>>
         /\ uio'[h].pos = p /\ \A g \in Handle \ {h} : uio'[g] = uio[g]
<1>1. /\ uio[h].kind = "storage" /\ uio' = [uio EXCEPT ![h].pos = p]
      /\ last' = <<>> /\ UNCHANGED <<tables, opened, disk>>
  BY DEF SetPos
<1>2. HandlesOK' /\ \A g \in Handle \ {h} : uio'[g] = uio[g]
  <2> DEFINE Record == [kind : {"closed", "serial", "storage", "devices", "mounts"},
                        at : Nat, pos : Nat, buffer : {<<>>} \cup Bounce]
             v == [uio[h] EXCEPT !.pos = p]
  <2>1. /\ uio[h] \in Record /\ uio[h].buffer \in Bounce /\ DOMAIN uio = Handle
        /\ p \in Nat /\ p <= capacity
    BY <1>1, HandleFacts, DevSizes DEF DevInv, HandlesOK
  <2>2. uio' = [uio EXCEPT ![h] = v]
    BY <1>1, <2>1
  <2>3. v \in Record /\ v.kind = "storage" /\ v.buffer \in Bounce /\ v.pos = p
    BY <1>1, <2>1
  <2> HIDE DEF v
  <2>4. /\ v.kind = "storage" => v.buffer \in Bounce
        /\ v.kind # "storage" => v.pos = 0
        /\ PastEnd \/ v.pos <= capacity
    BY <2>1, <2>3
  <2> QED BY <2>2, <2>3, <2>4, HandleSet DEF DevInv
<1>3. /\ uio'[h].kind = "storage" /\ uio'[h].at = uio[h].at /\ uio'[h].pos = p
  BY <1>1 DEF HandlesOK, DevInv
<1>4. OpenOK'
  BY <1>1, <1>2, <1>3, OpenFrame DEF DevInv, tables
<1> QED BY <1>1, <1>2, <1>3, <1>4, TablesFrame DEF DevInv

----------------------------------------------------------------------------
(* Blocks and bytes.                                                       *)

LEMMA DevDivision ==
  ASSUME NEW a \in Nat, NEW b \in Nat \ {0}
  PROVE  /\ a \div b \in Nat /\ a % b \in 0 .. b - 1
         /\ a = b * (a \div b) + (a % b)
<1>1. a \div b \in Nat /\ a % b \in 0 .. b - 1
  OBVIOUS
<1>2. a % b = a - b * (a \div b)
  BY Z3
<1> QED BY <1>1, <1>2

LEMMA WholeBlocks ==
  ASSUME NEW n \in Nat
  PROVE  /\ Down(n) \in Nat /\ Down(n) <= n /\ n = Down(n) + (n % BLK)
         /\ n % BLK \in 0 .. BLK - 1 /\ Down(n) % BLK = 0
<1> DEFINE q == n \div BLK
           r == n % BLK
<1>1. BLK \in Nat \ {0}
  BY DevSizes
<1>2. q \in Nat /\ r \in 0 .. BLK - 1 /\ n = BLK * q + r
  BY <1>1, DevDivision
<1>3. Down(n) = q * BLK
  BY DEF Down
<1> HIDE DEF q, r
<1>4. q * BLK = BLK * q /\ BLK * q \in Nat
  BY <1>1, <1>2
<1>5. (BLK * q + 0) % BLK = 0
  BY <1>1, <1>2
<1>6. BLK * q + 0 = q * BLK
  BY <1>4
<1>7. (q * BLK) % BLK = 0
  BY <1>5, <1>6, Zenon
<1>8. Down(n) % BLK = 0
  BY <1>3, <1>7, Zenon
<1> QED BY <1>1, <1>2, <1>3, <1>4, <1>8 DEF r

(* Before the end of the device there are whole blocks only.               *)
LEMMA BlockInside ==
  ASSUME NEW n \in Nat, n < capacity
  PROVE  Down(n) + BLK <= capacity
<1> DEFINE q == n \div BLK
           c == capacity \div BLK
<1>1. BLK \in Nat \ {0} /\ capacity \in Nat /\ capacity % BLK = 0
  BY DevSizes
<1> DEFINE r == n % BLK
<1>2. /\ q \in Nat /\ n = BLK * q + r /\ r \in 0 .. BLK - 1 /\ c \in Nat
  BY <1>1, DevDivision
<1>8. capacity = BLK * c + 0
  <2>1. /\ capacity \div BLK \in Nat /\ capacity % BLK \in 0 .. BLK - 1
        /\ capacity = BLK * (capacity \div BLK) + (capacity % BLK)
    BY <1>1, DevDivision, Zenon
  <2> QED BY <1>1, <2>1, Zenon
<1>3. Down(n) = q * BLK
  BY DEF Down
<1> HIDE DEF q, c, r
<1>9. BLK * c \in Nat /\ BLK * q \in Nat
  BY <1>1, <1>2
<1>10. capacity = BLK * c
  BY <1>1, <1>8, <1>9
<1>4. ASSUME c <= q PROVE FALSE
  <2>1. BLK * c <= BLK * q
    BY <1>1, <1>2, <1>4
  <2> QED BY <1>1, <1>2, <1>9, <1>10, <2>1
<1>5. q + 1 <= c
  BY <1>2, <1>4
<1>6. BLK * (q + 1) <= BLK * c /\ BLK * (q + 1) = BLK * q + BLK /\ q * BLK = BLK * q
  BY <1>1, <1>2, <1>5
<1> QED BY <1>3, <1>6, <1>9, <1>10

(* A position is in its block.                                             *)
LEMMA InBlock ==
  ASSUME NEW p \in Nat
  PROVE  /\ Down(p) \in Nat /\ p % BLK \in 0 .. BLK - 1 /\ p = Down(p) + (p % BLK)
         /\ p < capacity => Moved(Down(p), BLK) = BLK /\ Down(p) + BLK <= capacity
         /\ p % BLK # 0 /\ p <= capacity => p < capacity
         /\ \A fails \in BOOLEAN :
              /\ (storage_fetch(Down(p), BLK, fails) < 0) <=> fails
              /\ (storage_store(Down(p), BLK, fails) < 0) <=> fails
<1>1. BLK \in Nat \ {0} /\ capacity \in Nat /\ capacity % BLK = 0
  BY DevSizes
<1>2. /\ Down(p) \in Nat /\ Down(p) <= p /\ p = Down(p) + (p % BLK)
      /\ p % BLK \in 0 .. BLK - 1 /\ Down(p) % BLK = 0
  BY WholeBlocks
<1>3. p < capacity => Down(p) + BLK <= capacity
  BY BlockInside
<1>4. p % BLK # 0 => p # capacity
  BY <1>1
<1> DEFINE b == Down(p)
           o == p % BLK
<1> HIDE DEF b, o
<1>5. p < capacity => Moved(b, BLK) = BLK
  <2>1. b \in Nat /\ (p < capacity => b + BLK <= capacity)
    BY <1>2, <1>3 DEF b
  <2> QED BY <1>1, <2>1 DEF Moved, Smaller
<1>6. Moved(b, BLK) \in Nat
  <2>1. b \in Nat
    BY <1>2 DEF b
  <2> QED BY <1>1, <2>1 DEF Moved, Smaller
<1>7. \A fails \in BOOLEAN :
              /\ (storage_fetch(b, BLK, fails) < 0) <=> fails
              /\ (storage_store(b, BLK, fails) < 0) <=> fails
  <2>1. b % BLK = 0 /\ ~(BLK < BLK)
    BY <1>1, <1>2 DEF b
  <2> QED BY <1>6, <2>1 DEF storage_fetch, storage_store
<1> QED BY <1>1, <1>2, <1>3, <1>4, <1>5, <1>7 DEF b

(* The k bytes of d from p on.                                             *)
Slice(d, p, k) == [i \in 1 .. k |-> d[p + i - 1]]

LEMMA SliceTyped ==
  ASSUME NEW d \in Image, NEW p \in Nat, NEW k \in Nat, k = 0 \/ p + k <= capacity
  PROVE  Slice(d, p, k) \in Seq(Byte) /\ Len(Slice(d, p, k)) = k
<1>1. \A i \in 1 .. k : p + i - 1 \in 0 .. capacity - 1
  BY DevSizes
<1>2. Slice(d, p, k) \in [1 .. k -> Byte]
  BY <1>1 DEF Slice, Image
<1> QED BY <1>2, SeqDef, LenProperties

LEMMA SlicesJoin ==
  ASSUME NEW d \in Image, NEW p \in Nat, NEW k \in Nat, NEW m \in Nat, p + k + m <= capacity
  PROVE  Slice(d, p, k) \o Slice(d, p + k, m) = Slice(d, p, k + m)
<1> DEFINE s == Slice(d, p, k)
           u == Slice(d, p + k, m)
           w == Slice(d, p, k + m)
<1>1. s \in Seq(Byte) /\ Len(s) = k /\ u \in Seq(Byte) /\ Len(u) = m
      /\ w \in Seq(Byte) /\ Len(w) = k + m
  <2>1. p + k \in Nat /\ k + m \in Nat /\ p + k <= capacity /\ p + (k + m) <= capacity
    BY DevSizes
  <2>2. s \in Seq(Byte) /\ Len(s) = k
    BY <2>1, SliceTyped
  <2>3. u \in Seq(Byte) /\ Len(u) = m
    BY <2>1, SliceTyped
  <2>4. w \in Seq(Byte) /\ Len(w) = k + m
    BY <2>1, SliceTyped
  <2> QED BY <2>2, <2>3, <2>4
<1>2. \A i \in 1 .. k + m : w[i] = IF i <= k THEN s[i] ELSE u[i - k]
  BY DEF Slice
<1> HIDE DEF s, u, w
<1>3. s \o u \in Seq(Byte) /\ Len(s \o u) = k + m
      /\ \A i \in 1 .. k + m : (s \o u)[i] = IF i <= k THEN s[i] ELSE u[i - k]
  BY <1>1, ConcatProperties
<1>4. \A i \in 1 .. k + m : (s \o u)[i] = w[i]
  BY <1>2, <1>3
<1>5. s \o u = w
  BY <1>1, <1>3, <1>4, SeqEqual
<1> QED BY <1>5 DEF s, u, w
----------------------------------------------------------------------------
(* A call in progress.                                                     *)
CallState == [pos : Nat, buffer : Bounce, disk : Image, read : Seq(Byte), left : Nat,
         data : Seq(Byte), ends : BOOLEAN, fault : Fault]

LEMMA CallFields ==
  ASSUME NEW st \in CallState
  PROVE  /\ st.pos \in Nat /\ st.buffer \in Bounce /\ st.disk \in Image /\ st.read \in Seq(Byte)
         /\ st.left \in Nat /\ st.data \in Seq(Byte) /\ st.ends \in BOOLEAN /\ st.fault \in Fault
BY DEF CallState

LEMMA CallEnds ==
  ASSUME NEW st \in CallState
  PROVE  LET e == [st EXCEPT !.ends = TRUE]
         IN /\ e \in CallState /\ e.ends = TRUE
            /\ e.pos = st.pos /\ e.disk = st.disk /\ e.read = st.read /\ e.left = st.left
            /\ e.data = st.data /\ e.buffer = st.buffer
BY DEF CallState

(* The state behind s, of which k are the bytes that were asked for.       *)
Buffers(st, b, k, s) == [st EXCEPT !.buffer = b, !.pos = @ + k, !.left = @ - k, !.read = @ \o s]
Moves(st, k, e, s) == [st EXCEPT !.pos = @ + k, !.left = @ - k, !.ends = e, !.read = @ \o s]

LEMMA CallBuffered ==
  ASSUME NEW st \in CallState, NEW k \in 0 .. st.left, NEW s \in Seq(Byte), NEW b \in Bounce
  PROVE  LET r == Buffers(st, b, k, s) IN
         /\ r \in CallState /\ r.disk = st.disk /\ r.pos = st.pos + k /\ r.left = st.left - k
         /\ r.read = st.read \o s
<1>1. st.read \o s \in Seq(Byte)
  BY CallFields, ConcatProperties
<1>2. st.pos + k \in Nat /\ st.left - k \in Nat
  BY CallFields
<1> QED BY <1>1, <1>2 DEF CallState, Buffers

LEMMA CallMoved ==
  ASSUME NEW st \in CallState, NEW k \in 0 .. st.left, NEW s \in Seq(Byte), NEW e \in BOOLEAN
  PROVE  LET r == Moves(st, k, e, s) IN
         /\ r \in CallState /\ r.disk = st.disk /\ r.pos = st.pos + k /\ r.left = st.left - k
         /\ r.read = st.read \o s
<1>1. st.read \o s \in Seq(Byte)
  BY CallFields, ConcatProperties
<1>2. st.pos + k \in Nat /\ st.left - k \in Nat
  BY CallFields
<1> QED BY <1>1, <1>2 DEF CallState, Moves

(* The buffer holds the block of the position.                             *)
LEMMA Bounced ==
  ASSUME NEW st \in CallState
  PROVE  /\ Buffered(st) \in Bounce
         /\ st.pos < capacity =>
              \A j \in 0 .. BLK - 1 : Buffered(st)[j] = st.disk[Down(st.pos) + j]
<1> DEFINE b == Down(st.pos)
<1>1. BLK \in Nat \ {0} /\ capacity \in Nat
  BY DevSizes
<1>2. st.pos \in Nat /\ st.disk \in Image /\ st.buffer \in Bounce
  BY CallFields
<1>3. b \in Nat /\ (st.pos < capacity => Moved(b, BLK) = BLK)
  BY <1>2, InBlock
<1>4. Buffered(st) = IF Moved(b, BLK) = BLK
                     THEN [i \in 0 .. BLK - 1 |-> st.disk[b + i]] ELSE st.buffer
  BY DEF Buffered, Block
<1> HIDE DEF b
<1>5. CASE Moved(b, BLK) = BLK
  <2>1. b + BLK <= capacity
    BY <1>1, <1>3, <1>5 DEF Moved, Smaller
  <2>2. \A i \in 0 .. BLK - 1 : st.disk[b + i] \in Byte
    BY <1>1, <1>2, <1>3, <2>1 DEF Image
  <2> QED BY <1>4, <1>5, <2>2 DEF Bounce, b
<1>6. CASE Moved(b, BLK) # BLK
  BY <1>2, <1>3, <1>4, <1>6
<1> QED BY <1>5, <1>6

(* What a part of a read does: some of the bytes that are left.            *)
FetchPart(st, r) ==
  /\ r \in CallState /\ r.disk = st.disk
  /\ \E k \in 0 .. st.left :
       /\ r.pos = st.pos + k /\ r.left = st.left - k
       /\ st.pos + st.left <= capacity => r.read = st.read \o Slice(st.disk, st.pos, k)

LEMMA FetchNothing ==
  ASSUME NEW st \in CallState, NEW r \in CallState, r.disk = st.disk, r.pos = st.pos,
         r.left = st.left, r.read = st.read
  PROVE  FetchPart(st, r)
<1>1. st.pos \in Nat /\ st.left \in Nat /\ st.read \in Seq(Byte) /\ st.disk \in Image
  BY CallFields
<1>2. Slice(st.disk, st.pos, 0) = <<>>
  BY SliceTyped, <1>1, EmptySeq
<1>3. st.read \o Slice(st.disk, st.pos, 0) = st.read
  BY <1>1, <1>2, ConcatEmptySeq
<1>4. 0 \in 0 .. st.left /\ st.pos + 0 = st.pos /\ st.left - 0 = st.left
  BY <1>1
<1> QED BY <1>3, <1>4 DEF FetchPart

LEMMA FetchJoin ==
  ASSUME NEW st \in CallState, NEW r, NEW w, FetchPart(st, r), FetchPart(r, w)
  PROVE  FetchPart(st, w)
<1>1. /\ st.pos \in Nat /\ st.left \in Nat /\ st.read \in Seq(Byte) /\ st.disk \in Image
      /\ r \in CallState /\ r.disk = st.disk /\ w \in CallState /\ w.disk = st.disk
  BY CallFields DEF FetchPart
<1>2. PICK k \in 0 .. st.left :
        /\ r.pos = st.pos + k /\ r.left = st.left - k
        /\ st.pos + st.left <= capacity => r.read = st.read \o Slice(st.disk, st.pos, k)
  BY DEF FetchPart
<1>3. PICK m \in 0 .. r.left :
        /\ w.pos = r.pos + m /\ w.left = r.left - m
        /\ r.pos + r.left <= capacity => w.read = r.read \o Slice(st.disk, r.pos, m)
  BY <1>1 DEF FetchPart
<1>4. /\ k \in Nat /\ m \in Nat /\ k + m \in 0 .. st.left
      /\ w.pos = st.pos + (k + m) /\ w.left = st.left - (k + m)
      /\ r.pos + r.left = st.pos + st.left
  BY <1>1, <1>2, <1>3
<1>5. ASSUME st.pos + st.left <= capacity
      PROVE  w.read = st.read \o Slice(st.disk, st.pos, k + m)
  <2>1. capacity \in Nat
    BY DevSizes
  <2>2. /\ st.pos + k \in Nat /\ st.pos + k + m <= capacity /\ st.pos + k <= capacity
    BY <1>1, <1>2, <1>4, <1>5, <2>1
  <2>3. Slice(st.disk, st.pos, k) \in Seq(Byte)
    BY <1>1, <1>4, <2>2, SliceTyped
  <2>4. Slice(st.disk, st.pos + k, m) \in Seq(Byte)
    BY <1>1, <1>4, <2>2, SliceTyped
  <2>5. Slice(st.disk, st.pos, k) \o Slice(st.disk, st.pos + k, m) = Slice(st.disk, st.pos, k + m)
    <3>1. /\ st.disk \in Image /\ st.pos \in Nat /\ k \in Nat /\ m \in Nat
          /\ st.pos + k + m <= capacity
      BY <1>1, <1>4, <2>2
    <3> QED BY ONLY <3>1, SlicesJoin
  <2>6. w.read = (st.read \o Slice(st.disk, st.pos, k)) \o Slice(st.disk, st.pos + k, m)
    BY <1>2, <1>3, <1>4, <1>5
  <2> DEFINE a == Slice(st.disk, st.pos, k)
             b == Slice(st.disk, st.pos + k, m)
  <2>7. a \in Seq(Byte) /\ b \in Seq(Byte) /\ w.read = (st.read \o a) \o b
    BY <2>3, <2>4, <2>6
  <2>8. a \o b = Slice(st.disk, st.pos, k + m)
    BY <2>5
  <2> HIDE DEF a, b
  <2>9. (st.read \o a) \o b = st.read \o (a \o b)
    <3> DEFINE c == st.read
    <3>1. c \in Seq(Byte) /\ a \in Seq(Byte) /\ b \in Seq(Byte)
      BY <1>1, <2>7
    <3> HIDE DEF c
    <3>2. (c \o a) \o b = c \o (a \o b)
      BY <3>1, ConcatAssociative
    <3> QED BY <3>2 DEF c
  <2> QED BY <2>7, <2>8, <2>9
<1> QED BY <1>1, <1>4, <1>5 DEF FetchPart

LEMMA UnalignedFetch ==
  ASSUME NEW st \in CallState, NEW part
  PROVE  FetchPart(st, unaligned_fetch(st, part))
<1> DEFINE o == st.pos % BLK
           k == Smaller(BLK - o, st.left)
           b == Buffered(st)
           s == [i \in 1 .. k |-> b[o + i - 1]]
           r == [st EXCEPT !.buffer = b, !.pos = @ + k, !.left = @ - k, !.read = @ \o s]
           e == [st EXCEPT !.ends = TRUE]
<1>1. unaligned_fetch(st, part) = e \/ unaligned_fetch(st, part) = r
  BY DEF unaligned_fetch, Offset
<1>2. FetchPart(st, e)
  BY CallEnds, FetchNothing
<1>3. /\ st.pos \in Nat /\ st.left \in Nat /\ st.read \in Seq(Byte) /\ st.disk \in Image
      /\ BLK \in Nat \ {0} /\ capacity \in Nat
  BY CallFields, DevSizes
<1>4. Down(st.pos) \in Nat /\ o \in 0 .. BLK - 1 /\ st.pos = Down(st.pos) + o
  BY <1>3, InBlock
<1>5. /\ b \in Bounce
      /\ st.pos < capacity => \A j \in 0 .. BLK - 1 : b[j] = st.disk[Down(st.pos) + j]
  BY Bounced
<1> HIDE DEF o, b
<1>6. k \in 0 .. st.left /\ o + k <= BLK
  BY <1>3, <1>4 DEF Smaller
<1> HIDE DEF k
<1>7. \A i \in 1 .. k : o + i - 1 \in 0 .. BLK - 1
  BY <1>3, <1>4, <1>6
<1>8. s \in Seq(Byte)
  <2>1. s \in [1 .. k -> Byte]
    BY <1>5, <1>7 DEF Bounce
  <2> QED BY <1>6, <2>1, SeqDef
<1>9. ASSUME st.pos + st.left <= capacity
      PROVE  s = Slice(st.disk, st.pos, k)
  <2>1. ASSUME NEW i \in 1 .. k PROVE b[o + i - 1] = st.disk[st.pos + i - 1]
    <3>1. st.pos < capacity
      BY <1>3, <1>6, <1>9
    <3>2. b[o + i - 1] = st.disk[Down(st.pos) + (o + i - 1)]
      BY <1>5, <1>7, <3>1
    <3>3. Down(st.pos) + (o + i - 1) = st.pos + i - 1
      BY <1>4
    <3> QED BY <3>2, <3>3
  <2> QED BY <2>1 DEF Slice
<1> HIDE DEF s
<1>12. r = Buffers(st, b, k, s)
  BY Zenon DEF Buffers
<1> HIDE DEF r
<1>10. r \in CallState /\ r.disk = st.disk /\ r.pos = st.pos + k /\ r.left = st.left - k
       /\ r.read = st.read \o s
  BY <1>5, <1>6, <1>8, <1>12, CallBuffered
<1>11. FetchPart(st, r)
  BY <1>6, <1>9, <1>10 DEF FetchPart
<1> QED BY <1>1, <1>2, <1>11

LEMMA AlignedFetchPart ==
  ASSUME NEW st \in CallState
  PROVE  FetchPart(st, AlignedFetch(st))
<1> DEFINE n == Down(st.left)
           k == storage_fetch(st.pos, n, st.fault[1] = "body")
           s == [i \in 1 .. k |-> st.disk[st.pos + i - 1]]
           r == [st EXCEPT !.pos = @ + k, !.left = @ - k, !.ends = (k < n), !.read = @ \o s]
           e == [st EXCEPT !.ends = TRUE]
<1>1. AlignedFetch(st) = IF k < 0 THEN e ELSE r
  BY DEF AlignedFetch
<1>2. FetchPart(st, e)
  BY CallEnds, FetchNothing
<1>3. /\ st.pos \in Nat /\ st.left \in Nat /\ st.disk \in Image /\ capacity \in Nat
  BY CallFields, DevSizes
<1>4. n \in Nat /\ n <= st.left
  BY <1>3, WholeBlocks
<1>5. k = -1 \/ k = Moved(st.pos, n)
  BY DEF storage_fetch
<1> HIDE DEF n, k
<1>6. ASSUME ~(k < 0) PROVE FetchPart(st, r)
  <2>1. k \in 0 .. st.left /\ (k = 0 \/ st.pos + k <= capacity)
    BY <1>3, <1>4, <1>5, <1>6 DEF Moved, Smaller
  <2>2. s = Slice(st.disk, st.pos, k)
    BY DEF Slice
  <2> HIDE DEF s
  <2>3. s \in Seq(Byte)
    <3>1. k \in Nat
      BY <1>3, <2>1
    <3> QED BY <1>3, <2>1, <2>2, <3>1, SliceTyped
  <2>4. (k < n) \in BOOLEAN
    OBVIOUS
  <2> DEFINE m == k < n
  <2>6. m \in BOOLEAN /\ r = Moves(st, k, m, s)
    BY <2>4, Zenon DEF Moves
  <2> HIDE DEF r, m
  <2>5. r \in CallState /\ r.disk = st.disk /\ r.pos = st.pos + k /\ r.left = st.left - k
        /\ r.read = st.read \o s
    BY <2>1, <2>3, <2>6, CallMoved
  <2> QED BY <2>1, <2>2, <2>5 DEF FetchPart
<1> HIDE DEF r, e
<1> QED BY <1>1, <1>2, <1>6

(* A read returns bytes of the device in order, from the position on.      *)
LEMMA ReadParts ==
  ASSUME NEW st \in CallState
  PROVE  FetchPart(st, FetchTail(FetchBody(FetchHead(st))))
<1>1. \A x \in CallState : FetchPart(x, x)
  BY FetchNothing
<1>2. \A x \in CallState : FetchPart(x, FetchHead(x))
  BY <1>1, UnalignedFetch DEF FetchHead
<1>3. \A x \in CallState : FetchPart(x, FetchBody(x))
  BY CallEnds, FetchNothing, AlignedFetchPart DEF FetchBody
<1>4. \A x \in CallState : FetchPart(x, FetchTail(x))
  BY <1>1, UnalignedFetch DEF FetchTail
<1>5. \A x, y : FetchPart(x, y) => y \in CallState
  BY DEF FetchPart
<1> DEFINE a == FetchHead(st)
           b == FetchBody(a)
           c == FetchTail(b)
<1>6. FetchPart(st, a) /\ a \in CallState
  BY <1>2, <1>5
<1> HIDE DEF a
<1>7. FetchPart(a, b) /\ b \in CallState
  BY <1>3, <1>5, <1>6
<1> HIDE DEF b
<1>8. FetchPart(b, c)
  BY <1>4, <1>7
<1> HIDE DEF c
<1>9. FetchPart(st, b)
  BY <1>6, <1>7, FetchJoin
<1>10. FetchPart(st, c)
  BY <1>8, <1>9, FetchJoin
<1> QED BY <1>10 DEF a, b, c

LEMMA CallBegun ==
  ASSUME DevInv, NEW h \in Handle, uio[h].kind = "storage", NEW n \in Nat, NEW s \in Seq(Byte),
         NEW fault \in Fault
  PROVE  LET st == Begun(h, n, s, fault)
         IN /\ st \in CallState /\ st.pos = uio[h].pos /\ st.disk = disk /\ st.read = <<>>
            /\ st.left = n /\ st.data = s
<1>1. uio[h].pos \in Nat /\ uio[h].buffer \in Bounce /\ disk \in Image
  BY HandleFacts DEF DevInv
<1>2. <<>> \in Seq(Byte) /\ FALSE \in BOOLEAN
  BY EmptySeq
<1> QED BY <1>1, <1>2 DEF Begun, CallState

LEMMA EndedStep ==
  ASSUME DevInv, NEW h \in Handle, uio[h].kind = "storage", NEW st \in CallState, Ended(h, st),
         PastEnd \/ st.pos <= capacity
  PROVE  /\ DevInv' /\ disk' = st.disk /\ uio'[h].pos = st.pos
         /\ \A g \in Handle \ {h} : uio'[g] = uio[g]
<1> DEFINE p == st.pos
           b == st.buffer
           old == uio[h]
           v == [kind |-> "storage", at |-> old.at, pos |-> p, buffer |-> b]
<1>1. /\ uio' = [uio EXCEPT ![h].pos = p, ![h].buffer = b]
      /\ disk' = st.disk /\ UNCHANGED <<tables, opened>>
  BY DEF Ended
<1>2. p \in Nat /\ b \in Bounce /\ st.disk \in Image /\ (PastEnd \/ p <= capacity)
  BY CallFields
<1>3. /\ old \in [kind : {"closed", "serial", "storage", "devices", "mounts"},
                  at : Nat, pos : Nat, buffer : {<<>>} \cup Bounce]
      /\ old.at \in Nat /\ old.kind = "storage"
      /\ DOMAIN uio = Handle
  BY HandleFacts DEF DevInv, HandlesOK
<1> HIDE DEF p, b
<1>4. uio' = [uio EXCEPT ![h] = [[old EXCEPT !.pos = p] EXCEPT !.buffer = b]]
  BY <1>1, <1>3
<1> HIDE DEF old
<1>5. [[old EXCEPT !.pos = p] EXCEPT !.buffer = b] = v
  <2> DEFINE o == [old EXCEPT !.pos = p]
  <2>1. o = [kind |-> "storage", at |-> old.at, pos |-> p, buffer |-> old.buffer]
    BY <1>3
  <2> HIDE DEF o
  <2>2. [o EXCEPT !.buffer = b] = v
    BY <2>1
  <2> QED BY <2>2 DEF o
<1>6. /\ v \in [kind : {"closed", "serial", "storage", "devices", "mounts"},
                at : Nat, pos : Nat, buffer : {<<>>} \cup Bounce]
      /\ v.kind = "storage" /\ v.buffer = b /\ v.pos = p /\ v.at = old.at
  BY <1>2, <1>3
<1>7. uio' = [uio EXCEPT ![h] = v]
  BY <1>4, <1>5
<1> HIDE DEF v
<1>8. HandlesOK' /\ uio'[h] = v /\ \A g \in Handle \ {h} : uio'[g] = uio[g]
  <2>1. /\ v.kind = "storage" => v.buffer \in Bounce
        /\ v.kind # "storage" => v.pos = 0
        /\ PastEnd \/ v.pos <= capacity
    BY <1>2, <1>6
  <2> QED BY <1>6, <1>7, <2>1, HandleSet DEF DevInv
<1>9. OpenOK'
  <2>1. uio'[h].kind = uio[h].kind /\ uio'[h].at = uio[h].at
    BY <1>3, <1>6, <1>8 DEF old
  <2> QED BY <1>1, <1>8, <2>1, OpenFrame DEF DevInv, tables
<1>10. TablesOK'
  BY <1>1, TablesFrame DEF DevInv
<1> QED BY <1>1, <1>2, <1>6, <1>8, <1>9, <1>10 DEF DevInv, p

(* A read leaves the device as it is and returns its next bytes.           *)
LEMMA ReadStep ==
  ASSUME DevInv, NEW h \in Handle, NEW n \in 0 .. MaxBytes, NEW fault \in Fault,
         storage_uio_read(h, n, fault)
  PROVE  /\ DevInv' /\ UNCHANGED disk
         /\ \A g \in Handle \ {h} : uio'[g] = uio[g]
         /\ \E k \in 0 .. n :
              /\ uio'[h].pos = uio[h].pos + k
              /\ ~PastEnd => uio'[h].pos <= capacity /\ last' = Slice(disk, uio[h].pos, k)
<1> DEFINE a == Begun(h, n, <<>>, fault)
           st == FetchTail(FetchBody(FetchHead(a)))
           p == uio[h].pos
<1>1. /\ uio[h].kind = "storage" /\ (PastEnd \/ p + n <= capacity)
      /\ Ended(h, st) /\ last' = st.read
  BY DEF storage_uio_read
<1>2. n \in Nat /\ capacity \in Nat /\ p \in Nat /\ <<>> \in Seq(Byte)
  BY DevSizes, HandleFacts, EmptySeq DEF DevInv
<1>3. /\ a \in CallState /\ a.pos = p /\ a.disk = disk /\ a.read = <<>> /\ a.left = n
  <2> DEFINE none == <<>>
  <2>1. uio[h].kind = "storage" /\ none \in Seq(Byte) /\ n \in Nat
    BY <1>1, <1>2
  <2>2. none = <<>> /\ a = Begun(h, n, none, fault)
    OBVIOUS
  <2> HIDE DEF a, p, none
  <2>3. /\ a \in CallState /\ a.pos = uio[h].pos /\ a.disk = disk /\ a.read = <<>> /\ a.left = n
    <3>1. LET x == Begun(h, n, none, fault)
          IN /\ x \in CallState /\ x.pos = uio[h].pos /\ x.disk = disk /\ x.read = <<>>
             /\ x.left = n /\ x.data = none
      BY ONLY DevInv, <2>1, CallBegun
    <3> QED BY <2>2, <3>1
  <2> QED BY <2>3 DEF p
<1> HIDE DEF a
<1>4. FetchPart(a, st)
  BY <1>3, ReadParts
<1> HIDE DEF st
<1>5. st \in CallState /\ st.disk = disk
  BY <1>3, <1>4 DEF FetchPart
<1>6. PICK k \in 0 .. n :
        /\ st.pos = p + k
        /\ p + n <= capacity => st.read = <<>> \o Slice(disk, p, k)
  BY <1>3, <1>4 DEF FetchPart
<1>7. ASSUME ~PastEnd
      PROVE  st.pos <= capacity /\ st.read = Slice(disk, p, k)
  <2>1. k \in Nat /\ p + k <= capacity /\ p + n <= capacity
    BY <1>1, <1>2, <1>7
  <2> DEFINE c == Slice(disk, p, k)
  <2>2. c \in Seq(Byte)
    BY <1>2, <2>1, SliceTyped DEF DevInv
  <2>3. st.read = <<>> \o c
    BY <1>6, <2>1
  <2> HIDE DEF c
  <2>4. st.read = c
    BY <2>2, <2>3, ConcatEmptySeq
  <2> QED BY <1>6, <2>1, <2>4 DEF c
<1>8. PastEnd \/ st.pos <= capacity
  BY <1>7
<1>9. DevInv' /\ disk' = disk /\ uio'[h].pos = st.pos
      /\ \A g \in Handle \ {h} : uio'[g] = uio[g]
  BY <1>1, <1>5, <1>8, EndedStep
<1> QED BY <1>1, <1>6, <1>7, <1>9

----------------------------------------------------------------------------
(* Writing.                                                                *)
LEMMA OverlaidTyped ==
  ASSUME NEW d \in Image, NEW p \in Nat, NEW s \in Seq(Byte)
  PROVE  Overlaid(d, p, s) \in Image
<1>1. capacity \in Nat /\ Len(s) \in Nat /\ \A i \in 1 .. Len(s) : s[i] \in Byte
  BY DevSizes, LenProperties, ElementOfSeq
<1>2. ASSUME NEW i \in 0 .. capacity - 1
      PROVE  (IF i - p \in 0 .. Len(s) - 1 THEN s[i - p + 1] ELSE d[i]) \in Byte
  <2>1. d[i] \in Byte
    BY DEF Image
  <2>2. i - p \in 0 .. Len(s) - 1 => i - p + 1 \in 1 .. Len(s)
    BY <1>1
  <2> QED BY <1>1, <2>1, <2>2
<1> QED BY <1>2 DEF Overlaid, Image

LEMMA OverlaidNone ==
  ASSUME NEW d \in Image, NEW p \in Nat
  PROVE  Overlaid(d, p, <<>>) = d
<1>1. \A i \in 0 .. capacity - 1 : ~(i - p \in 0 .. Len(<<>>) - 1)
  <2>1. Len(<<>>) = 0
    BY EmptySeq
  <2> QED BY <2>1
<1>2. Overlaid(d, p, <<>>) = [i \in 0 .. capacity - 1 |-> d[i]]
  BY <1>1 DEF Overlaid
<1> QED BY <1>2 DEF Image

LEMMA OverlaidJoin ==
  ASSUME NEW d \in Image, NEW p \in Nat, NEW s \in Seq(Byte), NEW u \in Seq(Byte)
  PROVE  Overlaid(Overlaid(d, p, s), p + Len(s), u) = Overlaid(d, p, s \o u)
<1> DEFINE k == Len(s)
           m == Len(u)
           w == s \o u
           e == Overlaid(d, p, s)
           x == Overlaid(e, p + k, u)
           y == Overlaid(d, p, w)
<1>1. k \in Nat /\ m \in Nat /\ capacity \in Nat
  BY DevSizes, LenProperties
<1>2. Len(w) = k + m /\ \A i \in 1 .. k + m : w[i] = IF i <= k THEN s[i] ELSE u[i - k]
  BY ConcatProperties
<1>3. x = [i \in 0 .. capacity - 1 |-> IF i - (p + k) \in 0 .. m - 1 THEN u[i - (p + k) + 1] ELSE e[i]]
  BY DEF Overlaid
<1>4. y = [i \in 0 .. capacity - 1 |-> IF i - p \in 0 .. Len(w) - 1 THEN w[i - p + 1] ELSE d[i]]
  BY DEF Overlaid
<1>5. \A i \in 0 .. capacity - 1 : e[i] = IF i - p \in 0 .. k - 1 THEN s[i - p + 1] ELSE d[i]
  BY DEF Overlaid
<1> HIDE DEF x, y, e, w, k, m
<1>6. ASSUME NEW i \in 0 .. capacity - 1
      PROVE  (IF i - (p + k) \in 0 .. m - 1 THEN u[i - (p + k) + 1] ELSE e[i])
                = (IF i - p \in 0 .. Len(w) - 1 THEN w[i - p + 1] ELSE d[i])
  <2> DEFINE j == i - p + 1
  <2>1. j \in Int /\ i - (p + k) + 1 = j - k
    BY <1>1
  <2>2. CASE j \in 1 .. k
    <3>1. /\ ~(i - (p + k) \in 0 .. m - 1) /\ i - p \in 0 .. Len(w) - 1 /\ i - p \in 0 .. k - 1
          /\ j \in 1 .. k + m /\ j <= k
      BY <1>1, <1>2, <2>2
    <3>2. w[j] = s[j] /\ e[i] = s[j]
      BY <1>2, <1>5, <3>1
    <3> QED BY <3>1, <3>2
  <2>3. CASE j \in k + 1 .. k + m
    <3>1. /\ i - (p + k) \in 0 .. m - 1 /\ i - p \in 0 .. Len(w) - 1
          /\ j \in 1 .. k + m /\ ~(j <= k)
      BY <1>1, <1>2, <2>3
    <3>2. w[j] = u[j - k]
      BY <1>2, <3>1
    <3> QED BY <2>1, <3>1, <3>2
  <2>4. CASE j \notin 1 .. k + m
    <3>1. /\ ~(i - (p + k) \in 0 .. m - 1) /\ ~(i - p \in 0 .. Len(w) - 1) /\ ~(i - p \in 0 .. k - 1)
      BY <1>1, <1>2, <2>4
    <3>2. e[i] = d[i]
      BY <1>5, <3>1
    <3> QED BY <3>1, <3>2
  <2> HIDE DEF j
  <2> QED BY <1>1, <2>1, <2>2, <2>3, <2>4
<1>7. x = y
  BY <1>3, <1>4, <1>6
<1> QED BY <1>7 DEF x, y, e, w, k

(* What a part of a write does: the first n bytes of the call reach the    *)
(* device, k of them are counted, and the others only when the call ends.  *)
StorePart(st, r) ==
  /\ r \in CallState
  /\ \E k \in 0 .. Len(st.data) : \E n \in k .. Len(st.data) :
       /\ r.pos = st.pos + k /\ r.data = SubSeq(st.data, k + 1, Len(st.data))
       /\ r.ends \/ n = k
       /\ st.pos + Len(st.data) <= capacity => r.disk = Overlaid(st.disk, st.pos, SubSeq(st.data, 1, n))

(* Two pieces of a sequence after each other.                              *)
LEMMA Pieces ==
  ASSUME NEW s \in Seq(Byte), NEW k \in 0 .. Len(s)
  PROVE  LET t == SubSeq(s, k + 1, Len(s))
         IN /\ t \in Seq(Byte) /\ Len(t) = Len(s) - k
            /\ SubSeq(s, 1, k) \in Seq(Byte) /\ Len(SubSeq(s, 1, k)) = k
            /\ \A j \in 0 .. Len(t) :
                 /\ SubSeq(s, 1, k) \o SubSeq(t, 1, j) = SubSeq(s, 1, k + j)
                 /\ SubSeq(t, 1, j) \in Seq(Byte)
                 /\ SubSeq(t, j + 1, Len(t)) = SubSeq(s, k + j + 1, Len(s))
<1> DEFINE l == Len(s)
           t == SubSeq(s, k + 1, l)
<1>1. l \in Nat /\ k \in Nat /\ \A i \in 1 .. l : s[i] \in Byte
  BY LenProperties, ElementOfSeq
<1>2. t \in Seq(Byte) /\ Len(t) = l - k /\ \A i \in 1 .. l - k : t[i] = s[k + i]
  <2>1. \A i \in k + 1 .. l : s[i] \in Byte
    BY <1>1
  <2> HIDE DEF l
  <2>2. /\ t \in Seq(Byte) /\ Len(t) = IF k + 1 <= l THEN l - (k + 1) + 1 ELSE 0
        /\ \A i \in 1 .. l - (k + 1) + 1 : t[i] = s[k + 1 + i - 1]
    BY <1>1, <2>1, SubSeqProperties
  <2>3. k <= l
    BY DEF l
  <2> QED BY <1>1, <2>2, <2>3
<1>3. \A j \in 0 .. l : /\ SubSeq(s, 1, j) \in Seq(Byte) /\ Len(SubSeq(s, 1, j)) = j
                        /\ \A i \in 1 .. j : SubSeq(s, 1, j)[i] = s[i]
  <2>1. SUFFICES ASSUME NEW j \in 0 .. l
                 PROVE  /\ SubSeq(s, 1, j) \in Seq(Byte) /\ Len(SubSeq(s, 1, j)) = j
                        /\ \A i \in 1 .. j : SubSeq(s, 1, j)[i] = s[i]
    OBVIOUS
  <2>2. \A i \in 1 .. j : s[i] \in Byte
    BY <1>1
  <2> HIDE DEF l
  <2>3. /\ SubSeq(s, 1, j) \in Seq(Byte) /\ Len(SubSeq(s, 1, j)) = IF 1 <= j THEN j - 1 + 1 ELSE 0
        /\ \A i \in 1 .. j - 1 + 1 : SubSeq(s, 1, j)[i] = s[1 + i - 1]
    BY <1>1, <2>1, <2>2, SubSeqProperties
  <2> QED BY <1>1, <2>1, <2>3
<1> HIDE DEF t, l
<1>4. ASSUME NEW j \in 0 .. Len(t)
      PROVE  /\ SubSeq(s, 1, k) \o SubSeq(t, 1, j) = SubSeq(s, 1, k + j)
             /\ SubSeq(t, 1, j) \in Seq(Byte)
             /\ SubSeq(t, j + 1, Len(t)) = SubSeq(s, k + j + 1, l)
  <2> DEFINE a == SubSeq(t, 1, j)
             b == SubSeq(t, j + 1, Len(t))
             c == SubSeq(s, k + j + 1, l)
             f == SubSeq(s, 1, k)
             w == SubSeq(s, 1, k + j)
  <2>1. j \in Nat /\ j <= l - k /\ k + j \in 0 .. l /\ k \in 0 .. l
    BY <1>1, <1>2 DEF l
  <2>2. a \in Seq(Byte) /\ Len(a) = j /\ \A i \in 1 .. j : a[i] = s[k + i]
    <3>1. \A i \in 1 .. j : t[i] \in Byte /\ t[i] = s[k + i]
      BY <1>1, <1>2, <2>1
    <3>2. /\ a \in Seq(Byte) /\ Len(a) = IF 1 <= j THEN j - 1 + 1 ELSE 0
          /\ \A i \in 1 .. j - 1 + 1 : a[i] = t[1 + i - 1]
      BY <2>1, <3>1, SubSeqProperties
    <3> QED BY <2>1, <3>1, <3>2
  <2>3. /\ b \in Seq(Byte) /\ Len(b) = l - k - j
        /\ \A i \in 1 .. l - k - j : b[i] = s[k + j + i]
    <3> DEFINE m == l - k
    <3>1. \A i \in 1 .. m : t[i] \in Byte /\ t[i] = s[k + i]
      BY <1>1, <1>2
    <3>2. m \in Nat /\ j <= m /\ Len(t) = m
      BY <1>1, <1>2, <2>1
    <3> HIDE DEF m
    <3>3. \A i \in j + 1 .. m : t[i] \in Byte
      BY <2>1, <3>1, <3>2
    <3>4. /\ b \in Seq(Byte) /\ Len(b) = IF j + 1 <= m THEN m - (j + 1) + 1 ELSE 0
          /\ \A i \in 1 .. m - (j + 1) + 1 : b[i] = t[j + 1 + i - 1]
      BY <2>1, <3>2, <3>3, SubSeqProperties
    <3>5. \A i \in 1 .. m - j : b[i] = t[j + i] /\ t[j + i] = s[k + (j + i)]
      <4>1. SUFFICES ASSUME NEW i \in 1 .. m - j
                     PROVE  b[i] = t[j + i] /\ t[j + i] = s[k + (j + i)]
        OBVIOUS
      <4>2. i \in 1 .. m - (j + 1) + 1 /\ j + 1 + i - 1 = j + i /\ j + i \in 1 .. m
        BY <2>1, <3>2
      <4> HIDE DEF b
      <4>3. b[i] = t[j + 1 + i - 1]
        BY <3>4, <4>2
      <4> QED BY <3>1, <4>2, <4>3
    <3>6. b \in Seq(Byte) /\ Len(b) = m - j /\ \A i \in 1 .. m - j : b[i] = s[k + j + i]
      <4>1. \A i \in 1 .. m - j : k + (j + i) = k + j + i
        BY <1>1, <2>1
      <4>2. Len(b) = m - j /\ b \in Seq(Byte)
        BY <2>1, <3>2, <3>4
      <4> HIDE DEF b
      <4> QED BY <3>5, <4>1, <4>2
    <3> QED BY <3>6 DEF m
  <2>4. /\ c \in Seq(Byte) /\ Len(c) = l - k - j
        /\ \A i \in 1 .. l - k - j : c[i] = s[k + j + i]
    <3> DEFINE m == k + j
    <3>1. m \in Nat /\ m <= l /\ l - k - j = l - m
      BY <1>1, <2>1
    <3> HIDE DEF m
    <3>2. \A i \in m + 1 .. l : s[i] \in Byte
      BY <1>1, <3>1
    <3>3. /\ SubSeq(s, m + 1, l) \in Seq(Byte)
          /\ Len(SubSeq(s, m + 1, l)) = IF m + 1 <= l THEN l - (m + 1) + 1 ELSE 0
          /\ \A i \in 1 .. l - (m + 1) + 1 : SubSeq(s, m + 1, l)[i] = s[m + 1 + i - 1]
      BY <1>1, <3>1, <3>2, SubSeqProperties
    <3>4. c = SubSeq(s, m + 1, l)
      BY DEF m
    <3>5. \A i \in 1 .. l - m : SubSeq(s, m + 1, l)[i] = s[m + i]
      BY <1>1, <3>1, <3>3
    <3>6. Len(c) = l - m /\ c \in Seq(Byte) /\ \A i \in 1 .. l - m : c[i] = s[m + i]
      BY <1>1, <3>1, <3>3, <3>4, <3>5
    <3> HIDE DEF c
    <3> QED BY <3>1, <3>6 DEF m
  <2>5. f \in Seq(Byte) /\ Len(f) = k /\ \A i \in 1 .. k : f[i] = s[i]
    BY <1>3, <2>1
  <2>6. w \in Seq(Byte) /\ Len(w) = k + j /\ \A i \in 1 .. k + j : w[i] = s[i]
    BY <1>3, <2>1
  <2> HIDE DEF a, b, c, f, w
  <2>7. b = c
    BY <2>3, <2>4, SeqEqual
  <2>8. /\ f \o a \in Seq(Byte) /\ Len(f \o a) = k + j
        /\ \A i \in 1 .. k + j : (f \o a)[i] = IF i <= k THEN f[i] ELSE a[i - k]
    <3>1. f \in Seq(Byte) /\ a \in Seq(Byte) /\ Len(f) = k /\ Len(a) = j
      BY <2>2, <2>5
    <3>2. /\ f \o a \in Seq(Byte) /\ Len(f \o a) = Len(f) + Len(a)
          /\ \A i \in 1 .. Len(f) + Len(a) : (f \o a)[i] = IF i <= Len(f) THEN f[i] ELSE a[i - Len(f)]
      BY ONLY <3>1, ConcatProperties
    <3> QED BY ONLY <3>1, <3>2
  <2>9. ASSUME NEW i \in 1 .. k + j PROVE (f \o a)[i] = w[i]
    <3>1. CASE i <= k
      <4>1. i \in 1 .. k
        BY <1>1, <2>1, <3>1
      <4> QED BY <2>5, <2>6, <2>8, <3>1, <4>1
    <3>2. CASE ~(i <= k)
      <4>1. i - k \in 1 .. j /\ k + (i - k) = i
        BY <1>1, <2>1, <3>2
      <4>2. a[i - k] = s[k + (i - k)]
        BY <2>2, <4>1
      <4> QED BY <2>6, <2>8, <3>2, <4>1, <4>2
    <3> QED BY <3>1, <3>2
  <2>10. f \o a = w
    BY <2>6, <2>8, <2>9, SeqEqual
  <2> QED BY <2>2, <2>7, <2>10 DEF a, b, c, f, w
<1> QED BY <1>2, <1>3, <1>4 DEF l, t

(* The state behind k bytes that were stored, on disk d.                   *)
Puts(st, b, k, d) ==
  [st EXCEPT !.buffer = b, !.pos = @ + k, !.data = SubSeq(@, k + 1, Len(@)), !.disk = d]
Stores(st, k, e, d) ==
  [st EXCEPT !.pos = @ + k, !.data = SubSeq(@, k + 1, Len(@)), !.ends = e, !.disk = d]
StopsBuffered(st, b) == [st EXCEPT !.buffer = b, !.ends = TRUE]
StopsWith(st, d) == [st EXCEPT !.ends = TRUE, !.disk = d]

LEMMA CallPuts ==
  ASSUME NEW st \in CallState, NEW k \in 0 .. Len(st.data), NEW b \in Bounce, NEW d \in Image
  PROVE  LET r == Puts(st, b, k, d)
         IN r \in CallState /\ r.disk = d /\ r.pos = st.pos + k
            /\ r.data = SubSeq(st.data, k + 1, Len(st.data))
<1> DEFINE t == SubSeq(st.data, k + 1, Len(st.data))
<1>1. t \in Seq(Byte)
  BY CallFields, Pieces
<1>2. st.pos + k \in Nat
  BY CallFields, LenProperties
<1>3. Puts(st, b, k, d) = [st EXCEPT !.buffer = b, !.pos = @ + k, !.data = t, !.disk = d]
  BY Zenon DEF Puts
<1> HIDE DEF t
<1> QED BY <1>1, <1>2, <1>3 DEF CallState, t

LEMMA CallStores ==
  ASSUME NEW st \in CallState, NEW k \in 0 .. Len(st.data), NEW d \in Image, NEW e \in BOOLEAN
  PROVE  LET r == Stores(st, k, e, d)
         IN r \in CallState /\ r.disk = d /\ r.pos = st.pos + k
            /\ r.data = SubSeq(st.data, k + 1, Len(st.data))
<1> DEFINE t == SubSeq(st.data, k + 1, Len(st.data))
<1>1. t \in Seq(Byte)
  BY CallFields, Pieces
<1>2. st.pos + k \in Nat
  BY CallFields, LenProperties
<1>3. Stores(st, k, e, d) = [st EXCEPT !.pos = @ + k, !.data = t, !.ends = e, !.disk = d]
  BY Zenon DEF Stores
<1> HIDE DEF t
<1> QED BY <1>1, <1>2, <1>3 DEF CallState, t

LEMMA CallStops ==
  ASSUME NEW st \in CallState, NEW b \in Bounce, NEW d \in Image
  PROVE  /\ LET r == StopsBuffered(st, b)
            IN r \in CallState /\ r.disk = st.disk /\ r.pos = st.pos /\ r.data = st.data /\ r.ends
         /\ LET r == StopsWith(st, d)
            IN r \in CallState /\ r.disk = d /\ r.pos = st.pos /\ r.data = st.data /\ r.ends
BY DEF CallState, StopsBuffered, StopsWith

(* A part that counts k bytes, of n that are stored.                       *)
LEMMA StoreCounts ==
  ASSUME NEW st \in CallState, NEW r \in CallState, NEW k \in 0 .. Len(st.data), NEW n \in k .. Len(st.data),
         r.pos = st.pos + k, r.data = SubSeq(st.data, k + 1, Len(st.data)), r.ends \/ n = k,
         st.pos + Len(st.data) <= capacity => r.disk = Overlaid(st.disk, st.pos, SubSeq(st.data, 1, n))
  PROVE  StorePart(st, r)
BY DEF StorePart

(* A part that counts nothing.                                             *)
LEMMA StoreStops ==
  ASSUME NEW st \in CallState, NEW r \in CallState, r.pos = st.pos, r.data = st.data,
         NEW n \in 0 .. Len(st.data), r.ends,
         r.disk = Overlaid(st.disk, st.pos, SubSeq(st.data, 1, n))
  PROVE  StorePart(st, r)
<1>1. st.pos \in Nat /\ st.data \in Seq(Byte) /\ Len(st.data) \in Nat
  BY CallFields, LenProperties
<1>2. SubSeq(st.data, 0 + 1, Len(st.data)) = st.data
  BY <1>1, SubSeqFull
<1>3. st.pos + 0 = st.pos /\ 0 \in 0 .. Len(st.data) /\ n \in 0 .. Len(st.data)
  BY <1>1
<1> QED BY <1>2, <1>3 DEF StorePart

LEMMA StoreNothing ==
  ASSUME NEW st \in CallState, NEW r \in CallState, r.pos = st.pos, r.data = st.data, r.disk = st.disk
  PROVE  StorePart(st, r)
<1>1. st.pos \in Nat /\ st.data \in Seq(Byte) /\ Len(st.data) \in Nat /\ st.disk \in Image
  BY CallFields, LenProperties
<1>2. SubSeq(st.data, 0 + 1, Len(st.data)) = st.data
  BY <1>1, SubSeqFull
<1>3. SubSeq(st.data, 1, 0) = <<>>
  BY SubSeqEmpty
<1>4. Overlaid(st.disk, st.pos, SubSeq(st.data, 1, 0)) = st.disk
  BY <1>1, <1>3, OverlaidNone
<1>5. st.pos + 0 = st.pos /\ 0 \in 0 .. Len(st.data)
  BY <1>1
<1> QED BY <1>2, <1>4, <1>5 DEF StorePart

LEMMA StoreJoin ==
  ASSUME NEW st \in CallState, NEW r, NEW w, StorePart(st, r), StorePart(r, w),
         r.ends => w.pos = r.pos /\ w.data = r.data /\ w.disk = r.disk /\ w.ends
  PROVE  StorePart(st, w)
<1> DEFINE s == st.data
           l == Len(s)
           t == r.data
           p == st.pos
<1>1. p \in Nat /\ s \in Seq(Byte) /\ l \in Nat /\ r \in CallState /\ w \in CallState /\ st.disk \in Image
  BY CallFields, LenProperties DEF StorePart
<1>2. PICK k \in 0 .. l : \E n \in k .. l :
        /\ r.pos = p + k /\ t = SubSeq(s, k + 1, l)
        /\ r.ends \/ n = k
        /\ p + l <= capacity => r.disk = Overlaid(st.disk, p, SubSeq(s, 1, n))
  BY DEF StorePart
<1>3. PICK n \in k .. l :
        /\ r.pos = p + k /\ t = SubSeq(s, k + 1, l)
        /\ r.ends \/ n = k
        /\ p + l <= capacity => r.disk = Overlaid(st.disk, p, SubSeq(s, 1, n))
  BY <1>2
<1>4. CASE r.ends
  <2>1. w.pos = p + k /\ w.data = SubSeq(s, k + 1, l) /\ w.ends
        /\ (p + l <= capacity => w.disk = Overlaid(st.disk, p, SubSeq(s, 1, n)))
    BY <1>3, <1>4
  <2> QED BY <1>1, <2>1, StoreCounts
<1>5. CASE ~r.ends
  <2>1. n = k
    BY <1>3, <1>5
  <2> DEFINE lt == Len(t)
  <2>2. PICK j \in 0 .. lt : \E m \in j .. lt :
          /\ w.pos = r.pos + j /\ w.data = SubSeq(t, j + 1, lt)
          /\ w.ends \/ m = j
          /\ r.pos + lt <= capacity => w.disk = Overlaid(r.disk, r.pos, SubSeq(t, 1, m))
    BY DEF StorePart
  <2>3. PICK m \in j .. lt :
          /\ w.pos = r.pos + j /\ w.data = SubSeq(t, j + 1, lt)
          /\ w.ends \/ m = j
          /\ r.pos + lt <= capacity => w.disk = Overlaid(r.disk, r.pos, SubSeq(t, 1, m))
    BY <2>2
  <2>4. /\ t \in Seq(Byte) /\ lt = l - k
        /\ SubSeq(s, 1, k) \in Seq(Byte) /\ Len(SubSeq(s, 1, k)) = k
        /\ \A i \in 0 .. lt :
             /\ SubSeq(s, 1, k) \o SubSeq(t, 1, i) = SubSeq(s, 1, k + i)
             /\ SubSeq(t, 1, i) \in Seq(Byte)
             /\ SubSeq(t, i + 1, lt) = SubSeq(s, k + i + 1, l)
    <3>1. t = SubSeq(s, k + 1, Len(s)) /\ k \in 0 .. Len(s) /\ s \in Seq(Byte)
      BY <1>1, <1>3
    <3> HIDE DEF s, t
    <3>2. LET u == SubSeq(s, k + 1, Len(s))
          IN /\ u \in Seq(Byte) /\ Len(u) = Len(s) - k
             /\ SubSeq(s, 1, k) \in Seq(Byte) /\ Len(SubSeq(s, 1, k)) = k
             /\ \A i \in 0 .. Len(u) :
                  /\ SubSeq(s, 1, k) \o SubSeq(u, 1, i) = SubSeq(s, 1, k + i)
                  /\ SubSeq(u, 1, i) \in Seq(Byte)
                  /\ SubSeq(u, i + 1, Len(u)) = SubSeq(s, k + i + 1, Len(s))
      BY ONLY <3>1, Pieces
    <3> QED BY <3>1, <3>2
  <2> HIDE DEF s, t, l, lt, p
  <2>5. /\ k + j \in 0 .. l /\ k + m \in k + j .. l /\ m \in 0 .. lt
        /\ r.pos + j = p + (k + j) /\ r.pos + lt = p + l
    BY <1>1, <1>3, <2>4
  <2>6. w.pos = p + (k + j) /\ w.data = SubSeq(s, (k + j) + 1, l) /\ (w.ends \/ k + m = k + j)
    BY <2>3, <2>4, <2>5
  <2>7. ASSUME p + l <= capacity
        PROVE  w.disk = Overlaid(st.disk, p, SubSeq(s, 1, k + m))
    <3> DEFINE a == SubSeq(s, 1, k)
               b == SubSeq(t, 1, m)
    <3>1. w.disk = Overlaid(r.disk, p + k, b) /\ r.disk = Overlaid(st.disk, p, a)
      BY <1>3, <2>1, <2>3, <2>5, <2>7
    <3>2. a \in Seq(Byte) /\ Len(a) = k /\ b \in Seq(Byte) /\ a \o b = SubSeq(s, 1, k + m)
      BY <2>4, <2>5
    <3> HIDE DEF a, b
    <3>3. Overlaid(Overlaid(st.disk, p, a), p + Len(a), b) = Overlaid(st.disk, p, a \o b)
      BY <1>1, <3>2, OverlaidJoin
    <3> QED BY <3>1, <3>2, <3>3
  <2> DEFINE x == k + j
             y == k + m
  <2>8. /\ x \in 0 .. l /\ y \in x .. l /\ w.pos = p + x /\ w.data = SubSeq(s, x + 1, l)
        /\ w.ends \/ y = x
        /\ p + l <= capacity => w.disk = Overlaid(st.disk, p, SubSeq(s, 1, y))
    BY <2>5, <2>6, <2>7
  <2> HIDE DEF x, y
  <2> QED BY <1>1, <2>8, StoreCounts DEF s, l, p
<1> QED BY <1>4, <1>5

LEMMA PatchTyped ==
  ASSUME NEW st \in CallState, NEW b \in Bounce, NEW k \in 0 .. Len(st.data)
  PROVE  Patch(st, b, k) \in Bounce
<1> DEFINE o == Offset(st)
<1>1. st.data \in Seq(Byte) /\ Len(st.data) \in Nat
  BY CallFields, LenProperties
<1>2. o \in 0 .. BLK - 1
  BY CallFields, InBlock DEF Offset
<1> HIDE DEF o
<1>3. ASSUME NEW i \in 0 .. BLK - 1
      PROVE  (IF i - o \in 0 .. k - 1 THEN st.data[i - o + 1] ELSE b[i]) \in Byte
  <2>1. b[i] \in Byte
    BY DEF Bounce
  <2>2. CASE i - o \in 0 .. k - 1
    <3>1. i - o + 1 \in 1 .. Len(st.data)
      BY <1>1, <1>2, <2>2, DevSizes
    <3> QED BY <1>1, <2>2, <3>1, ElementOfSeq
  <2> QED BY <2>1, <2>2
<1> QED BY <1>3 DEF Patch, Bounce, o

(* Writing the patched block back writes the k bytes.                      *)
LEMMA BlockOverlaid ==
  ASSUME NEW st \in CallState, NEW k \in 0 .. Len(st.data), Offset(st) + k <= BLK, st.pos <= capacity,
         NEW c, c = Patch(st, Buffered(st), k)
  PROVE  Overlaid(st.disk, Block(st), [i \in 1 .. BLK |-> c[i - 1]])
           = Overlaid(st.disk, st.pos, SubSeq(st.data, 1, k))
<1> DEFINE p == st.pos
           o == Offset(st)
           b == Block(st)
           f == Buffered(st)
           d == st.disk
           s == st.data
           u == SubSeq(s, 1, k)
           v == [i \in 1 .. BLK |-> c[i - 1]]
           x == Overlaid(d, b, v)
           y == Overlaid(d, p, u)
<1>1. /\ p \in Nat /\ s \in Seq(Byte) /\ Len(s) \in Nat /\ k \in Nat
      /\ BLK \in Nat \ {0} /\ capacity \in Nat
  BY CallFields, LenProperties, DevSizes
<1>2. b \in Nat /\ o \in 0 .. BLK - 1 /\ p = b + o /\ (o # 0 /\ p <= capacity => p < capacity)
  BY <1>1, InBlock DEF Block, Offset
<1>3. p < capacity => \A j \in 0 .. BLK - 1 : f[j] = d[b + j]
  BY Bounced DEF Block
<1>4. c = [i \in 0 .. BLK - 1 |-> IF i - o \in 0 .. k - 1 THEN s[i - o + 1] ELSE f[i]]
  BY DEF Patch
<1>5. Len(u) = k /\ \A i \in 1 .. k : u[i] = s[i]
  <2>1. \A i \in 1 .. k : s[i] \in Byte
    BY <1>1, ElementOfSeq
  <2> HIDE DEF s
  <2>2. /\ Len(u) = IF 1 <= k THEN k - 1 + 1 ELSE 0
        /\ \A i \in 1 .. k - 1 + 1 : u[i] = s[1 + i - 1]
    BY <1>1, <2>1, SubSeqProperties
  <2> QED BY <1>1, <2>2
<1>6. Len(v) = BLK
  BY <1>1, LenProperties, SeqDef
<1>7. \A i \in 1 .. BLK : v[i] = c[i - 1]
  OBVIOUS
<1>8. p <= capacity /\ o + k <= BLK
  OBVIOUS
<1> HIDE DEF p, o, b, f, d, s, u, v
<1>9. ASSUME NEW i \in 0 .. capacity - 1
      PROVE  (IF i - b \in 0 .. Len(v) - 1 THEN v[i - b + 1] ELSE d[i])
               = (IF i - p \in 0 .. Len(u) - 1 THEN u[i - p + 1] ELSE d[i])
  <2> DEFINE j == i - b
  <2>1. j \in Int /\ i - p = j - o /\ i = b + j
    BY <1>1, <1>2
  <2>2. CASE j \in 0 .. BLK - 1
    <3>1. v[j + 1] = c[j]
      <4>1. j \in Int /\ j + 1 \in 1 .. BLK /\ j + 1 - 1 = j
        BY <1>1, <2>1, <2>2
      <4> HIDE DEF j
      <4> QED BY <1>7, <4>1
    <3>2. c[j] = IF j - o \in 0 .. k - 1 THEN s[j - o + 1] ELSE f[j]
      BY <1>4, <2>2
    <3>3. f[j] = d[i]
      <4>1. p < capacity
        BY <1>1, <1>2, <1>8, <2>1, <2>2
      <4> QED BY <1>3, <2>1, <2>2, <4>1
    <3>4. j - o \in 0 .. k - 1 => u[j - o + 1] = s[j - o + 1]
      BY <1>1, <1>2, <1>5, <2>1
    <3>5. j \in 0 .. Len(v) - 1
      BY <1>6, <2>2
    <3> HIDE DEF j
    <3>6. (IF j \in 0 .. Len(v) - 1 THEN v[j + 1] ELSE d[i])
            = (IF j - o \in 0 .. Len(u) - 1 THEN u[j - o + 1] ELSE d[i])
      BY <1>5, <3>1, <3>2, <3>3, <3>4, <3>5
    <3> QED BY <2>1, <3>6 DEF j
  <2>3. CASE j \notin 0 .. BLK - 1
    <3>1. ~(j \in 0 .. Len(v) - 1)
      BY <1>6, <2>3
    <3>2. ~(i - p \in 0 .. Len(u) - 1)
      BY <1>1, <1>2, <1>5, <1>8, <2>1, <2>3
    <3> QED BY <3>1, <3>2
  <2> QED BY <2>2, <2>3
<1>10. x = y
  BY <1>9 DEF Overlaid
<1> QED BY <1>10 DEF x, y, p, b, d, s, u, v

LEMMA UnalignedStore ==
  ASSUME NEW st \in CallState, NEW part
  PROVE  StorePart(st, unaligned_store(st, part))
<1> DEFINE o == Offset(st)
           k == Smaller(BLK - o, Len(st.data))
           f == Buffered(st)
           b == Patch(st, f, k)
           v == [i \in 1 .. BLK |-> b[i - 1]]
           d == Overlaid(st.disk, Block(st), v)
           e == [st EXCEPT !.ends = TRUE]
           m == StopsBuffered(st, b)
           r == Puts(st, b, k, d)
           w == unaligned_store(st, part)
<1>1. w = e \/ w = m \/ w = r
  BY Zenon DEF unaligned_store, Patched, StopsBuffered, Puts
<1>2. /\ st.pos \in Nat /\ st.data \in Seq(Byte) /\ Len(st.data) \in Nat /\ st.disk \in Image
      /\ BLK \in Nat \ {0} /\ capacity \in Nat
  BY CallFields, LenProperties, DevSizes
<1>3. o \in 0 .. BLK - 1
  BY <1>2, InBlock DEF Offset
<1>4. Block(st) \in Nat
  BY <1>2, InBlock DEF Block
<1>5. f \in Bounce
  BY Bounced
<1>6. f = Buffered(st)
  OBVIOUS
<1> HIDE DEF o, f
<1>7. k \in 0 .. Len(st.data) /\ o + k <= BLK
  BY <1>2, <1>3 DEF Smaller
<1>8. b = Patch(st, Buffered(st), k)
  BY <1>6
<1> HIDE DEF k
<1>9. b \in Bounce
  BY <1>5, <1>7, PatchTyped
<1> HIDE DEF b
<1>10. v \in Seq(Byte)
  <2>1. \A i \in 1 .. BLK : b[i - 1] \in Byte
    BY <1>2, <1>9 DEF Bounce
  <2> QED BY <1>2, <2>1, SeqDef
<1>11. d \in Image
  <2> HIDE DEF v
  <2> QED BY <1>2, <1>4, <1>10, OverlaidTyped
<1>12. StorePart(st, e)
  BY CallEnds, StoreNothing
<1>13. StorePart(st, m)
  <2>1. m \in CallState /\ m.disk = st.disk /\ m.pos = st.pos /\ m.data = st.data
    BY <1>9, <1>11, CallStops
  <2> HIDE DEF m
  <2> QED BY <2>1, StoreNothing
<1>14. StorePart(st, r)
  <2>1. st.pos + Len(st.data) <= capacity => d = Overlaid(st.disk, st.pos, SubSeq(st.data, 1, k))
    <3>1. ASSUME st.pos + Len(st.data) <= capacity
          PROVE  d = Overlaid(st.disk, st.pos, SubSeq(st.data, 1, k))
      <4>1. st.pos <= capacity
        BY <1>2, <3>1
      <4> QED BY <1>7, <1>8, <4>1, BlockOverlaid DEF o
    <3> QED BY <3>1
  <2> HIDE DEF d
  <2>2. r \in CallState /\ r.disk = d /\ r.pos = st.pos + k
        /\ r.data = SubSeq(st.data, k + 1, Len(st.data))
    BY <1>7, <1>9, <1>11, CallPuts
  <2> HIDE DEF r
  <2>3. k \in k .. Len(st.data)
    BY <1>2, <1>7
  <2> QED BY <1>7, <2>1, <2>2, <2>3, StoreCounts
<1> HIDE DEF e, m, r, w
<1>15. StorePart(st, w)
  BY <1>1, <1>12, <1>13, <1>14
<1> QED BY <1>15 DEF w

LEMMA AlignedStorePart ==
  ASSUME NEW st \in CallState
  PROVE  StorePart(st, AlignedStore(st))
<1> DEFINE l == Len(st.data)
           n == Down(l)
           whole == Moved(st.pos, n)
           q == st.fault[2] * BLK
           fails == st.fault[1] = "body" /\ q < whole
           k == storage_store(st.pos, n, fails)
           g == Overlaid(st.disk, st.pos, SubSeq(st.data, 1, q))
           d == Overlaid(st.disk, st.pos, SubSeq(st.data, 1, k))
           more == k < n
           e == StopsWith(st, IF fails THEN g ELSE st.disk)
           r == Stores(st, k, more, d)
           w == AlignedStore(st)
<1>1. w = IF k < 0 THEN e ELSE r
  BY Zenon DEF AlignedStore, StopsWith, Stores
<1>2. /\ st.pos \in Nat /\ st.data \in Seq(Byte) /\ l \in Nat /\ st.disk \in Image
      /\ BLK \in Nat \ {0} /\ capacity \in Nat
  BY CallFields, LenProperties, DevSizes
<1>3. n \in Nat /\ n <= l
  BY <1>2, WholeBlocks
<1>4. q \in Nat
  <2>1. st.fault[2] \in Nat
    BY CallFields, DevicesAssumption
  <2> QED BY <1>2, <2>1
<1>5. whole \in 0 .. l
  <2> HIDE DEF n
  <2> QED BY <1>2, <1>3 DEF Moved, Smaller
<1>6. k = -1 \/ k = whole
  BY DEF storage_store
<1>7. fails \in BOOLEAN /\ (fails => q < whole) /\ more \in BOOLEAN
  OBVIOUS
<1> HIDE DEF l, n, whole, q, fails, k, more
<1>8. \A i \in 0 .. l : Overlaid(st.disk, st.pos, SubSeq(st.data, 1, i)) \in Image
  <2>1. SUFFICES ASSUME NEW i \in 0 .. l PROVE Overlaid(st.disk, st.pos, SubSeq(st.data, 1, i)) \in Image
    OBVIOUS
  <2>2. SubSeq(st.data, 1, i) \in Seq(Byte)
    BY <1>2, Pieces DEF l
  <2> QED BY <1>2, <2>2, OverlaidTyped
<1>9. ASSUME k < 0 PROVE StorePart(st, e)
  <2> DEFINE h == IF fails THEN g ELSE st.disk
  <2>1. PICK i \in 0 .. l : h = Overlaid(st.disk, st.pos, SubSeq(st.data, 1, i))
    <3>1. CASE fails
      <4>1. q \in 0 .. l
        BY <1>2, <1>4, <1>5, <1>7, <3>1
      <4> QED BY <3>1, <4>1
    <3>2. CASE ~fails
      <4>1. SubSeq(st.data, 1, 0) = <<>>
        BY SubSeqEmpty
      <4>2. Overlaid(st.disk, st.pos, SubSeq(st.data, 1, 0)) = st.disk
        BY <1>2, <4>1, OverlaidNone
      <4>3. 0 \in 0 .. l
        BY <1>2
      <4> QED BY <3>2, <4>2, <4>3
    <3> QED BY <3>1, <3>2
  <2>2. e = StopsWith(st, h)
    OBVIOUS
  <2> HIDE DEF e, h
  <2>3. h \in Image
    BY <1>8, <2>1
  <2>4. e \in CallState /\ e.disk = h /\ e.pos = st.pos /\ e.data = st.data /\ e.ends
    <3>1. PICK b \in Bounce : TRUE
      BY CallFields
    <3> QED BY <2>2, <2>3, <3>1, CallStops
  <2> QED BY <2>1, <2>4, StoreStops DEF l
<1>10. ASSUME ~(k < 0) PROVE StorePart(st, r)
  <2>1. k \in 0 .. l /\ k \in k .. l
    BY <1>2, <1>5, <1>6, <1>10
  <2>2. d \in Image /\ (d = Overlaid(st.disk, st.pos, SubSeq(st.data, 1, k)))
    BY <1>8, <2>1
  <2> HIDE DEF d
  <2>3. r \in CallState /\ r.disk = d /\ r.pos = st.pos + k
        /\ r.data = SubSeq(st.data, k + 1, Len(st.data))
    BY <1>7, <2>1, <2>2, CallStores DEF l
  <2> HIDE DEF r
  <2> QED BY <2>1, <2>2, <2>3, StoreCounts DEF l
<1> HIDE DEF e, r, w
<1>11. StorePart(st, w)
  BY <1>1, <1>9, <1>10
<1> QED BY <1>11 DEF w

(* A write puts bytes of the call in their places, and counts some of them.*)
LEMMA WriteParts ==
  ASSUME NEW st \in CallState
  PROVE  StorePart(st, StoreTail(StoreBody(StoreHead(st))))
<1>1. \A x \in CallState : StorePart(x, x)
  BY StoreNothing
<1>2. \A x \in CallState : StorePart(x, StoreHead(x))
  BY <1>1, UnalignedStore DEF StoreHead
<1>3. \A x \in CallState : LET y == [x EXCEPT !.ends = TRUE]
                       IN y \in CallState /\ y.pos = x.pos /\ y.data = x.data /\ y.disk = x.disk /\ y.ends
  BY CallEnds
<1>4. \A x \in CallState : StorePart(x, [x EXCEPT !.ends = TRUE])
  BY <1>3, StoreNothing
<1>5. \A x \in CallState : StorePart(x, StoreBody(x))
  BY <1>4, AlignedStorePart DEF StoreBody
<1>6. \A x \in CallState : x.ends => /\ StoreBody(x).pos = x.pos /\ StoreBody(x).data = x.data
                                /\ StoreBody(x).disk = x.disk /\ StoreBody(x).ends
  BY <1>3 DEF StoreBody
<1>7. \A x \in CallState : StorePart(x, StoreTail(x))
  BY <1>1, UnalignedStore DEF StoreTail
<1>8. \A x : x.ends => StoreTail(x) = x
  BY DEF StoreTail
<1>9. \A x, y : StorePart(x, y) => y \in CallState
  BY DEF StorePart
<1> DEFINE a == StoreHead(st)
           b == StoreBody(a)
           c == StoreTail(b)
<1>10. StorePart(st, a) /\ a \in CallState
  BY <1>2, <1>9
<1>11. StorePart(a, b) /\ b \in CallState
  BY <1>5, <1>9, <1>10
<1>12. a.ends => b.pos = a.pos /\ b.data = a.data /\ b.disk = a.disk /\ b.ends
  BY <1>6, <1>10
<1>13. StorePart(b, c)
  BY <1>7, <1>11
<1>14. b.ends => c = b
  BY <1>8
<1> HIDE DEF a, b, c
<1>15. StorePart(st, b)
  BY <1>10, <1>11, <1>12, StoreJoin
<1>16. StorePart(st, c)
  BY <1>13, <1>14, <1>15, StoreJoin
<1> QED BY <1>16 DEF a, b, c

LEMMA WriteStep ==
  ASSUME DevInv, NEW h \in Handle, NEW n \in 0 .. MaxBytes, NEW s \in [1 .. n -> Byte],
         NEW fault \in Fault, storage_uio_write(h, s, fault)
  PROVE  /\ DevInv' /\ last' = s /\ s \in Seq(Byte) /\ Len(s) = n
         /\ \A g \in Handle \ {h} : uio'[g] = uio[g]
         /\ \E m \in 0 .. n : \E k \in 0 .. m :
              /\ uio'[h].pos = uio[h].pos + k
              /\ ~PastEnd => /\ uio'[h].pos <= capacity
                             /\ disk' = Overlaid(disk, uio[h].pos, SubSeq(s, 1, m))
<1> DEFINE a == Begun(h, 0, s, fault)
           st == StoreTail(StoreBody(StoreHead(a)))
           p == uio[h].pos
<1>1. n \in Nat /\ capacity \in Nat /\ p \in Nat /\ 0 \in Nat
  BY DevSizes, HandleFacts DEF DevInv
<1>2. s \in Seq(Byte) /\ Len(s) = n
  BY <1>1, SeqDef, LenProperties
<1>3. /\ uio[h].kind = "storage" /\ (PastEnd \/ p + Len(s) <= capacity)
      /\ Ended(h, st) /\ last' = s
  BY DEF storage_uio_write
<1>4. /\ a \in CallState /\ a.pos = p /\ a.disk = disk /\ a.data = s
  <2>1. uio[h].pos \in Nat /\ uio[h].buffer \in Bounce /\ disk \in Image
    BY <1>3, HandleFacts DEF DevInv
  <2>2. <<>> \in Seq(Byte) /\ FALSE \in BOOLEAN
    BY EmptySeq
  <2> QED BY <1>1, <1>2, <2>1, <2>2 DEF Begun, CallState
<1> HIDE DEF a
<1>5. StorePart(a, st)
  BY <1>4, WriteParts
<1> HIDE DEF st
<1>6. st \in CallState
  BY <1>5 DEF StorePart
<1>7. PICK k \in 0 .. n : \E m \in k .. n :
        /\ st.pos = p + k
        /\ p + n <= capacity => st.disk = Overlaid(disk, p, SubSeq(s, 1, m))
  BY <1>2, <1>4, <1>5 DEF StorePart
<1>8. PICK m \in k .. n :
        /\ st.pos = p + k
        /\ p + n <= capacity => st.disk = Overlaid(disk, p, SubSeq(s, 1, m))
  BY <1>7
<1>9. m \in 0 .. n /\ k \in 0 .. m
  BY <1>1
<1>10. ~PastEnd => st.pos <= capacity /\ p + n <= capacity
  BY <1>1, <1>2, <1>3, <1>8
<1>11. PastEnd \/ st.pos <= capacity
  BY <1>10
<1>12. DevInv' /\ disk' = st.disk /\ uio'[h].pos = st.pos
       /\ \A g \in Handle \ {h} : uio'[g] = uio[g]
  BY <1>3, <1>6, <1>11, EndedStep
<1>13. /\ uio'[h].pos = p + k
       /\ ~PastEnd => /\ uio'[h].pos <= capacity /\ disk' = Overlaid(disk, p, SubSeq(s, 1, m))
  BY <1>8, <1>10, <1>12
<1> QED BY <1>2, <1>3, <1>9, <1>12, <1>13

----------------------------------------------------------------------------
(* The steps of the file of bytes.                                         *)
LEMMA AsSeek ==
  ASSUME NEW h \in Handle, last' = <<>>, UNCHANGED disk, uio'[h].pos \in 0 .. capacity,
         \A g \in Handle \ {h} : uio'[g].pos = uio[g].pos
  PROVE  B!Next
<1>1. [g \in Handle |-> uio[g].pos]' = [[g \in Handle |-> uio[g].pos] EXCEPT ![h] = uio'[h].pos]
  OBVIOUS
<1>2. B!Seek(h)
  BY <1>1 DEF B!Seek
<1> QED BY <1>2 DEF B!Next

LEMMA AsRead ==
  ASSUME NEW h \in Handle, UNCHANGED disk, NEW k \in 0 .. MaxBytes,
         uio'[h].pos = uio[h].pos + k, uio'[h].pos <= capacity,
         last' = Slice(disk, uio[h].pos, k),
         \A g \in Handle \ {h} : uio'[g].pos = uio[g].pos
  PROVE  B!Next
<1> DEFINE pos == [g \in Handle |-> uio[g].pos]
<1>1. pos' = [pos EXCEPT ![h] = pos[h] + k] /\ pos[h] + k <= capacity
  OBVIOUS
<1>2. last' = [i \in 1 .. k |-> disk[pos[h] + i - 1]]
  BY DEF Slice
<1>3. B!Move(h, k)
  BY <1>1 DEF B!Move
<1>4. B!Read(h)
  BY <1>2, <1>3 DEF B!Read
<1> QED BY <1>4 DEF B!Next

LEMMA AsWrite ==
  ASSUME NEW h \in Handle, NEW s \in Seq(Byte), Len(s) <= MaxBytes, last' = s,
         NEW m \in 0 .. Len(s), NEW k \in 0 .. m, uio[h].pos \in Nat,
         uio'[h].pos = uio[h].pos + k, uio'[h].pos <= capacity,
         disk' = Overlaid(disk, uio[h].pos, SubSeq(s, 1, m)),
         \A g \in Handle \ {h} : uio'[g].pos = uio[g].pos
  PROVE  B!Next
<1> DEFINE pos == [g \in Handle |-> uio[g].pos]
           u == SubSeq(s, 1, m)
<1>1. pos' = [pos EXCEPT ![h] = pos[h] + k] /\ pos[h] + k <= capacity /\ pos[h] = uio[h].pos
  OBVIOUS
<1>2. Len(u) = m /\ \A i \in 1 .. m : u[i] = s[i]
  <2>1. Len(s) \in Nat /\ \A i \in 1 .. Len(s) : s[i] \in Byte
    BY LenProperties, ElementOfSeq
  <2>2. \A i \in 1 .. m : s[i] \in Byte
    BY <2>1
  <2>3. /\ Len(u) = IF 1 <= m THEN m - 1 + 1 ELSE 0
        /\ \A i \in 1 .. m - 1 + 1 : u[i] = s[1 + i - 1]
    BY <2>1, <2>2, SubSeqProperties
  <2> QED BY <2>1, <2>3
<1> DEFINE p == uio[h].pos
<1>3. disk' = [i \in 0 .. capacity - 1 |-> IF i - p \in 0 .. Len(u) - 1 THEN u[i - p + 1] ELSE disk[i]]
  BY DEF Overlaid
<1>4. p \in Nat /\ capacity \in Nat /\ m \in Nat
  BY DevSizes, LenProperties
<1> HIDE DEF p, u
<1>5. ASSUME NEW i \in 0 .. capacity - 1
      PROVE  (IF i - p \in 0 .. Len(u) - 1 THEN u[i - p + 1] ELSE disk[i])
               = (IF i - p \in 0 .. m - 1 THEN s[i - p + 1] ELSE disk[i])
  <2>1. i - p \in 0 .. m - 1 => i - p + 1 \in 1 .. m
    BY <1>4
  <2> QED BY <1>2, <2>1
<1>6. disk' = [i \in 0 .. capacity - 1 |-> IF i - p \in 0 .. m - 1 THEN s[i - p + 1] ELSE disk[i]]
  BY <1>3, <1>5
<1>7. disk' = [i \in 0 .. capacity - 1 |->
                 IF i - pos[h] \in 0 .. m - 1 THEN last'[i - pos[h] + 1] ELSE disk[i]]
  BY <1>1, <1>6 DEF p
<1>8. B!Move(h, k)
  BY <1>1 DEF B!Move
<1>9. B!Write(h)
  <2>1. last' \in Seq(Byte) /\ Len(last') <= MaxBytes /\ m \in 0 .. Len(last') /\ k \in 0 .. m
    OBVIOUS
  <2> QED BY <1>7, <1>8, <2>1 DEF B!Write
<1> QED BY <1>9 DEF B!Next

(* Every step keeps the invariant, and below the end of the device it is a *)
(* step of the file of bytes or one the file does not see.                 *)
DevStep == DevInv' /\ (~PastEnd => B!Next \/ UNCHANGED <<disk, [h \in Handle |-> uio[h].pos], last>>)

LEMMA QuietStep ==
  ASSUME DevInv, DevInv', NEW h \in Handle, UNCHANGED disk, last' = <<>>,
         \A g \in Handle : uio'[g].pos = uio[g].pos
  PROVE  DevStep
<1>1. ASSUME ~PastEnd PROVE B!Next
  <2>1. uio[h].pos \in Nat /\ uio[h].pos <= capacity /\ capacity \in Nat
    BY <1>1, HandleFacts, DevSizes DEF DevInv
  <2>2. uio'[h].pos \in 0 .. capacity
    BY <2>1
  <2> QED BY <2>2, AsSeek
<1> QED BY <1>1 DEF DevStep

LEMMA MovedStep ==
  ASSUME DevInv, DevInv', NEW h \in Handle, UNCHANGED disk, last' = <<>>,
         uio'[h].pos \in 0 .. capacity, \A g \in Handle \ {h} : uio'[g] = uio[g]
  PROVE  DevStep
<1>1. B!Next
  BY AsSeek
<1> QED BY <1>1 DEF DevStep

LEMMA DevNextStep ==
  ASSUME DevInv, DevNext
  PROVE  DevStep
<1>1. CASE Register
  <2>1. TablesOK' /\ DOMAIN devlist \subseteq DOMAIN devlist' /\ UNCHANGED <<mplist, opened, uio, disk, last>>
    BY <1>1, RegisterStep DEF DevInv
  <2>2. OpenOK' /\ HandlesOK'
    <3>1. OpenOK'
      BY <2>1, OpenFrame DEF DevInv
    <3> QED BY <2>1, <3>1 DEF DevInv, HandlesOK
  <2> QED BY <2>1, <2>2 DEF DevStep, DevInv
<1>2. CASE AttachFilesystem
  <2>1. TablesOK' /\ UNCHANGED <<devlist, opened, uio, disk, last>>
    BY <1>2, MountStep DEF DevInv
  <2>2. OpenOK' /\ HandlesOK'
    <3>1. OpenOK'
      BY <2>1, OpenFrame DEF DevInv
    <3> QED BY <2>1, <3>1 DEF DevInv, HandlesOK
  <2> QED BY <2>1, <2>2 DEF DevStep, DevInv
<1>3. ASSUME NEW h \in Handle, NEW mp, NEW name, NEW i, OpenFile(h, mp, name, i)
      PROVE  DevStep
  BY <1>3, OpenFileStep, QuietStep
<1>4. ASSUME NEW h \in Handle, devfs_open_listing(h)
      PROVE  DevStep
  <2>1. Listing(h, "devices", devlist)
    BY <1>4 DEF devfs_open_listing
  <2> QED BY <2>1, ListingStep, QuietStep
<1>5. ASSUME NEW h \in Handle, fs_open_listing(h)
      PROVE  DevStep
  <2>1. Listing(h, "mounts", mplist)
    BY <1>5 DEF fs_open_listing
  <2> QED BY <2>1, ListingStep, QuietStep
<1>6. ASSUME NEW h \in Handle, devfs_listing_read(h)
      PROVE  DevStep
  <2>1. NextName(h, "devices", devlist)
    BY <1>6 DEF devfs_listing_read
  <2> QED BY <2>1, NextNameStep, QuietStep
<1>7. ASSUME NEW h \in Handle, fs_listing_read(h)
      PROVE  DevStep
  <2>1. NextName(h, "mounts", mplist)
    BY <1>7 DEF fs_listing_read
  <2> QED BY <2>1, NextNameStep, QuietStep
<1>8. ASSUME NEW h \in Handle, serial_uio_close(h) \/ storage_uio_close(h) \/ ListingClose(h)
      PROVE  DevStep
  <2>1. /\ Freed(h)
        /\ \/ uio[h].kind \in {"serial", "storage"} /\ opened' = opened \ {uio[h].at}
           \/ uio[h].kind \in {"devices", "mounts"} /\ UNCHANGED opened
    BY <1>8 DEF serial_uio_close, storage_uio_close, ListingClose, serial_close, storage_close
  <2>2. /\ DevInv' /\ UNCHANGED disk /\ last' = <<>>
        /\ uio'[h].pos = 0 /\ \A g \in Handle \ {h} : uio'[g] = uio[g]
    BY <2>1, DevCloseStep
  <2>3. 0 \in 0 .. capacity
    BY DevSizes
  <2> QED BY <2>2, <2>3, MovedStep
<1>9. ASSUME NEW h \in Handle, NEW p \in 0 .. capacity, SetPos(h, p)
      PROVE  DevStep
  BY <1>9, SetPosStep, MovedStep
<1>10. ASSUME NEW h \in Handle, NEW n \in 0 .. MaxBytes, NEW fault \in Fault,
              storage_uio_read(h, n, fault)
       PROVE  DevStep
  <2>1. /\ DevInv' /\ UNCHANGED disk
        /\ \A g \in Handle \ {h} : uio'[g] = uio[g]
        /\ \E k \in 0 .. n :
             /\ uio'[h].pos = uio[h].pos + k
             /\ ~PastEnd => uio'[h].pos <= capacity /\ last' = Slice(disk, uio[h].pos, k)
    BY <1>10, ReadStep
  <2>2. ASSUME ~PastEnd PROVE B!Next
    <3>1. PICK k \in 0 .. n : /\ uio'[h].pos = uio[h].pos + k /\ uio'[h].pos <= capacity
                              /\ last' = Slice(disk, uio[h].pos, k)
      BY <2>1, <2>2
    <3>2. k \in 0 .. MaxBytes
      BY DevSizes
    <3> QED BY <2>1, <3>1, <3>2, AsRead
  <2> QED BY <2>1, <2>2 DEF DevStep
<1>11. ASSUME NEW h \in Handle, NEW n \in 0 .. MaxBytes, NEW fault \in Fault,
              NEW s \in [1 .. n -> Byte], storage_uio_write(h, s, fault)
       PROVE  DevStep
  <2>1. /\ DevInv' /\ last' = s /\ s \in Seq(Byte) /\ Len(s) = n
        /\ \A g \in Handle \ {h} : uio'[g] = uio[g]
        /\ \E m \in 0 .. n : \E k \in 0 .. m :
             /\ uio'[h].pos = uio[h].pos + k
             /\ ~PastEnd => /\ uio'[h].pos <= capacity
                            /\ disk' = Overlaid(disk, uio[h].pos, SubSeq(s, 1, m))
    BY <1>11, WriteStep
  <2>2. ASSUME ~PastEnd PROVE B!Next
    <3>1. PICK m \in 0 .. n : \E k \in 0 .. m :
             /\ uio'[h].pos = uio[h].pos + k /\ uio'[h].pos <= capacity
             /\ disk' = Overlaid(disk, uio[h].pos, SubSeq(s, 1, m))
      BY <2>1, <2>2
    <3>2. PICK k \in 0 .. m :
             /\ uio'[h].pos = uio[h].pos + k /\ uio'[h].pos <= capacity
             /\ disk' = Overlaid(disk, uio[h].pos, SubSeq(s, 1, m))
      BY <3>1
    <3>3. uio[h].pos \in Nat /\ Len(s) <= MaxBytes /\ m \in 0 .. Len(s)
      BY <2>1, HandleFacts, DevSizes DEF DevInv
    <3> QED BY <2>1, <3>2, <3>3, AsWrite
  <2> QED BY <2>1, <2>2 DEF DevStep
<1> QED BY <1>1, <1>2, <1>3, <1>4, <1>5, <1>6, <1>7, <1>8, <1>9, <1>10, <1>11 DEF DevNext

LEMMA DevInitInv ==
  ASSUME DevInit
  PROVE  DevInv
<1>1. /\ devlist = <<>> /\ mplist = <<>> /\ opened = {}
      /\ uio = [h \in Handle |-> Closed] /\ disk \in Image
  BY DEF DevInit, Image
<1>2. <<>> \in Seq(Device) /\ <<>> \in Seq(STRING \X {"devfs", "nullfs"}) /\ Len(<<>>) = 0
  BY EmptySeq
<1>3. DOMAIN devlist = {} /\ DOMAIN mplist = {}
  BY <1>1
<1>8. \A name : Count(devlist, name) = 0
  <2>1. \A name : {i \in DOMAIN devlist : devlist[i].name = name} = {}
    BY <1>1
  <2> QED BY <2>1, FS_EmptySet DEF Count
<1>4. TablesOK
  <2>1. \A name : 0 .. Count(devlist, name) - 1 = {}
    BY <1>8
  <2> QED BY <1>1, <1>2, <1>3, <2>1, DevSizes DEF TablesOK
<1>5. \A h \in Handle : uio[h] = Closed
  BY <1>1
<1>6. OpenOK
  BY <1>1, <1>5, ClosedOK DEF OpenOK
<1>7. HandlesOK
  <2>1. \A h \in Handle : uio[h].kind # "storage" /\ uio[h].pos = 0 /\ uio[h].pos <= capacity
    BY <1>5, ClosedOK
  <2> QED BY <1>1, <2>1, ClosedOK DEF HandlesOK
<1> QED BY <1>1, <1>4, <1>6, <1>7 DEF DevInv

LEMMA DevInvTyped ==
  ASSUME DevInv
  PROVE  DevTypeOK
<1> DEFINE on(d) == {h \in Handle : uio[h].kind \in {"serial", "storage"} /\ uio[h].at = d}
<1>1. ASSUME NEW d \in DOMAIN devlist
      PROVE  IF d \in opened THEN \E h \in Handle : on(d) = {h} ELSE on(d) = {}
  <2>1. CASE d \in opened
    <3>1. PICK h \in On(d) : TRUE
      BY <2>1 DEF DevInv, OpenOK
    <3>2. h \in Handle /\ \A g \in on(d) : g = h
      BY <3>1 DEF DevInv, OpenOK, On
    <3>3. on(d) = {h}
      BY <3>1, <3>2 DEF On
    <3> QED BY <2>1, <3>2, <3>3
  <2>2. CASE d \notin opened
    BY <2>2 DEF DevInv, OpenOK
  <2> QED BY <2>1, <2>2
<1>2. /\ \A i, j \in DOMAIN devlist :
           devlist[i].name = devlist[j].name /\ devlist[i].instno = devlist[j].instno => i = j
      /\ \A i, j \in DOMAIN mplist : mplist[i][1] = mplist[j][1] => i = j
      /\ opened \subseteq DOMAIN devlist /\ disk \in [0 .. capacity - 1 -> Byte]
  BY DEF DevInv, TablesOK, OpenOK, Image
<1> HIDE DEF on
<1>4. ASSUME NEW i \in DOMAIN devlist, NEW k \in 0 .. devlist[i].instno - 1
      PROVE  \E j \in DOMAIN devlist : devlist[j].name = devlist[i].name /\ devlist[j].instno = k
  <2> DEFINE name == devlist[i].name
             c    == Count(devlist, name)
  <2>1. name \in STRING /\ devlist[i].instno \in Nat
    <3>1. devlist[i] \in Device
      BY ElementOfSeq, LenProperties DEF DevInv, TablesOK
    <3> QED BY <3>1 DEF Device
  <2>2. devlist[i].instno < c /\ c \in Nat
    <3>1. IsFiniteSet(DOMAIN devlist)
      BY LenProperties, FS_Interval DEF DevInv, TablesOK
    <3>2. c \in Nat
      BY <3>1, FS_Subset, FS_CardinalityType DEF Count
    <3> QED BY <3>2 DEF DevInv, TablesOK
  <2>3. k \in 0 .. c - 1
    <3> HIDE DEF c
    <3> QED BY <2>1, <2>2
  <2>4. \A nm \in STRING : \A m \in 0 .. Count(devlist, nm) - 1 :
          \E j \in DOMAIN devlist : devlist[j].name = nm /\ devlist[j].instno = m
    BY DEF DevInv, TablesOK
  <2>5. k \in 0 .. Count(devlist, name) - 1
    BY <2>3
  <2> HIDE DEF name
  <2>6. \E j \in DOMAIN devlist : devlist[j].name = name /\ devlist[j].instno = k
    BY <2>1, <2>4, <2>5, Zenon
  <2> QED BY <2>6 DEF name
<1>5. PastEnd \/ \A h \in Handle : uio[h].pos \in 0 .. capacity
  <2>1. \A h \in Handle : uio[h].pos \in Nat
    BY HandleFacts DEF DevInv
  <2> QED BY <2>1, DevSizes DEF DevInv, HandlesOK
<1>3. \A d \in DOMAIN devlist : IF d \in opened THEN \E h \in Handle : on(d) = {h} ELSE on(d) = {}
  BY <1>1
<1> QED BY <1>2, <1>3, <1>4, <1>5, Zenon DEF DevTypeOK, on

LEMMA DevInvKept ==
  ASSUME DevInv, [DevNext]_devVars
  PROVE  DevStep
<1>1. CASE DevNext
  BY <1>1, DevNextStep
<1>2. CASE UNCHANGED devVars
  <2>1. UNCHANGED <<devlist, mplist, opened, uio, disk, last>>
    BY <1>2 DEF devVars, tables
  <2>2. TablesOK'
    BY <2>1 DEF DevInv, TablesOK
  <2>3. OpenOK'
    BY <2>1, OpenFrame DEF DevInv
  <2>4. HandlesOK' /\ (disk \in Image)'
    BY <2>1 DEF DevInv, HandlesOK
  <2> QED BY <2>1, <2>2, <2>3, <2>4 DEF DevStep, DevInv
<1> QED BY <1>1, <1>2

(* A name and number mean one device, the devices of a name are numbered   *)
(* without gaps, a mount point means one file system, and a device is open *)
(* exactly while one handle leads to it: for any number of devices, mount  *)
(* points and handles, also when calls reach past the end of the device.   *)
(* When they do not, positions stay within it.                             *)
THEOREM DevTyping == DevSpec => []DevTypeOK
<1>1. DevInit => DevInv
  BY DevInitInv
<1>2. DevInv /\ [DevNext]_devVars => DevInv'
  BY DevInvKept DEF DevStep
<1>3. DevInv => DevTypeOK
  BY DevInvTyped
<1> QED BY <1>1, <1>2, <1>3, PTL DEF DevSpec

(* Calls that end within the device make it a file of bytes, whatever the  *)
(* size of its blocks, wherever they begin and end, and whichever of their *)
(* parts fails.                                                            *)
THEOREM ByteFileRefinement ==
  ASSUME ~PastEnd
  PROVE  DevSpec => ByteFileSpec
<1>1. DevInit => B!Init
  <2> SUFFICES ASSUME DevInit PROVE B!Init
    OBVIOUS
  <2>2. [h \in Handle |-> uio[h].pos] = [h \in Handle |-> 0]
    <3>1. \A h \in Handle : uio[h].pos = 0
      BY ClosedOK DEF DevInit
    <3> QED BY <3>1
  <2> QED BY <2>2 DEF DevInit, B!Init
<1>2. DevInit => DevInv
  BY DevInitInv
<1>3. DevInv /\ [DevNext]_devVars => DevInv'
  BY DevInvKept DEF DevStep
<1>4. DevInv /\ [DevNext]_devVars
        => [B!Next]_<<disk, [h \in Handle |-> uio[h].pos], last>>
  BY DevInvKept DEF DevStep
<1>5. DevSpec => []DevInv
  BY <1>2, <1>3, PTL DEF DevSpec
<1>6. DevSpec => [][B!Next]_<<disk, [h \in Handle |-> uio[h].pos], last>>
  BY <1>4, <1>5, PTL DEF DevSpec
<1>7. B!Init /\ [][B!Next]_<<disk, [h \in Handle |-> uio[h].pos], last>> => ByteFileSpec
  BY PTL DEF ByteFileSpec, B!Spec
<1> QED BY <1>1, <1>6, <1>7, PTL DEF DevSpec
=============================================================================
