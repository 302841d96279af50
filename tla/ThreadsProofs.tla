--------------------------- MODULE ThreadsProofs ---------------------------
EXTENDS Threads, ListLemmas

(* The lists are sequences.                                                *)
USE DEF tlinsert, tlremove, tlappend, tlempty

(* Where each thread is in the code, as its state says.                    *)
ControlInv ==
  /\ pc[tp] \in Current \cup {"cw2", "rs1", "rs2", "rs3"}
  /\ \A t \in Tid \ {tp} : pc[t] \in {"start", "off", "dead"}
  /\ \A t \in Tid : state[t] \in {"READY", "WAITING", "SELF"} => pc[t] # "dead"
  /\ pc[tp] \in {"cw2", "rs1", "rs2"} => state[tp] # "FREE"
  /\ pc[tp] = "cw2" => state[tp] = "WAITING"
  /\ pc[tp] = "rs2" => next \in Tid /\ state[next] = "READY"

(* A call keeps its loop and its argument only while it needs them.        *)
ArgOK(t) ==
    /\ (cont[t] = "lock" \/ pc[t] = "lock") => arg[t] \in Locks
    /\ (cont[t] = "event" \/ pc[t] = "event") => arg[t] \in Events
    /\ (pc[t] \in (Current \ {"cw1"}) \cup {"start", "dead"} \/ state[t] \in {"FREE", "EXITED"})
         => cont[t] = "run"
ArgInv == \A t \in Tid : ArgOK(t)

(* A thread about to enter the wait list of a lock has seen it owned.      *)
LockWaitInv ==
  pc[tp] \in {"cw1", "cw2"} /\ cont[tp] = "lock" => owner[arg[tp]] # NoTid

IInv == /\ TypeOK /\ ControlInv /\ ArgInv /\ Placement
        /\ LocksConsistent /\ LockWaitInv /\ NoLostRelease

----------------------------------------------------------------------------
(* Typing.                                                                 *)

LEMMA CondTypes ==
  /\ \A t \in Tid : Exit(t) \in Cond
  /\ \A l \in Locks : Release(l) \in Cond
  /\ \A e \in Events : Event(e) \in Cond
  BY DEF Cond

(* condition_broadcast keeps the lists lists of threads.                   *)
LEMMA BroadcastTyped ==
  ASSUME TypeOK, NEW c \in Cond, NEW st \in [Tid -> States], Broadcast(c, st)
  PROVE  /\ state' \in [Tid -> States]
         /\ ready_list' \in Seq(Tid)
         /\ wait_list' \in [Cond -> Seq(Tid)]
<1>1. ready_list \in Seq(Tid) /\ wait_list[c] \in Seq(Tid)
  BY DEF TypeOK
<1>2. ready_list \o wait_list[c] \in Seq(Tid)
  BY <1>1, ConcatProperties
<1> QED BY <1>2, EmptySeq DEF TypeOK, Broadcast, States

(* The condition a thread about to wait waits on exists.                   *)
LEMMA CondOfTyped ==
  ASSUME ArgInv, NEW t \in Tid
  PROVE  CondOf(t) \in Cond
  BY CondTypes DEF ArgInv, ArgOK, CondOf

LEMMA TypeStep ==
  ASSUME IInv, Next
  PROVE  TypeOK'
<1> USE NTHRAssumption, MaxCntAssumption
<1>1. ASSUME NEW t \in Tid, TrapEnter(t)
      PROVE  TypeOK'
  BY <1>1 DEF IInv, TypeOK, TrapEnter, At, Goto, Tid, NoTid, Labels,
         States, MAIN_TID, IDLE_TID, thrVars, listVars, lockVars, ctlVars, irqVars
<1>2. ASSUME NEW t \in Tid, TrapReturn(t)
      PROVE  TypeOK'
  BY <1>2 DEF IInv, TypeOK, TrapReturn, At, Goto, Tid, NoTid, Labels,
         States, MAIN_TID, IDLE_TID, thrVars, listVars, lockVars, ctlVars, irqVars
<1>3. ASSUME NEW t \in Tid, Yield(t)
      PROVE  TypeOK'
  BY <1>3 DEF IInv, TypeOK, Yield, At, Goto, Tid, NoTid, Labels,
         States, MAIN_TID, IDLE_TID, thrVars, listVars, lockVars, ctlVars, irqVars
<1>4. ASSUME NEW t \in Tid, HaltMain(t)
      PROVE  TypeOK'
  BY <1>4 DEF IInv, TypeOK, HaltMain, At, Goto, Tid, NoTid, Labels,
         States, MAIN_TID, IDLE_TID, thrVars, listVars, lockVars, ctlVars, irqVars
<1>5. ASSUME NEW t \in Tid, ExitStart(t)
      PROVE  TypeOK'
  BY <1>5 DEF IInv, TypeOK, ExitStart, At, Goto, Tid, NoTid, Labels,
         States, MAIN_TID, IDLE_TID, thrVars, listVars, lockVars, ctlVars, irqVars
<1>6. ASSUME NEW t \in Tid, NEW c \in Tid, Spawn(t, c)
      PROVE  TypeOK'
  <2>1. Append(ready_list, c) \in Seq(Tid)
    BY AppendProperties DEF IInv, TypeOK
  <2>2. /\ ready_list' \in Seq(Tid) /\ state' \in [Tid -> States]
        /\ parent' \in [Tid -> Tid \cup {NoTid}] /\ stack' \in [Tid -> BOOLEAN]
        /\ pc' \in [Tid -> Labels]
    BY <1>6, <2>1 DEF IInv, TypeOK, Spawn, create_thread, States, Labels
  <2>3. UNCHANGED <<tp, wait_list, owner, cnt, lock_list, cont, arg, next,
                    spie, opie, sie, event, pending>>
    BY <1>6 DEF Spawn, create_thread, lockVars, irqVars
  <2> HIDE DEF Labels, States, Tid, Cond, NoTid
  <2> QED BY <2>2, <2>3 DEF IInv, TypeOK
<1>7. ASSUME NEW t \in Tid, NEW c \in Tid, JoinStart(t, c)
      PROVE  TypeOK'
  BY <1>7 DEF IInv, TypeOK, JoinStart, At, Goto, Tid, NoTid, Labels,
         States, MAIN_TID, IDLE_TID, thrVars, listVars, lockVars, ctlVars, irqVars
<1>8. ASSUME NEW t \in Tid, NEW l \in Locks, LockRecursive(t, l)
      PROVE  TypeOK'
  <2>1. cnt[l] \in 0 .. MaxCnt /\ cnt[l] + 1 \in 0 .. MaxCnt
    BY <1>8 DEF IInv, TypeOK, LockRecursive
  <2>2. cnt' \in [Locks -> 0 .. MaxCnt]
    BY <1>8, <2>1 DEF IInv, TypeOK, LockRecursive
  <2>3. UNCHANGED <<thrVars, listVars, owner, lock_list, ctlVars, irqVars>>
    BY <1>8 DEF LockRecursive
  <2> HIDE DEF Labels, States, Tid, Cond, NoTid
  <2> QED BY <2>2, <2>3 DEF IInv, TypeOK, thrVars, listVars, ctlVars, irqVars
<1>9. ASSUME NEW t \in Tid, NEW l \in Locks, LockStart(t, l)
      PROVE  TypeOK'
  BY <1>9 DEF IInv, TypeOK, LockStart, At, Goto, Tid, NoTid, Labels,
         States, MAIN_TID, IDLE_TID, thrVars, listVars, lockVars, ctlVars, irqVars
<1>10. ASSUME NEW t \in Tid, NEW l \in Locks, LockRelease(t, l)
      PROVE  TypeOK'
  <2>1. CASE cnt[l] > 1
    BY <1>10, <2>1 DEF IInv, TypeOK, LockRelease, lock_release_completely, At, Goto,
         Broadcast, Release, Tid, NoTid, Labels,
         States, MAIN_TID, IDLE_TID, thrVars, listVars, lockVars, ctlVars, irqVars
  <2>2. CASE ~(cnt[l] > 1)
    <3>1. Release(l) \in Cond /\ Broadcast(Release(l), state) /\ state \in [Tid -> States]
      BY <1>10, <2>2, CondTypes DEF IInv, TypeOK, LockRelease, lock_release_completely
    <3>2. /\ state' \in [Tid -> States]
          /\ ready_list' \in Seq(Tid)
          /\ wait_list' \in [Cond -> Seq(Tid)]
      BY <3>1, BroadcastTyped DEF IInv
    <3>3. cnt[l] \in 1 .. MaxCnt
      BY <1>10 DEF IInv, TypeOK, LocksConsistent, OwnedCounted, LockRelease,
           lock_release_completely, Tid, NoTid
    <3>4. PICK i \in DOMAIN lock_list[t] :
            lock_list' = [lock_list EXCEPT ![t] = RemoveAt(@, i)]
      BY <1>10, <2>2 DEF LockRelease, lock_release_completely
    <3>5. RemoveAt(lock_list[t], i) \in Seq(Locks)
      BY UnlinkProperties DEF IInv, TypeOK, LocksConsistent, OwnedListed
    <3>6. lock_list' \in [Tid -> Seq(Locks)] /\ owner' \in [Locks -> Tid \cup {NoTid}]
      BY <1>10, <2>2, <3>4, <3>5 DEF IInv, TypeOK, LockRelease, lock_release_completely
    <3>7. cnt' \in [Locks -> 0 .. MaxCnt]
      BY <1>10, <3>3 DEF IInv, TypeOK, LockRelease, lock_release_completely
    <3> QED BY <1>10, <3>2, <3>6, <3>7 DEF IInv, TypeOK, LockRelease,
         lock_release_completely, ctlVars, irqVars
  <2> QED BY <2>1, <2>2
<1>11. ASSUME NEW t \in Tid, NEW e \in Events, EventStart(t, e)
      PROVE  TypeOK'
  BY <1>11 DEF IInv, TypeOK, EventStart, At, Goto, Tid, NoTid, Labels,
         States, MAIN_TID, IDLE_TID, thrVars, listVars, lockVars, ctlVars, irqVars
<1>12. ASSUME NEW t \in Tid, ExitReleaseLock(t)
      PROVE  TypeOK'
  <2>1. lock_list[t] \in Seq(Locks) /\ lock_list[t] # <<>>
    BY <1>12 DEF IInv, TypeOK, ExitReleaseLock
  <2>2. Head(lock_list[t]) \in Locks /\ Tail(lock_list[t]) \in Seq(Locks)
    BY <2>1, HeadTailProperties
  <2>3. /\ state' \in [Tid -> States]
        /\ ready_list' \in Seq(Tid)
        /\ wait_list' \in [Cond -> Seq(Tid)]
    BY <1>12, <2>2, CondTypes, BroadcastTyped DEF IInv, TypeOK, ExitReleaseLock
  <2>4. /\ owner' \in [Locks -> Tid \cup {NoTid}]
        /\ cnt' \in [Locks -> 0 .. MaxCnt]
        /\ lock_list' \in [Tid -> Seq(Locks)]
    BY <1>12, <2>2 DEF IInv, TypeOK, ExitReleaseLock
  <2> QED BY <1>12, <2>3, <2>4 DEF IInv, TypeOK, ExitReleaseLock, ctlVars, irqVars
<1>13. ASSUME NEW t \in Tid, ExitMark(t)
      PROVE  TypeOK'
  <2> DEFINE st == [state EXCEPT ![t] = "EXITED"]
  <2>1. st \in [Tid -> States]
    BY DEF IInv, TypeOK, States
  <2>2. /\ state' \in [Tid -> States]
        /\ ready_list' \in Seq(Tid)
        /\ wait_list' \in [Cond -> Seq(Tid)]
    <3>1. CASE parent[t] = NoTid
      BY <1>13, <2>1, <3>1 DEF IInv, TypeOK, ExitMark, listVars
    <3>2. CASE parent[t] # NoTid
      <4>1. Exit(parent[t]) \in Cond /\ Broadcast(Exit(parent[t]), st)
        BY <1>13, <3>2, CondTypes DEF IInv, TypeOK, ExitMark
      <4> QED BY <2>1, <4>1, BroadcastTyped DEF IInv
    <3> QED BY <3>1, <3>2
  <2> QED BY <1>13, <2>2 DEF IInv, TypeOK, ExitMark, Goto, Labels, lockVars, irqVars
<1>14. ASSUME NEW t \in Tid, JoinReap(t)
      PROVE  TypeOK'
  <2>1. PICK c \in Reapable(t) : Reclaim(c)
    BY <1>14 DEF JoinReap
  <2>2. c \in Tid
    BY DEF Reapable
  <2>3. /\ parent' \in [Tid -> Tid \cup {NoTid}]
        /\ state' \in [Tid -> States]
        /\ stack' \in [Tid -> BOOLEAN]
    BY <2>1, <2>2 DEF IInv, TypeOK, Reclaim, Adopter, States
  <2>4. pc' \in [Tid -> Labels] /\ arg' \in [Tid -> Tid \cup Locks \cup Events \cup {NoTid}]
    BY <1>14 DEF IInv, TypeOK, JoinReap, Return, Goto, Labels
  <2> QED BY <1>14, <2>3, <2>4 DEF IInv, TypeOK, JoinReap, listVars, lockVars, irqVars
<1>15. ASSUME NEW t \in Tid, JoinWait(t)
      PROVE  TypeOK'
  BY <1>15 DEF IInv, TypeOK, JoinWait, At, Goto, Wait, Tid, NoTid, Labels,
         States, MAIN_TID, IDLE_TID, thrVars, listVars, lockVars, ctlVars, irqVars
<1>16. ASSUME NEW t \in Tid, LockWait(t)
      PROVE  TypeOK'
  BY <1>16 DEF IInv, TypeOK, LockWait, At, Goto, Wait, Tid, NoTid, Labels,
         States, MAIN_TID, IDLE_TID, thrVars, listVars, lockVars, ctlVars, irqVars
<1>17. ASSUME NEW t \in Tid, LockTake(t)
      PROVE  TypeOK'
  <2>1. arg[t] \in Locks
    BY <1>17 DEF IInv, ArgInv, ArgOK, LockTake, At
  <2>2. <<arg[t]>> \o lock_list[t] \in Seq(Locks)
    BY <2>1, ConcatProperties DEF IInv, TypeOK
  <2>3. /\ owner' \in [Locks -> Tid \cup {NoTid}]
        /\ cnt' \in [Locks -> 0 .. MaxCnt]
        /\ lock_list' \in [Tid -> Seq(Locks)]
    BY <1>17, <2>1, <2>2 DEF IInv, TypeOK, LockTake
  <2>4. pc' \in [Tid -> Labels] /\ arg' \in [Tid -> Tid \cup Locks \cup Events \cup {NoTid}]
    BY <1>17 DEF IInv, TypeOK, LockTake, Return, Goto, Labels
  <2> QED BY <1>17, <2>3, <2>4 DEF IInv, TypeOK, LockTake, thrVars, listVars, irqVars
<1>18. ASSUME NEW t \in Tid, EventWait(t)
      PROVE  TypeOK'
  BY <1>18 DEF IInv, TypeOK, EventWait, At, Goto, Wait, Tid, NoTid, Labels,
         States, MAIN_TID, IDLE_TID, thrVars, listVars, lockVars, ctlVars, irqVars
<1>19. ASSUME NEW t \in Tid, EventTake(t)
      PROVE  TypeOK'
  BY <1>19 DEF IInv, TypeOK, EventTake, At, Goto, Return, Tid, NoTid, Labels,
         States, MAIN_TID, IDLE_TID, thrVars, listVars, lockVars, ctlVars, irqVars
<1>20. ASSUME NEW t \in Tid, CondWaitMark(t)
      PROVE  TypeOK'
  BY <1>20 DEF IInv, TypeOK, CondWaitMark, At, Goto, Tid, NoTid, Labels,
         States, MAIN_TID, IDLE_TID, thrVars, listVars, lockVars, ctlVars, irqVars
<1>21. ASSUME NEW t \in Tid, CondWaitInsert(t)
      PROVE  TypeOK'
  <2>1. CondOf(t) \in Cond
    BY CondOfTyped DEF IInv
  <2>2. Append(wait_list[CondOf(t)], t) \in Seq(Tid)
    BY <2>1, AppendProperties DEF IInv, TypeOK
  <2> QED BY <1>21, <2>1, <2>2 DEF IInv, TypeOK, CondWaitInsert, Goto, Labels, thrVars,
       lockVars, irqVars
<1>22. ASSUME NEW t \in Tid, SuspendPick(t)
      PROVE  TypeOK'
  <2>1. Requeued(t) \in Seq(Tid) /\ Requeued(t) # <<>>
    BY <1>22, AppendProperties DEF IInv, TypeOK, SuspendPick, Requeued
  <2>2. Head(Requeued(t)) \in Tid /\ Tail(Requeued(t)) \in Seq(Tid)
    BY <2>1, HeadTailProperties
  <2> QED BY <1>22, <2>2 DEF IInv, TypeOK, SuspendPick, Goto, Labels, States, lockVars, irqVars
<1>23. ASSUME NEW t \in Tid, SuspendMark(t)
      PROVE  TypeOK'
  BY <1>23 DEF IInv, TypeOK, SuspendMark, At, Goto, Tid, NoTid, Labels,
         States, MAIN_TID, IDLE_TID, thrVars, listVars, lockVars, ctlVars, irqVars
<1>24. ASSUME NEW t \in Tid, Switch(t)
      PROVE  TypeOK'
  <2>1. next \in Tid
    BY <1>24 DEF IInv, Placement, RunPlaced, Switch, Resume, At
  <2>2. CASE pc[next] = "start"
    BY <1>24, <2>1, <2>2 DEF IInv, TypeOK, Switch, Resume, NoTid, Labels, listVars, lockVars
  <2>3. CASE pc[next] # "start"
    <3>1. pc' \in [Tid -> Labels]
      <4>1. cont[next] \in Labels /\ "dead" \in Labels /\ "off" \in Labels
        BY <2>1 DEF IInv, TypeOK, Labels
      <4> QED BY <1>24, <2>1, <2>3, <4>1 DEF IInv, TypeOK, Switch, Resume
    <3>4. /\ cont' \in [Tid -> {"run", "lock", "event", "join"}]
          /\ tp' \in Tid /\ next' \in Tid \cup {NoTid}
      BY <1>24, <2>1, <2>3 DEF IInv, TypeOK, Switch, Resume
    <3>2. stack' \in [Tid -> BOOLEAN] /\ spie' \in [Tid -> BOOLEAN]
      BY <1>24, <2>1, <2>3 DEF IInv, TypeOK, Switch, Resume
    <3>3. sie' \in BOOLEAN /\ opie' \in [Tid -> BOOLEAN]
      BY <1>24, <2>1, <2>3 DEF IInv, TypeOK, Switch, Resume
    <3> QED BY <1>24, <3>1, <3>2, <3>3, <3>4 DEF IInv, TypeOK, Switch, Resume, listVars,
         lockVars
  <2> QED BY <2>2, <2>3
<1>25. ASSUME NEW t \in Tid, IdleYield(t)
      PROVE  TypeOK'
  BY <1>25 DEF IInv, TypeOK, IdleYield, At, Goto, Tid, NoTid, Labels,
         States, MAIN_TID, IDLE_TID, thrVars, listVars, lockVars, ctlVars, irqVars
<1>26. ASSUME NEW t \in Tid, IdleSeesEmpty(t)
      PROVE  TypeOK'
  BY <1>26 DEF IInv, TypeOK, IdleSeesEmpty, At, Goto, Tid, NoTid, Labels,
         States, MAIN_TID, IDLE_TID, thrVars, listVars, lockVars, ctlVars, irqVars
<1>27. ASSUME NEW t \in Tid, IdleCheck(t)
      PROVE  TypeOK'
  BY <1>27 DEF IInv, TypeOK, IdleCheck, At, Goto, Tid, NoTid, Labels,
         States, MAIN_TID, IDLE_TID, thrVars, listVars, lockVars, ctlVars, irqVars
<1>28. ASSUME NEW t \in Tid, IdleWake(t)
      PROVE  TypeOK'
  BY <1>28 DEF IInv, TypeOK, IdleWake, At, Goto, Tid, NoTid, Labels,
         States, MAIN_TID, IDLE_TID, thrVars, listVars, lockVars, ctlVars, irqVars
<1>29. ASSUME NEW e \in Events, Raise(e)
      PROVE  TypeOK'
  BY <1>29 DEF IInv, TypeOK, Raise, thrVars, listVars, lockVars, ctlVars
<1>30. ASSUME NEW e \in Events, Isr(e)
      PROVE  TypeOK'
  <2>1. /\ state' \in [Tid -> States]
        /\ ready_list' \in Seq(Tid)
        /\ wait_list' \in [Cond -> Seq(Tid)]
    BY <1>30, CondTypes, BroadcastTyped DEF IInv, TypeOK, Isr
  <2> QED BY <1>30, <2>1 DEF IInv, TypeOK, Isr, lockVars, ctlVars
<1>31. CASE UNCHANGED vars
  BY <1>31 DEF IInv, TypeOK, vars, thrVars, listVars, lockVars, ctlVars, irqVars
<1> QED BY <1>1, <1>2, <1>3, <1>4, <1>5, <1>6, <1>7, <1>8, <1>9, <1>10, <1>11, <1>12, <1>13,
     <1>14, <1>15, <1>16, <1>17, <1>18, <1>19, <1>20, <1>21, <1>22, <1>23, <1>24, <1>25, <1>26,
     <1>27, <1>28, <1>29, <1>30, <1>31
  DEF Next, Call, Progress, Halted

----------------------------------------------------------------------------
(* What a broadcast and a suspend do to the lists.                         *)

(* condition_broadcast only makes waiting threads ready.                   *)
LEMMA BroadcastStates ==
  ASSUME IInv, NEW c \in Cond, NEW st \in [Tid -> States], Broadcast(c, st)
  PROVE  \A u \in Tid : \/ state'[u] = st[u]
                         \/ /\ state[u] = "WAITING" /\ state'[u] = "READY"
                            /\ ~(u = tp /\ pc[tp] = "cw2")
  BY DEF Broadcast, IInv, TypeOK, Placement, WaitPlaced, At

(* The list SuspendPick takes the next thread from, and what is left of it.*)
LEMMA RequeuedFacts ==
  ASSUME IInv, NEW t \in Tid, At(t, "rs1"), Requeued(t) # <<>>
  PROVE  LET q == Requeued(t)
             members == Range(ready_list) \cup (IF Runnable(t) THEN {t} ELSE {})
         IN /\ Head(q) \in members
            /\ Head(q) \in Tid
            /\ Range(Tail(q)) = members \ {Head(q)}
            /\ IsInjective(Tail(q))
<1> DEFINE q == Requeued(t)
           members == Range(ready_list) \cup (IF Runnable(t) THEN {t} ELSE {})
<1>1. ready_list \in Seq(Tid) /\ IsInjective(ready_list)
  BY DEF IInv, TypeOK, Placement, ReadyPlaced
<1>2. q \in Seq(Tid) /\ IsInjective(q) /\ Range(q) = members
  <2>1. CASE Runnable(t)
    <3>1. t \notin Range(ready_list)
      BY <2>1 DEF Runnable, IInv, Placement, ReadyPlaced
    <3>2. q = Append(ready_list, t)
      BY <2>1 DEF Requeued
    <3> QED BY <1>1, <2>1, <3>1, <3>2, AppendProperties, RangeAppend, InjectiveAppend
  <2>2. CASE ~Runnable(t)
    BY <1>1, <2>2 DEF Requeued
  <2> QED BY <2>1, <2>2
<1>3. /\ Head(q) \in Range(q) /\ Range(q) = {Head(q)} \cup Range(Tail(q))
      /\ IsInjective(Tail(q)) /\ Head(q) \notin Range(Tail(q))
      /\ Head(q) \in Tid
  BY <1>2, RangeTail, InjectiveTail, HeadTailProperties
<1> QED BY <1>2, <1>3

----------------------------------------------------------------------------
(* Where the threads are in the code.                                      *)

LEMMA ControlStep ==
  ASSUME IInv, Next
  PROVE  ControlInv'
<1>1. ASSUME NEW t \in Tid, TrapEnter(t)
      PROVE  ControlInv'
  BY <1>1 DEF TrapEnter, IInv, TypeOK, ControlInv, Placement, RunPlaced, Current, At, Goto,
         Tid, NoTid, MAIN_TID, IDLE_TID, thrVars, listVars, lockVars, ctlVars, irqVars
<1>2. ASSUME NEW t \in Tid, TrapReturn(t)
      PROVE  ControlInv'
  BY <1>2 DEF TrapReturn, IInv, TypeOK, ControlInv, Placement, RunPlaced, Current, At, Goto,
         Tid, NoTid, MAIN_TID, IDLE_TID, thrVars, listVars, lockVars, ctlVars, irqVars
<1>3. ASSUME NEW t \in Tid, Yield(t)
      PROVE  ControlInv'
  BY <1>3 DEF Yield, IInv, TypeOK, ControlInv, Placement, RunPlaced, Current, At, Goto,
         Tid, NoTid, MAIN_TID, IDLE_TID, thrVars, listVars, lockVars, ctlVars, irqVars
<1>4. ASSUME NEW t \in Tid, HaltMain(t)
      PROVE  ControlInv'
  BY <1>4 DEF HaltMain, IInv, TypeOK, ControlInv, Placement, RunPlaced, Current, At, Goto,
         Tid, NoTid, MAIN_TID, IDLE_TID, thrVars, listVars, lockVars, ctlVars, irqVars
<1>5. ASSUME NEW t \in Tid, ExitStart(t)
      PROVE  ControlInv'
  BY <1>5 DEF ExitStart, IInv, TypeOK, ControlInv, Placement, RunPlaced, Current, At, Goto,
         Tid, NoTid, MAIN_TID, IDLE_TID, thrVars, listVars, lockVars, ctlVars, irqVars
<1>6. ASSUME NEW t \in Tid, NEW c \in Tid, Spawn(t, c)
      PROVE  ControlInv'
  BY <1>6 DEF Spawn, create_thread, IInv, TypeOK, ControlInv, Placement, RunPlaced, Current,
       At, Goto,
         Tid, NoTid, MAIN_TID, IDLE_TID, thrVars, listVars, lockVars, ctlVars, irqVars
<1>7. ASSUME NEW t \in Tid, NEW c \in Tid, JoinStart(t, c)
      PROVE  ControlInv'
  BY <1>7 DEF JoinStart, IInv, TypeOK, ControlInv, Placement, RunPlaced, Current, At, Goto,
         Tid, NoTid, MAIN_TID, IDLE_TID, thrVars, listVars, lockVars, ctlVars, irqVars
<1>8. ASSUME NEW t \in Tid, NEW l \in Locks, LockRecursive(t, l)
      PROVE  ControlInv'
  BY <1>8 DEF LockRecursive, IInv, TypeOK, ControlInv, Placement, RunPlaced, Current, At, Goto,
         Tid, NoTid, MAIN_TID, IDLE_TID, thrVars, listVars, lockVars, ctlVars, irqVars
<1>9. ASSUME NEW t \in Tid, NEW l \in Locks, LockStart(t, l)
      PROVE  ControlInv'
  BY <1>9 DEF LockStart, IInv, TypeOK, ControlInv, Placement, RunPlaced, Current, At, Goto,
         Tid, NoTid, MAIN_TID, IDLE_TID, thrVars, listVars, lockVars, ctlVars, irqVars
<1>10. ASSUME NEW t \in Tid, NEW l \in Locks, LockRelease(t, l)
      PROVE  ControlInv'
  <2>1. \A u \in Tid : \/ state'[u] = state[u]
                      \/ /\ state[u] = "WAITING" /\ state'[u] = "READY"
                         /\ ~(u = tp /\ pc[tp] = "cw2")
    BY <1>10, CondTypes, BroadcastStates, ZenonT(40) DEF LockRelease, lock_release_completely,
         IInv, TypeOK
  <2> QED BY <1>10, <2>1 DEF LockRelease, lock_release_completely, IInv, TypeOK, ControlInv,
       Placement, RunPlaced, Current, At, Goto,
         Tid, NoTid, MAIN_TID, IDLE_TID, thrVars, listVars, lockVars, ctlVars, irqVars
<1>11. ASSUME NEW t \in Tid, NEW e \in Events, EventStart(t, e)
      PROVE  ControlInv'
  BY <1>11 DEF EventStart, IInv, TypeOK, ControlInv, Placement, RunPlaced, Current, At, Goto,
         Tid, NoTid, MAIN_TID, IDLE_TID, thrVars, listVars, lockVars, ctlVars, irqVars
<1>12. ASSUME NEW t \in Tid, ExitReleaseLock(t)
      PROVE  ControlInv'
  <2>1. Head(lock_list[t]) \in Locks
    BY <1>12, HeadTailProperties DEF ExitReleaseLock, IInv, TypeOK
  <2>2. \A u \in Tid : \/ state'[u] = state[u]
                      \/ /\ state[u] = "WAITING" /\ state'[u] = "READY"
                         /\ ~(u = tp /\ pc[tp] = "cw2")
    BY <1>12, <2>1, CondTypes, BroadcastStates DEF ExitReleaseLock, IInv, TypeOK
  <2> QED BY <1>12, <2>2 DEF ExitReleaseLock, IInv, TypeOK, ControlInv, Placement,
       RunPlaced, Current, At, Goto,
         Tid, NoTid, MAIN_TID, IDLE_TID, thrVars, listVars, lockVars, ctlVars, irqVars
<1>13. ASSUME NEW t \in Tid, ExitMark(t)
      PROVE  ControlInv'
  <2> DEFINE st == [state EXCEPT ![t] = "EXITED"]
  <2>1. st \in [Tid -> States]
    BY DEF IInv, TypeOK, States
  <2>2. \A u \in Tid : \/ state'[u] = st[u]
                      \/ /\ state[u] = "WAITING" /\ state'[u] = "READY"
                         /\ ~(u = tp /\ pc[tp] = "cw2")
    <3>1. CASE parent[t] = NoTid
      BY <1>13, <3>1 DEF ExitMark
    <3>2. CASE parent[t] # NoTid
      <4>1. Exit(parent[t]) \in Cond /\ Broadcast(Exit(parent[t]), st)
        BY <1>13, <3>2, CondTypes DEF ExitMark, IInv, TypeOK
      <4> QED BY <2>1, <4>1, BroadcastStates
    <3> QED BY <3>1, <3>2
  <2>3. \A u \in Tid : IF u = t THEN state'[u] = "EXITED"
                       ELSE \/ state'[u] = state[u]
                            \/ state[u] = "WAITING" /\ state'[u] = "READY"
    BY <1>13, <2>2 DEF ExitMark, IInv, TypeOK, Placement, RunPlaced, At, Current
  <2> QED BY <1>13, <2>3 DEF ExitMark, IInv, TypeOK, ControlInv, ArgInv, ArgOK, Current, At,
       Goto, lockVars, irqVars
<1>14. ASSUME NEW t \in Tid, JoinReap(t)
      PROVE  ControlInv'
  BY <1>14 DEF JoinReap, Reclaim, Return, Reapable, Adopter, IInv, TypeOK, ControlInv,
       Placement, RunPlaced, Current, At, Goto,
         Tid, NoTid, MAIN_TID, IDLE_TID, thrVars, listVars, lockVars, ctlVars, irqVars
<1>15. ASSUME NEW t \in Tid, JoinWait(t)
      PROVE  ControlInv'
  BY <1>15 DEF JoinWait, Wait, IInv, TypeOK, ControlInv, Placement, RunPlaced, Current, At,
       Goto,
         Tid, NoTid, MAIN_TID, IDLE_TID, thrVars, listVars, lockVars, ctlVars, irqVars
<1>16. ASSUME NEW t \in Tid, LockWait(t)
      PROVE  ControlInv'
  BY <1>16 DEF LockWait, Wait, IInv, TypeOK, ControlInv, Placement, RunPlaced, Current, At,
       Goto,
         Tid, NoTid, MAIN_TID, IDLE_TID, thrVars, listVars, lockVars, ctlVars, irqVars
<1>17. ASSUME NEW t \in Tid, LockTake(t)
      PROVE  ControlInv'
  BY <1>17 DEF LockTake, Return, IInv, TypeOK, ControlInv, Placement, RunPlaced, Current,
       At, Goto,
         Tid, NoTid, MAIN_TID, IDLE_TID, thrVars, listVars, lockVars, ctlVars, irqVars
<1>18. ASSUME NEW t \in Tid, EventWait(t)
      PROVE  ControlInv'
  BY <1>18 DEF EventWait, Wait, IInv, TypeOK, ControlInv, Placement, RunPlaced, Current, At,
       Goto,
         Tid, NoTid, MAIN_TID, IDLE_TID, thrVars, listVars, lockVars, ctlVars, irqVars
<1>19. ASSUME NEW t \in Tid, EventTake(t)
      PROVE  ControlInv'
  BY <1>19 DEF EventTake, Return, IInv, TypeOK, ControlInv, Placement, RunPlaced, Current,
       At, Goto,
         Tid, NoTid, MAIN_TID, IDLE_TID, thrVars, listVars, lockVars, ctlVars, irqVars
<1>20. ASSUME NEW t \in Tid, CondWaitMark(t)
      PROVE  ControlInv'
  BY <1>20 DEF CondWaitMark, IInv, TypeOK, ControlInv, Placement, RunPlaced, Current, At, Goto,
         Tid, NoTid, MAIN_TID, IDLE_TID, thrVars, listVars, lockVars, ctlVars, irqVars
<1>21. ASSUME NEW t \in Tid, CondWaitInsert(t)
      PROVE  ControlInv'
  BY <1>21 DEF CondWaitInsert, IInv, TypeOK, ControlInv, Placement, RunPlaced, Current, At,
       Goto,
         Tid, NoTid, MAIN_TID, IDLE_TID, thrVars, listVars, lockVars, ctlVars, irqVars
<1>22. ASSUME NEW t \in Tid, SuspendPick(t)
      PROVE  ControlInv'
  <2>1. next' \in Tid /\ state'[next'] = "READY"
    BY <1>22, RequeuedFacts DEF SuspendPick, IInv, TypeOK, ReadyPlaced, Placement, Runnable, At
  <2>2. \A u \in Tid : state'[u] = IF u = t /\ state[t] = "SELF" THEN "READY" ELSE state[u]
    BY <1>22 DEF SuspendPick, Runnable, IInv, TypeOK
  <2> QED BY <1>22, <2>1, <2>2 DEF SuspendPick, IInv, TypeOK, ControlInv, Current, At, Goto,
       lockVars, irqVars
<1>23. ASSUME NEW t \in Tid, SuspendMark(t)
      PROVE  ControlInv'
  BY <1>23 DEF SuspendMark, IInv, TypeOK, ControlInv, Placement, RunPlaced, Current, At, Goto,
         Tid, NoTid, MAIN_TID, IDLE_TID, thrVars, listVars, lockVars, ctlVars, irqVars
<1>24. ASSUME NEW t \in Tid, Switch(t)
      PROVE  ControlInv'
  <2>1. next \in Tid /\ state[next] = "SELF"
    BY <1>24 DEF Switch, Resume, At, IInv, Placement, RunPlaced
  <2>2. tp' = next /\ state' = state
    BY <1>24 DEF Switch, Resume
  <2>3. pc'[next] = "run" \/ pc'[next] = cont[next]
    BY <1>24, <2>1 DEF Switch, Resume, IInv, TypeOK
  <2>4. \A u \in Tid \ {next} :
          pc'[u] = IF u # t THEN pc[u] ELSE IF state[t] = "EXITED" THEN "dead" ELSE "off"
    BY <1>24, <2>1 DEF Switch, Resume, IInv, TypeOK
  <2>5. pc'[next] \in Current /\ pc'[next] # "dead"
    BY <2>1, <2>3 DEF IInv, TypeOK, Current
  <2> QED BY <1>24, <2>1, <2>2, <2>4, <2>5 DEF IInv, ControlInv, Current, At, Switch, Resume
<1>25. ASSUME NEW t \in Tid, IdleYield(t)
      PROVE  ControlInv'
  BY <1>25 DEF IdleYield, IInv, TypeOK, ControlInv, Placement, RunPlaced, Current, At, Goto,
         Tid, NoTid, MAIN_TID, IDLE_TID, thrVars, listVars, lockVars, ctlVars, irqVars
<1>26. ASSUME NEW t \in Tid, IdleSeesEmpty(t)
      PROVE  ControlInv'
  BY <1>26 DEF IdleSeesEmpty, IInv, TypeOK, ControlInv, Placement, RunPlaced, Current, At, Goto,
         Tid, NoTid, MAIN_TID, IDLE_TID, thrVars, listVars, lockVars, ctlVars, irqVars
<1>27. ASSUME NEW t \in Tid, IdleCheck(t)
      PROVE  ControlInv'
  BY <1>27 DEF IdleCheck, IInv, TypeOK, ControlInv, Placement, RunPlaced, Current, At, Goto,
         Tid, NoTid, MAIN_TID, IDLE_TID, thrVars, listVars, lockVars, ctlVars, irqVars
<1>28. ASSUME NEW t \in Tid, IdleWake(t)
      PROVE  ControlInv'
  BY <1>28 DEF IdleWake, IInv, TypeOK, ControlInv, Placement, RunPlaced, Current, At, Goto,
         Tid, NoTid, MAIN_TID, IDLE_TID, thrVars, listVars, lockVars, ctlVars, irqVars
<1>29. ASSUME NEW e \in Events, Raise(e)
      PROVE  ControlInv'
  BY <1>29 DEF Raise, IInv, TypeOK, ControlInv, Placement, RunPlaced, Current, At, Goto,
         Tid, NoTid, MAIN_TID, IDLE_TID, thrVars, listVars, lockVars, ctlVars, irqVars
<1>30. ASSUME NEW e \in Events, Isr(e)
      PROVE  ControlInv'
  <2>1. \A u \in Tid : \/ state'[u] = state[u]
                      \/ /\ state[u] = "WAITING" /\ state'[u] = "READY"
                         /\ ~(u = tp /\ pc[tp] = "cw2")
    BY <1>30, CondTypes, BroadcastStates DEF Isr, IInv, TypeOK
  <2> QED BY <1>30, <2>1 DEF Isr, IInv, TypeOK, ControlInv, Placement, RunPlaced, Current,
       At, Goto,
         Tid, NoTid, MAIN_TID, IDLE_TID, thrVars, listVars, lockVars, ctlVars, irqVars
<1>31. CASE UNCHANGED vars
  BY <1>31 DEF IInv, TypeOK, ControlInv, Placement, RunPlaced, Current, At, Goto,
         Tid, NoTid, MAIN_TID, IDLE_TID, thrVars, listVars, lockVars, ctlVars, irqVars, vars
<1> QED BY <1>1, <1>2, <1>3, <1>4, <1>5, <1>6, <1>7, <1>8, <1>9, <1>10, <1>11, <1>12, <1>13,
     <1>14, <1>15, <1>16, <1>17, <1>18, <1>19, <1>20, <1>21, <1>22, <1>23, <1>24, <1>25, <1>26,
     <1>27, <1>28, <1>29, <1>30, <1>31
  DEF Next, Call, Progress, Halted

LEMMA ArgStep ==
  ASSUME IInv, Next
  PROVE  ArgInv'
<1>1. ASSUME NEW t \in Tid, TrapEnter(t)
      PROVE  ArgInv'
  BY <1>1 DEF TrapEnter, IInv, TypeOK, ControlInv, ArgInv, ArgOK, Placement, RunPlaced, At,
       Goto, Current,
         thrVars, listVars, lockVars, ctlVars, irqVars
<1>2. ASSUME NEW t \in Tid, TrapReturn(t)
      PROVE  ArgInv'
  BY <1>2 DEF TrapReturn, IInv, TypeOK, ControlInv, ArgInv, ArgOK, Placement, RunPlaced, At,
       Goto, Current,
         thrVars, listVars, lockVars, ctlVars, irqVars
<1>3. ASSUME NEW t \in Tid, Yield(t)
      PROVE  ArgInv'
  BY <1>3 DEF Yield, IInv, TypeOK, ControlInv, ArgInv, ArgOK, Placement, RunPlaced, At,
       Goto, Current,
         thrVars, listVars, lockVars, ctlVars, irqVars
<1>4. ASSUME NEW t \in Tid, HaltMain(t)
      PROVE  ArgInv'
  BY <1>4 DEF HaltMain, IInv, TypeOK, ControlInv, ArgInv, ArgOK, Placement, RunPlaced, At,
       Goto, Current,
         thrVars, listVars, lockVars, ctlVars, irqVars
<1>5. ASSUME NEW t \in Tid, ExitStart(t)
      PROVE  ArgInv'
  BY <1>5 DEF ExitStart, IInv, TypeOK, ControlInv, ArgInv, ArgOK, Placement, RunPlaced, At,
       Goto, Current,
         thrVars, listVars, lockVars, ctlVars, irqVars
<1>6. ASSUME NEW t \in Tid, NEW c \in Tid, Spawn(t, c)
      PROVE  ArgInv'
  BY <1>6 DEF Spawn, create_thread, IInv, TypeOK, ControlInv, ArgInv, ArgOK, Placement,
       RunPlaced, At, Goto, Current,
         thrVars, listVars, lockVars, ctlVars, irqVars
<1>7. ASSUME NEW t \in Tid, NEW c \in Tid, JoinStart(t, c)
      PROVE  ArgInv'
  BY <1>7 DEF JoinStart, IInv, TypeOK, ControlInv, ArgInv, ArgOK, Placement, RunPlaced, At,
       Goto, Current,
         thrVars, listVars, lockVars, ctlVars, irqVars
<1>8. ASSUME NEW t \in Tid, NEW l \in Locks, LockRecursive(t, l)
      PROVE  ArgInv'
  BY <1>8 DEF LockRecursive, IInv, TypeOK, ControlInv, ArgInv, ArgOK, Placement, RunPlaced,
       At, Goto, Current,
         thrVars, listVars, lockVars, ctlVars, irqVars
<1>9. ASSUME NEW t \in Tid, NEW l \in Locks, LockStart(t, l)
      PROVE  ArgInv'
  BY <1>9 DEF LockStart, IInv, TypeOK, ControlInv, ArgInv, ArgOK, Placement, RunPlaced, At,
       Goto, Current,
         thrVars, listVars, lockVars, ctlVars, irqVars
<1>10. ASSUME NEW t \in Tid, NEW l \in Locks, LockRelease(t, l)
      PROVE  ArgInv'
  <2>1. \A u \in Tid : \/ state'[u] = state[u]
                      \/ /\ state[u] = "WAITING" /\ state'[u] = "READY"
                         /\ ~(u = tp /\ pc[tp] = "cw2")
    BY <1>10, CondTypes, BroadcastStates, ZenonT(40) DEF LockRelease, lock_release_completely,
         IInv, TypeOK
  <2> QED BY <1>10, <2>1 DEF LockRelease, lock_release_completely, IInv, TypeOK, ControlInv,
       ArgInv, ArgOK, Placement, RunPlaced, At, Goto, Current,
         thrVars, listVars, lockVars, ctlVars, irqVars
<1>11. ASSUME NEW t \in Tid, NEW e \in Events, EventStart(t, e)
      PROVE  ArgInv'
  BY <1>11 DEF EventStart, IInv, TypeOK, ControlInv, ArgInv, ArgOK, Placement, RunPlaced,
       At, Goto, Current,
         thrVars, listVars, lockVars, ctlVars, irqVars
<1>12. ASSUME NEW t \in Tid, ExitReleaseLock(t)
      PROVE  ArgInv'
  <2>1. Head(lock_list[t]) \in Locks
    BY <1>12, HeadTailProperties DEF ExitReleaseLock, IInv, TypeOK
  <2>2. \A u \in Tid : \/ state'[u] = state[u]
                      \/ /\ state[u] = "WAITING" /\ state'[u] = "READY"
                         /\ ~(u = tp /\ pc[tp] = "cw2")
    BY <1>12, <2>1, CondTypes, BroadcastStates DEF ExitReleaseLock, IInv, TypeOK
  <2> QED BY <1>12, <2>2 DEF ExitReleaseLock, IInv, TypeOK, ControlInv, ArgInv, ArgOK,
       Placement, RunPlaced, At, Goto, Current,
         thrVars, listVars, lockVars, ctlVars, irqVars
<1>13. ASSUME NEW t \in Tid, ExitMark(t)
      PROVE  ArgInv'
  <2> DEFINE st == [state EXCEPT ![t] = "EXITED"]
  <2>1. st \in [Tid -> States]
    BY DEF IInv, TypeOK, States
  <2>2. \A u \in Tid : \/ state'[u] = st[u]
                      \/ /\ state[u] = "WAITING" /\ state'[u] = "READY"
                         /\ ~(u = tp /\ pc[tp] = "cw2")
    <3>1. CASE parent[t] = NoTid
      BY <1>13, <3>1 DEF ExitMark
    <3>2. CASE parent[t] # NoTid
      <4>1. Exit(parent[t]) \in Cond /\ Broadcast(Exit(parent[t]), st)
        BY <1>13, <3>2, CondTypes DEF ExitMark, IInv, TypeOK
      <4> QED BY <2>1, <4>1, BroadcastStates
    <3> QED BY <3>1, <3>2
  <2>3. \A u \in Tid : IF u = t THEN state'[u] = "EXITED"
                       ELSE \/ state'[u] = state[u]
                            \/ state[u] = "WAITING" /\ state'[u] = "READY"
    BY <1>13, <2>2 DEF ExitMark, IInv, TypeOK, Placement, RunPlaced, At, Current
  <2> QED BY <1>13, <2>3 DEF ExitMark, IInv, TypeOK, ControlInv, ArgInv, ArgOK, Current, At,
       Goto, lockVars, irqVars
<1>14. ASSUME NEW t \in Tid, JoinReap(t)
      PROVE  ArgInv'
  BY <1>14 DEF JoinReap, Reclaim, Return, Reapable, Adopter, IInv, TypeOK, ControlInv,
       ArgInv, ArgOK, Placement, RunPlaced, At, Goto, Current,
         thrVars, listVars, lockVars, ctlVars, irqVars
<1>15. ASSUME NEW t \in Tid, JoinWait(t)
      PROVE  ArgInv'
  BY <1>15 DEF JoinWait, Wait, IInv, TypeOK, ControlInv, ArgInv, ArgOK, Placement,
       RunPlaced, At, Goto, Current,
         thrVars, listVars, lockVars, ctlVars, irqVars
<1>16. ASSUME NEW t \in Tid, LockWait(t)
      PROVE  ArgInv'
  BY <1>16 DEF LockWait, Wait, IInv, TypeOK, ControlInv, ArgInv, ArgOK, Placement,
       RunPlaced, At, Goto, Current,
         thrVars, listVars, lockVars, ctlVars, irqVars
<1>17. ASSUME NEW t \in Tid, LockTake(t)
      PROVE  ArgInv'
  BY <1>17 DEF LockTake, Return, IInv, TypeOK, ControlInv, ArgInv, ArgOK, Placement,
       RunPlaced, At, Goto, Current,
         thrVars, listVars, lockVars, ctlVars, irqVars
<1>18. ASSUME NEW t \in Tid, EventWait(t)
      PROVE  ArgInv'
  BY <1>18 DEF EventWait, Wait, IInv, TypeOK, ControlInv, ArgInv, ArgOK, Placement,
       RunPlaced, At, Goto, Current,
         thrVars, listVars, lockVars, ctlVars, irqVars
<1>19. ASSUME NEW t \in Tid, EventTake(t)
      PROVE  ArgInv'
  BY <1>19 DEF EventTake, Return, IInv, TypeOK, ControlInv, ArgInv, ArgOK, Placement,
       RunPlaced, At, Goto, Current,
         thrVars, listVars, lockVars, ctlVars, irqVars
<1>20. ASSUME NEW t \in Tid, CondWaitMark(t)
      PROVE  ArgInv'
  BY <1>20 DEF CondWaitMark, IInv, TypeOK, ControlInv, ArgInv, ArgOK, Placement, RunPlaced,
       At, Goto, Current,
         thrVars, listVars, lockVars, ctlVars, irqVars
<1>21. ASSUME NEW t \in Tid, CondWaitInsert(t)
      PROVE  ArgInv'
  BY <1>21 DEF CondWaitInsert, IInv, TypeOK, ControlInv, ArgInv, ArgOK, Placement,
       RunPlaced, At, Goto, Current,
         thrVars, listVars, lockVars, ctlVars, irqVars
<1>22. ASSUME NEW t \in Tid, SuspendPick(t)
      PROVE  ArgInv'
  BY <1>22 DEF SuspendPick, Requeued, Runnable, IInv, TypeOK, ControlInv, ArgInv, ArgOK,
       Placement, RunPlaced, At, Goto, Current,
         thrVars, listVars, lockVars, ctlVars, irqVars
<1>23. ASSUME NEW t \in Tid, SuspendMark(t)
      PROVE  ArgInv'
  BY <1>23 DEF SuspendMark, IInv, TypeOK, ControlInv, ArgInv, ArgOK, Placement, RunPlaced,
       At, Goto, Current,
         thrVars, listVars, lockVars, ctlVars, irqVars
<1>24. ASSUME NEW t \in Tid, Switch(t)
      PROVE  ArgInv'
  <2>1. next \in Tid /\ state[next] = "SELF"
    BY <1>24 DEF Switch, Resume, At, IInv, Placement, RunPlaced
  <2>2. tp' = next /\ state' = state /\ arg' = arg
    BY <1>24 DEF Switch, Resume
  <2>3. \/ pc[next] = "start" /\ pc'[next] = "run" /\ cont' = cont
        \/ pc'[next] = cont[next] /\ cont' = [cont EXCEPT ![next] = "run"]
    BY <1>24, <2>1 DEF Switch, Resume, IInv, TypeOK
  <2>4. \A u \in Tid \ {next} :
          pc'[u] = IF u # t THEN pc[u] ELSE IF state[t] = "EXITED" THEN "dead" ELSE "off"
    BY <1>24, <2>1 DEF Switch, Resume, IInv, TypeOK
  <2>5. ASSUME NEW u \in Tid, u # next
        PROVE  ArgOK(u)'
    BY <1>24, <2>2, <2>3, <2>4, <2>5 DEF IInv, TypeOK, ArgInv, ArgOK, Current
  <2>6. ASSUME NEW u \in Tid, u = next
        PROVE  ArgOK(u)'
    <3>1. CASE pc[u] = "start" /\ pc'[u] = "run" /\ cont' = cont
      BY <2>1, <2>2, <2>6, <3>1 DEF IInv, ArgInv, ArgOK, Current
    <3>2. CASE pc'[u] = cont[u] /\ cont' = [cont EXCEPT ![u] = "run"]
      BY <2>1, <2>2, <2>6, <3>2 DEF IInv, TypeOK, ArgInv, ArgOK, Current
    <3> QED BY <2>3, <2>6, <3>1, <3>2
  <2> QED BY <2>5, <2>6 DEF ArgInv
<1>25. ASSUME NEW t \in Tid, IdleYield(t)
      PROVE  ArgInv'
  BY <1>25 DEF IdleYield, IInv, TypeOK, ControlInv, ArgInv, ArgOK, Placement, RunPlaced, At,
       Goto, Current,
         thrVars, listVars, lockVars, ctlVars, irqVars
<1>26. ASSUME NEW t \in Tid, IdleSeesEmpty(t)
      PROVE  ArgInv'
  BY <1>26 DEF IdleSeesEmpty, IInv, TypeOK, ControlInv, ArgInv, ArgOK, Placement, RunPlaced,
       At, Goto, Current,
         thrVars, listVars, lockVars, ctlVars, irqVars
<1>27. ASSUME NEW t \in Tid, IdleCheck(t)
      PROVE  ArgInv'
  BY <1>27 DEF IdleCheck, IInv, TypeOK, ControlInv, ArgInv, ArgOK, Placement, RunPlaced, At,
       Goto, Current,
         thrVars, listVars, lockVars, ctlVars, irqVars
<1>28. ASSUME NEW t \in Tid, IdleWake(t)
      PROVE  ArgInv'
  BY <1>28 DEF IdleWake, IInv, TypeOK, ControlInv, ArgInv, ArgOK, Placement, RunPlaced, At,
       Goto, Current,
         thrVars, listVars, lockVars, ctlVars, irqVars
<1>29. ASSUME NEW e \in Events, Raise(e)
      PROVE  ArgInv'
  BY <1>29 DEF Raise, IInv, TypeOK, ControlInv, ArgInv, ArgOK, Placement, RunPlaced, At,
       Goto, Current,
         thrVars, listVars, lockVars, ctlVars, irqVars
<1>30. ASSUME NEW e \in Events, Isr(e)
      PROVE  ArgInv'
  <2>1. \A u \in Tid : \/ state'[u] = state[u]
                      \/ /\ state[u] = "WAITING" /\ state'[u] = "READY"
                         /\ ~(u = tp /\ pc[tp] = "cw2")
    BY <1>30, CondTypes, BroadcastStates DEF Isr, IInv, TypeOK
  <2> QED BY <1>30, <2>1 DEF Isr, IInv, TypeOK, ControlInv, ArgInv, ArgOK, Placement,
       RunPlaced, At, Goto, Current,
         thrVars, listVars, lockVars, ctlVars, irqVars
<1>31. CASE UNCHANGED vars
  BY <1>31 DEF IInv, TypeOK, ControlInv, ArgInv, ArgOK, Placement, RunPlaced, At, Goto, Current,
         thrVars, listVars, lockVars, ctlVars, irqVars, vars
<1> QED BY <1>1, <1>2, <1>3, <1>4, <1>5, <1>6, <1>7, <1>8, <1>9, <1>10, <1>11, <1>12, <1>13,
     <1>14, <1>15, <1>16, <1>17, <1>18, <1>19, <1>20, <1>21, <1>22, <1>23, <1>24, <1>25, <1>26,
     <1>27, <1>28, <1>29, <1>30, <1>31
  DEF Next, Call, Progress, Halted

----------------------------------------------------------------------------
(* Every thread is on the list its state says.                             *)

LEMMA BroadcastLists ==
  ASSUME IInv, NEW c \in Cond, NEW st \in [Tid -> States], Broadcast(c, st)
  PROVE  /\ IsInjective(ready_list')
         /\ Range(ready_list') = Range(ready_list) \cup Range(wait_list[c])
         /\ \A d \in Cond :
              /\ IsInjective(wait_list'[d])
              /\ Range(wait_list'[d]) = IF d = c THEN {} ELSE Range(wait_list[d])
         /\ \A u \in Tid : state'[u] = IF u \in Range(wait_list[c]) THEN "READY" ELSE st[u]
<1>1. /\ ready_list \in Seq(Tid) /\ wait_list[c] \in Seq(Tid)
      /\ IsInjective(ready_list) /\ IsInjective(wait_list[c])
  BY DEF IInv, TypeOK, Placement, ReadyPlaced, WaitPlaced
<1>2. Range(ready_list) \cap Range(wait_list[c]) = {}
  <2> SUFFICES ASSUME NEW u \in Range(ready_list), u \in Range(wait_list[c])
               PROVE  FALSE
    OBVIOUS
  <2>1. u \in Tid
    BY <1>1, RangeOfSeq
  <2> QED BY <2>1 DEF IInv, Placement, ReadyPlaced, WaitPlaced
<1>3. ready_list' = ready_list \o wait_list[c]
  BY DEF Broadcast
<1>4. \A d \in Cond : wait_list'[d] = IF d = c THEN <<>> ELSE wait_list[d]
  BY DEF Broadcast, IInv, TypeOK
<1>5. \A d \in Cond : IsInjective(wait_list[d])
  BY DEF IInv, Placement, WaitPlaced
<1>6. \A u \in Tid : state'[u] = IF u \in Range(wait_list[c]) THEN "READY" ELSE st[u]
  BY DEF Broadcast
<1>7. /\ IsInjective(ready_list')
      /\ Range(ready_list') = Range(ready_list) \cup Range(wait_list[c])
  BY <1>1, <1>2, <1>3, InjectiveConcat, RangeConcatenation
<1>8. \A d \in Cond : /\ IsInjective(wait_list'[d])
                      /\ Range(wait_list'[d]) = IF d = c THEN {} ELSE Range(wait_list[d])
  BY <1>4, <1>5, EmptyList
<1> QED BY <1>6, <1>7, <1>8

(* The members of a wait list are threads that wait on it.                 *)
LEMMA WaitersWait ==
  ASSUME IInv, NEW c \in Cond, NEW u \in Range(wait_list[c])
  PROVE  u \in Tid /\ state[u] = "WAITING" /\ ~At(u, "cw2") /\ c = CondOf(u)
<1>1. u \in Tid
  BY RangeOfSeq DEF IInv, TypeOK
<1> QED BY <1>1 DEF IInv, Placement, WaitPlaced

(* A broadcast by the running thread or by an interrupt handler keeps the  *)
(* threads in place.                                                       *)
LEMMA BroadcastPlaced ==
  ASSUME IInv, NEW c \in Cond, Broadcast(c, state), UNCHANGED <<tp, pc, next, cont, arg>>
  PROVE  Placement'
<1>1. state \in [Tid -> States]
  BY DEF IInv, TypeOK
<1>2. /\ IsInjective(ready_list')
      /\ Range(ready_list') = Range(ready_list) \cup Range(wait_list[c])
      /\ \A d \in Cond :
           /\ IsInjective(wait_list'[d])
           /\ Range(wait_list'[d]) = IF d = c THEN {} ELSE Range(wait_list[d])
      /\ \A u \in Tid : state'[u] = IF u \in Range(wait_list[c]) THEN "READY" ELSE state[u]
  BY <1>1, BroadcastLists
<1>3. \A t \in Tid : CondOf(t)' = CondOf(t) /\ At(t, "cw2")' = At(t, "cw2")
  BY DEF CondOf, At
<1>4. ReadyPlaced'
  <2> SUFFICES ASSUME NEW t \in Tid
               PROVE  t \in Range(ready_list')
                        <=> state'[t] = "READY" /\ ~(pc[tp] = "rs2" /\ next = t)
    BY <1>2 DEF ReadyPlaced
  <2>1. CASE t \in Range(wait_list[c])
    <3>1. state[t] = "WAITING"
      BY <2>1, WaitersWait
    <3> QED BY <1>2, <2>1, <3>1 DEF IInv, ControlInv
  <2>2. CASE t \notin Range(wait_list[c])
    BY <1>2, <2>2 DEF IInv, Placement, ReadyPlaced
  <2> QED BY <2>1, <2>2
<1>5. WaitPlaced'
  <2>1. ASSUME NEW d \in Cond, NEW t \in Range(wait_list'[d])
        PROVE  state'[t] = "WAITING" /\ ~At(t, "cw2")' /\ d = CondOf(t)'
    <3>1. d # c /\ t \in Range(wait_list[d])
      BY <1>2, <2>1
    <3>2. t \in Tid /\ state[t] = "WAITING" /\ ~At(t, "cw2") /\ d = CondOf(t)
      BY <3>1, WaitersWait
    <3>3. t \notin Range(wait_list[c])
      BY <3>1, <3>2, WaitersWait
    <3> QED BY <1>2, <1>3, <3>2, <3>3
  <2>2. ASSUME NEW t \in Tid, state'[t] = "WAITING", ~At(t, "cw2")'
        PROVE  t \in Range(wait_list'[CondOf(t)'])
    <3>1. state[t] = "WAITING" /\ t \notin Range(wait_list[c])
      BY <1>2, <2>2
    <3>2. t \in Range(wait_list[CondOf(t)])
      BY <1>3, <2>2, <3>1 DEF IInv, Placement, WaitPlaced
    <3>3. CondOf(t) \in Cond /\ CondOf(t) # c
      BY <3>1, <3>2, CondOfTyped DEF IInv
    <3> QED BY <1>2, <1>3, <3>2, <3>3
  <2>3. \A d \in Cond : IsInjective(wait_list'[d])
    BY <1>2
  <2> QED BY <2>1, <2>2, <2>3 DEF WaitPlaced
<1>6. RunPlaced'
  <2>1. \A u \in Tid : (state'[u] = "SELF") = (state[u] = "SELF")
    BY <1>1, <1>2, WaitersWait
  <2> QED BY <2>1 DEF IInv, TypeOK, Placement, RunPlaced
<1> QED BY <1>4, <1>5, <1>6 DEF Placement

(* A running thread that only moves to another label leaves every thread   *)
(* where it is.                                                            *)
LEMMA MovePlaced ==
  ASSUME IInv, NEW p \in Current \cup {"rs1"}, pc[tp] \in Current, Goto(tp, p),
         UNCHANGED <<tp, state, ready_list, wait_list, cont, arg, next>>
  PROVE  Placement'
<1>1. tp \in Tid /\ pc' = [pc EXCEPT ![tp] = p] /\ pc \in [Tid -> Labels]
  BY DEF Goto, IInv, TypeOK
<1>2. pc'[tp] = p /\ pc'[tp] \notin {"cw2", "rs2", "rs3"}
  BY <1>1 DEF Current
<1>3. pc[tp] \notin {"cw2", "rs2", "rs3"}
  BY DEF Current
<1>4. \A u \in Tid : ~At(u, "cw2") /\ ~At(u, "cw2")'
  BY <1>2, <1>3 DEF At
<1>5. \A u \in Tid : CondOf(u)' = CondOf(u)
  BY DEF CondOf
<1>6. state[tp] = "SELF"
  BY DEF IInv, Placement, RunPlaced
<1>7. ReadyPlaced'
  BY <1>2, <1>3 DEF IInv, Placement, ReadyPlaced
<1>8. WaitPlaced'
  BY <1>4, <1>5, WaitersWait DEF IInv, Placement, WaitPlaced
<1>9. RunPlaced'
  BY <1>2, <1>3, <1>6 DEF IInv, Placement, RunPlaced
<1> QED BY <1>7, <1>8, <1>9 DEF Placement

LEMMA PlacementStep ==
  ASSUME IInv, Next
  PROVE  Placement'
<1>1. ASSUME NEW t \in Tid, TrapEnter(t)
      PROVE  Placement'
  BY <1>1 DEF TrapEnter, IInv, TypeOK, ControlInv, ArgInv, ArgOK, Placement, ReadyPlaced,
       WaitPlaced, RunPlaced,
         CondOf, At, Goto, Current, Tid, NoTid, MAIN_TID, IDLE_TID, thrVars, listVars, lockVars,
         ctlVars, irqVars
<1>2. ASSUME NEW t \in Tid, TrapReturn(t)
      PROVE  Placement'
  BY <1>2 DEF TrapReturn, IInv, TypeOK, ControlInv, ArgInv, ArgOK, Placement, ReadyPlaced,
       WaitPlaced, RunPlaced,
         CondOf, At, Goto, Current, Tid, NoTid, MAIN_TID, IDLE_TID, thrVars, listVars, lockVars,
         ctlVars, irqVars
<1>3. ASSUME NEW t \in Tid, Yield(t)
      PROVE  Placement'
  BY <1>3, MovePlaced DEF Yield, At, Goto, Current, thrVars, listVars
<1>4. ASSUME NEW t \in Tid, HaltMain(t)
      PROVE  Placement'
  BY <1>4, MovePlaced DEF HaltMain, At, Goto, Current, thrVars, listVars
<1>5. ASSUME NEW t \in Tid, ExitStart(t)
      PROVE  Placement'
  BY <1>5, MovePlaced DEF ExitStart, At, Goto, Current, thrVars, listVars
<1>6. ASSUME NEW t \in Tid, NEW c \in Tid, Spawn(t, c)
      PROVE  Placement'
  <2>1. state[t] = "SELF" /\ pc[tp] = "run" /\ t = tp /\ c # t
    BY <1>6 DEF Spawn, create_thread, At, IInv, Placement, RunPlaced, Current
  <2>2. \A u \in Tid : state'[u] = IF u = c THEN "READY" ELSE state[u]
    BY <1>6 DEF Spawn, create_thread, IInv, TypeOK
  <2>3. pc'[tp] = "run" /\ tp' = tp /\ \A u \in Tid : CondOf(u)' = CondOf(u)
    BY <1>6, <2>1 DEF Spawn, create_thread, IInv, TypeOK, CondOf
  <2>4. /\ c \notin Range(ready_list)
        /\ \A d \in Cond : c \notin Range(wait_list[d])
    BY <1>6, WaitersWait DEF Spawn, create_thread, IInv, Placement, ReadyPlaced
  <2>5. ready_list' = Append(ready_list, c) /\ wait_list' = wait_list
    BY <1>6 DEF Spawn, create_thread
  <2>6. IsInjective(ready_list') /\ Range(ready_list') = Range(ready_list) \cup {c}
    BY <2>4, <2>5, InjectiveAppend, RangeAppend DEF IInv, TypeOK, Placement, ReadyPlaced
  <2>7. ReadyPlaced'
    BY <2>1, <2>2, <2>3, <2>6 DEF IInv, Placement, ReadyPlaced
  <2>8. WaitPlaced'
    BY <2>1, <2>2, <2>3, <2>4, <2>5, WaitersWait DEF IInv, Placement, WaitPlaced, At
  <2>9. RunPlaced'
    BY <2>1, <2>2, <2>3 DEF IInv, TypeOK, Placement, RunPlaced, Current
  <2> QED BY <2>7, <2>8, <2>9 DEF Placement
<1>7. ASSUME NEW t \in Tid, NEW c \in Tid, JoinStart(t, c)
      PROVE  Placement'
  BY <1>7 DEF JoinStart, IInv, TypeOK, ControlInv, ArgInv, ArgOK, Placement, ReadyPlaced,
       WaitPlaced, RunPlaced,
         CondOf, At, Goto, Current, Tid, NoTid, MAIN_TID, IDLE_TID, thrVars, listVars, lockVars,
         ctlVars, irqVars
<1>8. ASSUME NEW t \in Tid, NEW l \in Locks, LockRecursive(t, l)
      PROVE  Placement'
  BY <1>8 DEF LockRecursive, IInv, TypeOK, ControlInv, ArgInv, ArgOK, Placement,
       ReadyPlaced, WaitPlaced, RunPlaced,
         CondOf, At, Goto, Current, Tid, NoTid, MAIN_TID, IDLE_TID, thrVars, listVars, lockVars,
         ctlVars, irqVars
<1>9. ASSUME NEW t \in Tid, NEW l \in Locks, LockStart(t, l)
      PROVE  Placement'
  BY <1>9 DEF LockStart, IInv, TypeOK, ControlInv, ArgInv, ArgOK, Placement, ReadyPlaced,
       WaitPlaced, RunPlaced,
         CondOf, At, Goto, Current, Tid, NoTid, MAIN_TID, IDLE_TID, thrVars, listVars, lockVars,
         ctlVars, irqVars
<1>10. ASSUME NEW t \in Tid, NEW l \in Locks, LockRelease(t, l)
      PROVE  Placement'
  <2>1. CASE cnt[l] > 1
    BY <1>10, <2>1 DEF LockRelease, lock_release_completely, IInv, TypeOK, ControlInv,
         ArgInv, ArgOK, Placement, ReadyPlaced, WaitPlaced, RunPlaced,
         CondOf, At, Goto, Current, Tid, NoTid, MAIN_TID, IDLE_TID, thrVars, listVars, lockVars,
         ctlVars, irqVars
  <2>2. CASE ~(cnt[l] > 1)
    BY <1>10, <2>2, BroadcastPlaced, CondTypes DEF LockRelease, lock_release_completely, ctlVars
  <2> QED BY <2>1, <2>2
<1>11. ASSUME NEW t \in Tid, NEW e \in Events, EventStart(t, e)
      PROVE  Placement'
  BY <1>11 DEF EventStart, IInv, TypeOK, ControlInv, ArgInv, ArgOK, Placement, ReadyPlaced,
       WaitPlaced, RunPlaced,
         CondOf, At, Goto, Current, Tid, NoTid, MAIN_TID, IDLE_TID, thrVars, listVars, lockVars,
         ctlVars, irqVars
<1>12. ASSUME NEW t \in Tid, ExitReleaseLock(t)
      PROVE  Placement'
  <2>1. Release(Head(lock_list[t])) \in Cond
    BY <1>12, HeadTailProperties, CondTypes DEF ExitReleaseLock, IInv, TypeOK
  <2> QED BY <1>12, <2>1, BroadcastPlaced DEF ExitReleaseLock, ctlVars
<1>13. ASSUME NEW t \in Tid, ExitMark(t)
      PROVE  Placement'
  <2> DEFINE st == [state EXCEPT ![t] = "EXITED"]
  <2>1. /\ st \in [Tid -> States]
        /\ state[t] = "SELF" /\ pc[tp] = "exit" /\ t = tp
        /\ \A u \in Tid : st[u] = IF u = t THEN "EXITED" ELSE state[u]
    BY <1>13 DEF ExitMark, At, IInv, TypeOK, States, Placement, RunPlaced, Current
  <2>2. /\ pc'[tp] = "rs1" /\ tp' = tp
        /\ \A u \in Tid : CondOf(u)' = CondOf(u) /\ ~At(u, "cw2") /\ ~At(u, "cw2")'
    BY <1>13, <2>1 DEF ExitMark, Goto, At, CondOf, IInv, TypeOK
  <2>3. CASE parent[t] = NoTid
    <3>1. state' = st /\ ready_list' = ready_list /\ wait_list' = wait_list
      BY <1>13, <2>3 DEF ExitMark, listVars
    <3>2. \A d \in Cond : t \notin Range(wait_list[d])
      BY <2>1, WaitersWait
    <3>3. ReadyPlaced'
      BY <2>1, <2>2, <3>1 DEF IInv, Placement, ReadyPlaced
    <3>4. WaitPlaced'
      BY <2>1, <2>2, <3>1, <3>2, WaitersWait DEF IInv, Placement, WaitPlaced
    <3>5. RunPlaced'
      BY <2>1, <2>2, <3>1 DEF IInv, Placement, RunPlaced, Current
    <3> QED BY <3>3, <3>4, <3>5 DEF Placement
  <2>4. CASE parent[t] # NoTid
    <3> DEFINE c == Exit(parent[t])
    <3>1. c \in Cond /\ Broadcast(c, st)
      BY <1>13, <2>4, CondTypes DEF ExitMark, IInv, TypeOK
    <3> HIDE DEF c, st
    <3>2. /\ IsInjective(ready_list')
          /\ Range(ready_list') = Range(ready_list) \cup Range(wait_list[c])
          /\ \A d \in Cond :
               /\ IsInjective(wait_list'[d])
               /\ Range(wait_list'[d]) = IF d = c THEN {} ELSE Range(wait_list[d])
          /\ \A u \in Tid : state'[u] = IF u \in Range(wait_list[c]) THEN "READY" ELSE st[u]
      BY <2>1, <3>1, BroadcastLists
    <3>3. ReadyPlaced'
      BY <2>1, <2>2, <3>1, <3>2, WaitersWait DEF IInv, Placement, ReadyPlaced
    <3>4. WaitPlaced'
      <4>1. ASSUME NEW d \in Cond, NEW u \in Range(wait_list'[d])
            PROVE  state'[u] = "WAITING" /\ d = CondOf(u)' /\ ~At(u, "cw2")'
        <5>1. d # c /\ u \in Range(wait_list[d])
          BY <3>2, <4>1
        <5>2. u \in Tid /\ state[u] = "WAITING" /\ d = CondOf(u)
          BY <5>1, WaitersWait
        <5>3. u \notin Range(wait_list[c])
          BY <3>1, <5>1, <5>2, WaitersWait
        <5> QED BY <2>1, <2>2, <3>2, <5>2, <5>3
      <4>2. ASSUME NEW u \in Tid, state'[u] = "WAITING"
            PROVE  u \in Range(wait_list'[CondOf(u)'])
        <5>1. state[u] = "WAITING" /\ u \notin Range(wait_list[c])
          BY <2>1, <3>2, <4>2
        <5>2. u \in Range(wait_list[CondOf(u)])
          BY <2>2, <5>1 DEF IInv, Placement, WaitPlaced
        <5>3. CondOf(u) \in Cond /\ CondOf(u) # c
          BY <5>1, <5>2, CondOfTyped DEF IInv
        <5> QED BY <2>2, <3>2, <5>2, <5>3
      <4> QED BY <3>2, <4>1, <4>2 DEF WaitPlaced
    <3>5. RunPlaced'
      BY <2>1, <2>2, <3>2, WaitersWait DEF IInv, Placement, RunPlaced, Current
    <3> QED BY <3>3, <3>4, <3>5 DEF Placement
  <2> QED BY <2>3, <2>4
<1>14. ASSUME NEW t \in Tid, JoinReap(t)
      PROVE  Placement'
  BY <1>14 DEF JoinReap, Reclaim, Return, Reapable, Adopter, IInv, TypeOK, ControlInv,
       ArgInv, ArgOK, Placement, ReadyPlaced, WaitPlaced, RunPlaced,
         CondOf, At, Goto, Current, Tid, NoTid, MAIN_TID, IDLE_TID, thrVars, listVars, lockVars,
         ctlVars, irqVars
<1>15. ASSUME NEW t \in Tid, JoinWait(t)
      PROVE  Placement'
  BY <1>15 DEF JoinWait, Wait, IInv, TypeOK, ControlInv, ArgInv, ArgOK, Placement,
       ReadyPlaced, WaitPlaced, RunPlaced,
         CondOf, At, Goto, Current, Tid, NoTid, MAIN_TID, IDLE_TID, thrVars, listVars, lockVars,
         ctlVars, irqVars
<1>16. ASSUME NEW t \in Tid, LockWait(t)
      PROVE  Placement'
  BY <1>16 DEF LockWait, Wait, IInv, TypeOK, ControlInv, ArgInv, ArgOK, Placement,
       ReadyPlaced, WaitPlaced, RunPlaced,
         CondOf, At, Goto, Current, Tid, NoTid, MAIN_TID, IDLE_TID, thrVars, listVars, lockVars,
         ctlVars, irqVars
<1>17. ASSUME NEW t \in Tid, LockTake(t)
      PROVE  Placement'
  BY <1>17 DEF LockTake, Return, IInv, TypeOK, ControlInv, ArgInv, ArgOK, Placement,
       ReadyPlaced, WaitPlaced, RunPlaced,
         CondOf, At, Goto, Current, Tid, NoTid, MAIN_TID, IDLE_TID, thrVars, listVars, lockVars,
         ctlVars, irqVars
<1>18. ASSUME NEW t \in Tid, EventWait(t)
      PROVE  Placement'
  BY <1>18 DEF EventWait, Wait, IInv, TypeOK, ControlInv, ArgInv, ArgOK, Placement,
       ReadyPlaced, WaitPlaced, RunPlaced,
         CondOf, At, Goto, Current, Tid, NoTid, MAIN_TID, IDLE_TID, thrVars, listVars, lockVars,
         ctlVars, irqVars
<1>19. ASSUME NEW t \in Tid, EventTake(t)
      PROVE  Placement'
  BY <1>19 DEF EventTake, Return, IInv, TypeOK, ControlInv, ArgInv, ArgOK, Placement,
       ReadyPlaced, WaitPlaced, RunPlaced,
         CondOf, At, Goto, Current, Tid, NoTid, MAIN_TID, IDLE_TID, thrVars, listVars, lockVars,
         ctlVars, irqVars
<1>20. ASSUME NEW t \in Tid, CondWaitMark(t)
      PROVE  Placement'
  BY <1>20 DEF CondWaitMark, IInv, TypeOK, ControlInv, ArgInv, ArgOK, Placement,
       ReadyPlaced, WaitPlaced, RunPlaced,
         CondOf, At, Goto, Current, Tid, NoTid, MAIN_TID, IDLE_TID, thrVars, listVars, lockVars,
         ctlVars, irqVars
<1>21. ASSUME NEW t \in Tid, CondWaitInsert(t)
      PROVE  Placement'
  <2> DEFINE c == CondOf(t)
  <2>1. /\ c \in Cond /\ t = tp /\ pc[tp] = "cw2" /\ state[t] = "WAITING"
        /\ wait_list[c] \in Seq(Tid) /\ IsInjective(wait_list[c])
    BY <1>21, CondOfTyped DEF CondWaitInsert, At, IInv, TypeOK, ControlInv, Placement,
         WaitPlaced
  <2>2. /\ pc'[tp] = "rs1" /\ tp' = tp /\ state' = state /\ ready_list' = ready_list
        /\ \A u \in Tid : CondOf(u)' = CondOf(u) /\ ~At(u, "cw2")'
    BY <1>21, <2>1 DEF CondWaitInsert, Goto, At, CondOf, IInv, TypeOK, thrVars
  <2>3. \A d \in Cond : wait_list'[d] = IF d = c THEN Append(wait_list[c], t) ELSE wait_list[d]
    BY <1>21, <2>1 DEF CondWaitInsert, IInv, TypeOK
  <2>4. \A d \in Cond : t \notin Range(wait_list[d])
    BY <2>1, WaitersWait DEF At
  <2> HIDE DEF c
  <2>5. /\ IsInjective(Append(wait_list[c], t))
        /\ Range(Append(wait_list[c], t)) = Range(wait_list[c]) \cup {t}
    BY <2>1, <2>4, InjectiveAppend, RangeAppend
  <2>6. ReadyPlaced'
    BY <2>1, <2>2 DEF IInv, Placement, ReadyPlaced
  <2>7. WaitPlaced'
    <3>1. \A d \in Cond : IsInjective(wait_list'[d])
      BY <2>3, <2>5 DEF IInv, Placement, WaitPlaced
    <3>2. ASSUME NEW d \in Cond, NEW u \in Range(wait_list'[d])
          PROVE  state'[u] = "WAITING" /\ d = CondOf(u)' /\ ~At(u, "cw2")'
      <4>1. CASE u = t
        BY <2>1, <2>2, <2>3, <2>4, <3>2, <4>1 DEF c
      <4>2. CASE u # t
        <5>1. u \in Range(wait_list[d])
          BY <2>3, <2>5, <3>2, <4>2
        <5> QED BY <2>2, <5>1, WaitersWait
      <4> QED BY <4>1, <4>2
    <3>3. ASSUME NEW u \in Tid, state'[u] = "WAITING"
          PROVE  u \in Range(wait_list'[CondOf(u)'])
      <4>1. CASE u = t
        BY <2>1, <2>2, <2>3, <2>5, <4>1 DEF c
      <4>2. CASE u # t
        <5>1. u \in Range(wait_list[CondOf(u)])
          BY <2>1, <2>2, <3>3, <4>2 DEF IInv, Placement, WaitPlaced, At
        <5>2. CondOf(u) \in Cond
          BY CondOfTyped DEF IInv
        <5> QED BY <2>2, <2>3, <2>5, <5>1, <5>2
      <4> QED BY <4>1, <4>2
    <3> QED BY <3>1, <3>2, <3>3 DEF WaitPlaced
  <2>8. RunPlaced'
    BY <2>1, <2>2 DEF IInv, TypeOK, Placement, RunPlaced, Current
  <2> QED BY <2>6, <2>7, <2>8 DEF Placement
<1>22. ASSUME NEW t \in Tid, SuspendPick(t)
      PROVE  Placement'
  <2> DEFINE q == Requeued(t)
             members == Range(ready_list) \cup (IF Runnable(t) THEN {t} ELSE {})
  <2>1. t = tp /\ pc[tp] = "rs1" /\ q # <<>>
    BY <1>22 DEF SuspendPick, At
  <2>2. /\ Head(q) \in members /\ Head(q) \in Tid
        /\ Range(Tail(q)) = members \ {Head(q)}
        /\ IsInjective(Tail(q))
    BY <1>22, <2>1, RequeuedFacts DEF SuspendPick
  <2>3. /\ next' = Head(q) /\ ready_list' = Tail(q) /\ wait_list' = wait_list
        /\ pc'[tp] = "rs2" /\ tp' = tp
        /\ \A u \in Tid : state'[u] = IF u = t /\ state[t] = "SELF" THEN "READY" ELSE state[u]
        /\ \A u \in Tid : CondOf(u)' = CondOf(u) /\ ~At(u, "cw2") /\ ~At(u, "cw2")'
    BY <1>22, <2>1 DEF SuspendPick, Goto, At, CondOf, Runnable, IInv, TypeOK
  <2>4. \A u \in Tid : u \in members <=> state'[u] = "READY"
    BY <2>1, <2>3 DEF Runnable, IInv, Placement, ReadyPlaced
  <2> HIDE DEF q, members
  <2>5. ReadyPlaced'
    BY <2>2, <2>3, <2>4 DEF ReadyPlaced
  <2>6. WaitPlaced'
    BY <2>3, WaitersWait DEF IInv, Placement, WaitPlaced
  <2>7. RunPlaced'
    BY <2>1, <2>3 DEF IInv, Placement, RunPlaced, Current
  <2> QED BY <2>5, <2>6, <2>7 DEF Placement
<1>23. ASSUME NEW t \in Tid, SuspendMark(t)
      PROVE  Placement'
  BY <1>23 DEF SuspendMark, IInv, TypeOK, ControlInv, ArgInv, ArgOK, Placement, ReadyPlaced,
       WaitPlaced, RunPlaced,
         CondOf, At, Goto, Current, Tid, NoTid, MAIN_TID, IDLE_TID, thrVars, listVars, lockVars,
         ctlVars, irqVars
<1>24. ASSUME NEW t \in Tid, Switch(t)
      PROVE  Placement'
  <2>1. next \in Tid /\ state[next] = "SELF" /\ t = tp /\ pc[tp] = "rs3"
    BY <1>24 DEF Switch, Resume, At, IInv, Placement, RunPlaced
  <2>2. tp' = next /\ state' = state /\ ready_list' = ready_list /\ wait_list' = wait_list
    BY <1>24 DEF Switch, Resume, listVars
  <2>3. pc'[next] \in Current
    BY <1>24, <2>1 DEF Switch, Resume, IInv, TypeOK, Current
  <2>4. \A u \in Tid : ~At(u, "cw2") /\ ~At(u, "cw2")'
    BY <2>1, <2>2, <2>3 DEF At, Current
  <2>5. \A u \in Tid \ {next} : CondOf(u)' = CondOf(u)
    BY <1>24, <2>1 DEF Switch, Resume, CondOf, IInv, TypeOK
  <2>6. ReadyPlaced'
    BY <2>1, <2>2, <2>3 DEF IInv, Placement, ReadyPlaced, Current
  <2>7. WaitPlaced'
    BY <2>1, <2>2, <2>4, <2>5, WaitersWait DEF IInv, Placement, WaitPlaced
  <2>8. RunPlaced'
    BY <2>1, <2>2, <2>3 DEF IInv, Placement, RunPlaced, Current
  <2> QED BY <2>6, <2>7, <2>8 DEF Placement
<1>25. ASSUME NEW t \in Tid, IdleYield(t)
      PROVE  Placement'
  BY <1>25, MovePlaced DEF IdleYield, At, Goto, Current, thrVars, listVars
<1>26. ASSUME NEW t \in Tid, IdleSeesEmpty(t)
      PROVE  Placement'
  BY <1>26, MovePlaced DEF IdleSeesEmpty, At, Goto, Current, thrVars, listVars
<1>27. ASSUME NEW t \in Tid, IdleCheck(t)
      PROVE  Placement'
  BY <1>27, MovePlaced DEF IdleCheck, At, Goto, Current, thrVars, listVars
<1>28. ASSUME NEW t \in Tid, IdleWake(t)
      PROVE  Placement'
  BY <1>28 DEF IdleWake, IInv, TypeOK, ControlInv, ArgInv, ArgOK, Placement, ReadyPlaced,
       WaitPlaced, RunPlaced,
         CondOf, At, Goto, Current, Tid, NoTid, MAIN_TID, IDLE_TID, thrVars, listVars, lockVars,
         ctlVars, irqVars
<1>29. ASSUME NEW e \in Events, Raise(e)
      PROVE  Placement'
  BY <1>29 DEF Raise, IInv, TypeOK, ControlInv, ArgInv, ArgOK, Placement, ReadyPlaced,
       WaitPlaced, RunPlaced,
         CondOf, At, Goto, Current, Tid, NoTid, MAIN_TID, IDLE_TID, thrVars, listVars, lockVars,
         ctlVars, irqVars
<1>30. ASSUME NEW e \in Events, Isr(e)
      PROVE  Placement'
  BY <1>30, BroadcastPlaced, CondTypes DEF Isr, ctlVars
<1>31. CASE UNCHANGED vars
  BY <1>31 DEF IInv, TypeOK, ControlInv, ArgInv, ArgOK, Placement, ReadyPlaced, WaitPlaced,
       RunPlaced,
         CondOf, At, Goto, Current, Tid, NoTid, MAIN_TID, IDLE_TID, thrVars, listVars, lockVars,
         ctlVars, irqVars, vars
<1> QED BY <1>1, <1>2, <1>3, <1>4, <1>5, <1>6, <1>7, <1>8, <1>9, <1>10, <1>11, <1>12, <1>13,
     <1>14, <1>15, <1>16, <1>17, <1>18, <1>19, <1>20, <1>21, <1>22, <1>23, <1>24, <1>25, <1>26,
     <1>27, <1>28, <1>29, <1>30, <1>31
  DEF Next, Call, Progress, Halted

----------------------------------------------------------------------------
(* The locks.                                                              *)

LEMMA NoTidNotTid == NoTid \notin Tid
  BY NTHRAssumption DEF NoTid, Tid

LEMMA LocksStep ==
  ASSUME IInv, Next
  PROVE  LocksConsistent'
<1>1. ASSUME NEW t \in Tid, TrapEnter(t)
      PROVE  LocksConsistent'
  BY <1>1 DEF TrapEnter, IInv, TypeOK, ControlInv, Placement, RunPlaced,
         LocksConsistent, OwnedListed, OwnedCounted, OwnersLive, At, Goto, Current,
         thrVars, listVars, lockVars,
         ctlVars, irqVars
<1>2. ASSUME NEW t \in Tid, TrapReturn(t)
      PROVE  LocksConsistent'
  BY <1>2 DEF TrapReturn, IInv, TypeOK, ControlInv, Placement, RunPlaced,
         LocksConsistent, OwnedListed, OwnedCounted, OwnersLive, At, Goto, Current,
         thrVars, listVars, lockVars,
         ctlVars, irqVars
<1>3. ASSUME NEW t \in Tid, Yield(t)
      PROVE  LocksConsistent'
  BY <1>3 DEF Yield, IInv, TypeOK, ControlInv, Placement, RunPlaced,
         LocksConsistent, OwnedListed, OwnedCounted, OwnersLive, At, Goto, Current,
         thrVars, listVars, lockVars,
         ctlVars, irqVars
<1>4. ASSUME NEW t \in Tid, HaltMain(t)
      PROVE  LocksConsistent'
  BY <1>4 DEF HaltMain, IInv, TypeOK, ControlInv, Placement, RunPlaced,
         LocksConsistent, OwnedListed, OwnedCounted, OwnersLive, At, Goto, Current,
         thrVars, listVars, lockVars,
         ctlVars, irqVars
<1>5. ASSUME NEW t \in Tid, ExitStart(t)
      PROVE  LocksConsistent'
  BY <1>5 DEF ExitStart, IInv, TypeOK, ControlInv, Placement, RunPlaced,
         LocksConsistent, OwnedListed, OwnedCounted, OwnersLive, At, Goto, Current,
         thrVars, listVars, lockVars,
         ctlVars, irqVars
<1>6. ASSUME NEW t \in Tid, NEW c \in Tid, Spawn(t, c)
      PROVE  LocksConsistent'
  BY <1>6 DEF Spawn, create_thread, IInv, TypeOK, ControlInv, Placement, RunPlaced,
         LocksConsistent, OwnedListed, OwnedCounted, OwnersLive, At, Goto, Current,
         thrVars, listVars, lockVars,
         ctlVars, irqVars
<1>7. ASSUME NEW t \in Tid, NEW c \in Tid, JoinStart(t, c)
      PROVE  LocksConsistent'
  BY <1>7 DEF JoinStart, IInv, TypeOK, ControlInv, Placement, RunPlaced,
         LocksConsistent, OwnedListed, OwnedCounted, OwnersLive, At, Goto, Current,
         thrVars, listVars, lockVars,
         ctlVars, irqVars
<1>8. ASSUME NEW t \in Tid, NEW l \in Locks, LockRecursive(t, l)
      PROVE  LocksConsistent'
  <2>1. owner' = owner /\ lock_list' = lock_list /\ state' = state /\ owner[l] = t
    BY <1>8 DEF LockRecursive, thrVars
  <2>2. /\ \A m \in Locks : cnt'[m] = IF m = l THEN cnt[l] + 1 ELSE cnt[m]
        /\ cnt[l] \in 0 .. MaxCnt
    BY <1>8 DEF LockRecursive, IInv, TypeOK
  <2>3. OwnedCounted'
    <3>1. cnt[l] + 1 # 0 /\ owner[l] # NoTid
      BY <2>1, <2>2, NoTidNotTid, MaxCntAssumption
    <3> QED BY <2>1, <2>2, <3>1 DEF IInv, LocksConsistent, OwnedCounted
  <2> QED BY <2>1, <2>3 DEF IInv, LocksConsistent, OwnedListed, OwnersLive
<1>9. ASSUME NEW t \in Tid, NEW l \in Locks, LockStart(t, l)
      PROVE  LocksConsistent'
  BY <1>9 DEF LockStart, IInv, TypeOK, ControlInv, Placement, RunPlaced,
         LocksConsistent, OwnedListed, OwnedCounted, OwnersLive, At, Goto, Current,
         thrVars, listVars, lockVars,
         ctlVars, irqVars
<1>10. ASSUME NEW t \in Tid, NEW l \in Locks, LockRelease(t, l)
      PROVE  LocksConsistent'
  <2>1. CASE cnt[l] > 1
    <3>1. cnt[l] \in 0 .. MaxCnt /\ \A m \in Locks : cnt'[m] = IF m = l THEN cnt[l] - 1 ELSE cnt[m]
      BY <1>10 DEF LockRelease, lock_release_completely, IInv, TypeOK
    <3>2. state' = state /\ owner' = owner /\ lock_list' = lock_list
      BY <1>10, <2>1 DEF LockRelease, lock_release_completely
    <3>3. OwnedCounted'
      BY <2>1, <3>1, <3>2, MaxCntAssumption DEF IInv, LocksConsistent, OwnedCounted
    <3> QED BY <3>2, <3>3 DEF IInv, LocksConsistent, OwnedListed, OwnersLive
  <2>2. CASE ~(cnt[l] > 1)
    <3>1. cnt[l] = 1 /\ owner[l] = t /\ cnt' = [cnt EXCEPT ![l] = 0]
      <4>1. cnt[l] # 0 /\ cnt[l] \in 0 .. MaxCnt /\ owner[l] = t
        BY <1>10, NoTidNotTid DEF LockRelease, lock_release_completely, IInv, TypeOK,
             LocksConsistent, OwnedCounted
      <4>2. cnt[l] = 1
        BY <2>2, <4>1, MaxCntAssumption
      <4> QED BY <1>10, <4>1, <4>2 DEF LockRelease, lock_release_completely
    <3>2. \A u \in Tid : state'[u] = state[u] \/ (state[u] = "WAITING" /\ state'[u] = "READY")
      BY <1>10, <2>2, CondTypes, BroadcastStates DEF LockRelease, lock_release_completely,
           IInv, TypeOK
    <3>3. PICK i \in DOMAIN lock_list[t] :
            lock_list[t][i] = l /\ lock_list' = [lock_list EXCEPT ![t] = RemoveAt(@, i)]
      BY <1>10, <2>2 DEF LockRelease, lock_release_completely
    <3>4. /\ IsInjective(RemoveAt(lock_list[t], i))
          /\ Range(RemoveAt(lock_list[t], i)) = Range(lock_list[t]) \ {l}
      BY <3>3, UnlinkProperties DEF IInv, TypeOK, LocksConsistent, OwnedListed
    <3>5. \A u \in Tid : lock_list'[u] = IF u = t THEN RemoveAt(lock_list[t], i) ELSE lock_list[u]
      BY <3>3 DEF IInv, TypeOK
    <3>6. \A m \in Locks : owner'[m] = IF m = l THEN NoTid ELSE owner[m]
      BY <1>10, <2>2 DEF LockRelease, lock_release_completely, IInv, TypeOK
    <3>7. OwnedListed'
      <4>1. \A u \in Tid : IsInjective(lock_list'[u])
        BY <3>4, <3>5 DEF IInv, LocksConsistent, OwnedListed
      <4>2. ASSUME NEW u \in Tid, NEW m \in Locks
            PROVE  owner'[m] = u <=> m \in Range(lock_list'[u])
        <5>1. owner[m] = u <=> m \in Range(lock_list[u])
          BY DEF IInv, LocksConsistent, OwnedListed
        <5>2. CASE m = l
          BY <3>1, <3>4, <3>5, <3>6, <5>1, <5>2, NoTidNotTid
        <5>3. CASE m # l
          BY <3>4, <3>5, <3>6, <5>1, <5>3
        <5> QED BY <5>2, <5>3
      <4> QED BY <4>1, <4>2 DEF OwnedListed
    <3>8. OwnedCounted'
      BY <3>1, <3>6 DEF IInv, TypeOK, LocksConsistent, OwnedCounted
    <3>9. OwnersLive'
      BY <3>2, <3>6 DEF IInv, TypeOK, LocksConsistent, OwnersLive
    <3> QED BY <3>7, <3>8, <3>9 DEF LocksConsistent
  <2> QED BY <2>1, <2>2
<1>11. ASSUME NEW t \in Tid, NEW e \in Events, EventStart(t, e)
      PROVE  LocksConsistent'
  BY <1>11 DEF EventStart, IInv, TypeOK, ControlInv, Placement, RunPlaced,
         LocksConsistent, OwnedListed, OwnedCounted, OwnersLive, At, Goto, Current,
         thrVars, listVars, lockVars,
         ctlVars, irqVars
<1>12. ASSUME NEW t \in Tid, ExitReleaseLock(t)
      PROVE  LocksConsistent'
  <2> DEFINE l == Head(lock_list[t])
  <2>1. lock_list[t] \in Seq(Locks) /\ lock_list[t] # <<>> /\ IsInjective(lock_list[t])
    BY <1>12 DEF ExitReleaseLock, IInv, TypeOK, LocksConsistent, OwnedListed
  <2>2. /\ l \in Locks /\ Range(Tail(lock_list[t])) = Range(lock_list[t]) \ {l}
        /\ IsInjective(Tail(lock_list[t])) /\ l \in Range(lock_list[t])
    BY <2>1, HeadTailProperties, RangeTail, InjectiveTail
  <2>3. owner[l] = t
    BY <2>2 DEF IInv, LocksConsistent, OwnedListed
  <2>4. \A u \in Tid : state'[u] = state[u] \/ (state[u] = "WAITING" /\ state'[u] = "READY")
    BY <1>12, <2>2, CondTypes, BroadcastStates DEF ExitReleaseLock, IInv, TypeOK
  <2>5. /\ \A u \in Tid : lock_list'[u] = IF u = t THEN Tail(lock_list[t]) ELSE lock_list[u]
        /\ \A m \in Locks : owner'[m] = IF m = l THEN NoTid ELSE owner[m]
        /\ \A m \in Locks : cnt'[m] = IF m = l THEN 0 ELSE cnt[m]
    BY <1>12, <2>2 DEF ExitReleaseLock, IInv, TypeOK
  <2> HIDE DEF l
  <2>6. OwnedListed'
    <3>1. \A u \in Tid : IsInjective(lock_list'[u])
      BY <2>2, <2>5 DEF IInv, LocksConsistent, OwnedListed
    <3>2. ASSUME NEW u \in Tid, NEW m \in Locks
          PROVE  owner'[m] = u <=> m \in Range(lock_list'[u])
      <4>1. owner[m] = u <=> m \in Range(lock_list[u])
        BY DEF IInv, LocksConsistent, OwnedListed
      <4>2. CASE m = l
        BY <2>2, <2>3, <2>5, <4>1, <4>2, NoTidNotTid
      <4>3. CASE m # l
        BY <2>2, <2>5, <4>1, <4>3
      <4> QED BY <4>2, <4>3
    <3> QED BY <3>1, <3>2 DEF OwnedListed
  <2>7. OwnedCounted'
    BY <2>5 DEF IInv, TypeOK, LocksConsistent, OwnedCounted
  <2>8. OwnersLive'
    BY <2>4, <2>5 DEF IInv, TypeOK, LocksConsistent, OwnersLive
  <2> QED BY <2>6, <2>7, <2>8 DEF LocksConsistent
<1>13. ASSUME NEW t \in Tid, ExitMark(t)
      PROVE  LocksConsistent'
  <2> DEFINE st == [state EXCEPT ![t] = "EXITED"]
  <2>1. st \in [Tid -> States] /\ \A u \in Tid : st[u] = IF u = t THEN "EXITED" ELSE state[u]
    BY DEF IInv, TypeOK, States
  <2>2. \A u \in Tid : state'[u] = st[u] \/ (state[u] = "WAITING" /\ state'[u] = "READY")
    <3>1. CASE parent[t] = NoTid
      BY <1>13, <3>1 DEF ExitMark
    <3>2. CASE parent[t] # NoTid
      <4>1. Exit(parent[t]) \in Cond /\ Broadcast(Exit(parent[t]), st)
        BY <1>13, <3>2, CondTypes DEF ExitMark, IInv, TypeOK
      <4> QED BY <2>1, <4>1, BroadcastStates
    <3> QED BY <3>1, <3>2
  <2>3. lock_list[t] = <<>> /\ owner' = owner /\ cnt' = cnt /\ lock_list' = lock_list
    BY <1>13 DEF ExitMark, lockVars
  <2>4. \A l \in Locks : owner[l] # t
    BY <2>3, EmptyList DEF IInv, LocksConsistent, OwnedListed
  <2> HIDE DEF st
  <2> QED BY <2>1, <2>2, <2>3, <2>4
          DEF IInv, TypeOK, LocksConsistent, OwnedListed, OwnedCounted, OwnersLive
<1>14. ASSUME NEW t \in Tid, JoinReap(t)
      PROVE  LocksConsistent'
  <2>1. PICK c \in Reapable(t) : state' = [state EXCEPT ![c] = "FREE"]
    BY <1>14 DEF JoinReap, Reclaim
  <2>2. c \in Tid /\ state[c] = "EXITED"
    BY DEF Reapable
  <2> QED BY <1>14, <2>1, <2>2 DEF JoinReap, IInv, TypeOK, LocksConsistent, OwnedListed,
       OwnedCounted, OwnersLive, lockVars
<1>15. ASSUME NEW t \in Tid, JoinWait(t)
      PROVE  LocksConsistent'
  BY <1>15 DEF JoinWait, Wait, IInv, TypeOK, ControlInv, Placement, RunPlaced,
         LocksConsistent, OwnedListed, OwnedCounted, OwnersLive, At, Goto, Current,
         thrVars, listVars, lockVars,
         ctlVars, irqVars
<1>16. ASSUME NEW t \in Tid, LockWait(t)
      PROVE  LocksConsistent'
  BY <1>16 DEF LockWait, Wait, IInv, TypeOK, ControlInv, Placement, RunPlaced,
         LocksConsistent, OwnedListed, OwnedCounted, OwnersLive, At, Goto, Current,
         thrVars, listVars, lockVars,
         ctlVars, irqVars
<1>17. ASSUME NEW t \in Tid, LockTake(t)
      PROVE  LocksConsistent'
  <2> DEFINE l == arg[t]
  <2>1. l \in Locks /\ owner[l] = NoTid /\ state[t] = "SELF"
    BY <1>17 DEF LockTake, At, IInv, ArgInv, ArgOK, Placement, RunPlaced, Current
  <2>2. lock_list[t] \in Seq(Locks) /\ l \notin Range(lock_list[t]) /\ IsInjective(lock_list[t])
    BY <2>1, NoTidNotTid DEF IInv, TypeOK, LocksConsistent, OwnedListed
  <2>3. /\ <<l>> \in Seq(Locks) /\ IsInjective(<<l>>) /\ Range(<<l>>) = {l}
    BY <2>1, AppendProperties, RangeAppend, InjectiveAppend, EmptyList DEF IsInjective, Range
  <2>4. /\ IsInjective(<<l>> \o lock_list[t])
        /\ Range(<<l>> \o lock_list[t]) = Range(lock_list[t]) \cup {l}
    <3>1. Range(<<l>>) \cap Range(lock_list[t]) = {}
      BY <2>2, <2>3
    <3>2. IsInjective(<<l>> \o lock_list[t])
      BY <2>2, <2>3, <3>1, InjectiveConcat
    <3>3. Range(<<l>> \o lock_list[t]) = Range(<<l>>) \cup Range(lock_list[t])
      <4> DEFINE first == <<l>>
                 rest == lock_list[t]
      <4>1. first \in Seq(Locks) /\ rest \in Seq(Locks)
        BY <2>2, <2>3
      <4> HIDE DEF first, rest
      <4>2. Range(first \o rest) = Range(first) \cup Range(rest)
        BY <4>1, RangeConcatenation
      <4> QED BY <4>2 DEF first, rest
    <3> QED BY <2>3, <3>2, <3>3
  <2>5. /\ \A u \in Tid : lock_list'[u] = IF u = t THEN <<l>> \o lock_list[t] ELSE lock_list[u]
        /\ \A m \in Locks : owner'[m] = IF m = l THEN t ELSE owner[m]
        /\ \A m \in Locks : cnt'[m] = IF m = l THEN 1 ELSE cnt[m]
        /\ state' = state
    BY <1>17, <2>1 DEF LockTake, IInv, TypeOK, thrVars
  <2> HIDE DEF l
  <2>6. OwnedListed'
    <3>1. \A u \in Tid : IsInjective(lock_list'[u])
      BY <2>4, <2>5 DEF IInv, LocksConsistent, OwnedListed
    <3>2. ASSUME NEW u \in Tid, NEW m \in Locks
          PROVE  owner'[m] = u <=> m \in Range(lock_list'[u])
      <4>1. owner[m] = u <=> m \in Range(lock_list[u])
        BY DEF IInv, LocksConsistent, OwnedListed
      <4>2. CASE m = l
        BY <2>1, <2>4, <2>5, <4>1, <4>2, NoTidNotTid
      <4>3. CASE m # l
        BY <2>4, <2>5, <4>1, <4>3
      <4> QED BY <4>2, <4>3
    <3> QED BY <3>1, <3>2 DEF OwnedListed
  <2>7. OwnedCounted'
    <3>1. t # NoTid
      BY NoTidNotTid
    <3> QED BY <2>1, <2>5, <3>1 DEF IInv, LocksConsistent, OwnedCounted
  <2>8. OwnersLive'
    BY <2>1, <2>5 DEF IInv, TypeOK, LocksConsistent, OwnersLive
  <2> QED BY <2>6, <2>7, <2>8 DEF LocksConsistent
<1>18. ASSUME NEW t \in Tid, EventWait(t)
      PROVE  LocksConsistent'
  BY <1>18 DEF EventWait, Wait, IInv, TypeOK, ControlInv, Placement, RunPlaced,
         LocksConsistent, OwnedListed, OwnedCounted, OwnersLive, At, Goto, Current,
         thrVars, listVars, lockVars,
         ctlVars, irqVars
<1>19. ASSUME NEW t \in Tid, EventTake(t)
      PROVE  LocksConsistent'
  BY <1>19 DEF EventTake, Return, IInv, TypeOK, ControlInv, Placement, RunPlaced,
         LocksConsistent, OwnedListed, OwnedCounted, OwnersLive, At, Goto, Current,
         thrVars, listVars, lockVars,
         ctlVars, irqVars
<1>20. ASSUME NEW t \in Tid, CondWaitMark(t)
      PROVE  LocksConsistent'
  BY <1>20 DEF CondWaitMark, IInv, TypeOK, ControlInv, Placement, RunPlaced,
         LocksConsistent, OwnedListed, OwnedCounted, OwnersLive, At, Goto, Current,
         thrVars, listVars, lockVars,
         ctlVars, irqVars
<1>21. ASSUME NEW t \in Tid, CondWaitInsert(t)
      PROVE  LocksConsistent'
  BY <1>21 DEF CondWaitInsert, IInv, TypeOK, ControlInv, Placement, RunPlaced,
         LocksConsistent, OwnedListed, OwnedCounted, OwnersLive, At, Goto, Current,
         thrVars, listVars, lockVars,
         ctlVars, irqVars
<1>22. ASSUME NEW t \in Tid, SuspendPick(t)
      PROVE  LocksConsistent'
  BY <1>22 DEF SuspendPick, Requeued, Runnable, IInv, TypeOK, ControlInv, Placement, RunPlaced,
         LocksConsistent, OwnedListed, OwnedCounted, OwnersLive, At, Goto, Current,
         thrVars, listVars, lockVars,
         ctlVars, irqVars
<1>23. ASSUME NEW t \in Tid, SuspendMark(t)
      PROVE  LocksConsistent'
  BY <1>23 DEF SuspendMark, IInv, TypeOK, ControlInv, Placement, RunPlaced,
         LocksConsistent, OwnedListed, OwnedCounted, OwnersLive, At, Goto, Current,
         thrVars, listVars, lockVars,
         ctlVars, irqVars
<1>24. ASSUME NEW t \in Tid, Switch(t)
      PROVE  LocksConsistent'
  BY <1>24 DEF Switch, Resume, IInv, TypeOK, ControlInv, Placement, RunPlaced,
         LocksConsistent, OwnedListed, OwnedCounted, OwnersLive, At, Goto, Current,
         thrVars, listVars, lockVars,
         ctlVars, irqVars
<1>25. ASSUME NEW t \in Tid, IdleYield(t)
      PROVE  LocksConsistent'
  BY <1>25 DEF IdleYield, IInv, TypeOK, ControlInv, Placement, RunPlaced,
         LocksConsistent, OwnedListed, OwnedCounted, OwnersLive, At, Goto, Current,
         thrVars, listVars, lockVars,
         ctlVars, irqVars
<1>26. ASSUME NEW t \in Tid, IdleSeesEmpty(t)
      PROVE  LocksConsistent'
  BY <1>26 DEF IdleSeesEmpty, IInv, TypeOK, ControlInv, Placement, RunPlaced,
         LocksConsistent, OwnedListed, OwnedCounted, OwnersLive, At, Goto, Current,
         thrVars, listVars, lockVars,
         ctlVars, irqVars
<1>27. ASSUME NEW t \in Tid, IdleCheck(t)
      PROVE  LocksConsistent'
  BY <1>27 DEF IdleCheck, IInv, TypeOK, ControlInv, Placement, RunPlaced,
         LocksConsistent, OwnedListed, OwnedCounted, OwnersLive, At, Goto, Current,
         thrVars, listVars, lockVars,
         ctlVars, irqVars
<1>28. ASSUME NEW t \in Tid, IdleWake(t)
      PROVE  LocksConsistent'
  BY <1>28 DEF IdleWake, IInv, TypeOK, ControlInv, Placement, RunPlaced,
         LocksConsistent, OwnedListed, OwnedCounted, OwnersLive, At, Goto, Current,
         thrVars, listVars, lockVars,
         ctlVars, irqVars
<1>29. ASSUME NEW e \in Events, Raise(e)
      PROVE  LocksConsistent'
  BY <1>29 DEF Raise, IInv, TypeOK, ControlInv, Placement, RunPlaced,
         LocksConsistent, OwnedListed, OwnedCounted, OwnersLive, At, Goto, Current,
         thrVars, listVars, lockVars,
         ctlVars, irqVars
<1>30. ASSUME NEW e \in Events, Isr(e)
      PROVE  LocksConsistent'
  <2>1. \A u \in Tid : state'[u] = state[u] \/ (state[u] = "WAITING" /\ state'[u] = "READY")
    BY <1>30, CondTypes, BroadcastStates DEF Isr, IInv, TypeOK
  <2> QED BY <1>30, <2>1 DEF Isr, IInv, TypeOK, LocksConsistent, OwnedListed, OwnedCounted,
       OwnersLive, lockVars
<1>31. CASE UNCHANGED vars
  BY <1>31 DEF IInv, TypeOK, ControlInv, Placement, RunPlaced,
         LocksConsistent, OwnedListed, OwnedCounted, OwnersLive, At, Goto, Current,
         thrVars, listVars, lockVars,
         ctlVars, irqVars, vars
<1> QED BY <1>1, <1>2, <1>3, <1>4, <1>5, <1>6, <1>7, <1>8, <1>9, <1>10, <1>11, <1>12, <1>13,
     <1>14, <1>15, <1>16, <1>17, <1>18, <1>19, <1>20, <1>21, <1>22, <1>23, <1>24, <1>25, <1>26,
     <1>27, <1>28, <1>29, <1>30, <1>31
  DEF Next, Call, Progress, Halted

LEMMA LockWaitStep ==
  ASSUME IInv, Next
  PROVE  LockWaitInv'
<1>1. ASSUME NEW t \in Tid, TrapEnter(t)
      PROVE  LockWaitInv'
  BY <1>1 DEF TrapEnter, IInv, TypeOK, ControlInv, Placement, RunPlaced, ArgInv, ArgOK,
       LockWaitInv,
         LocksConsistent, OwnedListed, OwnedCounted, OwnersLive, At, Goto, Current,
         thrVars, listVars, lockVars,
         ctlVars, irqVars
<1>2. ASSUME NEW t \in Tid, TrapReturn(t)
      PROVE  LockWaitInv'
  BY <1>2 DEF TrapReturn, IInv, TypeOK, ControlInv, Placement, RunPlaced, ArgInv, ArgOK,
       LockWaitInv,
         LocksConsistent, OwnedListed, OwnedCounted, OwnersLive, At, Goto, Current,
         thrVars, listVars, lockVars,
         ctlVars, irqVars
<1>3. ASSUME NEW t \in Tid, Yield(t)
      PROVE  LockWaitInv'
  BY <1>3 DEF Yield, IInv, TypeOK, ControlInv, Placement, RunPlaced, ArgInv, ArgOK, LockWaitInv,
         LocksConsistent, OwnedListed, OwnedCounted, OwnersLive, At, Goto, Current,
         thrVars, listVars, lockVars,
         ctlVars, irqVars
<1>4. ASSUME NEW t \in Tid, HaltMain(t)
      PROVE  LockWaitInv'
  BY <1>4 DEF HaltMain, IInv, TypeOK, ControlInv, Placement, RunPlaced, ArgInv, ArgOK,
       LockWaitInv,
         LocksConsistent, OwnedListed, OwnedCounted, OwnersLive, At, Goto, Current,
         thrVars, listVars, lockVars,
         ctlVars, irqVars
<1>5. ASSUME NEW t \in Tid, ExitStart(t)
      PROVE  LockWaitInv'
  BY <1>5 DEF ExitStart, IInv, TypeOK, ControlInv, Placement, RunPlaced, ArgInv, ArgOK,
       LockWaitInv,
         LocksConsistent, OwnedListed, OwnedCounted, OwnersLive, At, Goto, Current,
         thrVars, listVars, lockVars,
         ctlVars, irqVars
<1>6. ASSUME NEW t \in Tid, NEW c \in Tid, Spawn(t, c)
      PROVE  LockWaitInv'
  BY <1>6 DEF Spawn, create_thread, IInv, TypeOK, ControlInv, Placement, RunPlaced, ArgInv,
       ArgOK, LockWaitInv,
         LocksConsistent, OwnedListed, OwnedCounted, OwnersLive, At, Goto, Current,
         thrVars, listVars, lockVars,
         ctlVars, irqVars
<1>7. ASSUME NEW t \in Tid, NEW c \in Tid, JoinStart(t, c)
      PROVE  LockWaitInv'
  BY <1>7 DEF JoinStart, IInv, TypeOK, ControlInv, Placement, RunPlaced, ArgInv, ArgOK,
       LockWaitInv,
         LocksConsistent, OwnedListed, OwnedCounted, OwnersLive, At, Goto, Current,
         thrVars, listVars, lockVars,
         ctlVars, irqVars
<1>8. ASSUME NEW t \in Tid, NEW l \in Locks, LockRecursive(t, l)
      PROVE  LockWaitInv'
  BY <1>8 DEF LockRecursive, IInv, TypeOK, ControlInv, Placement, RunPlaced, ArgInv, ArgOK,
       LockWaitInv,
         LocksConsistent, OwnedListed, OwnedCounted, OwnersLive, At, Goto, Current,
         thrVars, listVars, lockVars,
         ctlVars, irqVars
<1>9. ASSUME NEW t \in Tid, NEW l \in Locks, LockStart(t, l)
      PROVE  LockWaitInv'
  BY <1>9 DEF LockStart, IInv, TypeOK, ControlInv, Placement, RunPlaced, ArgInv, ArgOK,
       LockWaitInv,
         LocksConsistent, OwnedListed, OwnedCounted, OwnersLive, At, Goto, Current,
         thrVars, listVars, lockVars,
         ctlVars, irqVars
<1>10. ASSUME NEW t \in Tid, NEW l \in Locks, LockRelease(t, l)
      PROVE  LockWaitInv'
  BY <1>10 DEF LockRelease, lock_release_completely, IInv, TypeOK, ControlInv, Placement,
       RunPlaced, ArgInv, ArgOK, LockWaitInv,
         LocksConsistent, OwnedListed, OwnedCounted, OwnersLive, At, Goto, Current,
         thrVars, listVars, lockVars,
         ctlVars, irqVars
<1>11. ASSUME NEW t \in Tid, NEW e \in Events, EventStart(t, e)
      PROVE  LockWaitInv'
  BY <1>11 DEF EventStart, IInv, TypeOK, ControlInv, Placement, RunPlaced, ArgInv, ArgOK,
       LockWaitInv,
         LocksConsistent, OwnedListed, OwnedCounted, OwnersLive, At, Goto, Current,
         thrVars, listVars, lockVars,
         ctlVars, irqVars
<1>12. ASSUME NEW t \in Tid, ExitReleaseLock(t)
      PROVE  LockWaitInv'
  BY <1>12 DEF ExitReleaseLock, IInv, TypeOK, ControlInv, Placement, RunPlaced, ArgInv,
       ArgOK, LockWaitInv,
         LocksConsistent, OwnedListed, OwnedCounted, OwnersLive, At, Goto, Current,
         thrVars, listVars, lockVars,
         ctlVars, irqVars
<1>13. ASSUME NEW t \in Tid, ExitMark(t)
      PROVE  LockWaitInv'
  BY <1>13 DEF ExitMark, IInv, TypeOK, ControlInv, Placement, RunPlaced, ArgInv, ArgOK,
       LockWaitInv,
         LocksConsistent, OwnedListed, OwnedCounted, OwnersLive, At, Goto, Current,
         thrVars, listVars, lockVars,
         ctlVars, irqVars
<1>14. ASSUME NEW t \in Tid, JoinReap(t)
      PROVE  LockWaitInv'
  BY <1>14 DEF JoinReap, Reclaim, Return, Reapable, Adopter, IInv, TypeOK, ControlInv,
       Placement, RunPlaced, ArgInv, ArgOK, LockWaitInv,
         LocksConsistent, OwnedListed, OwnedCounted, OwnersLive, At, Goto, Current,
         thrVars, listVars, lockVars,
         ctlVars, irqVars
<1>15. ASSUME NEW t \in Tid, JoinWait(t)
      PROVE  LockWaitInv'
  BY <1>15 DEF JoinWait, Wait, IInv, TypeOK, ControlInv, Placement, RunPlaced, ArgInv,
       ArgOK, LockWaitInv,
         LocksConsistent, OwnedListed, OwnedCounted, OwnersLive, At, Goto, Current,
         thrVars, listVars, lockVars,
         ctlVars, irqVars
<1>16. ASSUME NEW t \in Tid, LockWait(t)
      PROVE  LockWaitInv'
  BY <1>16 DEF LockWait, Wait, IInv, TypeOK, ControlInv, Placement, RunPlaced, ArgInv,
       ArgOK, LockWaitInv,
         LocksConsistent, OwnedListed, OwnedCounted, OwnersLive, At, Goto, Current,
         thrVars, listVars, lockVars,
         ctlVars, irqVars
<1>17. ASSUME NEW t \in Tid, LockTake(t)
      PROVE  LockWaitInv'
  BY <1>17 DEF LockTake, Return, IInv, TypeOK, ControlInv, Placement, RunPlaced, ArgInv,
       ArgOK, LockWaitInv,
         LocksConsistent, OwnedListed, OwnedCounted, OwnersLive, At, Goto, Current,
         thrVars, listVars, lockVars,
         ctlVars, irqVars
<1>18. ASSUME NEW t \in Tid, EventWait(t)
      PROVE  LockWaitInv'
  BY <1>18 DEF EventWait, Wait, IInv, TypeOK, ControlInv, Placement, RunPlaced, ArgInv,
       ArgOK, LockWaitInv,
         LocksConsistent, OwnedListed, OwnedCounted, OwnersLive, At, Goto, Current,
         thrVars, listVars, lockVars,
         ctlVars, irqVars
<1>19. ASSUME NEW t \in Tid, EventTake(t)
      PROVE  LockWaitInv'
  BY <1>19 DEF EventTake, Return, IInv, TypeOK, ControlInv, Placement, RunPlaced, ArgInv,
       ArgOK, LockWaitInv,
         LocksConsistent, OwnedListed, OwnedCounted, OwnersLive, At, Goto, Current,
         thrVars, listVars, lockVars,
         ctlVars, irqVars
<1>20. ASSUME NEW t \in Tid, CondWaitMark(t)
      PROVE  LockWaitInv'
  BY <1>20 DEF CondWaitMark, IInv, TypeOK, ControlInv, Placement, RunPlaced, ArgInv, ArgOK,
       LockWaitInv,
         LocksConsistent, OwnedListed, OwnedCounted, OwnersLive, At, Goto, Current,
         thrVars, listVars, lockVars,
         ctlVars, irqVars
<1>21. ASSUME NEW t \in Tid, CondWaitInsert(t)
      PROVE  LockWaitInv'
  BY <1>21 DEF CondWaitInsert, IInv, TypeOK, ControlInv, Placement, RunPlaced, ArgInv,
       ArgOK, LockWaitInv,
         LocksConsistent, OwnedListed, OwnedCounted, OwnersLive, At, Goto, Current,
         thrVars, listVars, lockVars,
         ctlVars, irqVars
<1>22. ASSUME NEW t \in Tid, SuspendPick(t)
      PROVE  LockWaitInv'
  BY <1>22 DEF SuspendPick, Requeued, Runnable, IInv, TypeOK, ControlInv, Placement,
       RunPlaced, ArgInv, ArgOK, LockWaitInv,
         LocksConsistent, OwnedListed, OwnedCounted, OwnersLive, At, Goto, Current,
         thrVars, listVars, lockVars,
         ctlVars, irqVars
<1>23. ASSUME NEW t \in Tid, SuspendMark(t)
      PROVE  LockWaitInv'
  BY <1>23 DEF SuspendMark, IInv, TypeOK, ControlInv, Placement, RunPlaced, ArgInv, ArgOK,
       LockWaitInv,
         LocksConsistent, OwnedListed, OwnedCounted, OwnersLive, At, Goto, Current,
         thrVars, listVars, lockVars,
         ctlVars, irqVars
<1>24. ASSUME NEW t \in Tid, Switch(t)
      PROVE  LockWaitInv'
  BY <1>24 DEF Switch, Resume, IInv, TypeOK, ControlInv, Placement, RunPlaced, ArgInv,
       ArgOK, LockWaitInv,
         LocksConsistent, OwnedListed, OwnedCounted, OwnersLive, At, Goto, Current,
         thrVars, listVars, lockVars,
         ctlVars, irqVars
<1>25. ASSUME NEW t \in Tid, IdleYield(t)
      PROVE  LockWaitInv'
  BY <1>25 DEF IdleYield, IInv, TypeOK, ControlInv, Placement, RunPlaced, ArgInv, ArgOK,
       LockWaitInv,
         LocksConsistent, OwnedListed, OwnedCounted, OwnersLive, At, Goto, Current,
         thrVars, listVars, lockVars,
         ctlVars, irqVars
<1>26. ASSUME NEW t \in Tid, IdleSeesEmpty(t)
      PROVE  LockWaitInv'
  BY <1>26 DEF IdleSeesEmpty, IInv, TypeOK, ControlInv, Placement, RunPlaced, ArgInv, ArgOK,
       LockWaitInv,
         LocksConsistent, OwnedListed, OwnedCounted, OwnersLive, At, Goto, Current,
         thrVars, listVars, lockVars,
         ctlVars, irqVars
<1>27. ASSUME NEW t \in Tid, IdleCheck(t)
      PROVE  LockWaitInv'
  BY <1>27 DEF IdleCheck, IInv, TypeOK, ControlInv, Placement, RunPlaced, ArgInv, ArgOK,
       LockWaitInv,
         LocksConsistent, OwnedListed, OwnedCounted, OwnersLive, At, Goto, Current,
         thrVars, listVars, lockVars,
         ctlVars, irqVars
<1>28. ASSUME NEW t \in Tid, IdleWake(t)
      PROVE  LockWaitInv'
  BY <1>28 DEF IdleWake, IInv, TypeOK, ControlInv, Placement, RunPlaced, ArgInv, ArgOK,
       LockWaitInv,
         LocksConsistent, OwnedListed, OwnedCounted, OwnersLive, At, Goto, Current,
         thrVars, listVars, lockVars,
         ctlVars, irqVars
<1>29. ASSUME NEW e \in Events, Raise(e)
      PROVE  LockWaitInv'
  BY <1>29 DEF Raise, IInv, TypeOK, ControlInv, Placement, RunPlaced, ArgInv, ArgOK,
       LockWaitInv,
         LocksConsistent, OwnedListed, OwnedCounted, OwnersLive, At, Goto, Current,
         thrVars, listVars, lockVars,
         ctlVars, irqVars
<1>30. ASSUME NEW e \in Events, Isr(e)
      PROVE  LockWaitInv'
  BY <1>30 DEF Isr, IInv, TypeOK, ControlInv, Placement, RunPlaced, ArgInv, ArgOK, LockWaitInv,
         LocksConsistent, OwnedListed, OwnedCounted, OwnersLive, At, Goto, Current,
         thrVars, listVars, lockVars,
         ctlVars, irqVars
<1>31. CASE UNCHANGED vars
  BY <1>31 DEF IInv, TypeOK, ControlInv, Placement, RunPlaced, ArgInv, ArgOK, LockWaitInv,
         LocksConsistent, OwnedListed, OwnedCounted, OwnersLive, At, Goto, Current,
         thrVars, listVars, lockVars,
         ctlVars, irqVars, vars
<1> QED BY <1>1, <1>2, <1>3, <1>4, <1>5, <1>6, <1>7, <1>8, <1>9, <1>10, <1>11, <1>12, <1>13,
     <1>14, <1>15, <1>16, <1>17, <1>18, <1>19, <1>20, <1>21, <1>22, <1>23, <1>24, <1>25, <1>26,
     <1>27, <1>28, <1>29, <1>30, <1>31
  DEF Next, Call, Progress, Halted

LEMMA NoLostReleaseStep ==
  ASSUME IInv, Next
  PROVE  NoLostRelease'
<1>1. ASSUME NEW t \in Tid, TrapEnter(t)
      PROVE  NoLostRelease'
  BY <1>1 DEF TrapEnter, IInv, TypeOK, NoLostRelease, At, Goto, thrVars, listVars, lockVars,
         ctlVars, irqVars
<1>2. ASSUME NEW t \in Tid, TrapReturn(t)
      PROVE  NoLostRelease'
  BY <1>2 DEF TrapReturn, IInv, TypeOK, NoLostRelease, At, Goto, thrVars, listVars, lockVars,
         ctlVars, irqVars
<1>3. ASSUME NEW t \in Tid, Yield(t)
      PROVE  NoLostRelease'
  BY <1>3 DEF Yield, IInv, TypeOK, NoLostRelease, At, Goto, thrVars, listVars, lockVars,
         ctlVars, irqVars
<1>4. ASSUME NEW t \in Tid, HaltMain(t)
      PROVE  NoLostRelease'
  BY <1>4 DEF HaltMain, IInv, TypeOK, NoLostRelease, At, Goto, thrVars, listVars, lockVars,
         ctlVars, irqVars
<1>5. ASSUME NEW t \in Tid, ExitStart(t)
      PROVE  NoLostRelease'
  BY <1>5 DEF ExitStart, IInv, TypeOK, NoLostRelease, At, Goto, thrVars, listVars, lockVars,
         ctlVars, irqVars
<1>6. ASSUME NEW t \in Tid, NEW c \in Tid, Spawn(t, c)
      PROVE  NoLostRelease'
  BY <1>6 DEF Spawn, create_thread, IInv, TypeOK, NoLostRelease, At, Goto, thrVars,
       listVars, lockVars,
         ctlVars, irqVars
<1>7. ASSUME NEW t \in Tid, NEW c \in Tid, JoinStart(t, c)
      PROVE  NoLostRelease'
  BY <1>7 DEF JoinStart, IInv, TypeOK, NoLostRelease, At, Goto, thrVars, listVars, lockVars,
         ctlVars, irqVars
<1>8. ASSUME NEW t \in Tid, NEW l \in Locks, LockRecursive(t, l)
      PROVE  NoLostRelease'
  BY <1>8 DEF LockRecursive, IInv, TypeOK, NoLostRelease, At, Goto, thrVars, listVars, lockVars,
         ctlVars, irqVars
<1>9. ASSUME NEW t \in Tid, NEW l \in Locks, LockStart(t, l)
      PROVE  NoLostRelease'
  BY <1>9 DEF LockStart, IInv, TypeOK, NoLostRelease, At, Goto, thrVars, listVars, lockVars,
         ctlVars, irqVars
<1>10. ASSUME NEW t \in Tid, NEW l \in Locks, LockRelease(t, l)
      PROVE  NoLostRelease'
  <2>1. CASE cnt[l] > 1
    BY <1>10, <2>1 DEF LockRelease, lock_release_completely, IInv, NoLostRelease, listVars
  <2>2. CASE ~(cnt[l] > 1)
    <3>1. \A c \in Cond : wait_list'[c] = IF c = Release(l) THEN <<>> ELSE wait_list[c]
      BY <1>10, <2>2 DEF LockRelease, lock_release_completely, Broadcast, IInv, TypeOK
    <3>2. \A m \in Locks : owner'[m] = IF m = l THEN NoTid ELSE owner[m]
      BY <1>10, <2>2 DEF LockRelease, lock_release_completely, IInv, TypeOK
    <3> QED BY <3>1, <3>2, CondTypes DEF IInv, NoLostRelease
  <2> QED BY <2>1, <2>2
<1>11. ASSUME NEW t \in Tid, NEW e \in Events, EventStart(t, e)
      PROVE  NoLostRelease'
  BY <1>11 DEF EventStart, IInv, TypeOK, NoLostRelease, At, Goto, thrVars, listVars, lockVars,
         ctlVars, irqVars
<1>12. ASSUME NEW t \in Tid, ExitReleaseLock(t)
      PROVE  NoLostRelease'
  <2> DEFINE l == Head(lock_list[t])
  <2>1. l \in Locks
    BY <1>12, HeadTailProperties DEF ExitReleaseLock, IInv, TypeOK
  <2>2. \A c \in Cond : wait_list'[c] = IF c = Release(l) THEN <<>> ELSE wait_list[c]
    BY <1>12 DEF ExitReleaseLock, Broadcast, IInv, TypeOK
  <2>3. \A m \in Locks : owner'[m] = IF m = l THEN NoTid ELSE owner[m]
    BY <1>12, <2>1 DEF ExitReleaseLock, IInv, TypeOK
  <2> QED BY <2>1, <2>2, <2>3, CondTypes DEF IInv, NoLostRelease
<1>13. ASSUME NEW t \in Tid, ExitMark(t)
      PROVE  NoLostRelease'
  <2>1. \A c \in Cond : wait_list'[c] = <<>> \/ wait_list'[c] = wait_list[c]
    <3>1. CASE parent[t] = NoTid
      BY <1>13, <3>1 DEF ExitMark, listVars
    <3>2. CASE parent[t] # NoTid
      BY <1>13, <3>2 DEF ExitMark, Broadcast, IInv, TypeOK
    <3> QED BY <3>1, <3>2
  <2> QED BY <1>13, <2>1, CondTypes DEF ExitMark, IInv, NoLostRelease, lockVars
<1>14. ASSUME NEW t \in Tid, JoinReap(t)
      PROVE  NoLostRelease'
  BY <1>14 DEF JoinReap, Reclaim, Return, Reapable, Adopter, IInv, TypeOK, NoLostRelease,
       At, Goto, thrVars, listVars, lockVars,
         ctlVars, irqVars
<1>15. ASSUME NEW t \in Tid, JoinWait(t)
      PROVE  NoLostRelease'
  BY <1>15 DEF JoinWait, Wait, IInv, TypeOK, NoLostRelease, At, Goto, thrVars, listVars,
       lockVars,
         ctlVars, irqVars
<1>16. ASSUME NEW t \in Tid, LockWait(t)
      PROVE  NoLostRelease'
  BY <1>16 DEF LockWait, Wait, IInv, TypeOK, NoLostRelease, At, Goto, thrVars, listVars,
       lockVars,
         ctlVars, irqVars
<1>17. ASSUME NEW t \in Tid, LockTake(t)
      PROVE  NoLostRelease'
  BY <1>17 DEF LockTake, Return, IInv, TypeOK, NoLostRelease, At, Goto, thrVars, listVars,
       lockVars,
         ctlVars, irqVars
<1>18. ASSUME NEW t \in Tid, EventWait(t)
      PROVE  NoLostRelease'
  BY <1>18 DEF EventWait, Wait, IInv, TypeOK, NoLostRelease, At, Goto, thrVars, listVars,
       lockVars,
         ctlVars, irqVars
<1>19. ASSUME NEW t \in Tid, EventTake(t)
      PROVE  NoLostRelease'
  BY <1>19 DEF EventTake, Return, IInv, TypeOK, NoLostRelease, At, Goto, thrVars, listVars,
       lockVars,
         ctlVars, irqVars
<1>20. ASSUME NEW t \in Tid, CondWaitMark(t)
      PROVE  NoLostRelease'
  BY <1>20 DEF CondWaitMark, IInv, TypeOK, NoLostRelease, At, Goto, thrVars, listVars, lockVars,
         ctlVars, irqVars
<1>21. ASSUME NEW t \in Tid, CondWaitInsert(t)
      PROVE  NoLostRelease'
  <2>1. \A c \in Cond : c # CondOf(t) => wait_list'[c] = wait_list[c]
    BY <1>21 DEF CondWaitInsert, IInv, TypeOK
  <2>2. \A l \in Locks : Release(l) = CondOf(t) => owner[l] # NoTid
    BY <1>21 DEF CondWaitInsert, At, IInv, LockWaitInv, CondOf, Release, Event, Exit
  <2> QED BY <1>21, <2>1, <2>2, CondTypes DEF CondWaitInsert, IInv, NoLostRelease, lockVars
<1>22. ASSUME NEW t \in Tid, SuspendPick(t)
      PROVE  NoLostRelease'
  BY <1>22 DEF SuspendPick, Requeued, Runnable, IInv, TypeOK, NoLostRelease, At, Goto,
       thrVars, listVars, lockVars,
         ctlVars, irqVars
<1>23. ASSUME NEW t \in Tid, SuspendMark(t)
      PROVE  NoLostRelease'
  BY <1>23 DEF SuspendMark, IInv, TypeOK, NoLostRelease, At, Goto, thrVars, listVars, lockVars,
         ctlVars, irqVars
<1>24. ASSUME NEW t \in Tid, Switch(t)
      PROVE  NoLostRelease'
  BY <1>24 DEF Switch, Resume, IInv, TypeOK, NoLostRelease, At, Goto, thrVars, listVars,
       lockVars,
         ctlVars, irqVars
<1>25. ASSUME NEW t \in Tid, IdleYield(t)
      PROVE  NoLostRelease'
  BY <1>25 DEF IdleYield, IInv, TypeOK, NoLostRelease, At, Goto, thrVars, listVars, lockVars,
         ctlVars, irqVars
<1>26. ASSUME NEW t \in Tid, IdleSeesEmpty(t)
      PROVE  NoLostRelease'
  BY <1>26 DEF IdleSeesEmpty, IInv, TypeOK, NoLostRelease, At, Goto, thrVars, listVars,
       lockVars,
         ctlVars, irqVars
<1>27. ASSUME NEW t \in Tid, IdleCheck(t)
      PROVE  NoLostRelease'
  BY <1>27 DEF IdleCheck, IInv, TypeOK, NoLostRelease, At, Goto, thrVars, listVars, lockVars,
         ctlVars, irqVars
<1>28. ASSUME NEW t \in Tid, IdleWake(t)
      PROVE  NoLostRelease'
  BY <1>28 DEF IdleWake, IInv, TypeOK, NoLostRelease, At, Goto, thrVars, listVars, lockVars,
         ctlVars, irqVars
<1>29. ASSUME NEW e \in Events, Raise(e)
      PROVE  NoLostRelease'
  BY <1>29 DEF Raise, IInv, TypeOK, NoLostRelease, At, Goto, thrVars, listVars, lockVars,
         ctlVars, irqVars
<1>30. ASSUME NEW e \in Events, Isr(e)
      PROVE  NoLostRelease'
  <2>1. \A c \in Cond : wait_list'[c] = <<>> \/ wait_list'[c] = wait_list[c]
    BY <1>30 DEF Isr, Broadcast, IInv, TypeOK
  <2> QED BY <1>30, <2>1, CondTypes DEF Isr, IInv, NoLostRelease, lockVars
<1>31. CASE UNCHANGED vars
  BY <1>31 DEF IInv, TypeOK, NoLostRelease, At, Goto, thrVars, listVars, lockVars,
         ctlVars, irqVars, vars
<1> QED BY <1>1, <1>2, <1>3, <1>4, <1>5, <1>6, <1>7, <1>8, <1>9, <1>10, <1>11, <1>12, <1>13,
     <1>14, <1>15, <1>16, <1>17, <1>18, <1>19, <1>20, <1>21, <1>22, <1>23, <1>24, <1>25, <1>26,
     <1>27, <1>28, <1>29, <1>30, <1>31
  DEF Next, Call, Progress, Halted

----------------------------------------------------------------------------
(* The invariant, and what it says of every reachable state.               *)

LEMMA InitIInv == Init => IInv
<1> SUFFICES ASSUME Init PROVE IInv
  OBVIOUS
<1> USE NTHRAssumption, MaxCntAssumption
<1>1. /\ MAIN_TID \in Tid /\ IDLE_TID \in Tid /\ MAIN_TID # IDLE_TID
      /\ NoTid \notin Tid
  BY DEF MAIN_TID, IDLE_TID, Tid, NoTid
<1>2. <<>> \in Seq(Tid) /\ <<>> \in Seq(Locks) /\ <<IDLE_TID>> \in Seq(Tid)
  BY <1>1, EmptySeq
<1>3. TypeOK
  <2>1. /\ tp \in Tid /\ state \in [Tid -> States] /\ parent \in [Tid -> Tid \cup {NoTid}]
        /\ pc \in [Tid -> Labels] /\ next \in Tid \cup {NoTid}
    BY <1>1 DEF Init, States, Labels
  <2>2. /\ ready_list \in Seq(Tid) /\ wait_list \in [Cond -> Seq(Tid)]
        /\ owner \in [Locks -> Tid \cup {NoTid}] /\ cnt \in [Locks -> 0 .. MaxCnt]
        /\ lock_list \in [Tid -> Seq(Locks)]
    BY <1>2 DEF Init
  <2>3. /\ stack \in [Tid -> BOOLEAN] /\ spie \in [Tid -> BOOLEAN]
        /\ opie \in [Tid -> BOOLEAN] /\ sie \in BOOLEAN
        /\ event \in [Events -> BOOLEAN] /\ pending \subseteq Events
    <3>1. /\ spie \in [Tid -> BOOLEAN] /\ opie \in [Tid -> BOOLEAN]
          /\ sie \in BOOLEAN /\ event \in [Events -> BOOLEAN] /\ pending \subseteq Events
      BY DEF Init
    <3>2. stack \in [Tid -> BOOLEAN]
      <4>1. \A t \in Tid : (t \in {MAIN_TID, IDLE_TID}) \in BOOLEAN
        OBVIOUS
      <4> QED BY <4>1 DEF Init
    <3> QED BY <3>1, <3>2
  <2>4. /\ cont \in [Tid -> {"run", "lock", "event", "join"}]
        /\ arg \in [Tid -> Tid \cup Locks \cup Events \cup {NoTid}]
    BY DEF Init
  <2> QED BY <2>1, <2>2, <2>3, <2>4 DEF TypeOK
<1>4. ControlInv /\ ArgInv /\ LockWaitInv
  BY <1>1 DEF Init, ControlInv, ArgInv, ArgOK, LockWaitInv, Current
<1>5. Range(<<IDLE_TID>>) = {IDLE_TID} /\ IsInjective(<<IDLE_TID>>)
  BY DEF Range, IsInjective
<1>6. ReadyPlaced
  BY <1>1, <1>5 DEF Init, ReadyPlaced
<1>7. WaitPlaced
  BY <1>1, EmptyList DEF Init, WaitPlaced
<1>8. RunPlaced
  BY <1>1 DEF Init, RunPlaced, Current
<1>9. LocksConsistent
  BY <1>1, EmptyList DEF Init, LocksConsistent, OwnedListed, OwnedCounted, OwnersLive
<1>10. NoLostRelease
  BY CondTypes DEF Init, NoLostRelease
<1> QED BY <1>3, <1>4, <1>6, <1>7, <1>8, <1>9, <1>10 DEF IInv, Placement

LEMMA NextIInv == IInv /\ [Next]_vars => IInv'
<1>1. ASSUME IInv, Next
      PROVE  IInv'
  BY <1>1, TypeStep, ControlStep, ArgStep, PlacementStep, LocksStep, LockWaitStep,
     NoLostReleaseStep DEF IInv
<1>2. ASSUME IInv, UNCHANGED vars
      PROVE  IInv'
  BY <1>2 DEF IInv, TypeOK, ControlInv, ArgInv, ArgOK, Placement, ReadyPlaced, WaitPlaced,
     RunPlaced, LocksConsistent, OwnedListed, OwnedCounted, OwnersLive, LockWaitInv,
     NoLostRelease, At, CondOf, vars, thrVars, listVars, lockVars, ctlVars, irqVars
<1> QED BY <1>1, <1>2

LEMMA Invariance == Spec => []IInv
  BY InitIInv, NextIInv, PTL DEF Spec

(* For any number of threads, locks and interrupt sources, at every step:  *)
(* every variable keeps its type, in particular the head of the ready list *)
(* that running_thread_suspend switches to is a thread; and a thread is on *)
(* the ready list, on the wait list of its condition or on neither, exactly*)
(* as its state says, never twice and never on two lists.                  *)
THEOREM WellFormedHolds == Spec => []WellFormed
<1>1. IInv => WellFormed
  BY DEF IInv, WellFormed
<1> QED BY <1>1, Invariance, PTL

(* A lock has one owner, a live thread whose lock_list names the lock once.*)
THEOREM LocksConsistentHolds == Spec => []LocksConsistent
<1>1. IInv => LocksConsistent
  BY DEF IInv
<1> QED BY <1>1, Invariance, PTL

(* No thread waits for a lock that is free.                                *)
THEOREM NoLostReleaseHolds == Spec => []NoLostRelease
<1>1. IInv => NoLostRelease
  BY DEF IInv
<1> QED BY <1>1, Invariance, PTL

----------------------------------------------------------------------------
(* Interrupts, exits and joins.                                            *)

(* A driver that tests for its event, and the idle thread before its wfi,  *)
(* run with interrupts disabled until the hart goes to another thread.     *)
EventInv ==
  /\ NoLostEvent
  /\ pc[tp] \in {"event", "wfi"} => ~sie
  /\ pc[tp] \in {"cw1", "cw2", "rs1", "rs2"} /\ cont[tp] = "event" => ~sie
  /\ pc[tp] \in {"cw1", "cw2"} /\ cont[tp] = "event" => ~event[arg[tp]]
  /\ \A t \in Tid : pc[t] \in {"rs3", "off"} /\ cont[t] = "event" => ~spie[t]

(* A thread in thread_join has the child it asked for; it waits only while *)
(* there is none to reap, and every thread that waits came from a loop.    *)
JoinOK(t) ==
  /\ cont[t] = "join" \/ pc[t] = "join" =>
       \E c \in Tid \ {MAIN_TID, IDLE_TID} :
         parent[c] = t /\ state[c] # "FREE" /\ arg[t] \in {0, c}
  /\ cont[t] = "join" /\ (state[t] = "WAITING" \/ pc[t] = "cw1") => Reapable(t) = {}
  /\ state[t] = "WAITING" \/ pc[t] = "cw1" => cont[t] # "run"
JoinInv == \A t \in Tid : JoinOK(t)

WakeInv == IInv /\ EventInv /\ JoinInv /\ NoOrphan /\ StackHeld

LEMMA TidFacts ==
  /\ MAIN_TID \in Tid /\ IDLE_TID \in Tid /\ MAIN_TID # IDLE_TID
  /\ NoTid \notin Tid
  BY NTHRAssumption DEF MAIN_TID, IDLE_TID, Tid, NoTid

(* running_thread_exit marks the thread, and may wake its parent.          *)
LEMMA ExitMarkStates ==
  ASSUME IInv, NEW t \in Tid, ExitMark(t)
  PROVE  /\ state'[t] = "EXITED"
         /\ \A u \in Tid \ {t} : \/ state'[u] = state[u]
                                 \/ state[u] = "WAITING" /\ state'[u] = "READY"
<1> DEFINE st == [state EXCEPT ![t] = "EXITED"]
<1>1. st \in [Tid -> States]
  BY DEF IInv, TypeOK, States
<1>2. \A u \in Tid : \/ state'[u] = st[u]
                     \/ /\ state[u] = "WAITING" /\ state'[u] = "READY"
                        /\ ~(u = tp /\ pc[tp] = "cw2")
  <2>1. CASE parent[t] = NoTid
    BY <2>1 DEF ExitMark
  <2>2. CASE parent[t] # NoTid
    <3>1. Exit(parent[t]) \in Cond /\ Broadcast(Exit(parent[t]), st)
      BY <2>2, CondTypes DEF ExitMark, IInv, TypeOK
    <3> QED BY <1>1, <3>1, BroadcastStates
  <2> QED BY <2>1, <2>2
<1>3. state[t] = "SELF"
  BY DEF ExitMark, IInv, Placement, RunPlaced, At, Current
<1> QED BY <1>2, <1>3 DEF IInv, TypeOK

(* Only spawn and reclaim change who is in the table and who is whose      *)
(* child; no other step leaves or enters a state of a free slot.           *)
FamilyKept ==
  /\ parent' = parent
  /\ \A u \in Tid : (state'[u] = "FREE") <=> (state[u] = "FREE")

LEMMA FamilyStep ==
  ASSUME IInv, Next
  PROVE  \/ FamilyKept
         \/ \E u, v \in Tid : Spawn(u, v)
         \/ \E u \in Tid : JoinReap(u)
<1>1. ASSUME NEW t \in Tid, TrapEnter(t)
      PROVE  \/ FamilyKept
             \/ \E u, v \in Tid : Spawn(u, v)
             \/ \E u \in Tid : JoinReap(u)
  BY <1>1 DEF TrapEnter, IInv, TypeOK, ControlInv, Placement, RunPlaced, Current,
       FamilyKept, At,
         Goto, thrVars, listVars, lockVars, ctlVars, irqVars
<1>2. ASSUME NEW t \in Tid, TrapReturn(t)
      PROVE  \/ FamilyKept
             \/ \E u, v \in Tid : Spawn(u, v)
             \/ \E u \in Tid : JoinReap(u)
  BY <1>2 DEF TrapReturn, IInv, TypeOK, ControlInv, Placement, RunPlaced, Current,
       FamilyKept, At,
         Goto, thrVars, listVars, lockVars, ctlVars, irqVars
<1>3. ASSUME NEW t \in Tid, Yield(t)
      PROVE  \/ FamilyKept
             \/ \E u, v \in Tid : Spawn(u, v)
             \/ \E u \in Tid : JoinReap(u)
  BY <1>3 DEF Yield, IInv, TypeOK, ControlInv, Placement, RunPlaced, Current, FamilyKept, At,
         Goto, thrVars, listVars, lockVars, ctlVars, irqVars
<1>4. ASSUME NEW t \in Tid, HaltMain(t)
      PROVE  \/ FamilyKept
             \/ \E u, v \in Tid : Spawn(u, v)
             \/ \E u \in Tid : JoinReap(u)
  BY <1>4 DEF HaltMain, IInv, TypeOK, ControlInv, Placement, RunPlaced, Current, FamilyKept, At,
         Goto, thrVars, listVars, lockVars, ctlVars, irqVars
<1>5. ASSUME NEW t \in Tid, ExitStart(t)
      PROVE  \/ FamilyKept
             \/ \E u, v \in Tid : Spawn(u, v)
             \/ \E u \in Tid : JoinReap(u)
  BY <1>5 DEF ExitStart, IInv, TypeOK, ControlInv, Placement, RunPlaced, Current,
       FamilyKept, At,
         Goto, thrVars, listVars, lockVars, ctlVars, irqVars
<1>6. ASSUME NEW t \in Tid, NEW c \in Tid, Spawn(t, c)
      PROVE  \/ FamilyKept
             \/ \E u, v \in Tid : Spawn(u, v)
             \/ \E u \in Tid : JoinReap(u)
  BY <1>6
<1>7. ASSUME NEW t \in Tid, NEW c \in Tid, JoinStart(t, c)
      PROVE  \/ FamilyKept
             \/ \E u, v \in Tid : Spawn(u, v)
             \/ \E u \in Tid : JoinReap(u)
  BY <1>7 DEF JoinStart, IInv, TypeOK, ControlInv, Placement, RunPlaced, Current,
       FamilyKept, At,
         Goto, thrVars, listVars, lockVars, ctlVars, irqVars
<1>8. ASSUME NEW t \in Tid, NEW l \in Locks, LockRecursive(t, l)
      PROVE  \/ FamilyKept
             \/ \E u, v \in Tid : Spawn(u, v)
             \/ \E u \in Tid : JoinReap(u)
  BY <1>8 DEF LockRecursive, IInv, TypeOK, ControlInv, Placement, RunPlaced, Current,
       FamilyKept,
         At, Goto, thrVars, listVars, lockVars, ctlVars, irqVars
<1>9. ASSUME NEW t \in Tid, NEW l \in Locks, LockStart(t, l)
      PROVE  \/ FamilyKept
             \/ \E u, v \in Tid : Spawn(u, v)
             \/ \E u \in Tid : JoinReap(u)
  BY <1>9 DEF LockStart, IInv, TypeOK, ControlInv, Placement, RunPlaced, Current,
       FamilyKept, At,
         Goto, thrVars, listVars, lockVars, ctlVars, irqVars
<1>10. ASSUME NEW t \in Tid, NEW l \in Locks, LockRelease(t, l)
      PROVE  \/ FamilyKept
             \/ \E u, v \in Tid : Spawn(u, v)
             \/ \E u \in Tid : JoinReap(u)
  <2>1. \A u \in Tid : \/ state'[u] = state[u]
                      \/ /\ state[u] = "WAITING" /\ state'[u] = "READY"
                         /\ ~(u = tp /\ pc[tp] = "cw2")
    BY <1>10, CondTypes, BroadcastStates, ZenonT(40) DEF LockRelease, lock_release_completely,
         IInv, TypeOK
  <2> QED BY <1>10, <2>1 DEF LockRelease, lock_release_completely, FamilyKept, IInv, TypeOK
<1>11. ASSUME NEW t \in Tid, NEW e \in Events, EventStart(t, e)
      PROVE  \/ FamilyKept
             \/ \E u, v \in Tid : Spawn(u, v)
             \/ \E u \in Tid : JoinReap(u)
  BY <1>11 DEF EventStart, IInv, TypeOK, ControlInv, Placement, RunPlaced, Current,
       FamilyKept, At,
         Goto, thrVars, listVars, lockVars, ctlVars, irqVars
<1>12. ASSUME NEW t \in Tid, ExitReleaseLock(t)
      PROVE  \/ FamilyKept
             \/ \E u, v \in Tid : Spawn(u, v)
             \/ \E u \in Tid : JoinReap(u)
  <2>1. Head(lock_list[t]) \in Locks
    BY <1>12, HeadTailProperties DEF ExitReleaseLock, IInv, TypeOK
  <2>2. \A u \in Tid : \/ state'[u] = state[u]
                      \/ /\ state[u] = "WAITING" /\ state'[u] = "READY"
                         /\ ~(u = tp /\ pc[tp] = "cw2")
    BY <1>12, <2>1, CondTypes, BroadcastStates DEF ExitReleaseLock, IInv, TypeOK
  <2> QED BY <1>12, <2>2 DEF ExitReleaseLock, FamilyKept, IInv, TypeOK
<1>13. ASSUME NEW t \in Tid, ExitMark(t)
      PROVE  \/ FamilyKept
             \/ \E u, v \in Tid : Spawn(u, v)
             \/ \E u \in Tid : JoinReap(u)
  BY <1>13, ExitMarkStates DEF ExitMark, FamilyKept, IInv, TypeOK, At, RunPlaced, Placement,
       Current
<1>14. ASSUME NEW t \in Tid, JoinReap(t)
      PROVE  \/ FamilyKept
             \/ \E u, v \in Tid : Spawn(u, v)
             \/ \E u \in Tid : JoinReap(u)
  BY <1>14
<1>15. ASSUME NEW t \in Tid, JoinWait(t)
      PROVE  \/ FamilyKept
             \/ \E u, v \in Tid : Spawn(u, v)
             \/ \E u \in Tid : JoinReap(u)
  BY <1>15 DEF JoinWait, Wait, IInv, TypeOK, ControlInv, Placement, RunPlaced, Current,
       FamilyKept,
         At, Goto, thrVars, listVars, lockVars, ctlVars, irqVars
<1>16. ASSUME NEW t \in Tid, LockWait(t)
      PROVE  \/ FamilyKept
             \/ \E u, v \in Tid : Spawn(u, v)
             \/ \E u \in Tid : JoinReap(u)
  BY <1>16 DEF LockWait, Wait, IInv, TypeOK, ControlInv, Placement, RunPlaced, Current,
       FamilyKept,
         At, Goto, thrVars, listVars, lockVars, ctlVars, irqVars
<1>17. ASSUME NEW t \in Tid, LockTake(t)
      PROVE  \/ FamilyKept
             \/ \E u, v \in Tid : Spawn(u, v)
             \/ \E u \in Tid : JoinReap(u)
  BY <1>17 DEF LockTake, Return, IInv, TypeOK, ControlInv, Placement, RunPlaced, Current,
         FamilyKept, At, Goto, thrVars, listVars, lockVars, ctlVars, irqVars
<1>18. ASSUME NEW t \in Tid, EventWait(t)
      PROVE  \/ FamilyKept
             \/ \E u, v \in Tid : Spawn(u, v)
             \/ \E u \in Tid : JoinReap(u)
  BY <1>18 DEF EventWait, Wait, IInv, TypeOK, ControlInv, Placement, RunPlaced, Current,
         FamilyKept, At, Goto, thrVars, listVars, lockVars, ctlVars, irqVars
<1>19. ASSUME NEW t \in Tid, EventTake(t)
      PROVE  \/ FamilyKept
             \/ \E u, v \in Tid : Spawn(u, v)
             \/ \E u \in Tid : JoinReap(u)
  BY <1>19 DEF EventTake, Return, IInv, TypeOK, ControlInv, Placement, RunPlaced, Current,
         FamilyKept, At, Goto, thrVars, listVars, lockVars, ctlVars, irqVars
<1>20. ASSUME NEW t \in Tid, CondWaitMark(t)
      PROVE  \/ FamilyKept
             \/ \E u, v \in Tid : Spawn(u, v)
             \/ \E u \in Tid : JoinReap(u)
  BY <1>20 DEF CondWaitMark, IInv, TypeOK, ControlInv, Placement, RunPlaced, Current,
       FamilyKept,
         At, Goto, thrVars, listVars, lockVars, ctlVars, irqVars
<1>21. ASSUME NEW t \in Tid, CondWaitInsert(t)
      PROVE  \/ FamilyKept
             \/ \E u, v \in Tid : Spawn(u, v)
             \/ \E u \in Tid : JoinReap(u)
  BY <1>21 DEF CondWaitInsert, IInv, TypeOK, ControlInv, Placement, RunPlaced, Current,
       FamilyKept,
         At, Goto, thrVars, listVars, lockVars, ctlVars, irqVars
<1>22. ASSUME NEW t \in Tid, SuspendPick(t)
      PROVE  \/ FamilyKept
             \/ \E u, v \in Tid : Spawn(u, v)
             \/ \E u \in Tid : JoinReap(u)
  BY <1>22 DEF SuspendPick, Requeued, Runnable, IInv, TypeOK, ControlInv, Placement, RunPlaced,
         Current, FamilyKept, At, Goto, thrVars, listVars, lockVars, ctlVars, irqVars
<1>23. ASSUME NEW t \in Tid, SuspendMark(t)
      PROVE  \/ FamilyKept
             \/ \E u, v \in Tid : Spawn(u, v)
             \/ \E u \in Tid : JoinReap(u)
  BY <1>23 DEF SuspendMark, IInv, TypeOK, ControlInv, Placement, RunPlaced, Current, FamilyKept,
         At, Goto, thrVars, listVars, lockVars, ctlVars, irqVars
<1>24. ASSUME NEW t \in Tid, Switch(t)
      PROVE  \/ FamilyKept
             \/ \E u, v \in Tid : Spawn(u, v)
             \/ \E u \in Tid : JoinReap(u)
  BY <1>24 DEF Switch, Resume, IInv, TypeOK, ControlInv, Placement, RunPlaced, Current,
       FamilyKept,
         At, Goto, thrVars, listVars, lockVars, ctlVars, irqVars
<1>25. ASSUME NEW t \in Tid, IdleYield(t)
      PROVE  \/ FamilyKept
             \/ \E u, v \in Tid : Spawn(u, v)
             \/ \E u \in Tid : JoinReap(u)
  BY <1>25 DEF IdleYield, IInv, TypeOK, ControlInv, Placement, RunPlaced, Current,
       FamilyKept, At,
         Goto, thrVars, listVars, lockVars, ctlVars, irqVars
<1>26. ASSUME NEW t \in Tid, IdleSeesEmpty(t)
      PROVE  \/ FamilyKept
             \/ \E u, v \in Tid : Spawn(u, v)
             \/ \E u \in Tid : JoinReap(u)
  BY <1>26 DEF IdleSeesEmpty, IInv, TypeOK, ControlInv, Placement, RunPlaced, Current,
       FamilyKept,
         At, Goto, thrVars, listVars, lockVars, ctlVars, irqVars
<1>27. ASSUME NEW t \in Tid, IdleCheck(t)
      PROVE  \/ FamilyKept
             \/ \E u, v \in Tid : Spawn(u, v)
             \/ \E u \in Tid : JoinReap(u)
  BY <1>27 DEF IdleCheck, IInv, TypeOK, ControlInv, Placement, RunPlaced, Current,
       FamilyKept, At,
         Goto, thrVars, listVars, lockVars, ctlVars, irqVars
<1>28. ASSUME NEW t \in Tid, IdleWake(t)
      PROVE  \/ FamilyKept
             \/ \E u, v \in Tid : Spawn(u, v)
             \/ \E u \in Tid : JoinReap(u)
  BY <1>28 DEF IdleWake, IInv, TypeOK, ControlInv, Placement, RunPlaced, Current,
       FamilyKept, At,
         Goto, thrVars, listVars, lockVars, ctlVars, irqVars
<1>29. ASSUME NEW e \in Events, Raise(e)
      PROVE  \/ FamilyKept
             \/ \E u, v \in Tid : Spawn(u, v)
             \/ \E u \in Tid : JoinReap(u)
  BY <1>29 DEF Raise, IInv, TypeOK, ControlInv, Placement, RunPlaced, Current, FamilyKept, At,
         Goto, thrVars, listVars, lockVars, ctlVars, irqVars
<1>30. ASSUME NEW e \in Events, Isr(e)
      PROVE  \/ FamilyKept
             \/ \E u, v \in Tid : Spawn(u, v)
             \/ \E u \in Tid : JoinReap(u)
  <2>1. \A u \in Tid : \/ state'[u] = state[u]
                      \/ /\ state[u] = "WAITING" /\ state'[u] = "READY"
                         /\ ~(u = tp /\ pc[tp] = "cw2")
    BY <1>30, CondTypes, BroadcastStates DEF Isr, IInv, TypeOK
  <2> QED BY <1>30, <2>1 DEF Isr, FamilyKept, IInv, TypeOK
<1>31. CASE UNCHANGED vars
  BY <1>31 DEF IInv, TypeOK, ControlInv, Placement, RunPlaced, Current, FamilyKept, vars,
       thrVars,
         listVars, lockVars, ctlVars, irqVars
<1> QED BY <1>1, <1>2, <1>3, <1>4, <1>5, <1>6, <1>7, <1>8, <1>9, <1>10, <1>11, <1>12, <1>13,
     <1>14, <1>15, <1>16, <1>17, <1>18, <1>19, <1>20, <1>21, <1>22, <1>23, <1>24, <1>25,
     <1>26, <1>27, <1>28, <1>29, <1>30, <1>31
  DEF Next, Call, Progress, Halted

(* The parents lead to the main thread when a thread joins the table ...   *)
LEMMA SpawnKeepsTree ==
  ASSUME IInv, NoOrphan, NEW t \in Tid, NEW c \in Tid, Spawn(t, c)
  PROVE  NoOrphan'
<1>1. /\ c \notin Live /\ t \in Live /\ Live' = Live \cup {c}
      /\ parent' = [parent EXCEPT ![c] = t] /\ c # MAIN_TID
  BY DEF Spawn, create_thread, IInv, TypeOK, Live, At, Placement, RunPlaced, Current
<1>2. parent'[c] = t /\ \A u \in Tid \ {c} : parent'[u] = parent[u]
  BY <1>1 DEF IInv, TypeOK
<1>3. \A u \in Live' \ {MAIN_TID} : parent'[u] \in Live'
  BY <1>1, <1>2 DEF NoOrphan, Live
<1>4. ASSUME NEW S \in SUBSET (Live' \ {MAIN_TID}), S # {}
      PROVE  \E u \in S : parent'[u] \notin S
  <2>1. CASE c \notin S
    BY <1>1, <1>2, <1>4, <2>1 DEF NoOrphan, Live
  <2>2. CASE S = {c}
    BY <1>1, <1>2, <2>2
  <2>3. CASE c \in S /\ S # {c}
    <3>1. S \ {c} \in SUBSET (Live \ {MAIN_TID}) /\ S \ {c} # {}
      BY <1>1, <2>3
    <3>2. PICK u \in S \ {c} : parent[u] \notin S \ {c}
      BY <3>1 DEF NoOrphan
    <3>3. parent[u] # c
      BY <1>1, <3>1 DEF NoOrphan
    <3> QED BY <1>2, <3>1, <3>2, <3>3 DEF Live
  <2> QED BY <2>1, <2>2, <2>3
<1> QED BY <1>3, <1>4 DEF NoOrphan

(* ... and when one leaves it: its children go to its own parent.          *)
LEMMA ReapKeepsTree ==
  ASSUME IInv, NoOrphan, NEW t \in Tid, JoinReap(t)
  PROVE  NoOrphan'
<1>1. PICK c \in Reapable(t) : Reclaim(c)
  BY DEF JoinReap
<1>2. /\ c \in Tid \ {MAIN_TID} /\ parent[c] = t /\ state[c] = "EXITED"
      /\ c \in Live /\ t \in Live /\ t # c
  BY DEF Reapable, JoinReap, Live, At, IInv, Placement, RunPlaced, Current
<1>3. /\ Live' = Live \ {c}
      /\ \A u \in Tid \ {c} : parent'[u] = IF parent[u] = c THEN t ELSE parent[u]
  BY <1>1, <1>2 DEF Reclaim, Adopter, Live, IInv, TypeOK
<1>4. \A u \in Live' \ {MAIN_TID} : parent'[u] \in Live'
  BY <1>2, <1>3 DEF NoOrphan, Live
<1>5. ASSUME NEW S \in SUBSET (Live' \ {MAIN_TID}), S # {}
      PROVE  \E u \in S : parent'[u] \notin S
  <2>1. S \in SUBSET (Live \ {MAIN_TID}) /\ S \cup {c} \in SUBSET (Live \ {MAIN_TID})
        /\ c \notin S
    BY <1>2, <1>3
  <2>2. CASE \E u \in S : parent[u] = c
    <3>1. PICK u \in S \cup {c} : parent[u] \notin S \cup {c}
      BY <2>1 DEF NoOrphan
    <3>2. CASE u = c
      BY <1>2, <1>3, <2>1, <2>2, <3>1, <3>2 DEF Live
    <3>3. CASE u \in S
      BY <1>3, <2>1, <3>1, <3>3 DEF Live
    <3> QED BY <3>1, <3>2, <3>3
  <2>3. CASE \A u \in S : parent[u] # c
    <3>1. PICK u \in S : parent[u] \notin S
      BY <1>5, <2>1 DEF NoOrphan
    <3> QED BY <1>3, <2>1, <2>3, <3>1 DEF Live
  <2> QED BY <2>2, <2>3
<1> QED BY <1>4, <1>5 DEF NoOrphan

LEMMA NoOrphanStep ==
  ASSUME IInv, NoOrphan, Next
  PROVE  NoOrphan'
<1>1. CASE FamilyKept
  <2>1. Live' = Live /\ parent' = parent
    BY <1>1 DEF FamilyKept, Live
  <2> QED BY <2>1 DEF NoOrphan
<1> QED BY <1>1, FamilyStep, SpawnKeepsTree, ReapKeepsTree

(* No step frees the stack of a thread that can still run.                 *)
LEMMA StackStep ==
  ASSUME IInv, StackHeld, Next
  PROVE  StackHeld'
<1>1. ASSUME NEW t \in Tid, TrapEnter(t)
      PROVE  StackHeld'
  BY <1>1 DEF TrapEnter, IInv, TypeOK, ControlInv, Placement, RunPlaced, Current, StackHeld, At,
         Goto, thrVars, listVars, lockVars, ctlVars, irqVars
<1>2. ASSUME NEW t \in Tid, TrapReturn(t)
      PROVE  StackHeld'
  BY <1>2 DEF TrapReturn, IInv, TypeOK, ControlInv, Placement, RunPlaced, Current,
       StackHeld, At,
         Goto, thrVars, listVars, lockVars, ctlVars, irqVars
<1>3. ASSUME NEW t \in Tid, Yield(t)
      PROVE  StackHeld'
  BY <1>3 DEF Yield, IInv, TypeOK, ControlInv, Placement, RunPlaced, Current, StackHeld, At,
       Goto,
         thrVars, listVars, lockVars, ctlVars, irqVars
<1>4. ASSUME NEW t \in Tid, HaltMain(t)
      PROVE  StackHeld'
  BY <1>4 DEF HaltMain, IInv, TypeOK, ControlInv, Placement, RunPlaced, Current, StackHeld, At,
         Goto, thrVars, listVars, lockVars, ctlVars, irqVars
<1>5. ASSUME NEW t \in Tid, ExitStart(t)
      PROVE  StackHeld'
  BY <1>5 DEF ExitStart, IInv, TypeOK, ControlInv, Placement, RunPlaced, Current, StackHeld, At,
         Goto, thrVars, listVars, lockVars, ctlVars, irqVars
<1>6. ASSUME NEW t \in Tid, NEW c \in Tid, Spawn(t, c)
      PROVE  StackHeld'
  BY <1>6 DEF Spawn, create_thread, IInv, TypeOK, ControlInv, Placement, RunPlaced, Current,
         StackHeld, At, Goto, thrVars, listVars, lockVars, ctlVars, irqVars
<1>7. ASSUME NEW t \in Tid, NEW c \in Tid, JoinStart(t, c)
      PROVE  StackHeld'
  BY <1>7 DEF JoinStart, IInv, TypeOK, ControlInv, Placement, RunPlaced, Current, StackHeld, At,
         Goto, thrVars, listVars, lockVars, ctlVars, irqVars
<1>8. ASSUME NEW t \in Tid, NEW l \in Locks, LockRecursive(t, l)
      PROVE  StackHeld'
  BY <1>8 DEF LockRecursive, IInv, TypeOK, ControlInv, Placement, RunPlaced, Current, StackHeld,
         At, Goto, thrVars, listVars, lockVars, ctlVars, irqVars
<1>9. ASSUME NEW t \in Tid, NEW l \in Locks, LockStart(t, l)
      PROVE  StackHeld'
  BY <1>9 DEF LockStart, IInv, TypeOK, ControlInv, Placement, RunPlaced, Current, StackHeld, At,
         Goto, thrVars, listVars, lockVars, ctlVars, irqVars
<1>10. ASSUME NEW t \in Tid, NEW l \in Locks, LockRelease(t, l)
      PROVE  StackHeld'
  <2>1. \A u \in Tid : \/ state'[u] = state[u]
                      \/ /\ state[u] = "WAITING" /\ state'[u] = "READY"
                         /\ ~(u = tp /\ pc[tp] = "cw2")
    BY <1>10, CondTypes, BroadcastStates DEF LockRelease, lock_release_completely, IInv, TypeOK
  <2> QED BY <1>10, <2>1 DEF LockRelease, lock_release_completely, IInv, TypeOK, ControlInv,
       Placement, RunPlaced, Current, StackHeld, At
<1>11. ASSUME NEW t \in Tid, NEW e \in Events, EventStart(t, e)
      PROVE  StackHeld'
  BY <1>11 DEF EventStart, IInv, TypeOK, ControlInv, Placement, RunPlaced, Current,
       StackHeld, At,
         Goto, thrVars, listVars, lockVars, ctlVars, irqVars
<1>12. ASSUME NEW t \in Tid, ExitReleaseLock(t)
      PROVE  StackHeld'
  <2>1. Head(lock_list[t]) \in Locks
    BY <1>12, HeadTailProperties DEF ExitReleaseLock, IInv, TypeOK
  <2>2. \A u \in Tid : \/ state'[u] = state[u]
                      \/ /\ state[u] = "WAITING" /\ state'[u] = "READY"
                         /\ ~(u = tp /\ pc[tp] = "cw2")
    BY <1>12, <2>1, CondTypes, BroadcastStates DEF ExitReleaseLock, IInv, TypeOK
  <2> QED BY <1>12, <2>2 DEF ExitReleaseLock, IInv, TypeOK, ControlInv, Placement,
       RunPlaced, Current, StackHeld
<1>13. ASSUME NEW t \in Tid, ExitMark(t)
      PROVE  StackHeld'
  BY <1>13, ExitMarkStates DEF ExitMark, IInv, TypeOK, ControlInv, Placement, RunPlaced,
       Current, StackHeld
<1>14. ASSUME NEW t \in Tid, JoinReap(t)
      PROVE  StackHeld'
  BY <1>14 DEF JoinReap, Reclaim, Return, Reapable, Adopter, IInv, TypeOK, ControlInv,
       Placement,
         RunPlaced, Current, StackHeld, At, Goto, thrVars, listVars, lockVars, ctlVars,
         irqVars
<1>15. ASSUME NEW t \in Tid, JoinWait(t)
      PROVE  StackHeld'
  BY <1>15 DEF JoinWait, Wait, IInv, TypeOK, ControlInv, Placement, RunPlaced, Current,
       StackHeld,
         At, Goto, thrVars, listVars, lockVars, ctlVars, irqVars
<1>16. ASSUME NEW t \in Tid, LockWait(t)
      PROVE  StackHeld'
  BY <1>16 DEF LockWait, Wait, IInv, TypeOK, ControlInv, Placement, RunPlaced, Current,
       StackHeld,
         At, Goto, thrVars, listVars, lockVars, ctlVars, irqVars
<1>17. ASSUME NEW t \in Tid, LockTake(t)
      PROVE  StackHeld'
  BY <1>17 DEF LockTake, Return, IInv, TypeOK, ControlInv, Placement, RunPlaced, Current,
         StackHeld, At, Goto, thrVars, listVars, lockVars, ctlVars, irqVars
<1>18. ASSUME NEW t \in Tid, EventWait(t)
      PROVE  StackHeld'
  BY <1>18 DEF EventWait, Wait, IInv, TypeOK, ControlInv, Placement, RunPlaced, Current,
       StackHeld,
         At, Goto, thrVars, listVars, lockVars, ctlVars, irqVars
<1>19. ASSUME NEW t \in Tid, EventTake(t)
      PROVE  StackHeld'
  BY <1>19 DEF EventTake, Return, IInv, TypeOK, ControlInv, Placement, RunPlaced, Current,
         StackHeld, At, Goto, thrVars, listVars, lockVars, ctlVars, irqVars
<1>20. ASSUME NEW t \in Tid, CondWaitMark(t)
      PROVE  StackHeld'
  BY <1>20 DEF CondWaitMark, IInv, TypeOK, ControlInv, Placement, RunPlaced, Current, StackHeld,
         At, Goto, thrVars, listVars, lockVars, ctlVars, irqVars
<1>21. ASSUME NEW t \in Tid, CondWaitInsert(t)
      PROVE  StackHeld'
  BY <1>21 DEF CondWaitInsert, IInv, TypeOK, ControlInv, Placement, RunPlaced, Current,
       StackHeld,
         At, Goto, thrVars, listVars, lockVars, ctlVars, irqVars
<1>22. ASSUME NEW t \in Tid, SuspendPick(t)
      PROVE  StackHeld'
  BY <1>22 DEF SuspendPick, Requeued, Runnable, IInv, TypeOK, ControlInv, Placement, RunPlaced,
         Current, StackHeld, At, Goto, thrVars, listVars, lockVars, ctlVars, irqVars
<1>23. ASSUME NEW t \in Tid, SuspendMark(t)
      PROVE  StackHeld'
  BY <1>23 DEF SuspendMark, IInv, TypeOK, ControlInv, Placement, RunPlaced, Current,
       StackHeld, At,
         Goto, thrVars, listVars, lockVars, ctlVars, irqVars
<1>24. ASSUME NEW t \in Tid, Switch(t)
      PROVE  StackHeld'
  BY <1>24, ZenonT(40) DEF Switch, Resume, IInv, TypeOK, ControlInv, Placement, RunPlaced,
       Current,
       StackHeld,
         At, Goto, thrVars, listVars, lockVars, ctlVars, irqVars
<1>25. ASSUME NEW t \in Tid, IdleYield(t)
      PROVE  StackHeld'
  BY <1>25 DEF IdleYield, IInv, TypeOK, ControlInv, Placement, RunPlaced, Current,
       StackHeld, At,
         Goto, thrVars, listVars, lockVars, ctlVars, irqVars
<1>26. ASSUME NEW t \in Tid, IdleSeesEmpty(t)
      PROVE  StackHeld'
  BY <1>26 DEF IdleSeesEmpty, IInv, TypeOK, ControlInv, Placement, RunPlaced, Current,
       StackHeld,
         At, Goto, thrVars, listVars, lockVars, ctlVars, irqVars
<1>27. ASSUME NEW t \in Tid, IdleCheck(t)
      PROVE  StackHeld'
  BY <1>27 DEF IdleCheck, IInv, TypeOK, ControlInv, Placement, RunPlaced, Current,
       StackHeld, At,
         Goto, thrVars, listVars, lockVars, ctlVars, irqVars
<1>28. ASSUME NEW t \in Tid, IdleWake(t)
      PROVE  StackHeld'
  BY <1>28 DEF IdleWake, IInv, TypeOK, ControlInv, Placement, RunPlaced, Current, StackHeld, At,
         Goto, thrVars, listVars, lockVars, ctlVars, irqVars
<1>29. ASSUME NEW e \in Events, Raise(e)
      PROVE  StackHeld'
  BY <1>29 DEF Raise, IInv, TypeOK, ControlInv, Placement, RunPlaced, Current, StackHeld,
       At, Goto,
         thrVars, listVars, lockVars, ctlVars, irqVars
<1>30. ASSUME NEW e \in Events, Isr(e)
      PROVE  StackHeld'
  <2>1. \A u \in Tid : \/ state'[u] = state[u]
                      \/ /\ state[u] = "WAITING" /\ state'[u] = "READY"
                         /\ ~(u = tp /\ pc[tp] = "cw2")
    BY <1>30, CondTypes, BroadcastStates DEF Isr, IInv, TypeOK
  <2> QED BY <1>30, <2>1 DEF Isr, IInv, TypeOK, ControlInv, Placement, RunPlaced, Current,
       StackHeld
<1>31. CASE UNCHANGED vars
  BY <1>31 DEF IInv, TypeOK, ControlInv, Placement, RunPlaced, Current, StackHeld, vars,
       thrVars,
         listVars, lockVars, ctlVars, irqVars
<1> QED BY <1>1, <1>2, <1>3, <1>4, <1>5, <1>6, <1>7, <1>8, <1>9, <1>10, <1>11, <1>12, <1>13,
     <1>14, <1>15, <1>16, <1>17, <1>18, <1>19, <1>20, <1>21, <1>22, <1>23, <1>24, <1>25,
     <1>26, <1>27, <1>28, <1>29, <1>30, <1>31
  DEF Next, Call, Progress, Halted

(* No interrupt comes between a driver's test and its entry in the list.   *)
LEMMA EventStep ==
  ASSUME IInv, EventInv, Next
  PROVE  EventInv'
<1>1. ASSUME NEW t \in Tid, TrapEnter(t)
      PROVE  EventInv'
  BY <1>1, TidFacts DEF TrapEnter, EventInv, NoLostEvent, IInv, TypeOK, ControlInv, ArgInv,
       ArgOK,
         Placement, RunPlaced, Current, At, Goto, thrVars, listVars, lockVars, ctlVars,
         irqVars
<1>2. ASSUME NEW t \in Tid, TrapReturn(t)
      PROVE  EventInv'
  BY <1>2, TidFacts DEF TrapReturn, EventInv, NoLostEvent, IInv, TypeOK, ControlInv, ArgInv,
       ArgOK,
         Placement, RunPlaced, Current, At, Goto, thrVars, listVars, lockVars, ctlVars,
         irqVars
<1>3. ASSUME NEW t \in Tid, Yield(t)
      PROVE  EventInv'
  BY <1>3, TidFacts DEF Yield, EventInv, NoLostEvent, IInv, TypeOK, ControlInv, ArgInv,
       ArgOK, Placement,
         RunPlaced, Current, At, Goto, thrVars, listVars, lockVars, ctlVars, irqVars
<1>4. ASSUME NEW t \in Tid, HaltMain(t)
      PROVE  EventInv'
  BY <1>4, TidFacts DEF HaltMain, EventInv, NoLostEvent, IInv, TypeOK, ControlInv, ArgInv,
       ArgOK, Placement,
         RunPlaced, Current, At, Goto, thrVars, listVars, lockVars, ctlVars, irqVars
<1>5. ASSUME NEW t \in Tid, ExitStart(t)
      PROVE  EventInv'
  BY <1>5, TidFacts DEF ExitStart, EventInv, NoLostEvent, IInv, TypeOK, ControlInv, ArgInv,
       ArgOK,
         Placement, RunPlaced, Current, At, Goto, thrVars, listVars, lockVars, ctlVars,
         irqVars
<1>6. ASSUME NEW t \in Tid, NEW c \in Tid, Spawn(t, c)
      PROVE  EventInv'
  <2>1. /\ c # t /\ tp = t /\ tp' = t /\ state[c] = "FREE"
        /\ pc' = [pc EXCEPT ![c] = "start"]
        /\ UNCHANGED <<wait_list, cont, spie, arg, sie, event>>
    BY <1>6 DEF Spawn, create_thread, At, IInv, Placement, RunPlaced, Current, irqVars
  <2>2. \A u \in Tid : pc'[u] = pc[u] \/ pc'[u] = "start"
    BY <2>1 DEF IInv, TypeOK
  <2>3. pc[IDLE_TID] # "wfi" /\ pc'[t] = "run"
    BY <1>6, <2>1, TidFacts DEF Spawn, At, IInv, ControlInv, TypeOK
  <2> QED BY <2>1, <2>2, <2>3, TidFacts DEF EventInv, NoLostEvent
<1>7. ASSUME NEW t \in Tid, NEW c \in Tid, JoinStart(t, c)
      PROVE  EventInv'
  BY <1>7, TidFacts DEF JoinStart, EventInv, NoLostEvent, IInv, TypeOK, ControlInv, ArgInv,
       ArgOK,
         Placement, RunPlaced, Current, At, Goto, thrVars, listVars, lockVars, ctlVars,
         irqVars
<1>8. ASSUME NEW t \in Tid, NEW l \in Locks, LockRecursive(t, l)
      PROVE  EventInv'
  BY <1>8, TidFacts DEF LockRecursive, EventInv, NoLostEvent, IInv, TypeOK, ControlInv,
       ArgInv, ArgOK,
         Placement, RunPlaced, Current, At, Goto, thrVars, listVars, lockVars, ctlVars,
         irqVars
<1>9. ASSUME NEW t \in Tid, NEW l \in Locks, LockStart(t, l)
      PROVE  EventInv'
  BY <1>9, TidFacts DEF LockStart, EventInv, NoLostEvent, IInv, TypeOK, ControlInv, ArgInv,
       ArgOK,
         Placement, RunPlaced, Current, At, Goto, thrVars, listVars, lockVars, ctlVars,
         irqVars
<1>10. ASSUME NEW t \in Tid, NEW l \in Locks, LockRelease(t, l)
      PROVE  EventInv'
  <2>1. \A c \in Cond : wait_list'[c] = <<>> \/ wait_list'[c] = wait_list[c]
    BY <1>10 DEF LockRelease, lock_release_completely, Broadcast, IInv, TypeOK, listVars
  <2>2. pc[tp] # "wfi" /\ (pc[IDLE_TID] # "wfi")
    BY <1>10, TidFacts DEF LockRelease, At, IInv, ControlInv
  <2> QED BY <1>10, <2>1, <2>2, CondTypes DEF LockRelease, EventInv, NoLostEvent, At,
       ctlVars, irqVars
<1>11. ASSUME NEW t \in Tid, NEW e \in Events, EventStart(t, e)
      PROVE  EventInv'
  BY <1>11, TidFacts DEF EventStart, EventInv, NoLostEvent, IInv, TypeOK, ControlInv,
       ArgInv, ArgOK,
         Placement, RunPlaced, Current, At, Goto, thrVars, listVars, lockVars, ctlVars,
         irqVars
<1>12. ASSUME NEW t \in Tid, ExitReleaseLock(t)
      PROVE  EventInv'
  <2>1. \A c \in Cond : wait_list'[c] = <<>> \/ wait_list'[c] = wait_list[c]
    BY <1>12 DEF ExitReleaseLock, Broadcast, IInv, TypeOK
  <2>2. pc[tp] # "wfi" /\ (pc[IDLE_TID] # "wfi")
    BY <1>12, TidFacts DEF ExitReleaseLock, At, IInv, ControlInv
  <2> QED BY <1>12, <2>1, <2>2, CondTypes DEF ExitReleaseLock, EventInv, NoLostEvent, At,
       ctlVars, irqVars
<1>13. ASSUME NEW t \in Tid, ExitMark(t)
      PROVE  EventInv'
  <2>1. \A c \in Cond : wait_list'[c] = <<>> \/ wait_list'[c] = wait_list[c]
    <3>1. CASE parent[t] = NoTid
      BY <1>13, <3>1 DEF ExitMark, listVars
    <3>2. CASE parent[t] # NoTid
      BY <1>13, <3>2 DEF ExitMark, Broadcast, IInv, TypeOK
    <3> QED BY <3>1, <3>2
  <2>2. pc'[tp] = "rs1" /\ pc'[IDLE_TID] # "wfi"
    BY <1>13, TidFacts DEF ExitMark, At, Goto, IInv, TypeOK, ControlInv
  <2>3. cont[tp] # "event"
    BY <1>13 DEF ExitMark, At, IInv, TypeOK, ArgInv, ArgOK, Current
  <2> QED BY <1>13, <2>1, <2>2, <2>3, CondTypes
      DEF ExitMark, EventInv, NoLostEvent, At, Goto, IInv, TypeOK, irqVars
<1>14. ASSUME NEW t \in Tid, JoinReap(t)
      PROVE  EventInv'
  BY <1>14, TidFacts DEF JoinReap, Reclaim, Return, Reapable, Adopter, EventInv,
       NoLostEvent, IInv, TypeOK,
         ControlInv, ArgInv, ArgOK, Placement, RunPlaced, Current, At, Goto, thrVars,
         listVars, lockVars, ctlVars, irqVars
<1>15. ASSUME NEW t \in Tid, JoinWait(t)
      PROVE  EventInv'
  BY <1>15, TidFacts DEF JoinWait, Wait, EventInv, NoLostEvent, IInv, TypeOK, ControlInv,
       ArgInv, ArgOK,
         Placement, RunPlaced, Current, At, Goto, thrVars, listVars, lockVars, ctlVars,
         irqVars
<1>16. ASSUME NEW t \in Tid, LockWait(t)
      PROVE  EventInv'
  BY <1>16, TidFacts DEF LockWait, Wait, EventInv, NoLostEvent, IInv, TypeOK, ControlInv,
       ArgInv, ArgOK,
         Placement, RunPlaced, Current, At, Goto, thrVars, listVars, lockVars, ctlVars,
         irqVars
<1>17. ASSUME NEW t \in Tid, LockTake(t)
      PROVE  EventInv'
  BY <1>17, TidFacts DEF LockTake, Return, EventInv, NoLostEvent, IInv, TypeOK, ControlInv,
       ArgInv, ArgOK,
         Placement, RunPlaced, Current, At, Goto, thrVars, listVars, lockVars, ctlVars,
         irqVars
<1>18. ASSUME NEW t \in Tid, EventWait(t)
      PROVE  EventInv'
  BY <1>18, TidFacts DEF EventWait, Wait, EventInv, NoLostEvent, IInv, TypeOK, ControlInv,
       ArgInv, ArgOK,
         Placement, RunPlaced, Current, At, Goto, thrVars, listVars, lockVars, ctlVars,
         irqVars
<1>19. ASSUME NEW t \in Tid, EventTake(t)
      PROVE  EventInv'
  BY <1>19, TidFacts DEF EventTake, Return, EventInv, NoLostEvent, IInv, TypeOK, ControlInv,
       ArgInv, ArgOK,
         Placement, RunPlaced, Current, At, Goto, thrVars, listVars, lockVars, ctlVars,
         irqVars
<1>20. ASSUME NEW t \in Tid, CondWaitMark(t)
      PROVE  EventInv'
  BY <1>20, TidFacts DEF CondWaitMark, EventInv, NoLostEvent, IInv, TypeOK, ControlInv,
       ArgInv, ArgOK,
         Placement, RunPlaced, Current, At, Goto, thrVars, listVars, lockVars, ctlVars,
         irqVars
<1>21. ASSUME NEW t \in Tid, CondWaitInsert(t)
      PROVE  EventInv'
  <2>1. CondOf(t) \in Cond
    BY CondOfTyped DEF IInv
  <2>2. \A e \in Events : event[e] => wait_list'[Event(e)] = <<>>
    <3> SUFFICES ASSUME NEW e \in Events, event[e]
                 PROVE  wait_list'[Event(e)] = <<>>
      OBVIOUS
    <3>1. Event(e) # CondOf(t)
      BY <1>21 DEF CondWaitInsert, At, EventInv, CondOf, Event, Release, Exit
    <3> QED BY <1>21, <2>1, <3>1, CondTypes DEF CondWaitInsert, EventInv, NoLostEvent, IInv,
         TypeOK
  <2> QED BY <1>21, <2>2 DEF CondWaitInsert, EventInv, NoLostEvent, IInv, TypeOK,
       ControlInv, At, Goto,
             thrVars, irqVars
<1>22. ASSUME NEW t \in Tid, SuspendPick(t)
      PROVE  EventInv'
  BY <1>22, TidFacts DEF SuspendPick, Requeued, Runnable, EventInv, NoLostEvent, IInv,
       TypeOK, ControlInv,
         ArgInv, ArgOK, Placement, RunPlaced, Current, At, Goto, thrVars, listVars, lockVars,
         ctlVars, irqVars
<1>23. ASSUME NEW t \in Tid, SuspendMark(t)
      PROVE  EventInv'
  BY <1>23, TidFacts DEF SuspendMark, EventInv, NoLostEvent, IInv, TypeOK, ControlInv,
       ArgInv, ArgOK,
         Placement, RunPlaced, Current, At, Goto, thrVars, listVars, lockVars, ctlVars,
         irqVars
<1>24. ASSUME NEW t \in Tid, Switch(t)
      PROVE  EventInv'
  <2>1. tp' = next /\ next \in Tid /\ UNCHANGED <<event, wait_list, ready_list, arg>>
    BY <1>24 DEF Switch, At, IInv, Placement, RunPlaced, listVars
  <2>2. CASE pc[next] = "start"
    <3>1. /\ pc' = [[pc EXCEPT ![t] = IF state[t] = "EXITED" THEN "dead" ELSE "off"]
                      EXCEPT ![next] = "run"]
          /\ UNCHANGED <<sie, cont, spie>>
      BY <1>24, <2>2 DEF Switch
    <3>2. \A u \in Tid : pc'[u] # "wfi" /\ (pc'[u] = "off" => pc[u] \in {"rs3", "off"})
      BY <1>24, <3>1, <2>1 DEF Switch, At, IInv, ControlInv, TypeOK
    <3>3. pc'[next] = "run" /\ (\A u \in Tid : pc'[u] # "rs3")
      BY <1>24, <3>1, <2>1 DEF Switch, At, IInv, ControlInv, TypeOK
    <3> QED BY <2>1, <3>1, <3>2, <3>3, TidFacts DEF EventInv, NoLostEvent
  <2>3. CASE pc[next] # "start"
    <3>1. /\ pc' = [[pc EXCEPT ![t] = IF state[t] = "EXITED" THEN "dead" ELSE "off"]
                      EXCEPT ![next] = cont[next]]
          /\ cont' = [cont EXCEPT ![next] = "run"]
          /\ spie' = [spie EXCEPT ![next] = FALSE]
          /\ cont[next] # "join" => sie' = spie[next]
      BY <1>24, <2>3 DEF Switch, Resume
    <3>2. \A u \in Tid : pc'[u] # "wfi" /\ (pc'[u] = "off" => pc[u] \in {"rs3", "off"})
      BY <1>24, <3>1, <2>1 DEF Switch, At, IInv, ControlInv, TypeOK
    <3>3. /\ pc'[next] \in {"run", "lock", "event", "join"}
          /\ pc'[next] = cont[next] /\ (\A u \in Tid : pc'[u] # "rs3")
      BY <1>24, <3>1, <2>1 DEF Switch, At, IInv, ControlInv, TypeOK
    <3>4. pc[next] \in {"off", "rs3", "dead"}
      BY <1>24, <2>1, <2>3 DEF Switch, At, IInv, ControlInv
    <3>5. cont[next] = "event" => ~spie[next]
      BY <2>1, <3>4 DEF EventInv, IInv, ArgInv, ArgOK
    <3>6. \A u \in Tid : /\ cont'[u] = "event" => cont[u] = "event" /\ spie'[u] = spie[u]
                         /\ spie'[u] => spie[u]
      BY <3>1, <2>1 DEF IInv, TypeOK
    <3>7. pc'[tp'] = "event" => ~sie'
      BY <2>1, <3>1, <3>3, <3>5
    <3>8. \A u \in Tid : pc'[u] \in {"rs3", "off"} /\ cont'[u] = "event" => ~spie'[u]
      <4> SUFFICES ASSUME NEW u \in Tid, pc'[u] \in {"rs3", "off"}, cont'[u] = "event"
                   PROVE  ~spie'[u]
        OBVIOUS
      <4>1. pc[u] \in {"rs3", "off"} /\ cont[u] = "event"
        BY <3>2, <3>3, <3>6
      <4>2. ~spie[u]
        BY <4>1 DEF EventInv
      <4> QED BY <3>6, <4>2
    <3> QED BY <2>1, <3>2, <3>3, <3>7, <3>8, TidFacts DEF EventInv, NoLostEvent
  <2> QED BY <2>2, <2>3
<1>25. ASSUME NEW t \in Tid, IdleYield(t)
      PROVE  EventInv'
  BY <1>25, TidFacts DEF IdleYield, EventInv, NoLostEvent, IInv, TypeOK, ControlInv, ArgInv,
       ArgOK,
         Placement, RunPlaced, Current, At, Goto, thrVars, listVars, lockVars, ctlVars,
         irqVars
<1>26. ASSUME NEW t \in Tid, IdleSeesEmpty(t)
      PROVE  EventInv'
  BY <1>26, TidFacts DEF IdleSeesEmpty, EventInv, NoLostEvent, IInv, TypeOK, ControlInv,
       ArgInv, ArgOK,
         Placement, RunPlaced, Current, At, Goto, thrVars, listVars, lockVars, ctlVars,
         irqVars
<1>27. ASSUME NEW t \in Tid, IdleCheck(t)
      PROVE  EventInv'
  <2>1. /\ tp = t /\ tp' = t /\ pc[t] = "idle"
        /\ pc' = [pc EXCEPT ![t] = IF ready_list = <<>> THEN "wfi" ELSE "run"]
        /\ sie' = ~(ready_list = <<>>)
        /\ UNCHANGED <<ready_list, wait_list, cont, spie, arg, event>>
    BY <1>27 DEF IdleCheck, At, Goto, thrVars, listVars
  <2>2. pc'[t] = (IF ready_list = <<>> THEN "wfi" ELSE "run") /\ \A u \in Tid \ {t} : pc'[u] = pc[u]
    BY <2>1 DEF IInv, TypeOK
  <2>3. \A u \in Tid \ {t} : pc[u] \in {"start", "off", "dead"}
    BY <2>1 DEF IInv, ControlInv
  <2>4. pc'[tp'] = "wfi" => ~sie'
    <3>1. CASE ready_list = <<>>
      BY <2>1, <3>1
    <3>2. CASE ready_list # <<>>
      BY <2>1, <2>2, <3>2
    <3> QED BY <3>1, <3>2
  <2>5. pc'[IDLE_TID] = "wfi" => ready_list' = <<>>
    BY <2>1, <2>2, <2>3, TidFacts
  <2> QED BY <2>1, <2>2, <2>3, <2>4, <2>5 DEF EventInv, NoLostEvent
<1>28. ASSUME NEW t \in Tid, IdleWake(t)
      PROVE  EventInv'
  BY <1>28, TidFacts DEF IdleWake, EventInv, NoLostEvent, IInv, TypeOK, ControlInv, ArgInv,
       ArgOK, Placement,
         RunPlaced, Current, At, Goto, thrVars, listVars, lockVars, ctlVars, irqVars
<1>29. ASSUME NEW e \in Events, Raise(e)
      PROVE  EventInv'
  BY <1>29, TidFacts DEF Raise, EventInv, NoLostEvent, IInv, TypeOK, ControlInv, ArgInv,
       ArgOK, Placement,
         RunPlaced, Current, At, Goto, thrVars, listVars, lockVars, ctlVars, irqVars
<1>30. ASSUME NEW e \in Events, Isr(e)
      PROVE  EventInv'
  <2>1. \A c \in Cond : wait_list'[c] = IF c = Event(e) THEN <<>> ELSE wait_list[c]
    BY <1>30 DEF Isr, Broadcast, IInv, TypeOK
  <2>2. pc[tp] # "wfi" /\ pc[IDLE_TID] # "wfi"
    BY <1>30, TidFacts DEF Isr, EventInv, IInv, ControlInv
  <2>3. \A d \in Events : event'[d] => event[d] \/ d = e
    BY <1>30 DEF Isr, IInv, TypeOK
  <2> QED BY <1>30, <2>1, <2>2, <2>3, CondTypes DEF Isr, EventInv, NoLostEvent, ctlVars
<1>31. CASE UNCHANGED vars
  BY <1>31, TidFacts DEF EventInv, NoLostEvent, IInv, TypeOK, ControlInv, ArgInv, ArgOK,
       Placement,
         RunPlaced, Current, vars, thrVars, listVars, lockVars, ctlVars, irqVars
<1> QED BY <1>1, <1>2, <1>3, <1>4, <1>5, <1>6, <1>7, <1>8, <1>9, <1>10, <1>11, <1>12, <1>13,
     <1>14, <1>15, <1>16, <1>17, <1>18, <1>19, <1>20, <1>21, <1>22, <1>23, <1>24, <1>25,
     <1>26, <1>27, <1>28, <1>29, <1>30, <1>31
  DEF Next, Call, Progress, Halted

(* A step that leaves u's own call alone, takes no child from it and lets  *)
(* none of them exit ...                                                   *)
JoinKept(u) ==
  /\ cont'[u] = cont[u] /\ arg'[u] = arg[u]
  /\ pc'[u] \in {"join", "cw1"} => pc'[u] = pc[u]
  /\ state'[u] = "WAITING" => state[u] = "WAITING" \/ pc[u] = "cw1"
  /\ \A v \in Tid : parent[v] = u /\ state[v] # "FREE" => parent'[v] = u /\ state'[v] # "FREE"
  /\ \A v \in Tid : parent'[v] = u /\ state'[v] = "EXITED" => parent[v] = u /\ state[v] = "EXITED"

(* ... or leaves u outside every loop.                                     *)
NoLoop(u) == /\ cont'[u] = "run" /\ pc'[u] \notin {"join", "cw1"}
             /\ state'[u] # "WAITING"

LEMMA JoinFrame ==
  ASSUME NEW u \in Tid, JoinOK(u), JoinKept(u)
  PROVE  JoinOK(u)'
<1>1. ASSUME cont[u] = "join" \/ pc[u] = "join"
      PROVE  \E c \in Tid \ {MAIN_TID, IDLE_TID} :
               parent'[c] = u /\ state'[c] # "FREE" /\ arg'[u] \in {0, c}
  BY <1>1 DEF JoinOK, JoinKept
<1>2. Reapable(u) = {} => Reapable(u)' = {}
  BY DEF JoinKept, Reapable
<1> QED BY <1>1, <1>2 DEF JoinOK, JoinKept

LEMMA JoinPlain ==
  ASSUME NEW u \in Tid, NoLoop(u)
  PROVE  JoinOK(u)'
  BY DEF JoinOK, NoLoop

LEMMA JoinFrames ==
  ASSUME JoinInv, \A u \in Tid : JoinKept(u) \/ NoLoop(u)
  PROVE  JoinInv'
<1> SUFFICES ASSUME NEW u \in Tid PROVE JoinOK(u)'
  BY DEF JoinInv
<1> QED BY JoinFrame, JoinPlain DEF JoinInv

(* No joiner misses the exit of its child.                                *)
LEMMA JoinStep ==
  ASSUME IInv, JoinInv, Next
  PROVE  JoinInv'
<1>1. ASSUME NEW t \in Tid, TrapEnter(t)
      PROVE  JoinInv'
  <2>1. \A u \in Tid : JoinKept(u) \/ NoLoop(u)
    BY <1>1 DEF TrapEnter, JoinKept, NoLoop, IInv, TypeOK, ControlInv, ArgInv, ArgOK, Placement,
           RunPlaced, Current, At, Goto, thrVars, listVars, lockVars, ctlVars, irqVars
  <2> QED BY <2>1, JoinFrames
<1>2. ASSUME NEW t \in Tid, TrapReturn(t)
      PROVE  JoinInv'
  <2>1. \A u \in Tid : JoinKept(u) \/ NoLoop(u)
    BY <1>2 DEF TrapReturn, JoinKept, NoLoop, IInv, TypeOK, ControlInv, ArgInv, ArgOK,
         Placement,
           RunPlaced, Current, At, Goto, thrVars, listVars, lockVars, ctlVars, irqVars
  <2> QED BY <2>1, JoinFrames
<1>3. ASSUME NEW t \in Tid, Yield(t)
      PROVE  JoinInv'
  <2>1. \A u \in Tid : JoinKept(u) \/ NoLoop(u)
    BY <1>3 DEF Yield, JoinKept, NoLoop, IInv, TypeOK, ControlInv, ArgInv, ArgOK, Placement,
           RunPlaced, Current, At, Goto, thrVars, listVars, lockVars, ctlVars, irqVars
  <2> QED BY <2>1, JoinFrames
<1>4. ASSUME NEW t \in Tid, HaltMain(t)
      PROVE  JoinInv'
  <2>1. \A u \in Tid : JoinKept(u) \/ NoLoop(u)
    BY <1>4 DEF HaltMain, JoinKept, NoLoop, IInv, TypeOK, ControlInv, ArgInv, ArgOK, Placement,
           RunPlaced, Current, At, Goto, thrVars, listVars, lockVars, ctlVars, irqVars
  <2> QED BY <2>1, JoinFrames
<1>5. ASSUME NEW t \in Tid, ExitStart(t)
      PROVE  JoinInv'
  <2>1. \A u \in Tid : JoinKept(u) \/ NoLoop(u)
    BY <1>5 DEF ExitStart, JoinKept, NoLoop, IInv, TypeOK, ControlInv, ArgInv, ArgOK, Placement,
           RunPlaced, Current, At, Goto, thrVars, listVars, lockVars, ctlVars, irqVars
  <2> QED BY <2>1, JoinFrames
<1>6. ASSUME NEW t \in Tid, NEW c \in Tid, Spawn(t, c)
      PROVE  JoinInv'
  <2>1. \A u \in Tid : JoinKept(u) \/ NoLoop(u)
    BY <1>6 DEF Spawn, create_thread, JoinKept, NoLoop, IInv, TypeOK, ControlInv, ArgInv, ArgOK,
           Placement, RunPlaced, Current, At, Goto, thrVars, listVars, lockVars, ctlVars,
           irqVars
  <2> QED BY <2>1, JoinFrames
<1>7. ASSUME NEW t \in Tid, NEW c \in Tid, JoinStart(t, c)
      PROVE  JoinInv'
  <2>1. \A u \in Tid \ {t} : JoinKept(u)
    BY <1>7 DEF JoinStart, JoinKept, Goto, thrVars, IInv, TypeOK
  <2>2. JoinOK(t)'
    <3>1. \E d \in Tid \ {MAIN_TID, IDLE_TID} : parent[d] = t /\ state[d] # "FREE" /\ c \in {0, d}
      BY <1>7, TidFacts DEF JoinStart, MAIN_TID
    <3>2. arg'[t] = c /\ pc'[t] = "join" /\ UNCHANGED <<state, parent, cont>>
      BY <1>7 DEF JoinStart, Goto, IInv, TypeOK, thrVars
    <3>3. cont[t] = "run" /\ state[t] # "WAITING"
      BY <1>7 DEF JoinStart, At, IInv, ArgInv, ArgOK, Current, Placement, RunPlaced
    <3> QED BY <3>1, <3>2, <3>3 DEF JoinOK
  <2> QED BY <2>1, <2>2, JoinFrame DEF JoinInv
<1>8. ASSUME NEW t \in Tid, NEW l \in Locks, LockRecursive(t, l)
      PROVE  JoinInv'
  <2>1. \A u \in Tid : JoinKept(u) \/ NoLoop(u)
    BY <1>8 DEF LockRecursive, JoinKept, NoLoop, IInv, TypeOK, ControlInv, ArgInv, ArgOK,
         Placement,
           RunPlaced, Current, At, Goto, thrVars, listVars, lockVars, ctlVars, irqVars
  <2> QED BY <2>1, JoinFrames
<1>9. ASSUME NEW t \in Tid, NEW l \in Locks, LockStart(t, l)
      PROVE  JoinInv'
  <2>1. \A u \in Tid : JoinKept(u) \/ NoLoop(u)
    BY <1>9 DEF LockStart, JoinKept, NoLoop, IInv, TypeOK, ControlInv, ArgInv, ArgOK, Placement,
           RunPlaced, Current, At, Goto, thrVars, listVars, lockVars, ctlVars, irqVars
  <2> QED BY <2>1, JoinFrames
<1>10. ASSUME NEW t \in Tid, NEW l \in Locks, LockRelease(t, l)
      PROVE  JoinInv'
  <2>1. \A u \in Tid : \/ state'[u] = state[u]
                      \/ /\ state[u] = "WAITING" /\ state'[u] = "READY"
                         /\ ~(u = tp /\ pc[tp] = "cw2")
    BY <1>10, CondTypes, BroadcastStates DEF LockRelease, lock_release_completely, IInv, TypeOK
  <2>2. \A u \in Tid : JoinKept(u)
    BY <1>10, <2>1 DEF LockRelease, JoinKept, thrVars, listVars, lockVars, ctlVars, irqVars
  <2> QED BY <2>2, JoinFrames
<1>11. ASSUME NEW t \in Tid, NEW e \in Events, EventStart(t, e)
      PROVE  JoinInv'
  <2>1. \A u \in Tid : JoinKept(u) \/ NoLoop(u)
    BY <1>11 DEF EventStart, JoinKept, NoLoop, IInv, TypeOK, ControlInv, ArgInv, ArgOK,
         Placement,
           RunPlaced, Current, At, Goto, thrVars, listVars, lockVars, ctlVars, irqVars
  <2> QED BY <2>1, JoinFrames
<1>12. ASSUME NEW t \in Tid, ExitReleaseLock(t)
      PROVE  JoinInv'
  <2>0. Head(lock_list[t]) \in Locks
    BY <1>12, HeadTailProperties DEF ExitReleaseLock, IInv, TypeOK
  <2>1. \A u \in Tid : \/ state'[u] = state[u]
                      \/ /\ state[u] = "WAITING" /\ state'[u] = "READY"
                         /\ ~(u = tp /\ pc[tp] = "cw2")
    BY <1>12, <2>0, CondTypes, BroadcastStates DEF ExitReleaseLock, IInv, TypeOK
  <2>2. \A u \in Tid : JoinKept(u)
    BY <1>12, <2>1 DEF ExitReleaseLock, JoinKept, thrVars, listVars, lockVars, ctlVars, irqVars
  <2> QED BY <2>2, JoinFrames
<1>13. ASSUME NEW t \in Tid, ExitMark(t)
      PROVE  JoinInv'
  <2>1. ASSUME NEW u \in Tid, parent[t] # u
        PROVE  JoinKept(u)
    BY <1>13, <2>1, ExitMarkStates DEF ExitMark, JoinKept, Goto, IInv, TypeOK, lockVars
  <2>2. ASSUME NEW u \in Tid, parent[t] = u
        PROVE  JoinOK(u)'
    <3>1. u # NoTid /\ Broadcast(Exit(u), [state EXCEPT ![t] = "EXITED"])
      BY <1>13, <2>2, TidFacts DEF ExitMark
    <3>2. u \in Range(wait_list[Exit(u)]) => state'[u] = "READY"
      BY <3>1 DEF Broadcast
    <3>3. cont[u] = "join" /\ state[u] = "WAITING" => u \in Range(wait_list[Exit(u)])
      BY <1>13 DEF ExitMark, At, IInv, Placement, WaitPlaced, CondOf
    <3>4. state'[u] = "WAITING" => state[u] = "WAITING"
      BY <1>13, ExitMarkStates
    <3>5. pc'[u] \notin {"join", "cw1"}
      BY <1>13 DEF ExitMark, At, Goto, IInv, ControlInv, TypeOK
    <3>6. cont'[u] = cont[u] /\ arg'[u] = arg[u] /\ parent' = parent
      BY <1>13 DEF ExitMark
    <3>7. \A v \in Tid : state'[v] = "FREE" => state[v] = "FREE"
      BY <1>13, ExitMarkStates
    <3>8. cont[u] = "join" => state'[u] # "WAITING"
      BY <3>2, <3>3, <3>4
    <3>9. state'[u] = "WAITING" => cont'[u] # "run"
      BY <3>4, <3>6 DEF JoinInv, JoinOK
    <3>10. cont[u] = "join" =>
             \E c \in Tid \ {MAIN_TID, IDLE_TID} :
               parent[c] = u /\ state[c] # "FREE" /\ arg[u] \in {0, c}
      BY DEF JoinInv, JoinOK
    <3>11. cont'[u] = "join" =>
             \E c \in Tid \ {MAIN_TID, IDLE_TID} :
               parent'[c] = u /\ state'[c] # "FREE" /\ arg'[u] \in {0, c}
      BY <3>6, <3>7, <3>10
    <3> QED BY <3>5, <3>6, <3>8, <3>9, <3>11 DEF JoinOK
  <2>3. ASSUME NEW u \in Tid PROVE JoinOK(u)'
    BY <2>1, <2>2, JoinFrame DEF JoinInv
  <2> QED BY <2>3 DEF JoinInv
<1>14. ASSUME NEW t \in Tid, JoinReap(t)
      PROVE  JoinInv'
  <2>1. PICK c \in Reapable(t) : Reclaim(c)
    BY <1>14 DEF JoinReap
  <2>2. c \in Tid /\ parent[c] = t /\ state[c] = "EXITED" /\ tp = t /\ c # t
    BY <1>14 DEF JoinReap, At, Reapable, IInv, Placement, RunPlaced, Current
  <2>3. \A v \in Tid : /\ parent'[v] = Adopter(c, v)
                       /\ state'[v] = IF v = c THEN "FREE" ELSE state[v]
    BY <2>1, <2>2 DEF Reclaim, IInv, TypeOK
  <2>4. ASSUME NEW u \in Tid, u # t, u # c
        PROVE  JoinKept(u)
    <3>1. \A v \in Tid : parent'[v] = u <=> parent[v] = u /\ v # c
      BY <2>2, <2>3, <2>4, TidFacts DEF Adopter
    <3> QED BY <1>14, <2>2, <2>3, <2>4, <3>1 DEF JoinReap, Return, Goto, JoinKept, IInv, TypeOK
  <2>5. NoLoop(t)
    BY <1>14, <2>2, <2>3 DEF JoinReap, Return, Goto, At, NoLoop, IInv, TypeOK, ArgInv, ArgOK,
       Placement, RunPlaced, Current
  <2>6. NoLoop(c)
    BY <1>14, <2>2, <2>3 DEF JoinReap, Return, Goto, NoLoop, IInv, TypeOK, ArgInv, ArgOK,
         ControlInv
  <2> QED BY <2>4, <2>5, <2>6, JoinFrames
<1>15. ASSUME NEW t \in Tid, JoinWait(t)
      PROVE  JoinInv'
  <2>1. \A u \in Tid \ {t} : JoinKept(u)
    BY <1>15 DEF JoinWait, Wait, JoinKept, Goto, thrVars, IInv, TypeOK
  <2>2. JoinOK(t)'
    <3>1. /\ pc[t] = "join" /\ Reapable(t) = {} /\ cont'[t] = "join"
          /\ UNCHANGED <<state, parent, arg>>
      BY <1>15 DEF JoinWait, Wait, At, IInv, TypeOK, thrVars
    <3>2. Reapable(t)' = {}
      BY <3>1 DEF Reapable
    <3> QED BY <3>1, <3>2 DEF JoinInv, JoinOK
  <2> QED BY <2>1, <2>2, JoinFrame DEF JoinInv
<1>16. ASSUME NEW t \in Tid, LockWait(t)
      PROVE  JoinInv'
  <2>1. \A u \in Tid \ {t} : JoinKept(u)
    BY <1>16 DEF LockWait, Wait, JoinKept, Goto, thrVars, IInv, TypeOK
  <2>2. JoinOK(t)'
    BY <1>16 DEF LockWait, Wait, Goto, At, JoinOK, IInv, TypeOK
  <2> QED BY <2>1, <2>2, JoinFrame DEF JoinInv
<1>17. ASSUME NEW t \in Tid, LockTake(t)
      PROVE  JoinInv'
  <2>1. \A u \in Tid : JoinKept(u) \/ NoLoop(u)
    BY <1>17 DEF LockTake, Return, JoinKept, NoLoop, IInv, TypeOK, ControlInv, ArgInv, ArgOK,
           Placement, RunPlaced, Current, At, Goto, thrVars, listVars, lockVars, ctlVars,
           irqVars
  <2> QED BY <2>1, JoinFrames
<1>18. ASSUME NEW t \in Tid, EventWait(t)
      PROVE  JoinInv'
  <2>1. \A u \in Tid \ {t} : JoinKept(u)
    BY <1>18 DEF EventWait, Wait, JoinKept, Goto, thrVars, IInv, TypeOK
  <2>2. JoinOK(t)'
    BY <1>18 DEF EventWait, Wait, Goto, At, JoinOK, IInv, TypeOK
  <2> QED BY <2>1, <2>2, JoinFrame DEF JoinInv
<1>19. ASSUME NEW t \in Tid, EventTake(t)
      PROVE  JoinInv'
  <2>1. \A u \in Tid : JoinKept(u) \/ NoLoop(u)
    BY <1>19 DEF EventTake, Return, JoinKept, NoLoop, IInv, TypeOK, ControlInv, ArgInv, ArgOK,
           Placement, RunPlaced, Current, At, Goto, thrVars, listVars, lockVars, ctlVars,
           irqVars
  <2> QED BY <2>1, JoinFrames
<1>20. ASSUME NEW t \in Tid, CondWaitMark(t)
      PROVE  JoinInv'
  <2>1. \A u \in Tid : JoinKept(u) \/ NoLoop(u)
    BY <1>20 DEF CondWaitMark, JoinKept, NoLoop, IInv, TypeOK, ControlInv, ArgInv, ArgOK,
         Placement,
           RunPlaced, Current, At, Goto, thrVars, listVars, lockVars, ctlVars, irqVars
  <2> QED BY <2>1, JoinFrames
<1>21. ASSUME NEW t \in Tid, CondWaitInsert(t)
      PROVE  JoinInv'
  <2>1. \A u \in Tid : JoinKept(u) \/ NoLoop(u)
    BY <1>21 DEF CondWaitInsert, JoinKept, NoLoop, IInv, TypeOK, ControlInv, ArgInv, ArgOK,
           Placement, RunPlaced, Current, At, Goto, thrVars, listVars, lockVars, ctlVars,
           irqVars
  <2> QED BY <2>1, JoinFrames
<1>22. ASSUME NEW t \in Tid, SuspendPick(t)
      PROVE  JoinInv'
  <2>1. \A u \in Tid : JoinKept(u) \/ NoLoop(u)
    BY <1>22 DEF SuspendPick, Requeued, Runnable, JoinKept, NoLoop, IInv, TypeOK,
         ControlInv, ArgInv,
           ArgOK, Placement, RunPlaced, Current, At, Goto, thrVars, listVars, lockVars,
           ctlVars, irqVars
  <2> QED BY <2>1, JoinFrames
<1>23. ASSUME NEW t \in Tid, SuspendMark(t)
      PROVE  JoinInv'
  <2>1. \A u \in Tid : JoinKept(u) \/ NoLoop(u)
    BY <1>23 DEF SuspendMark, JoinKept, NoLoop, IInv, TypeOK, ControlInv, ArgInv, ArgOK,
         Placement,
           RunPlaced, Current, At, Goto, thrVars, listVars, lockVars, ctlVars, irqVars
  <2> QED BY <2>1, JoinFrames
<1>24. ASSUME NEW t \in Tid, Switch(t)
      PROVE  JoinInv'
  <2>1. next \in Tid /\ UNCHANGED <<state, parent, arg>> /\ state[next] = "SELF"
    BY <1>24 DEF Switch, At, IInv, Placement, RunPlaced
  <2>2. /\ \A u \in Tid \ {next} : cont'[u] = cont[u] /\ pc'[u] \in {pc[u], "dead", "off"}
        /\ cont'[next] = "run" \/ cont'[next] = cont[next]
        /\ (pc'[next] = "run" /\ cont'[next] = cont[next]) \/ pc'[next] = cont[next]
    BY <1>24, <2>1 DEF Switch, Resume, IInv, TypeOK
  <2>3. \A u \in Tid \ {next} : JoinKept(u)
    BY <2>1, <2>2 DEF JoinKept
  <2>4. ASSUME NEW n \in Tid, n = next
        PROVE  JoinOK(n)'
    <3>1. JoinOK(n) /\ cont[n] \in {"run", "lock", "event", "join"}
      BY DEF JoinInv, IInv, TypeOK
    <3>2. /\ state[n] = "SELF" /\ UNCHANGED <<state, parent, arg>>
          /\ cont'[n] = "run" \/ cont'[n] = cont[n]
          /\ (pc'[n] = "run" /\ cont'[n] = cont[n]) \/ pc'[n] = cont[n]
      BY <2>1, <2>2, <2>4
    <3> QED BY <3>1, <3>2 DEF JoinOK
  <2> QED BY <2>1, <2>3, <2>4, JoinFrame DEF JoinInv
<1>25. ASSUME NEW t \in Tid, IdleYield(t)
      PROVE  JoinInv'
  <2>1. \A u \in Tid : JoinKept(u) \/ NoLoop(u)
    BY <1>25 DEF IdleYield, JoinKept, NoLoop, IInv, TypeOK, ControlInv, ArgInv, ArgOK,
         Placement,
           RunPlaced, Current, At, Goto, thrVars, listVars, lockVars, ctlVars, irqVars
  <2> QED BY <2>1, JoinFrames
<1>26. ASSUME NEW t \in Tid, IdleSeesEmpty(t)
      PROVE  JoinInv'
  <2>1. \A u \in Tid : JoinKept(u) \/ NoLoop(u)
    BY <1>26 DEF IdleSeesEmpty, JoinKept, NoLoop, IInv, TypeOK, ControlInv, ArgInv, ArgOK,
         Placement,
           RunPlaced, Current, At, Goto, thrVars, listVars, lockVars, ctlVars, irqVars
  <2> QED BY <2>1, JoinFrames
<1>27. ASSUME NEW t \in Tid, IdleCheck(t)
      PROVE  JoinInv'
  <2>1. \A u \in Tid : JoinKept(u) \/ NoLoop(u)
    BY <1>27 DEF IdleCheck, JoinKept, NoLoop, IInv, TypeOK, ControlInv, ArgInv, ArgOK,
         Placement,
           RunPlaced, Current, At, Goto, thrVars, listVars, lockVars, ctlVars, irqVars
  <2> QED BY <2>1, JoinFrames
<1>28. ASSUME NEW t \in Tid, IdleWake(t)
      PROVE  JoinInv'
  <2>1. \A u \in Tid : JoinKept(u) \/ NoLoop(u)
    BY <1>28 DEF IdleWake, JoinKept, NoLoop, IInv, TypeOK, ControlInv, ArgInv, ArgOK, Placement,
           RunPlaced, Current, At, Goto, thrVars, listVars, lockVars, ctlVars, irqVars
  <2> QED BY <2>1, JoinFrames
<1>29. ASSUME NEW e \in Events, Raise(e)
      PROVE  JoinInv'
  <2>1. \A u \in Tid : JoinKept(u) \/ NoLoop(u)
    BY <1>29 DEF Raise, JoinKept, NoLoop, IInv, TypeOK, ControlInv, ArgInv, ArgOK, Placement,
           RunPlaced, Current, At, Goto, thrVars, listVars, lockVars, ctlVars, irqVars
  <2> QED BY <2>1, JoinFrames
<1>30. ASSUME NEW e \in Events, Isr(e)
      PROVE  JoinInv'
  <2>1. \A u \in Tid : \/ state'[u] = state[u]
                      \/ /\ state[u] = "WAITING" /\ state'[u] = "READY"
                         /\ ~(u = tp /\ pc[tp] = "cw2")
    BY <1>30, CondTypes, BroadcastStates DEF Isr, IInv, TypeOK
  <2>2. \A u \in Tid : JoinKept(u)
    BY <1>30, <2>1 DEF Isr, JoinKept, thrVars, listVars, lockVars, ctlVars, irqVars
  <2> QED BY <2>2, JoinFrames
<1>31. CASE UNCHANGED vars
  <2>1. \A u \in Tid : JoinKept(u) \/ NoLoop(u)
    BY <1>31 DEF JoinKept, NoLoop, IInv, TypeOK, ControlInv, ArgInv, ArgOK, Placement,
         RunPlaced,
           Current, vars, thrVars, listVars, lockVars, ctlVars, irqVars
  <2> QED BY <2>1, JoinFrames
<1> QED BY <1>1, <1>2, <1>3, <1>4, <1>5, <1>6, <1>7, <1>8, <1>9, <1>10, <1>11, <1>12, <1>13,
     <1>14, <1>15, <1>16, <1>17, <1>18, <1>19, <1>20, <1>21, <1>22, <1>23, <1>24, <1>25,
     <1>26, <1>27, <1>28, <1>29, <1>30, <1>31
  DEF Next, Call, Progress, Halted

LEMMA InitWakeInv == Init => WakeInv
<1> SUFFICES ASSUME Init PROVE WakeInv
  OBVIOUS
<1>1. IInv
  BY InitIInv
<1>2. EventInv
  BY TidFacts, CondTypes DEF Init, EventInv, NoLostEvent
<1>3. JoinInv
  BY TidFacts DEF Init, JoinInv, JoinOK
<1>4. StackHeld
  BY TidFacts DEF Init, StackHeld
<1>5. NoOrphan
  <2>1. Live = {MAIN_TID, IDLE_TID} /\ parent[IDLE_TID] = MAIN_TID
    BY TidFacts DEF Init, Live
  <2> QED BY <2>1, TidFacts DEF NoOrphan
<1> QED BY <1>1, <1>2, <1>3, <1>4, <1>5 DEF WakeInv

LEMMA NextWakeInv == WakeInv /\ [Next]_vars => WakeInv'
<1>1. ASSUME WakeInv, Next
      PROVE  WakeInv'
  BY <1>1, NextIInv, EventStep, JoinStep, NoOrphanStep, StackStep DEF WakeInv
<1>2. ASSUME WakeInv, UNCHANGED vars
      PROVE  WakeInv'
  <2>1. IInv'
    BY <1>2, NextIInv DEF WakeInv
  <2>2. UNCHANGED <<state, parent, stack, tp, ready_list, wait_list, pc, cont, arg, spie, sie, event>>
    BY <1>2 DEF vars, thrVars, listVars, lockVars, ctlVars, irqVars
  <2> QED BY <1>2, <2>1, <2>2 DEF WakeInv, EventInv, NoLostEvent, JoinInv, JoinOK, Reapable,
          NoOrphan, Live, StackHeld
<1> QED BY <1>1, <1>2

LEMMA WakeInvariance == Spec => []WakeInv
  BY InitWakeInv, NextWakeInv, PTL DEF Spec

(* A driver never waits for an event that has occurred, and the idle thread*)
(* never sleeps while a thread is ready, however interrupts fall between   *)
(* the instructions of the waiter, the idle loop and the context switch.   *)
THEOREM NoLostEventHolds == Spec => []NoLostEvent
<1>1. WakeInv => NoLostEvent
  BY DEF WakeInv, EventInv
<1> QED BY <1>1, WakeInvariance, PTL

(* A thread in thread_join waits only for a live child of its own; reclaim *)
(* leaves no dangling parent and no family cut off from the main thread;   *)
(* a thread that can run has its stack.                                    *)
THEOREM ExitAndJoinHolds == Spec => []ExitAndJoin
<1>1. WakeInv => NoLostExit
  <2> SUFFICES ASSUME WakeInv, NEW t \in Tid, t \in Range(wait_list[Exit(t)])
               PROVE  /\ Reapable(t) = {}
                      /\ \E c \in Tid \ {MAIN_TID, IDLE_TID} :
                           parent[c] = t /\ state[c] # "FREE" /\ arg[t] \in {0, c}
    BY DEF NoLostExit
  <2>1. state[t] = "WAITING" /\ Exit(t) = CondOf(t)
    BY CondTypes, WaitersWait DEF WakeInv
  <2>2. cont[t] = "join"
    BY <2>1 DEF WakeInv, JoinInv, JoinOK, IInv, TypeOK, CondOf, Exit, Release, Event
  <2> QED BY <2>1, <2>2 DEF WakeInv, JoinInv, JoinOK
<1>2. WakeInv => ExitAndJoin
  BY <1>1 DEF WakeInv, ExitAndJoin
<1> QED BY <1>2, WakeInvariance, PTL
=============================================================================
