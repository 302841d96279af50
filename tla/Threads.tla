------------------------------ MODULE Threads ------------------------------
(***************************************************************************)
(* The thread manager of src/src/modified/sys/thread.c and thrasm.s: the   *)
(* thread table, the ready list, condition variables, recursive locks,     *)
(* spawn, exit, join and the context switch, on the single hart the kernel *)
(* drives, together with the interrupts that may arrive between two        *)
(* instructions whenever sstatus.SIE is set.                               *)
(*                                                                         *)
(* Kernel code is never preempted: the interrupt handlers return to the    *)
(* thread they interrupted.  A stretch of code between two suspensions is  *)
(* therefore one action, except in condition_wait, running_thread_suspend, *)
(* release_all_thread_locks and the idle loop, which are cut wherever they *)
(* restore interrupts, because an ISR may broadcast a condition there.     *)
(*                                                                         *)
(* What runs above the thread manager is unconstrained: a thread at "run"  *)
(* may call any operation of thread.h in any order.                        *)
(***************************************************************************)
EXTENDS Naturals, Integers, Sequences, SequencesExt

CONSTANTS
  NTHR,     \* size of the thread table, thread.c:48
  Locks,    \* the kernel's struct lock objects
  Events,   \* conditions broadcast by an ISR (uart, vioblk, viorng, alarms)
  MaxCnt    \* bound on the recursion depth of a lock

ASSUME NTHRAssumption == NTHR \in Nat /\ NTHR >= 3
ASSUME MaxCntAssumption == MaxCnt \in Nat \ {0}

Tid      == 0 .. NTHR - 1
MAIN_TID == 0
IDLE_TID == NTHR - 1
NoTid    == -1

Exit(t)    == <<"child_exit", t>>
Release(l) == <<"release", l>>
Event(e)   == <<"event", e>>
Cond == {Exit(t) : t \in Tid} \cup {Release(l) : l \in Locks}
          \cup {Event(e) : e \in Events}

VARIABLES
  tp,         \* the running thread, register tp
  state,      \* thr->state; "FREE" when the slot of thrtab is NULL
  parent,     \* thr->parent, NoTid for NULL
  ready_list, \* threads waiting for the hart, head first
  wait_list,  \* wait_list[c]: threads waiting on condition c, head first
  owner,      \* lock->owner, NoTid for NULL
  cnt,        \* lock->cnt
  lock_list,  \* thr->lock_list, most recently acquired first
  stack,      \* has the thread its stack page (thr->stack_lowest)?
  pc,         \* where the thread is in the code below
  cont,       \* the loop its condition_wait returns to ("run": no loop)
  arg,        \* the loop's argument: the lock, the event or the tid joined
  next,       \* local "next" of running_thread_suspend
  spie,       \* local "pie" of running_thread_suspend
  opie,       \* local "pie" of the loop around condition_wait
  sie,        \* sstatus.SIE of the hart
  event,      \* has the event an unconsumed occurrence (a byte, a completion)?
  pending     \* interrupts the devices assert
\* A local keeps its initial value outside its lifetime.

thrVars  == <<tp, state, parent, stack>>
listVars == <<ready_list, wait_list>>
lockVars == <<owner, cnt, lock_list>>
ctlVars  == <<pc, cont, arg, next, spie, opie>>
irqVars  == <<sie, event, pending>>
vars     == <<thrVars, listVars, lockVars, ctlVars, irqVars>>

States == {"FREE", "WAITING", "SELF", "READY", "EXITED"}
Labels == {"start", "run", "lock", "event", "join", "exit", "cw1", "cw2",
           "rs1", "rs2", "rs3", "off", "idle", "wfi", "halt", "dead"}

(* Labels of a thread that runs, neither waiting nor suspending. *)
Current == {"run", "lock", "event", "join", "exit", "cw1", "idle", "wfi", "halt"}

(* The condition the loop at cont[t] waits on. *)
CondOf(t) == CASE cont[t] = "lock"  -> Release(arg[t])
               [] cont[t] = "event" -> Event(arg[t])
               [] OTHER             -> Exit(t)

----------------------------------------------------------------------------
(* The state main.c:50 leaves: main runs with interrupts enabled and the   *)
(* statically initialised idle thread is on the ready list.                *)
Init ==
  /\ tp = MAIN_TID
  /\ state = [t \in Tid |-> CASE t = MAIN_TID -> "SELF"
                              [] t = IDLE_TID -> "READY"
                              [] OTHER        -> "FREE"]
  /\ parent = [t \in Tid |-> IF t = IDLE_TID THEN MAIN_TID ELSE NoTid]
  /\ ready_list = <<IDLE_TID>>
  /\ wait_list = [c \in Cond |-> <<>>]
  /\ owner = [l \in Locks |-> NoTid]
  /\ cnt = [l \in Locks |-> 0]
  /\ lock_list = [t \in Tid |-> <<>>]
  /\ stack = [t \in Tid |-> t \in {MAIN_TID, IDLE_TID}]
  /\ pc = [t \in Tid |-> CASE t = MAIN_TID -> "run"
                           [] t = IDLE_TID -> "start"
                           [] OTHER        -> "dead"]
  /\ cont = [t \in Tid |-> "run"]
  /\ arg = [t \in Tid |-> NoTid]
  /\ next = NoTid
  /\ spie = [t \in Tid |-> FALSE]
  /\ opie = [t \in Tid |-> FALSE]
  /\ sie = TRUE
  /\ event = [e \in Events |-> FALSE]
  /\ pending = {}

(* The running thread is at label p of the code. *)
At(t, p) == t = tp /\ pc[t] = p
Goto(t, p) == pc' = [pc EXCEPT ![t] = p]
Wait(t, loop) == Goto(t, "cw1") /\ cont' = [cont EXCEPT ![t] = loop]
Return(t) == Goto(t, "run") /\ arg' = [arg EXCEPT ![t] = NoTid]

(* Lists of threads, linked through thr->list_next: one behind the last,   *)
(* what is left without the first, one list behind the other.              *)
tlinsert(list, t) == Append(list, t)
tlremove(list)    == Tail(list)
tlappend(l0, l1)  == l0 \o l1
tlempty(list)     == list = <<>>

(* Fault: the waiters are made ready but stay on the wait list.            *)
BroadcastKeepsWaiters(c, st) ==
  /\ state' = [t \in Tid |-> IF t \in Range(wait_list[c]) THEN "READY" ELSE st[t]]
  /\ ready_list' = tlappend(ready_list, wait_list[c])
  /\ UNCHANGED wait_list

(* condition_broadcast(c): every waiter becomes ready, in FIFO order.      *)
(* st is the value of state the broadcast starts from.                     *)
Broadcast(c, st) ==
  /\ state' = [t \in Tid |-> IF t \in Range(wait_list[c]) THEN "READY" ELSE st[t]]
  /\ ready_list' = tlappend(ready_list, wait_list[c])
  /\ wait_list' = [wait_list EXCEPT ![c] = <<>>]

----------------------------------------------------------------------------
(* Calls a thread makes while it is running.                               *)

(* A trap from U-mode clears SIE for the whole system call; sret sets it.  *)
(* No lock is held across the boundary.                                    *)
TrapEnter(t) ==
  /\ At(t, "run") /\ t # IDLE_TID /\ sie /\ lock_list[t] = <<>>
  /\ sie' = FALSE
  /\ UNCHANGED <<thrVars, listVars, lockVars, ctlVars, event, pending>>

TrapReturn(t) ==
  /\ At(t, "run") /\ t # IDLE_TID /\ ~sie /\ lock_list[t] = <<>>
  /\ sie' = TRUE
  /\ UNCHANGED <<thrVars, listVars, lockVars, ctlVars, event, pending>>

Yield(t) ==
  /\ At(t, "run") /\ t # IDLE_TID
  /\ Goto(t, "rs1")
  /\ UNCHANGED <<thrVars, listVars, lockVars, cont, arg, next, spie, opie, irqVars>>

(* The child takes the lowest free slot, with a stack of its own.          *)
create_thread(t, c) ==
  /\ c # MAIN_TID /\ state[c] = "FREE"
  /\ \A d \in Tid \ {MAIN_TID} : state[d] = "FREE" => c <= d
  /\ parent' = [parent EXCEPT ![c] = t]
  /\ stack' = [stack EXCEPT ![c] = TRUE]

(* spawn_thread makes the child ready. Without a free slot the call        *)
(* returns -EMTHR and changes nothing.                                     *)
Spawn(t, c) ==
  /\ At(t, "run") /\ t # IDLE_TID
  /\ create_thread(t, c)
  /\ state' = [state EXCEPT ![c] = "READY"]
  /\ pc' = [pc EXCEPT ![c] = "start"]
  /\ ready_list' = tlinsert(ready_list, c)
  /\ UNCHANGED <<tp, wait_list, lockVars, cont, arg, next, spie, opie, irqVars>>

(* running_thread_exit: the main thread halts the machine.                 *)
HaltMain(t) ==
  /\ At(t, "run") /\ t = MAIN_TID
  /\ Goto(t, "halt") /\ sie' = FALSE
  /\ UNCHANGED <<thrVars, listVars, lockVars, cont, arg, next, spie, opie, event, pending>>

ExitStart(t) ==
  /\ At(t, "run") /\ t \notin {MAIN_TID, IDLE_TID}
  /\ Goto(t, "exit")
  /\ UNCHANGED <<thrVars, listVars, lockVars, cont, arg, next, spie, opie, irqVars>>

(* Fault: the locks are freed but their waiters are not woken.             *)
ExitReleaseLockSilently(t) ==
  /\ At(t, "exit") /\ lock_list[t] # <<>>
  /\ owner' = [owner EXCEPT ![Head(lock_list[t])] = NoTid]
  /\ cnt' = [cnt EXCEPT ![Head(lock_list[t])] = 0]
  /\ lock_list' = [lock_list EXCEPT ![t] = Tail(@)]
  /\ UNCHANGED <<thrVars, listVars, ctlVars, irqVars>>

(* One turn of the loop of release_all_thread_locks.                       *)
ExitReleaseLock(t) ==
  /\ At(t, "exit") /\ lock_list[t] # <<>>
  /\ LET l == Head(lock_list[t]) IN
       /\ owner' = [owner EXCEPT ![l] = NoTid]
       /\ cnt' = [cnt EXCEPT ![l] = 0]
       /\ Broadcast(Release(l), state)
  /\ lock_list' = [lock_list EXCEPT ![t] = Tail(@)]
  /\ UNCHANGED <<tp, parent, stack, ctlVars, irqVars>>

(* Fault: the exiting thread broadcasts its own child_exit.                *)
ExitMarkOwnCondition(t) ==
  /\ At(t, "exit") /\ lock_list[t] = <<>>
  /\ Broadcast(Exit(t), [state EXCEPT ![t] = "EXITED"])
  /\ Goto(t, "rs1")
  /\ UNCHANGED <<tp, parent, stack, lockVars, cont, arg, next, spie, opie, irqVars>>

(* The rest of running_thread_exit, up to its suspend.                     *)
ExitMark(t) ==
  /\ At(t, "exit") /\ lock_list[t] = <<>>
  /\ LET st == [state EXCEPT ![t] = "EXITED"] IN
       IF parent[t] # NoTid THEN Broadcast(Exit(parent[t]), st)
                            ELSE state' = st /\ UNCHANGED listVars
  /\ Goto(t, "rs1")
  /\ UNCHANGED <<tp, parent, stack, lockVars, cont, arg, next, spie, opie, irqVars>>

(* thread_join(c), and thread_join(0) for any child: the checks before the *)
(* loop.  The rejected calls return -EINVAL and change nothing.            *)
JoinStart(t, c) ==
  /\ At(t, "run") /\ t # IDLE_TID
  /\ c # IDLE_TID
  /\ IF c # 0 THEN state[c] # "FREE" /\ parent[c] = t
              ELSE \E d \in Tid \ {MAIN_TID, IDLE_TID} : state[d] # "FREE" /\ parent[d] = t
  /\ Goto(t, "join")
  /\ arg' = [arg EXCEPT ![t] = c]
  /\ UNCHANGED <<thrVars, listVars, lockVars, cont, next, spie, opie, irqVars>>

(* The children thread_join(arg[t]) may return.                            *)
Reapable(t) == {c \in Tid \ {MAIN_TID, IDLE_TID} :
                  parent[c] = t /\ state[c] = "EXITED" /\ arg[t] \in {0, c}}

(* thread_reclaim(c): c's children pass to c's parent, the slot is freed.  *)
(* A stack page that c still has is not freed, and nobody has it any more. *)
Adopter(c, d) == CASE d = c         -> NoTid
                   [] parent[d] = c -> parent[c]
                   [] OTHER         -> parent[d]

Reclaim(c) ==
  /\ parent' = [d \in Tid |-> Adopter(c, d)]
  /\ state' = [state EXCEPT ![c] = "FREE"]
  /\ stack' = [stack EXCEPT ![c] = FALSE]

(* The loop of thread_join finds an exited child, the first by tid.        *)
JoinReap(t) ==
  /\ At(t, "join")
  /\ \E c \in Reapable(t) :
       /\ \A d \in Reapable(t) : c <= d
       /\ Reclaim(c)
  /\ Return(t)
  /\ UNCHANGED <<tp, listVars, lockVars, cont, next, spie, opie, irqVars>>

(* ... or waits, with interrupts disabled, for a child to exit.            *)
JoinWait(t) ==
  /\ At(t, "join") /\ Reapable(t) = {}
  /\ opie' = [opie EXCEPT ![t] = sie]
  /\ sie' = FALSE
  /\ Wait(t, "join")
  /\ UNCHANGED <<thrVars, listVars, lockVars, arg, next, spie, event, pending>>

(* lock_acquire by the owner only counts.                                  *)
LockRecursive(t, l) ==
  /\ At(t, "run") /\ owner[l] = t /\ cnt[l] < MaxCnt
  /\ cnt' = [cnt EXCEPT ![l] = @ + 1]
  /\ UNCHANGED <<thrVars, listVars, owner, lock_list, ctlVars, irqVars>>

LockStart(t, l) ==
  /\ At(t, "run") /\ t # IDLE_TID /\ owner[l] # t
  /\ Goto(t, "lock")
  /\ arg' = [arg EXCEPT ![t] = l]
  /\ UNCHANGED <<thrVars, listVars, lockVars, cont, next, spie, opie, irqVars>>

(* The test of lock_acquire's while loop, made again after every wakeup.   *)
LockWait(t) ==
  /\ At(t, "lock") /\ owner[arg[t]] # NoTid
  /\ Wait(t, "lock")
  /\ UNCHANGED <<thrVars, listVars, lockVars, arg, next, spie, opie, irqVars>>

LockTake(t) ==
  /\ At(t, "lock") /\ owner[arg[t]] = NoTid
  /\ owner' = [owner EXCEPT ![arg[t]] = t]
  /\ cnt' = [cnt EXCEPT ![arg[t]] = 1]
  /\ lock_list' = [lock_list EXCEPT ![t] = <<arg[t]>> \o @]
  /\ Return(t)
  /\ UNCHANGED <<thrVars, listVars, cont, next, spie, opie, irqVars>>

(* Fault: the released lock stays on its former owner's lock list.         *)
LockReleaseNoUnlink(t, l) ==
  /\ At(t, "run") /\ owner[l] = t
  /\ cnt' = [cnt EXCEPT ![l] = @ - 1]
  /\ IF cnt[l] > 1 THEN UNCHANGED <<state, listVars, owner>>
                   ELSE /\ Broadcast(Release(l), state)
                        /\ owner' = [owner EXCEPT ![l] = NoTid]
  /\ UNCHANGED <<tp, parent, stack, lock_list, ctlVars, irqVars>>

(* The lock leaves its owner's lock list, and its waiters are woken.       *)
lock_release_completely(t, l) ==
  /\ Broadcast(Release(l), state)
  /\ owner' = [owner EXCEPT ![l] = NoTid]
  /\ \E i \in DOMAIN lock_list[t] :
       /\ lock_list[t][i] = l
       /\ lock_list' = [lock_list EXCEPT ![t] = RemoveAt(@, i)]

(* lock_release: only the last release frees the lock.                     *)
LockRelease(t, l) ==
  /\ At(t, "run") /\ owner[l] = t
  /\ cnt' = [cnt EXCEPT ![l] = @ - 1]
  /\ IF cnt[l] > 1
       THEN UNCHANGED <<state, listVars, owner, lock_list>>
       ELSE lock_release_completely(t, l)
  /\ UNCHANGED <<tp, parent, stack, ctlVars, irqVars>>

(* Fault: the driver tests for the event with interrupts enabled.          *)
EventStartEnabled(t, e) ==
  /\ At(t, "run") /\ t # IDLE_TID
  /\ Goto(t, "event")
  /\ arg' = [arg EXCEPT ![t] = e]
  /\ opie' = [opie EXCEPT ![t] = sie]
  /\ UNCHANGED <<thrVars, listVars, lockVars, cont, next, spie, irqVars>>

(* A driver waits for its ISR: with interrupts disabled, while there is    *)
(* nothing to consume it waits on the condition the ISR broadcasts.        *)
EventStart(t, e) ==
  /\ At(t, "run") /\ t # IDLE_TID
  /\ Goto(t, "event")
  /\ arg' = [arg EXCEPT ![t] = e]
  /\ opie' = [opie EXCEPT ![t] = sie]
  /\ sie' = FALSE
  /\ UNCHANGED <<thrVars, listVars, lockVars, cont, next, spie, event, pending>>

EventWait(t) ==
  /\ At(t, "event") /\ ~event[arg[t]]
  /\ Wait(t, "event")
  /\ UNCHANGED <<thrVars, listVars, lockVars, arg, next, spie, opie, irqVars>>

EventTake(t) ==
  /\ At(t, "event") /\ event[arg[t]]
  /\ event' = [event EXCEPT ![arg[t]] = FALSE]
  /\ Return(t)
  /\ sie' = opie[t]
  /\ opie' = [opie EXCEPT ![t] = FALSE]
  /\ UNCHANGED <<thrVars, listVars, lockVars, cont, next, spie, pending>>

----------------------------------------------------------------------------
(* condition_wait and running_thread_suspend.                              *)

CondWaitMark(t) ==
  /\ At(t, "cw1")
  /\ state' = [state EXCEPT ![t] = "WAITING"]
  /\ Goto(t, "cw2")
  /\ UNCHANGED <<tp, parent, stack, listVars, lockVars, cont, arg, next,
                 spie, opie, irqVars>>

CondWaitInsert(t) ==
  /\ At(t, "cw2")
  /\ wait_list' = [wait_list EXCEPT ![CondOf(t)] = tlinsert(@, t)]
  /\ Goto(t, "rs1")
  /\ UNCHANGED <<thrVars, ready_list, lockVars, cont, arg, next, spie, opie, irqVars>>

(* A thread that suspends while it is runnable stays on the ready list ... *)
Runnable(t) == state[t] = "SELF"

(* Fault: ... at its head.                                                 *)
RequeuedLifo(t) == IF Runnable(t) THEN <<t>> \o ready_list ELSE ready_list

(* ... at its tail; the head of the list is next.                          *)
Requeued(t) == IF Runnable(t) THEN tlinsert(ready_list, t) ELSE ready_list

SuspendPick(t) ==
  /\ At(t, "rs1") /\ Requeued(t) # <<>>
  /\ state' = IF Runnable(t) THEN [state EXCEPT ![t] = "READY"] ELSE state
  /\ next' = Head(Requeued(t))
  /\ ready_list' = tlremove(Requeued(t))
  /\ Goto(t, "rs2")
  /\ UNCHANGED <<tp, parent, stack, wait_list, lockVars, cont, arg, spie,
                 opie, irqVars>>

SuspendMark(t) ==
  /\ At(t, "rs2")
  /\ state' = [state EXCEPT ![next] = "SELF"]
  /\ spie' = [spie EXCEPT ![t] = sie]
  /\ sie' = TRUE
  /\ Goto(t, "rs3")
  /\ UNCHANGED <<tp, parent, stack, listVars, lockVars, cont, arg, next,
                 opie, event, pending>>

(* The rest of running_thread_suspend, after the switch from t: the thread *)
(* that goes on restores its interrupt state and frees the stack of t if   *)
(* t has exited.                                                           *)
Resume(t) ==
  /\ stack' = [stack EXCEPT ![t] = @ /\ state[t] # "EXITED"]
  /\ IF cont[next] = "join"
       THEN sie' = opie[next] /\ opie' = [opie EXCEPT ![next] = FALSE]
       ELSE sie' = spie[next] /\ UNCHANGED opie
  /\ spie' = [spie EXCEPT ![next] = FALSE]
  /\ cont' = [cont EXCEPT ![next] = "run"]

(* _thread_swtch.  A thread that has run before resumes in the middle of   *)
(* running_thread_suspend; a new one enters _thread_startup, and neither   *)
(* restores an interrupt state nor frees a stack.                          *)
Switch(t) ==
  /\ At(t, "rs3")
  /\ tp' = next
  /\ next' = NoTid
  /\ LET off == [pc EXCEPT ![t] = IF state[t] = "EXITED" THEN "dead" ELSE "off"]
     IN IF pc[next] = "start"
          THEN /\ pc' = [off EXCEPT ![next] = "run"]
               /\ UNCHANGED <<sie, stack, cont, spie, opie>>
          ELSE pc' = [off EXCEPT ![next] = cont[next]] /\ Resume(t)
  /\ UNCHANGED <<state, parent, listVars, lockVars, arg, event, pending>>

----------------------------------------------------------------------------
(* idle_thread_func.                                                       *)

IdleYield(t) ==
  /\ At(t, "run") /\ t = IDLE_TID /\ ~tlempty(ready_list)
  /\ Goto(t, "rs1")
  /\ UNCHANGED <<thrVars, listVars, lockVars, cont, arg, next, spie, opie, irqVars>>

IdleSeesEmpty(t) ==
  /\ At(t, "run") /\ t = IDLE_TID /\ tlempty(ready_list)
  /\ Goto(t, "idle")
  /\ UNCHANGED <<thrVars, listVars, lockVars, cont, arg, next, spie, opie, irqVars>>

(* disable_interrupts and the second test.                                 *)
IdleCheck(t) ==
  /\ At(t, "idle")
  /\ Goto(t, IF tlempty(ready_list) THEN "wfi" ELSE "run")
  /\ sie' = ~tlempty(ready_list)
  /\ UNCHANGED <<thrVars, listVars, lockVars, cont, arg, next, spie, opie, event, pending>>

(* wfi completes once an interrupt is pending, whatever SIE is.            *)
IdleWake(t) ==
  /\ At(t, "wfi") /\ pending # {}
  /\ Goto(t, "run")
  /\ sie' = TRUE
  /\ UNCHANGED <<thrVars, listVars, lockVars, cont, arg, next, spie, opie, event, pending>>

----------------------------------------------------------------------------
(* The devices and their interrupt handlers.                               *)

Raise(e) ==
  /\ e \notin pending /\ pc[tp] # "halt"
  /\ pending' = pending \cup {e}
  /\ UNCHANGED <<thrVars, listVars, lockVars, ctlVars, sie, event>>

(* Fault: the handler wakes one waiter, not all.                           *)
IsrWakesOne(e) ==
  /\ sie /\ e \in pending
  /\ pending' = pending \ {e}
  /\ event' = [event EXCEPT ![e] = TRUE]
  /\ IF wait_list[Event(e)] = <<>>
       THEN UNCHANGED <<state, listVars>>
       ELSE /\ state' = [state EXCEPT ![Head(wait_list[Event(e)])] = "READY"]
            /\ ready_list' = Append(ready_list, Head(wait_list[Event(e)]))
            /\ wait_list' = [wait_list EXCEPT ![Event(e)] = Tail(@)]
  /\ UNCHANGED <<tp, parent, stack, lockVars, ctlVars, sie>>

Isr(e) ==
  /\ sie /\ e \in pending
  /\ pending' = pending \ {e}
  /\ event' = [event EXCEPT ![e] = TRUE]
  /\ Broadcast(Event(e), state)
  /\ UNCHANGED <<tp, parent, stack, lockVars, ctlVars, sie>>

(* halt_success stops the machine.                                         *)
Halted == pc[tp] = "halt" /\ UNCHANGED vars

----------------------------------------------------------------------------
(* Steps a thread makes once it has started an operation.                  *)
Progress(t) ==
  \/ ExitReleaseLock(t) \/ ExitMark(t) \/ JoinReap(t) \/ JoinWait(t)
  \/ LockWait(t) \/ LockTake(t) \/ EventWait(t) \/ EventTake(t)
  \/ CondWaitMark(t) \/ CondWaitInsert(t)
  \/ SuspendPick(t) \/ SuspendMark(t) \/ Switch(t)
  \/ IdleYield(t) \/ IdleSeesEmpty(t) \/ IdleCheck(t) \/ IdleWake(t)

(* Calls a thread may make.                                                *)
Call(t) ==
  \/ TrapEnter(t) \/ TrapReturn(t) \/ Yield(t) \/ HaltMain(t) \/ ExitStart(t)
  \/ \E c \in Tid : Spawn(t, c) \/ JoinStart(t, c)
  \/ \E l \in Locks : LockRecursive(t, l) \/ LockStart(t, l) \/ LockRelease(t, l)
  \/ \E e \in Events : EventStart(t, e)

Next ==
  \/ \E t \in Tid : Call(t) \/ Progress(t)
  \/ \E e \in Events : Raise(e) \/ Isr(e)
  \/ Halted

Spec == Init /\ [][Next]_vars

(* The hart executes the operation it is in, and takes an interrupt that   *)
(* stays pending if it keeps enabling interrupts.                          *)
Fairness == /\ \A t \in Tid : WF_vars(Progress(t))
            /\ \A e \in Events : SF_vars(Isr(e))
FairSpec == Spec /\ Fairness
----------------------------------------------------------------------------
(* Properties.                                                             *)

TypeOK ==
  /\ tp \in Tid
  /\ state \in [Tid -> States]
  /\ parent \in [Tid -> Tid \cup {NoTid}]
  /\ ready_list \in Seq(Tid)
  /\ wait_list \in [Cond -> Seq(Tid)]
  /\ owner \in [Locks -> Tid \cup {NoTid}]
  /\ cnt \in [Locks -> 0 .. MaxCnt]
  /\ lock_list \in [Tid -> Seq(Locks)]
  /\ stack \in [Tid -> BOOLEAN]
  /\ pc \in [Tid -> Labels]
  /\ cont \in [Tid -> {"run", "lock", "event", "join"}]
  /\ arg \in [Tid -> Tid \cup Locks \cup Events \cup {NoTid}]
  /\ next \in Tid \cup {NoTid}
  /\ spie \in [Tid -> BOOLEAN]
  /\ opie \in [Tid -> BOOLEAN]
  /\ sie \in BOOLEAN
  /\ event \in [Events -> BOOLEAN]
  /\ pending \subseteq Events

(* A thread is on at most one list and on it once, as its state says: the  *)
(* ready list when READY, its condition's wait list when WAITING, none     *)
(* when it runs, has exited or is free.  list_next is one field, so a      *)
(* thread on two lists would cross-link them.                              *)
ReadyPlaced ==
  /\ IsInjective(ready_list)
  /\ \A t \in Tid : t \in Range(ready_list)
                      <=> state[t] = "READY" /\ ~ (pc[tp] = "rs2" /\ next = t)
WaitPlaced ==
  /\ \A c \in Cond : /\ IsInjective(wait_list[c])
                     /\ \A t \in Range(wait_list[c]) :
                          state[t] = "WAITING" /\ ~At(t, "cw2") /\ c = CondOf(t)
  /\ \A t \in Tid : state[t] = "WAITING" /\ ~At(t, "cw2")
                      => t \in Range(wait_list[CondOf(t)])
RunPlaced ==
  /\ pc[tp] \in Current => state[tp] = "SELF"
  /\ pc[tp] = "rs3" => next \in Tid /\ state[next] = "SELF"
  /\ \A t \in Tid : state[t] = "SELF" =>
       (t = tp /\ pc[tp] \in Current \cup {"rs1"}) \/ (t = next /\ pc[tp] = "rs3")
Placement == ReadyPlaced /\ WaitPlaced /\ RunPlaced

(* Types, and each thread on its list, also while an interrupt handler runs*)
(* between the instructions that move it.                                  *)
WellFormed == TypeOK /\ Placement

(* Only one thread owns a lock, a live one; the list running_thread_exit   *)
(* walks holds each owned lock once and no other, so nothing stays locked  *)
(* by a dead thread; cnt is zero exactly when the lock is free.            *)
OwnedListed ==
  /\ \A t \in Tid : IsInjective(lock_list[t])
  /\ \A t \in Tid, l \in Locks : owner[l] = t <=> l \in Range(lock_list[t])
OwnedCounted == \A l \in Locks : owner[l] = NoTid <=> cnt[l] = 0
OwnersLive   == \A l \in Locks : owner[l] # NoTid => state[owner[l]] \notin {"FREE", "EXITED"}
LocksConsistent == OwnedListed /\ OwnedCounted /\ OwnersLive

(* lock_release wakes the waiters: nobody waits for a lock that is free.   *)
NoLostRelease ==
  \A l \in Locks : owner[l] = NoTid => wait_list[Release(l)] = <<>>

(* running_thread_exit wakes the joiner: a thread in thread_join waits only*)
(* while the child it asked for is its child and alive (with tid 0: while  *)
(* it has a child and none has exited).                                    *)
NoLostExit ==
  \A t \in Tid : t \in Range(wait_list[Exit(t)]) =>
    /\ Reapable(t) = {}
    /\ \E c \in Tid \ {MAIN_TID, IDLE_TID} :
         parent[c] = t /\ state[c] # "FREE" /\ arg[t] \in {0, c}

(* The test of a driver and its entry in the wait list are not separated   *)
(* by an interrupt, so nobody waits for an event that has occurred; nor are*)
(* the idle thread's last test and its wfi, so it sleeps only with an empty*)
(* ready list (the comment at thread.c:759-762).                           *)
NoLostEvent ==
  /\ \A e \in Events : event[e] => wait_list[Event(e)] = <<>>
  /\ pc[IDLE_TID] = "wfi" => ready_list = <<>>

(* Reclaiming a thread leaves no pointer to it: every thread but main has a*)
(* parent, in use, and the parents lead to the main thread, so no exited   *)
(* thread is beyond everyone's thread_join.                                *)
Live == {t \in Tid : state[t] # "FREE"}
NoOrphan ==
  /\ \A t \in Live \ {MAIN_TID} : parent[t] \in Live
  /\ \A S \in SUBSET (Live \ {MAIN_TID}) : S # {} => \E t \in S : parent[t] \notin S

(* The stack page of a thread is freed (thread.c:652-655) only when it can *)
(* never run again.                                                        *)
StackHeld == \A t \in Tid : state[t] \in {"WAITING", "READY", "SELF"} => stack[t]

(* Exit, join and reclaim go together: no joiner is forgotten, nothing     *)
(* points to a reclaimed thread, nothing runs on a freed stack.            *)
ExitAndJoin == NoLostExit /\ NoOrphan /\ StackHeld

(* Threads that give up the hart share it: if no thread keeps it for ever, *)
(* every ready thread runs in turn.                                        *)
Suspends == []<>(pc[tp] \in {"rs3", "wfi"})
RoundRobin == Suspends => \A t \in Tid : state[t] = "READY" ~> state[t] = "SELF"

(* A thread waiting on a condition runs again after the interrupt that     *)
(* broadcasts it.                                                          *)
EventWakes == Suspends => \A t \in Tid, e \in Events :
  (t \in Range(wait_list[Event(e)]) /\ e \in pending) ~> state[t] = "SELF"
=============================================================================
