------------------------------- MODULE Alarms -------------------------------
(***************************************************************************)
(* The alarms of timer.c: a list of sleeping threads sorted by the time at *)
(* which they are to wake, one compare register that is set for its head,  *)
(* and the enable bit of the timer interrupt.                              *)
(*                                                                         *)
(* Every sleeper has one alarm. Inserting it, setting the register and     *)
(* the first wait are one step, with interrupts off; sleeps are taken to   *)
(* last longer than that.                                                  *)
(***************************************************************************)
EXTENDS Naturals, Sequences, SequencesExt

CONSTANTS
  Sleeper,     \* threads that sleep
  MinCnt, MaxCnt, \* how long they sleep (bounds)
  MaxTime,     \* the clock stops here (bound)
  TICK,        \* TIMER_FREQ / 100
  UINT64_MAX

ASSUME AlarmsAssumption ==
  /\ MinCnt \in Nat \ {0} /\ MaxCnt \in Nat /\ MinCnt <= MaxCnt
  /\ TICK \in Nat \ {0} /\ MaxTime \in Nat
  /\ UINT64_MAX \in Nat /\ MaxTime + TICK < UINT64_MAX

VARIABLES
  time,           \* rdtime()
  stcmp, STIE,    \* compare register, timer interrupt enable
  sleep_list,     \* the sleepers on the list, head first
  twake,          \* when each alarm is to trigger
  ticks, next_tick,
  state           \* "running", "waiting" (in condition_wait), "woken"

timerVars == <<stcmp, STIE, ticks, next_tick>>
alarmVars == <<time, timerVars, sleep_list, twake, state>>

Lesser(a, b) == IF a < b THEN a ELSE b

(* alarm_init and alarm_reset: the next sleep counts from now.             *)
Reset(s) ==
  /\ state[s] = "running"
  /\ twake' = [twake EXCEPT ![s] = time]
  /\ UNCHANGED <<time, timerVars, sleep_list, state>>

(* Fault: the sum is not cut.                                              *)
LaterStill(t, cnt) == t + cnt

(* The sum, cut at the largest time.                                       *)
Later(t, cnt) == IF UINT64_MAX - t < cnt THEN UINT64_MAX ELSE t + cnt

(* alarm_sleep with a time that has passed.                                *)
SleepNot(s, cnt) ==
  /\ state[s] = "running" /\ Later(twake[s], cnt) < time
  /\ twake' = [twake EXCEPT ![s] = Later(@, cnt)]
  /\ UNCHANGED <<time, timerVars, sleep_list, state>>

(* Before the first alarm that is not earlier.                             *)
Inserted(list, s, t) ==
  InsertAt(list, CHOOSE k \in 1 .. Len(list) + 1 :
    /\ \A i \in 1 .. k - 1 : twake[list[i]] < t
    /\ k <= Len(list) => twake[list[k]] >= t, s)

(* Fault: the register is set for the new alarm.                           *)
CompareOwn(list, wake, s) == wake[s]
Compare(list, wake, s)    == wake[Head(list)]

(* alarm_sleep, up to its first wait. (With t = time it would return and   *)
(* leave its alarm on the list.)                                           *)
alarm_sleep(s, cnt) ==
  LET t == Later(twake[s], cnt) IN
  /\ state[s] = "running" /\ t > time
  /\ twake' = [twake EXCEPT ![s] = t]
  /\ sleep_list' = Inserted(sleep_list, s, t)
  /\ stcmp' = Compare(sleep_list', twake', s)
  /\ STIE' = IF sleep_list = <<>> THEN TRUE ELSE STIE
  /\ state' = [state EXCEPT ![s] = "waiting"]
  /\ UNCHANGED <<time, ticks, next_tick>>

(* The test of the loop after a wait.                                      *)
Recheck(s) ==
  /\ state[s] = "woken"
  /\ state' = [state EXCEPT ![s] = IF time < twake[s] THEN "waiting" ELSE "running"]
  /\ UNCHANGED <<time, timerVars, sleep_list, twake>>
----------------------------------------------------------------------------
(* Fault: the handler looks at the head only.                              *)
HeadOnly(list, now) ==
  IF list # <<>> /\ twake[Head(list)] <= now THEN <<Head(list)>> ELSE <<>>

(* The alarms the handler takes from the list: from the head on, as long   *)
(* as they have expired.                                                   *)
Popped(list, now) ==
  SubSeq(list, 1, CHOOSE k \in 0 .. Len(list) :
    /\ \A i \in 1 .. k : twake[list[i]] <= now
    /\ k < Len(list) => twake[list[k + 1]] > now)

(* handle_timer_interrupt: it switches its own interrupt off.              *)
Interrupt ==
  /\ STIE /\ time >= stcmp
  /\ LET out == Popped(sleep_list, time)
         rest == SubSeq(sleep_list, Len(out) + 1, Len(sleep_list))
         next == IF time >= next_tick
                 THEN next_tick + ((time - next_tick) \div TICK + 1) * TICK ELSE next_tick
     IN /\ sleep_list' = rest
        /\ state' = [s \in Sleeper |-> IF Contains(out, s) THEN "woken" ELSE state[s]]
        /\ next_tick' = next
        /\ stcmp' = IF rest = <<>> THEN next ELSE Lesser(next, twake[Head(rest)])
  /\ ticks' = TICK
  /\ STIE' = FALSE
  /\ UNCHANGED <<time, twake>>

Tick ==
  /\ time < MaxTime
  /\ time' = time + 1
  /\ UNCHANGED <<timerVars, sleep_list, twake, state>>
----------------------------------------------------------------------------
(* timer_init, and intrmgr_init, which enables the interrupt.              *)
AlarmsInit ==
  /\ time = 0 /\ stcmp = UINT64_MAX /\ STIE = TRUE
  /\ sleep_list = <<>> /\ ticks = 0 /\ next_tick = 0
  /\ twake = [s \in Sleeper |-> 0] /\ state = [s \in Sleeper |-> "running"]

Counts == MinCnt .. MaxCnt \cup {UINT64_MAX}

AlarmsNext ==
  \/ Tick \/ Interrupt
  \/ \E s \in Sleeper :
       \/ Reset(s) \/ Recheck(s)
       \/ \E cnt \in Counts : SleepNot(s, cnt) \/ alarm_sleep(s, cnt)

(* Time passes, a pending interrupt is taken, who is woken runs.           *)
AlarmsFairness ==
  /\ WF_alarmVars(Tick) /\ WF_alarmVars(Interrupt)
  /\ \A s \in Sleeper : WF_alarmVars(Recheck(s))

AlarmsSpec == AlarmsInit /\ [][AlarmsNext]_alarmVars /\ AlarmsFairness
----------------------------------------------------------------------------
AlarmsTypeOK ==
  /\ time \in 0 .. MaxTime /\ stcmp \in Nat /\ STIE \in BOOLEAN
  /\ twake \in [Sleeper -> 0 .. UINT64_MAX] /\ ticks \in {0, TICK}
  /\ next_tick <= time + TICK
  /\ state \in [Sleeper -> {"running", "waiting", "woken"}]
  /\ sleep_list \in Seq(Sleeper) /\ IsInjective(sleep_list)

(* As long as the timer interrupt is enabled, it comes in time for every   *)
(* sleeper: all who wait are on the list, the list is sorted, and the      *)
(* register is not later than its head.                                    *)
Armed ==
  /\ \A s \in Sleeper : state[s] = "waiting" <=> Contains(sleep_list, s)
  /\ \A i, j \in DOMAIN sleep_list : i < j => twake[sleep_list[i]] <= twake[sleep_list[j]]
  /\ STIE /\ sleep_list # <<>> => stcmp <= twake[Head(sleep_list)]

(* A sleeper that waits while the interrupt is enabled goes on when its    *)
(* time has come, unless the interrupt is switched off before.             *)
Due(s) == state[s] = "waiting" /\ twake[s] <= MaxTime
WokenWhileEnabled ==
  \A s \in Sleeper : Due(s) /\ STIE ~> (state[s] = "running" \/ (~STIE /\ time < twake[s]))

(* Every sleeper goes on when its time has come.                           *)
SleepEnds == \A s \in Sleeper : Due(s) ~> state[s] = "running"
=============================================================================
