------------------------------ MODULE PagePool ------------------------------
(***************************************************************************)
(* What the page allocator of memory.c promises: a request is answered with*)
(* consecutive pages that nobody holds, and pages come back only from a    *)
(* holder.  A request for one page fails only when every page is held;     *)
(* a request for more may also fail because no free run is long enough.    *)
(***************************************************************************)
EXTENDS Naturals

CONSTANTS RAM, MaxCnt
VARIABLES held, panicked

Run(pp, n) == pp .. pp + n - 1

Init == held = {} /\ panicked = FALSE

Take(n) == \E pp \in RAM :
  /\ Run(pp, n) \subseteq RAM \ held
  /\ held' = held \cup Run(pp, n)
  /\ UNCHANGED panicked

Give(n) == \E pp \in RAM :
  /\ Run(pp, n) \subseteq held
  /\ held' = held \ Run(pp, n)
  /\ UNCHANGED panicked

Fail(n) ==
  /\ n = 1 => held = RAM
  /\ panicked' = TRUE
  /\ UNCHANGED held

Next == ~panicked /\ \E n \in 1 .. MaxCnt : Take(n) \/ Give(n) \/ Fail(n)

Spec == Init /\ [][Next]_<<held, panicked>>
=============================================================================
