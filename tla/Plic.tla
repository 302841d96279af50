-------------------------------- MODULE Plic --------------------------------
(***************************************************************************)
(* The route of an external interrupt: the table of handlers of intr.c and *)
(* the priorities and claims of plic.c. plic_init enables every source for *)
(* the hart and leaves each at priority 0, so the priority is what turns a *)
(* source on and off. Drivers extend this module; a handler runs between   *)
(* Claim and Finish, and no thread runs meanwhile.                         *)
(***************************************************************************)
EXTENDS Naturals

CONSTANT Src         \* interrupt sources

NoSrc == "no source"

VARIABLES
  isrtab,    \* isrtab[s]: has source s a handler?
  priority,  \* PLIC.priority[s]: 0 or the driver's
  claimed    \* the source whose handler runs

plicVars == <<isrtab, priority, claimed>>

PlicTypeOK ==
  /\ isrtab \in [Src -> BOOLEAN] /\ priority \in [Src -> 0 .. 1]
  /\ claimed \in Src \cup {NoSrc}

PlicInit ==
  /\ isrtab = [s \in Src |-> FALSE] /\ priority = [s \in Src |-> 0]
  /\ claimed = NoSrc

(* enable_intr_source: first the handler, then the priority.               *)
SetIsr(s) == isrtab' = [isrtab EXCEPT ![s] = TRUE] /\ UNCHANGED <<priority, claimed>>
plic_enable_source(s) ==
  priority' = [priority EXCEPT ![s] = 1] /\ UNCHANGED <<isrtab, claimed>>

(* Fault: the source stays on.                                             *)
DisableNothing(s) == UNCHANGED plicVars

(* disable_intr_source: first the priority, then the handler.              *)
plic_disable_source(s) ==
  priority' = [priority EXCEPT ![s] = 0] /\ UNCHANGED <<isrtab, claimed>>
ClearIsr(s) == isrtab' = [isrtab EXCEPT ![s] = FALSE] /\ UNCHANGED <<priority, claimed>>

(* handle_extern_interrupt: claim a source that is on and asserted ...     *)
Claim(s) ==
  /\ claimed = NoSrc /\ priority[s] > 0
  /\ claimed' = s
  /\ UNCHANGED <<isrtab, priority>>

(* ... and tell the PLIC when its handler has returned.                    *)
Finish(s) == claimed = s /\ claimed' = NoSrc /\ UNCHANGED <<isrtab, priority>>

(* No interrupt is claimed that has no handler: the kernel would panic.    *)
HasHandler == claimed # NoSrc => isrtab[claimed]
=============================================================================
