------------------------------- MODULE MCUart -------------------------------
(* A small instance of Uart. *)
EXTENDS Uart, TLC

CONSTANTS a, b
MCTexts == {<<a>>, <<b, a>>}

Symmetry == Permutations(Client)

(* Characters that were taken out of a buffer are never looked at again.   *)
Ring(r) == <<r.hpos, Content(r)>>
Relevant ==
  <<opened, owner, Ring(rxbuf), Ring(txbuf), ier, rbr, thr, pc, req, ret, plicVars>>
=============================================================================
