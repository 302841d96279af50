------------------------------- MODULE Images -------------------------------
(***************************************************************************)
(* What a process may rely on: it has a memory of its own. Its pages change*)
(* by its own stores and calls, a page it touches first reads as zero, exec*)
(* replaces them by those of the program, a forked child starts with a copy*)
(* and nothing another process does shows.                                 *)
(***************************************************************************)
EXTENDS Naturals, Sequences

CONSTANTS Proc, VPage, Stack, Programs

VARIABLE mem   \* mem[p]: the pages of p that are mapped, with what they hold

Segments(prog) == 1 .. Len(prog)
Covered(prog)  == UNION {prog[k].pages : k \in Segments(prog)}

(* The segments are loaded in order, over what is there.                   *)
LastIn(prog, v) ==
  CHOOSE k \in Segments(prog) : v \in prog[k].pages
    /\ \A j \in Segments(prog) : v \in prog[j].pages => j <= k

Loaded(prog) ==
  [v \in Covered(prog) \cup {Stack} |->
     IF v \in Covered(prog) THEN prog[LastIn(prog, v)].bytes ELSE "argv"]

None == [v \in {} |-> "zero"]

Init == mem = [p \in Proc |-> None]

Become(p, image) == mem' = [mem EXCEPT ![p] = image]

Touch(p) == \E v \in VPage :
  Become(p, [w \in DOMAIN mem[p] \cup {v} |-> IF w = v THEN "zero" ELSE mem[p][w]])
Store(p) == \E v \in DOMAIN mem[p] : Become(p, [mem[p] EXCEPT ![v] = p])
Vanish(p) == Become(p, None)
Run(p) == mem[p] = None /\ \E prog \in Programs : Become(p, Loaded(prog))
Fork(p) == \E q \in Proc : mem[q] = None /\ Become(q, mem[p])

Next == \E p \in Proc :
  Run(p) \/ (mem[p] # None /\ (Touch(p) \/ Store(p) \/ Vanish(p) \/ Fork(p)))

Spec == Init /\ [][Next]_mem
=============================================================================
