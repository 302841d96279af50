------------------------------ MODULE MCProcess -----------------------------
(* A small instance of Process: one table for the program's two pages and  *)
(* a page of heap, one for the stack, both below one table of the root.    *)
EXTENDS Process, TLC

MCUp ==
  (1 :> 11) @@ (2 :> 11) @@ (3 :> 11) @@ (4 :> 12) @@ (11 :> 10) @@ (12 :> 10) @@ (10 :> 0)
MCPages == 1 .. 17
MCText == [pages |-> {1}, perm |-> {"R", "X"}, bytes |-> "text"]
MCData == [pages |-> {2}, perm |-> {"R", "W"}, bytes |-> "data"]
MCPrograms == {<<MCText, MCData>>}

(* Which page is where does not matter, only whether two places have the   *)
(* same page or a free one: a view that forgets the pages' numbers. What   *)
(* free pages hold is not read before it is written.                       *)
Places == {<<p, n>> : p \in Proc, n \in {Root} \cup DOMAIN Up}
Used == {x \in Places : x[2] \in DOMAIN space[x[1]]}
At(x) == space[x[1]][x[2]]
Aliases == {x \in Used : At(x) \in free} \cup
           IF Cardinality({At(x) : x \in Used}) = Cardinality(Used) THEN {}
           ELSE {<<x, y>> \in Used \X Used : x # y /\ At(x) = At(y)}
Relevant ==
  <<Cardinality(free), Used, Aliases, perm,
    [x \in {y \in Used : y[2] \in VPage} |-> data[At(x)]],
    pc, [p \in Proc |-> IF pc[p] \in {"elf", "load"} THEN <<arg[p].exe, arg[p].left>> ELSE arg[p]],
    fdVars>>

(* A bound: at most one page is lost. *)
FewLost == Cardinality(Lost) <= 1

(* A bound: at most one reference of a uio is forgotten. *)
FewForgotten == \A u \in Uio : refcnt[u] <= Cardinality(Names(u)) + 1

(* A bound: at most two descriptors name the same file. *)
FewNames == \A u \in Uio \ {Uart1} : Cardinality(Names(u)) <= 2
=============================================================================
