------------------------------- MODULE MCKtfs -------------------------------
(* Small instances of Ktfs for TLC. *)
EXTENDS Ktfs, TLC

(* The names are alike, and no property is about progress. *)
NameSymmetry == Permutations(Name)

(* No action reads the last call or its result, nor an inode that is not in *)
(* use: creation clears it. *)
Relevant ==
  <<[disk EXCEPT !.inode =
       [i \in Inode |-> IF i \in disk.imap THEN disk.inode[i] ELSE EmptyInode]],
    file, listing>>
(* A bound: at most one block besides block 0 is marked as used but belongs to no file. *)
FewLost ==
  LET owned == Targets(UNION {Pointers(i) : i \in disk.imap})
  IN Cardinality(disk.bmap \ owned) <= 2
=============================================================================
