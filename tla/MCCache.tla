----------------------------- MODULE MCCache -------------------------------
(* Small instances of Cache for TLC. *)
EXTENDS Cache, TLC

(* The clients behave alike, and no property is about progress. *)
ClientSymmetry == Permutations(Clients)
=============================================================================
