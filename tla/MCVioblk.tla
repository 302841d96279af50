------------------------------ MODULE MCVioblk ------------------------------
(* A small instance of Vioblk. *)
EXTENDS Vioblk
=============================================================================
