------------------------------ MODULE MCAlarms ------------------------------
(* Small instances of Alarms. *)
EXTENDS Alarms
=============================================================================
