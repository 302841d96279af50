----------------------------- MODULE MCDevices ------------------------------
(* Small instances of Devices. *)
EXTENDS Devices, TLC

MCBoot == <<<<"uart", "serial">>, <<"vioblk", "storage">>, <<"uart", "serial">>>>
MCMounts == <<<<"dev", "devfs">>, <<"null", "nullfs">>>>

(* One error in each part; in the body behind its first block, in the head *)
(* between reading and writing its block.                                  *)
MCFault == {<<"none", 0>>, <<"head", 1>>, <<"body", 1>>, <<"tail", 0>>}

Symmetry == Permutations(Handle)

(* The bytes of a call are not looked at by later calls.                   *)
Relevant == <<devlist, mplist, opened, uio, disk>>
=============================================================================
