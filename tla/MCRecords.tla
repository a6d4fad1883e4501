------------------------------ MODULE MCRecords ----------------------------
(* Small instances of Records. *)
EXTENDS Records, TLC
===========================================================================
