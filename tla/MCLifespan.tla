---------------------------- MODULE MCLifespan ---------------------------
(* Small instances of Lifespan and Broker. *)
EXTENDS Lifespan, TLC
===========================================================================
