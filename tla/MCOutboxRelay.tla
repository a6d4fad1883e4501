--------------------------- MODULE MCOutboxRelay --------------------------
(* Events e1, e2, e3 with stamps that tie; e1 is the oldest.                *)
EXTENDS OutboxRelay, TLC

CONSTANTS e1, e2, e3

MCStamp == e1 :> 1 @@ e2 :> 2 @@ e3 :> 2
===========================================================================
