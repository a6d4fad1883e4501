---------------------------- MODULE MCPayments ----------------------------
(* Three operations on one account: two deposits of 2 and a withdrawal of    *)
(* 1. With MaxBalance = 5 a third deposit of 2 leaves the range of BIGINT.   *)
EXTENDS Payments, TLC

CONSTANTS a1, k1, k2, k3

MCOp == k1 :> [account |-> a1, delta |-> 2]
        @@ k2 :> [account |-> a1, delta |-> -1]
        @@ k3 :> [account |-> a1, delta |-> 2]
===========================================================================
