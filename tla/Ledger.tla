------------------------------ MODULE Ledger ------------------------------
(***************************************************************************)
(* What a client of the payment endpoints relies on: each logical          *)
(* operation moves money once or not at all, the balance moves in the same *)
(* step by the same amount, and an account never goes below zero.          *)
(* Payments.tla implements this specification.                             *)
(***************************************************************************)
EXTENDS Integers

CONSTANTS Operations, Accounts, Op,
          Repeatable   \* operations whose key has expired: a retry is a new operation

VARIABLES funds,    \* funds[a] is the balance of account a
          applied   \* operations that have taken effect

vars == <<funds, applied>>

Init ==
    /\ funds = [a \in Accounts |-> 0]
    /\ applied = {}

Apply(k) ==
    /\ k \notin applied \/ k \in Repeatable
    /\ funds[Op[k].account] + Op[k].delta >= 0
    /\ funds' = [funds EXCEPT ![Op[k].account] = @ + Op[k].delta]
    /\ applied' = applied \cup {k}

Next == \E k \in Operations : Apply(k)

Spec == Init /\ [][Next]_vars
===========================================================================
