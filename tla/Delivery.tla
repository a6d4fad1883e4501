------------------------------ MODULE Delivery ----------------------------
(***************************************************************************)
(* What the outbox promises: an event exists once the business data of its *)
(* transaction does; it may be delivered again and again, and it is        *)
(* forgotten only after a delivery.  OutboxRelay.tla implements this.      *)
(***************************************************************************)
EXTENDS Naturals

CONSTANT Events

VARIABLES users,   \* committed business data
          owed,    \* events that must still be delivered at least once
          copies   \* copies[e]: how often e was delivered

vars == <<users, owed, copies>>

Init ==
    /\ users = {}
    /\ owed = {}
    /\ copies = [e \in Events |-> 0]

Accept(e) ==
    /\ e \notin users
    /\ users' = users \cup {e}
    /\ owed' = owed \cup {e}
    /\ UNCHANGED copies

Deliver(e) ==
    /\ e \in users
    /\ copies' = [copies EXCEPT ![e] = @ + 1]
    /\ UNCHANGED <<users, owed>>

Forget(S) ==
    /\ \A e \in S : copies[e] > 0
    /\ owed' = owed \ S
    /\ UNCHANGED <<users, copies>>

Next ==
    \/ \E e \in Events : Accept(e) \/ Deliver(e)
    \/ \E S \in SUBSET Events : Forget(S)

Spec == Init /\ [][Next]_vars
===========================================================================
