------------------------- MODULE SessionLifecycle -------------------------
(***************************************************************************)
(* What the session store promises, independent of Redis and of request    *)
(* interleavings: a session id is opened at most once, for one user; while *)
(* it is live its refresh-token generation only grows; once closed it is   *)
(* closed for good.  Sessions.tla implements this specification.           *)
(***************************************************************************)
EXTENDS Naturals

CONSTANTS Users, Sids, NoUser

VARIABLES phase,   \* phase[s]  \in {"unborn", "live", "dead"}
          holder,  \* holder[s] is the user the session was opened for
          gen      \* gen[s] is the generation of the only valid refresh token

vars == <<phase, holder, gen>>

Init ==
    /\ phase = [s \in Sids |-> "unborn"]
    /\ holder = [s \in Sids |-> NoUser]
    /\ gen = [s \in Sids |-> 0]

Open(s, u) ==
    /\ phase[s] = "unborn"
    /\ phase' = [phase EXCEPT ![s] = "live"]
    /\ holder' = [holder EXCEPT ![s] = u]
    /\ gen' = [gen EXCEPT ![s] = 1]

\* A refresh replaces the valid token by a newer one; no older one comes back.
Renew(s) ==
    /\ phase[s] = "live"
    /\ gen'[s] \in Nat /\ gen'[s] > gen[s]
    /\ gen' = [gen EXCEPT ![s] = gen'[s]]
    /\ UNCHANGED <<phase, holder>>

\* A logout or an expiry closes any set of live sessions at once.
Close(S) ==
    /\ \A s \in S : phase[s] = "live"
    /\ phase' = [s \in Sids |-> IF s \in S THEN "dead" ELSE phase[s]]
    /\ gen' = [s \in Sids |-> IF s \in S THEN 0 ELSE gen[s]]
    /\ UNCHANGED holder

Next ==
    \/ \E s \in Sids, u \in Users : Open(s, u)
    \/ \E s \in Sids : Renew(s)
    \/ \E S \in SUBSET Sids : Close(S)

Spec == Init /\ [][Next]_vars
===========================================================================
