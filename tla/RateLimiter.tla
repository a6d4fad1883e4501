----------------------------- MODULE RateLimiter ---------------------------
(***************************************************************************)
(* The fixed window counters of ratelimit/limiter.py: one counter per tier *)
(* and identity, all of them counted and read by one Lua script.  A window *)
(* begins with the first request that finds no counter and ends with the   *)
(* key's TTL.  Time passes in the units of the TTL.  A definition marked   *)
(* "Mutant" is a plausible bug in the definition after it; no              *)
(* specification uses it.                                                  *)
(***************************************************************************)
EXTENDS Naturals, FiniteSetsExt

CONSTANTS Identities,  \* what requests are counted by
          Tiers,       \* "win", and "burst" when RATE_LIMIT_BURST > 0
          Limit,       \* Limit[t]: requests per window
          Period,      \* Period[t]: length of a window
          MaxCount     \* counters saturate here, above every limit

ASSUME LimiterAssumption ==
    /\ Tiers # {} /\ MaxCount \in Nat
    /\ Limit \in [Tiers -> 1..(MaxCount - 1)]
    /\ Period \in [Tiers -> Nat \ {0}]

VARIABLES count,     \* count[i][t]: the counter, 0 when the key does not exist
          ttl,       \* ttl[i][t]: its remaining life
          age,       \* history: age[i][t], how long it has existed
          admitted   \* history: admitted[i], the requests admitted, each <<age, number>>

limiterVars == <<count, ttl, age, admitted>>

\* The history goes back as far as the longest window is long.
Ages == UNION {0..(Period[t] - 1) : t \in Tiers}

\* The requests admitted less than n units of time ago.
Since(i, n) == {x \in admitted[i] : x[1] < n}

LimiterInit ==
    /\ count = [i \in Identities |-> [t \in Tiers |-> 0]]
    /\ ttl = [i \in Identities |-> [t \in Tiers |-> 0]]
    /\ age = [i \in Identities |-> [t \in Tiers |-> 0]]
    /\ admitted = [i \in Identities |-> {}]

\* The request is counted in every tier, the refused one as well, and passes
\* when no tier is over its limit.
Allowed(i) == \A t \in Tiers : count[i][t] < Limit[t]

Incremented(i) == [t \in Tiers |-> Min({count[i][t] + 1, MaxCount})]

\* What the request adds to the history: nothing when it is refused.
Admitted(i) == IF Allowed(i) THEN {<<0, Cardinality(Since(i, 1)) + 1>>} ELSE {}

Recorded(i) ==
    /\ age' = [age EXCEPT ![i] = [t \in Tiers |-> IF count[i][t] = 0 THEN 0 ELSE @[t]]]
    /\ admitted' = [admitted EXCEPT ![i] = @ \cup Admitted(i)]

\* Mutant: EXPIRE with every INCR.
CheckProlongs(i) ==
    /\ count' = [count EXCEPT ![i] = Incremented(i)]
    /\ ttl' = [ttl EXCEPT ![i] = Period]
    /\ Recorded(i)

\* Mutant: the window ends by the clock, whenever it began.
CheckAligned(i) ==
    /\ count' = [count EXCEPT ![i] = Incremented(i)]
    /\ ttl' = [ttl EXCEPT ![i] = [t \in Tiers |-> IF count[i][t] = 0 THEN 1 ELSE @[t]]]
    /\ Recorded(i)

Check(i) ==
    /\ count' = [count EXCEPT ![i] = Incremented(i)]
    /\ ttl' = [ttl EXCEPT ![i] = [t \in Tiers |-> IF count[i][t] = 0 THEN Period[t] ELSE @[t]]]
    /\ Recorded(i)

\* Redis expires keys.
Expire ==
    /\ count' = [i \in Identities |-> [t \in Tiers |-> IF ttl[i][t] <= 1 THEN 0 ELSE count[i][t]]]
    /\ ttl' = [i \in Identities |-> [t \in Tiers |-> IF ttl[i][t] = 0 THEN 0 ELSE ttl[i][t] - 1]]
    /\ age' = [i \in Identities |-> [t \in Tiers |-> IF ttl[i][t] <= 1 THEN 0 ELSE age[i][t] + 1]]
    /\ admitted' = [i \in Identities |->
                      {<<x[1] + 1, x[2]>> : x \in {y \in admitted[i] : y[1] + 1 \in Ages}}]

---------------------------------------------------------------------------
\* Any stretch of time as long as a window admits less than twice the limit, in
\* every tier, although windows begin wherever the requests put them (the
\* docstring of limiter.py: "up to ~2*limit" where windows meet).
NearTwiceTheLimit ==
    \A i \in Identities, t \in Tiers :
        Cardinality(Since(i, Period[t])) < 2 * Limit[t]

\* No tier counts, or refuses, for longer than its window after the first request
\* of it, even if the client never stops asking and the other tiers refuse it
\* meanwhile: requests that are refused count in every tier, but prolong none.
\* (With two tiers such a client may still never be admitted: while one refuses,
\* its requests fill the other.)
WindowsEnd ==
    \A i \in Identities, t \in Tiers : count[i][t] > 0 => age[i][t] < Period[t]
===========================================================================
