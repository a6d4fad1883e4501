------------------------------ MODULE MCGateway ----------------------------
(* Small instances of Gateway and RateLimiter. *)
EXTENDS Gateway, TLC

MCLimit == "win" :> 3 @@ "burst" :> 1
MCPeriod == "win" :> 4 @@ "burst" :> 2

\* Every combination of JWT, API key and transport, valid or not: in development
\* with files and a password for the documentation, in production with neither;
\* the limiter off and the sessions checked in some of them.
MCCandidates ==
    {[jwt |-> j, gate |-> g # "off", keySet |-> g = "key", transport |-> t, prod |-> e = "prod",
      docs |-> TRUE, docsPassword |-> e = "dev", storage |-> e = "dev",
      limit |-> j \/ e = "prod", checkSession |-> e = "prod"] :
        j \in BOOLEAN, g \in {"off", "key", "no_key"}, t \in Transports,
        e \in {"dev", "prod"}}
===========================================================================
