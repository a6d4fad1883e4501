------------------------------ MODULE Lifespan -----------------------------
(***************************************************************************)
(* The start and stop of the web processes (core/lifespan) around the      *)
(* broker and its consumers: which resources are open at every step, and   *)
(* the handlers that open them lazily.                                     *)
(***************************************************************************)
EXTENDS Broker

CONSTANTS MaxStops,  \* bound: graceful stops, failed starts and crashes
          MaxEvents  \* bound: messages from the outbox relay

ASSUME LifespanAssumption == MaxStops \in Nat /\ MaxEvents \in Nat

VARIABLES stage,   \* stage[p]: what lifespan() of process p does next
          open,    \* open[p]: the resources of p that have been opened
          stops    \* stops so far, of either kind

vars == <<backend, subs, failed, assigned, known, log, msg, running, breaks, ends,
          stage, open, stops>>

Stages == {"down", "connect", "register", "storage", "serving",
           "disconnect", "close_storage", "close_client", "close_redis"}
Resources == {"redis", "broker", "storage", "client"}

Init ==
    /\ BrokerInit
    /\ stage = [p \in Web |-> "down"]
    /\ open = [p \in Web |-> {}]
    /\ stops = 0

At(p, s) == stage[p] = s
Go(p, s, resources) ==
    /\ stage' = [stage EXCEPT ![p] = s]
    /\ open' = [open EXCEPT ![p] = resources]

---------------------------------------------------------------------------
\* Start: Redis is pinged, the broker connected, the consumers registered one
\* by one, the storage connected; then requests are served.
Ping(p) ==
    /\ At(p, "down")
    /\ Go(p, "connect", {"redis"})
    /\ UNCHANGED <<brokerVars, stops>>

Connect(p) ==
    /\ At(p, "connect")
    /\ Go(p, "register", open[p] \cup {"broker"})
    /\ UNCHANGED <<brokerVars, stops>>

Order == SelectSeq(<<"notifications", "users-audit", "users-welcome">>, LAMBDA g : g \in Groups)

Register(p) ==
    LET n == Cardinality(subs[p]) + 1
    IN  /\ At(p, "register")
        /\ Subscribe(p, Order[n])
        /\ Go(p, IF n = Len(Order) THEN "storage" ELSE "register", open[p])
        /\ UNCHANGED stops

ConnectStorage(p) ==
    /\ At(p, "storage")
    /\ Go(p, "serving", open[p] \cup {"storage"})
    /\ UNCHANGED <<brokerVars, stops>>

---------------------------------------------------------------------------
\* POST /notifications, and the outbox relay of the worker.
QueueNotification(p) ==
    /\ At(p, "serving")
    /\ Publish("notifications.send", {p})
    /\ UNCHANGED <<stage, open, stops>>

RelayUserCreated ==
    /\ Cardinality({n \in DOMAIN log : log[n] = "users.created"}) < MaxEvents
    /\ Publish("users.created", {})
    /\ UNCHANGED <<stage, open, stops>>

\* The handlers get their clients from singletons that are created when absent.
Needs(g) == CASE g = "notifications" -> {"client"}
              [] g = "users-audit"   -> {"redis"}
              [] g = "users-welcome" -> {}

Handle(p, g, n) ==
    /\ Take(p, g, n)
    /\ open' = [open EXCEPT ![p] = @ \cup Needs(g)]
    /\ UNCHANGED <<stage, stops>>

Deliver(p) ==
    /\ \E g \in Groups : \/ Assign(p, g)
                         \/ assigned[g] = {p} /\ Commit(g)
                         \/ \E n \in Numbers : Finish(p, g, n) \/ Ack(p, g, n)
    /\ UNCHANGED <<stage, open, stops>>

\* The broker takes deliveries of a living process back.
Break(p) ==
    /\ Drop(p) \/ \E g \in Groups : Rebalance(p, g) \/ Fail(p, g)
    /\ UNCHANGED <<stage, open, stops>>

---------------------------------------------------------------------------
\* SIGTERM: the requests are finished, then the shutdown begins.
Stop(p) ==
    /\ At(p, "serving")
    /\ stops < MaxStops
    /\ Go(p, "disconnect", open[p])
    /\ stops' = stops + 1
    /\ UNCHANGED brokerVars

DisconnectBroker(p) ==
    /\ At(p, "disconnect")
    /\ Disconnect(p)
    /\ Go(p, "close_storage", open[p] \ {"broker"})
    /\ UNCHANGED stops

CloseStorage(p) ==
    /\ At(p, "close_storage")
    /\ Go(p, "close_client", open[p] \ {"storage"})
    /\ UNCHANGED <<brokerVars, stops>>

CloseClient(p) ==
    /\ At(p, "close_client")
    /\ Go(p, "close_redis", open[p] \ {"client"})
    /\ UNCHANGED <<brokerVars, stops>>

\* ... and the engine's pool, which no consumer uses.
CloseRedis(p) ==
    /\ At(p, "close_redis")
    /\ Go(p, "down", open[p] \ {"redis"})
    /\ UNCHANGED <<brokerVars, stops>>

\* The process dies: killed, or a start that raises, for which the shutdown half
\* of lifespan() does not run, or a step of the shutdown that raises, after which
\* the others do not.
Crash(p) ==
    /\ ~At(p, "down")
    /\ stops < MaxStops
    /\ Leave(p)
    /\ Go(p, "down", {})
    /\ stops' = stops + 1

Start(p) == Ping(p) \/ Connect(p) \/ Register(p) \/ ConnectStorage(p)
Shutdown(p) == DisconnectBroker(p) \/ CloseStorage(p) \/ CloseClient(p) \/ CloseRedis(p)

Next ==
    \/ RelayUserCreated
    \/ \E p \in Web :
        \/ Start(p) \/ QueueNotification(p) \/ Deliver(p) \/ Break(p)
        \/ \E g \in Groups, n \in Numbers : Handle(p, g, n)
        \/ Stop(p) \/ Shutdown(p) \/ Crash(p)

Spec == Init /\ [][Next]_vars

\* The orchestrator restarts processes, the event loop resumes tasks, handlers
\* end (their clients have timeouts), kafka assigns partitions.  Nobody must
\* publish, stop or crash, and nothing break.
FairSpec ==
    /\ Spec
    /\ \A p \in Web :
        /\ WF_vars(Start(p)) /\ WF_vars(Shutdown(p))
        /\ \A g \in Groups :
            /\ WF_vars(Assign(p, g) /\ UNCHANGED <<stage, open, stops>>)
            /\ \A n \in Numbers :
                /\ WF_vars(Handle(p, g, n))
                /\ WF_vars(Finish(p, g, n) /\ UNCHANGED <<stage, open, stops>>)

---------------------------------------------------------------------------
\* Types; a partition is in a process that consumes its group, and a process
\* has subscribed exactly what its stage says.
TypeOK ==
    /\ backend \in Backends
    /\ subs \in [Web -> SUBSET Groups] /\ failed \in [Web -> SUBSET Groups]
    /\ assigned \in [Groups -> SUBSET Web] /\ \A g \in Groups : Cardinality(assigned[g]) <= 1
    /\ known \subseteq Groups
    /\ log \in Seq(Topics) /\ Len(log) <= MaxMessages
    /\ msg \in [Groups -> [Numbers -> Copy]]
    /\ running \in [Web -> SUBSET (Groups \X Numbers)]
    /\ ends \in 0..stops /\ breaks \in ends..(MaxBreaks + ends) /\ stops \in 0..MaxStops
    /\ stage \in [Web -> Stages] /\ open \in [Web -> SUBSET Resources]
    /\ \A p \in Web, g \in Groups : assigned[g] = {p} => g \in subs[p] \ failed[p]
    /\ \A p \in Web : /\ stage[p] \in {"storage", "serving", "disconnect"} => subs[p] = Groups
                      /\ stage[p] \in {"down", "connect"} => subs[p] = {} /\ Busy(p) = {}

\* A graceful stop closes everything: no handler is left that would open Redis or
\* the message client again after lifespan() has closed them.
NothingLeftOpen ==
    \A p \in Web : /\ At(p, "down") => open[p] = {}
                   /\ "broker" \notin open[p] => Busy(p) = {}

\* Every message that a group is owed is handled to its end, independently in
\* every group and however often processes stop, connections break and handlers
\* raise, but for the ones that LossesAreInFlight lets a broker lose; a kafka
\* group may stop for ever only when its consumer task has failed in every process.
EveryGroupHandles ==
    \A g \in Groups, n \in Numbers :
        \/ <>[](\A p \in Web : g \in failed[p])
        \/ msg[g][n].st = "waiting" ~> msg[g][n].handled \/ n \in Lost(g)
===========================================================================
