------------------------------- MODULE Broker ------------------------------
(***************************************************************************)
(* Messages and consumer groups over the three brokers of broker/factory:  *)
(* asyncio tasks of one process (memory), a log with offsets that are      *)
(* committed in the background (kafka), one queue per group with an        *)
(* acknowledgement after the handler (rabbitmq).  Users' events come from  *)
(* the worker's outbox relay, notifications from a web process; only web   *)
(* processes subscribe.                                                    *)
(*                                                                         *)
(* What the brokers' servers and clients do is modelled from how the code  *)
(* uses them: one partition per topic; a group without a committed offset  *)
(* begins at the end of the log; unacknowledged messages of a lost         *)
(* connection go back to their queue, the callbacks of its channel are     *)
(* cancelled, and connect_robust connects and consumes again; a partition  *)
(* may be taken away from a consumer whose handler runs on.  A definition  *)
(* marked "Mutant" is a plausible bug in the definition after it; no       *)
(* specification uses it.                                                  *)
(***************************************************************************)
EXTENDS Naturals, Sequences, FiniteSets

CONSTANTS Web,          \* web processes
          Groups,       \* the consumer groups that are registered
          MaxMessages,  \* bound: messages published in one behaviour
          MaxBreaks     \* bound: breaks after which no living process loses a delivery

ASSUME BrokerAssumption ==
    /\ Groups \subseteq {"notifications", "users-audit", "users-welcome"}
    /\ MaxMessages \in Nat /\ MaxBreaks \in Nat

VARIABLES backend,   \* settings.broker_type
          subs,      \* subs[p]: groups that process p has subscribed
          failed,    \* kafka: failed[p], groups whose consumer task has ended while p lives
          assigned,  \* kafka: assigned[g], the process that has g's partition, as a set
          known,     \* groups with a queue (rabbitmq) or a committed offset (kafka)
          log,       \* topics of the messages published, in order
          msg,       \* msg[g][n]: the n-th message as the broker has it for group g
          running,   \* running[p]: group and number of the messages p's handlers work on
          breaks,    \* deliveries taken back: processes that ended, connections lost,
                     \* partitions taken away, consumer tasks that failed
          ends       \* the breaks that were ends of a consumers' process

brokerVars == <<backend, subs, failed, assigned, known, log, msg, running, breaks, ends>>

Backends == {"memory", "kafka", "rabbitmq"}
Topics == {"notifications.send", "users.created"}
TopicOf(g) == IF g = "notifications" THEN "notifications.send" ELSE "users.created"

\* missed: the group did not exist for the broker when n was published.
\* out: delivered, not acknowledged.  done: never to be delivered again.
States == {"none", "missed", "waiting", "out", "done"}

\* by: to which process it is delivered.  kept: the group had a queue or a
\* committed offset when it was published.  starts: how often a handler has
\* begun with it.  handled: one has come to its end.
Copy == [st : States, by : SUBSET Web, kept : BOOLEAN, starts : Nat, handled : BOOLEAN]
NoCopy == [st |-> "none", by |-> {}, kept |-> FALSE, starts |-> 0, handled |-> FALSE]

Numbers == 1..MaxMessages

BrokerInit ==
    /\ backend \in Backends
    /\ subs = [p \in Web |-> {}]
    /\ failed = [p \in Web |-> {}]
    /\ assigned = [g \in Groups |-> {}]
    /\ known = {}
    /\ log = <<>>
    /\ msg = [g \in Groups |-> [n \in Numbers |-> NoCopy]]
    /\ running = [p \in Web |-> {}]
    /\ breaks = 0
    /\ ends = 0

\* The messages of g that nobody will handle although g was owed them.
Lost(g) == {n \in Numbers : /\ msg[g][n].st = "done" /\ ~msg[g][n].handled
                            /\ \A p \in Web : <<g, n>> \notin running[p]}

RunsNone(p, g) == \A n \in Numbers : <<g, n>> \notin running[p]
Busy(p) == running[p] \cup {x \in Groups \X Numbers : msg[x[1]][x[2]].by = {p}}

---------------------------------------------------------------------------
\* What group g gets of a message published by process p (none: the worker).
\* The memory broker only knows the handlers of its own process.
CopyFor(g, ps) ==
    IF backend = "memory"
      THEN IF \E p \in ps : g \in subs[p]
             THEN [NoCopy EXCEPT !.st = "waiting", !.by = ps, !.kept = TRUE]
             ELSE [NoCopy EXCEPT !.st = "missed"]
      ELSE IF g \in known \/ assigned[g] # {}
             THEN [NoCopy EXCEPT !.st = "waiting", !.kept = g \in known]
             ELSE [NoCopy EXCEPT !.st = "missed"]

\* Broker.publish, to every group of the topic.
Publish(topic, ps) ==
    /\ Len(log) < MaxMessages
    /\ log' = Append(log, topic)
    /\ msg' = [g \in Groups |->
                 IF TopicOf(g) = topic THEN [msg[g] EXCEPT ![Len(log) + 1] = CopyFor(g, ps)]
                                       ELSE msg[g]]
    /\ UNCHANGED <<backend, subs, failed, assigned, known, running, breaks, ends>>

\* subscribe: RabbitMQ declares and binds the group's queue, Kafka starts a task.
Subscribe(p, g) ==
    /\ subs' = [subs EXCEPT ![p] = @ \cup {g}]
    /\ known' = IF backend = "rabbitmq" THEN known \cup {g} ELSE known
    /\ UNCHANGED <<backend, failed, assigned, log, msg, running, breaks, ends>>

\* Kafka gives the partition to one consumer of the group.
Assign(p, g) ==
    /\ backend = "kafka"
    /\ g \in subs[p] \ failed[p] /\ assigned[g] = {}
    /\ assigned' = [assigned EXCEPT ![g] = {p}]
    /\ UNCHANGED <<backend, subs, failed, known, log, msg, running, breaks, ends>>

MayTake(p, g, n) ==
    CASE backend = "memory"   -> msg[g][n].by = {p}
      [] backend = "rabbitmq" -> g \in subs[p]
      [] backend = "kafka"    -> /\ g \in subs[p] /\ assigned[g] = {p} /\ RunsNone(p, g)
                                 /\ \A k \in Numbers : msg[g][k].st = "waiting" => n <= k

Begun(c, st, ps) == [c EXCEPT !.st = st, !.by = ps, !.starts = c.starts + 1]

Run(p, g, n) ==
    /\ running' = [running EXCEPT ![p] = @ \cup {<<g, n>>}]
    /\ UNCHANGED <<backend, subs, failed, assigned, known, log, breaks, ends>>

\* Mutant: the message is acknowledged when it arrives.
TakeAcked(p, g, n) ==
    /\ msg[g][n].st = "waiting" /\ MayTake(p, g, n)
    /\ msg' = [msg EXCEPT ![g][n] = Begun(@, "done", {})]
    /\ Run(p, g, n)

\* Mutant: the consumers of a group do not share its messages.
TakeShared(p, g, n) ==
    /\ msg[g][n].st \in {"waiting", "out"} /\ msg[g][n].by # {p} /\ g \in subs[p]
    /\ msg' = [msg EXCEPT ![g][n] = Begun(@, "out", {p})]
    /\ Run(p, g, n)

\* A handler begins, in a task of its own or in the group's consumer task; a
\* task of the memory broker was all there is of its message.
Take(p, g, n) ==
    /\ msg[g][n].st = "waiting"
    /\ MayTake(p, g, n)
    /\ msg' = [msg EXCEPT ![g][n] =
                 IF backend = "memory" THEN Begun(@, "done", {}) ELSE Begun(@, "out", {p})]
    /\ Run(p, g, n)

\* Mutant: an exception of the handler leaves the consumer's loop.
FinishUncaught(p, g, n) ==
    /\ <<g, n>> \in running[p]
    /\ running' = [running EXCEPT ![p] = @ \ {<<g, n>>}]
    /\ msg' = [msg EXCEPT ![g][n].handled = TRUE]
    /\ subs' \in {subs, [subs EXCEPT ![p] = @ \ {g}]}
    /\ UNCHANGED <<backend, failed, assigned, known, log, breaks, ends>>

\* The handler returns, or raises, or the payload is invalid (EventBus): in any
\* case the message is done with, and an exception only logged.
Finish(p, g, n) ==
    /\ <<g, n>> \in running[p]
    /\ running' = [running EXCEPT ![p] = @ \ {<<g, n>>}]
    /\ msg' = [msg EXCEPT ![g][n].handled = TRUE]
    /\ UNCHANGED <<backend, subs, failed, assigned, known, log, breaks, ends>>

\* RabbitMQ, message.process(): the acknowledgement follows the handler.
Ack(p, g, n) ==
    /\ backend = "rabbitmq"
    /\ msg[g][n].st = "out" /\ msg[g][n].by = {p} /\ <<g, n>> \notin running[p]
    /\ msg' = [msg EXCEPT ![g][n] = [@ EXCEPT !.st = "done", !.by = {}]]
    /\ UNCHANGED <<backend, subs, failed, assigned, known, log, running, breaks, ends>>

\* Kafka, enable_auto_commit: every few seconds, before a rebalance the consumer
\* takes part in, and when it stops, the position is committed; it is past the
\* message that is being handled.
Commit(g) ==
    /\ backend = "kafka"
    /\ assigned[g] # {}
    /\ known' = known \cup {g}
    /\ msg' = [msg EXCEPT ![g] =
                 [n \in Numbers |-> IF @[n].st = "out" THEN [@[n] EXCEPT !.st = "done", !.by = {}]
                                                       ELSE @[n]]]
    /\ UNCHANGED <<backend, subs, failed, assigned, log, running, breaks, ends>>

---------------------------------------------------------------------------
\* What becomes of a message of group g when p's delivery is taken back: it is
\* delivered again unless it was a task of p, or the group is a kafka group that
\* has no offset yet and so begins anew at the end of the log.
Back(p, g, c) ==
    LET held == p \in c.by
        skipped == /\ backend = "kafka" /\ assigned[g] = {p} /\ g \notin known
                   /\ c.st \in {"waiting", "out"}
    IN  IF skipped \/ (held /\ backend = "memory") THEN [c EXCEPT !.by = {}, !.st = "done"]
        ELSE IF held THEN [c EXCEPT !.by = {}, !.st = "waiting"]
        ELSE c

TakeBack(p, gs) ==
    /\ assigned' = [g \in Groups |-> IF g \in gs THEN assigned[g] \ {p} ELSE assigned[g]]
    /\ msg' = [g \in Groups |-> [n \in Numbers |-> IF g \in gs THEN Back(p, g, msg[g][n])
                                                               ELSE msg[g][n]]]
    /\ breaks' = breaks + 1
    /\ UNCHANGED <<backend, known, log>>

\* The process, or its part in the broker, ends.
Leave(p) ==
    /\ TakeBack(p, Groups)
    /\ subs' = [subs EXCEPT ![p] = {}]
    /\ failed' = [failed EXCEPT ![p] = {}]
    /\ running' = [running EXCEPT ![p] = {}]
    /\ ends' = ends + 1

\* The connection to RabbitMQ is lost and, connect_robust, made again.
Drop(p) ==
    /\ backend = "rabbitmq"
    /\ subs[p] # {}
    /\ breaks < MaxBreaks
    /\ TakeBack(p, Groups)
    /\ running' = [running EXCEPT ![p] = {}]
    /\ UNCHANGED <<subs, failed, ends>>

\* Kafka takes the partition away: another consumer comes, or p is silent too
\* long.  The handler that p runs goes on.
Rebalance(p, g) ==
    /\ backend = "kafka"
    /\ assigned[g] = {p}
    /\ breaks < MaxBreaks
    /\ TakeBack(p, {g})
    /\ UNCHANGED <<subs, failed, running, ends>>

\* The consumer's start, its iteration or a deserialization raises: the task that
\* subscribe has started ends, and nobody looks at its result.
Fail(p, g) ==
    /\ backend = "kafka"
    /\ g \in subs[p] \ failed[p]
    /\ RunsNone(p, g)
    /\ breaks < MaxBreaks
    /\ failed' = [failed EXCEPT ![p] = @ \cup {g}]
    /\ TakeBack(p, {g})
    /\ UNCHANGED <<subs, running, ends>>

\* Mutant: memory.disconnect does not wait for the tasks it has started.
DisconnectAtOnce(p) ==
    IF backend = "memory"
      THEN /\ subs' = [subs EXCEPT ![p] = {}]
           /\ UNCHANGED <<backend, failed, assigned, known, log, msg, running, breaks, ends>>
      ELSE Leave(p)

\* disconnect: memory waits for its tasks (gather); kafka cancels the consumer
\* tasks, which only stop their consumers then, rabbitmq closes the connection.
Disconnect(p) ==
    IF backend = "memory"
      THEN /\ Busy(p) = {}
           /\ subs' = [subs EXCEPT ![p] = {}]
           /\ UNCHANGED <<backend, failed, assigned, known, log, msg, running, breaks, ends>>
      ELSE Leave(p)

---------------------------------------------------------------------------
\* Handlers begin with one message more than once only if its delivery was taken
\* back in between, once for each time: by the end of a process, a connection
\* lost or a rebalance.  Replicas share the messages of a group.
RepeatsNeedBreaks ==
    \A g \in Groups, n \in Numbers : msg[g][n].starts <= 1 + breaks

\* RabbitMQ loses no message.  Kafka loses, of those published once a group has
\* a committed offset, at most one in each group for every process that ends,
\* however often partitions move and consumers fail; of the ones before (not
\* kept) it may lose any number.  The in-memory broker loses none in a graceful
\* stop, whose disconnect waits for the deliveries that publish has started.
LossesAreInFlight ==
    \A g \in Groups :
        /\ backend = "rabbitmq" => Lost(g) = {}
        /\ backend = "kafka" => Cardinality({n \in Lost(g) : msg[g][n].kept}) <= ends
        /\ backend = "memory" /\ ends = 0 => Lost(g) = {}
===========================================================================
