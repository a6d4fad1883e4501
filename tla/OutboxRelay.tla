---------------------------- MODULE OutboxRelay ---------------------------
(***************************************************************************)
(* The transactional outbox: UserService.create writes a user and its      *)
(* event in one transaction; the job outbox_relay, run by the scheduler's  *)
(* loops, publishes unpublished rows in three phases and marks them; the   *)
(* job outbox_cleanup deletes published rows.  A definition marked         *)
(* "Mutant" is a plausible bug in the definition after it; no              *)
(* specification uses it.                                                  *)
(***************************************************************************)
EXTENDS Scheduler, FiniteSets

CONSTANTS Events,
          Stamp,      \* Stamp[e]: created_at, set when the transaction begins;
                      \* transactions commit in any order and stamps may tie
          Poison,     \* events whose publish always raises
          BatchSize   \* settings.outbox_batch_size

ASSUME RelayAssumption ==
    /\ Stamp \in [Events -> Nat]
    /\ Poison \subseteq Events
    /\ BatchSize \in Nat \ {0}

VARIABLES users,  \* events whose user has been committed
          row,    \* row[e]: the outbox_messages row
          sent,   \* sent[e]: how often e was accepted by the broker
          relay   \* relay[w]: locals of run_once in worker w

relayVars == <<users, row, sent, relay>>
vars == <<loop, lock, faults, users, row, sent, relay>>

Rows == {"none", "pending", "published", "deleted"}
Run == [pc : {"idle", "fetch", "publish", "mark"}, todo : SUBSET Events, done : SUBSET Events]
NoRun == [pc |-> "idle", todo |-> {}, done |-> {}]

Init ==
    /\ SchedInit
    /\ users = {}
    /\ row = [e \in Events |-> "none"]
    /\ sent = [e \in Events |-> 0]
    /\ relay = [w \in Workers |-> NoRun]

Pending == {e \in Events : row[e] = "pending"}

---------------------------------------------------------------------------
\* Mutant: the event is committed in a transaction of its own, first.
CreateEventFirst(e) ==
    /\ row[e] = "none"
    /\ row' = [row EXCEPT ![e] = "pending"]
    /\ UNCHANGED <<schedVars, users, sent, relay>>

\* UserService.create: the user and the outbox row in one commit.
CreateUser(e) ==
    /\ e \notin users
    /\ users' = users \cup {e}
    /\ row' = [row EXCEPT ![e] = "pending"]
    /\ UNCHANGED <<schedVars, sent, relay>>

\* The job outbox_relay begins, with a relay of its own.
Begin(w) ==
    /\ StartJob(w)
    /\ relay' = [relay EXCEPT ![w] = [NoRun EXCEPT !.pc = "fetch"]]
    /\ UNCHANGED <<users, row, sent>>

\* The first rows by created_at; among equal stamps the database chooses.
Oldest(S) ==
    /\ S \subseteq Pending
    /\ \A e \in S, f \in Pending \ S : Stamp[e] <= Stamp[f]
    /\ \/ Cardinality(S) = BatchSize
       \/ S = Pending /\ Cardinality(S) < BatchSize

EndRun(w) == relay' = [relay EXCEPT ![w] = NoRun]

\* Phase 1: fetch_unpublished(limit) in a transaction of its own.
Fetch(w) ==
    /\ loop[w] = "job" /\ relay[w].pc = "fetch"
    /\ \E S \in SUBSET Pending :
        /\ Oldest(S)
        /\ \/ /\ S # {}
              /\ relay' = [relay EXCEPT ![w].pc = "publish", ![w].todo = S]
              /\ UNCHANGED loop
           \/ S = {} /\ EndJob(w) /\ EndRun(w)
    /\ UNCHANGED <<lock, faults, users, row, sent>>

\* Mutant: a row whose publish raised is marked like the others.
PublishMarksFailed(w, e) ==
    LET todo == relay[w].todo \ {e}
    IN  /\ loop[w] = "job" /\ relay[w].pc = "publish" /\ e \in relay[w].todo
        /\ sent' = IF e \in Poison THEN sent ELSE [sent EXCEPT ![e] = @ + 1]
        /\ relay' = [relay EXCEPT ![w] = [pc |-> IF todo = {} THEN "mark" ELSE "publish",
                                         todo |-> todo, done |-> @.done \cup {e}]]
        /\ UNCHANGED <<schedVars, users, row>>

\* Mutant: the first exception ends the loop over the batch.
PublishStopsAtError(w, e) ==
    LET todo == IF e \in Poison THEN {} ELSE relay[w].todo \ {e}
    IN  /\ loop[w] = "job" /\ relay[w].pc = "publish" /\ e \in relay[w].todo
        /\ \A f \in todo : Stamp[e] <= Stamp[f]
        /\ sent' = IF e \in Poison THEN sent ELSE [sent EXCEPT ![e] = @ + 1]
        /\ relay' = [relay EXCEPT ![w] = [pc |-> IF todo = {} THEN "mark" ELSE "publish",
                                         todo |-> todo,
                                         done |-> IF e \in Poison THEN @.done ELSE @.done \cup {e}]]
        /\ UNCHANGED <<schedVars, users, row>>

\* Phase 2: one publish.  Its exception is caught and the row left unmarked; the
\* broker may have taken the event all the same.
Publish(w, e) ==
    LET todo == relay[w].todo \ {e}
        pc == IF todo = {} THEN "mark" ELSE "publish"
        taken == [sent EXCEPT ![e] = @ + 1]
    IN  /\ loop[w] = "job" /\ relay[w].pc = "publish"
        /\ e \in relay[w].todo
        /\ \A f \in todo : Stamp[e] <= Stamp[f]
        /\ \/ /\ e \notin Poison
              /\ sent' = taken
              /\ relay' = [relay EXCEPT ![w] = [pc |-> pc, todo |-> todo, done |-> @.done \cup {e}]]
              /\ UNCHANGED faults
           \/ /\ \/ e \in Poison /\ UNCHANGED <<faults, sent>>
                 \/ e \notin Poison /\ Fault /\ sent' \in {sent, taken}
              /\ relay' = [relay EXCEPT ![w].pc = pc, ![w].todo = todo]
        /\ UNCHANGED <<loop, lock, users, row>>

\* Mutant: phase 3 does not commit.
MarkUncommitted(w) ==
    /\ loop[w] = "job" /\ relay[w].pc = "mark"
    /\ EndJob(w) /\ EndRun(w)
    /\ UNCHANGED <<faults, users, row, sent>>

\* Phase 3: mark_published(sent_ids) in a transaction of its own; rows that
\* are already deleted are not matched by the UPDATE.
Mark(w) ==
    /\ loop[w] = "job" /\ relay[w].pc = "mark"
    /\ row' = [e \in Events |->
                IF e \in relay[w].done /\ row[e] # "deleted" THEN "published" ELSE row[e]]
    /\ EndJob(w) /\ EndRun(w)
    /\ UNCHANGED <<faults, users, sent>>

\* A database error in phase 1 or 3 leaves run_once; the scheduler logs it.
RunFails(w) ==
    /\ Fault
    /\ relay[w].pc \in {"fetch", "mark"}
    /\ EndJob(w) /\ EndRun(w)
    /\ UNCHANGED <<users, row, sent>>

\* outbox_cleanup: published rows past their retention are deleted.
Cleanup(S) ==
    /\ S # {} /\ \A e \in S : row[e] = "published"
    /\ row' = [e \in Events |-> IF e \in S THEN "deleted" ELSE row[e]]
    /\ UNCHANGED <<schedVars, users, sent, relay>>

---------------------------------------------------------------------------
\* Steps of the scheduler alone; a cancelled or killed run leaves no trace
\* but what it has published.
Unlock(w) == Release(w) /\ UNCHANGED relayVars
LoopDies(w) == LockCallFails(w) /\ UNCHANGED relayVars
Cancel(w) == Stop(w) /\ EndRun(w) /\ UNCHANGED <<users, row, sent>>
Kill(w) == Crash(w) /\ EndRun(w) /\ UNCHANGED <<users, row, sent>>
Boot(w) == Restart(w) /\ UNCHANGED relayVars
TtlPasses == LockExpires /\ UNCHANGED relayVars

Progress(w) ==
    \/ Begin(w) \/ Fetch(w) \/ (\E e \in Events : Publish(w, e)) \/ Mark(w)
    \/ Unlock(w) \/ Boot(w)

Next ==
    \/ \E e \in Events : CreateUser(e)
    \/ \E w \in Workers :
        Progress(w) \/ RunFails(w) \/ LoopDies(w) \/ Cancel(w) \/ Kill(w)
    \/ \E S \in SUBSET Events : Cleanup(S)
    \/ TtlPasses

Spec == Init /\ [][Next]_vars

\* Workers are restarted by the container runtime and their event loops run
\* on; a Redis TTL that is set runs out.
FairSpec == Spec /\ WF_vars(TtlPasses) /\ \A w \in Workers : WF_vars(Progress(w))

---------------------------------------------------------------------------
\* Properties.

\* Types; exactly the running jobs have locals, and an event row exists
\* exactly when its user does.
TypeOK ==
    /\ SchedTypeOK
    /\ users \in SUBSET Events
    /\ row \in [Events -> Rows]
    /\ sent \in [Events -> Nat]
    /\ relay \in [Workers -> Run]
    /\ \A w \in Workers : relay[w].pc # "idle" <=> loop[w] = "job"
    /\ \A e \in Events : row[e] # "none" <=> e \in users

D == INSTANCE Delivery WITH owed <- Pending, copies <- sent

\* Whatever crashes, overruns, broker and database errors happen, a committed
\* user's event is owed until the broker has taken it, and nothing is
\* published for a user that was not committed.
ImplementsDelivery == D!Spec

\* Only a fault makes the relay publish an event again, and each makes it do
\* so once at most, while no run outlives the lock's TTL: without a fault two
\* workers and the ordering of the three phases keep it at exactly one.
RepeatsNeedFaults == \A e \in Events : sent[e] <= 1 + faults

\* models/outbox.py: a committed event is published in the end, even behind
\* fewer failing rows than a batch holds, unless every relay loop has died.
EventsArePublished ==
    \A e \in Events \ Poison :
        (row[e] = "pending") ~> (sent[e] > 0 \/ \A w \in Workers : loop[w] = "dead")

\* The lock is not held forever by a worker that died with it.
LockComesBack == \A w \in Workers : (lock = w) ~> (lock # w)
===========================================================================
