------------------------- MODULE OutboxRelay_proofs ------------------------
(***************************************************************************)
(* Theorems about OutboxRelay for any number of workers, events and faults *)
(* and any size of a batch.                                                *)
(***************************************************************************)
EXTENDS OutboxRelay, TLAPS

\* Without a run there are no locals; a run handles rows of committed users, and
\* what it will mark has been published.
RunsKnown ==
    \A w \in Workers :
        /\ relay[w].pc = "idle" => relay[w] = NoRun
        /\ relay[w].pc = "fetch" => relay[w].todo = {} /\ relay[w].done = {}
        /\ relay[w].pc = "mark" => relay[w].todo = {}
        /\ relay[w].todo \cup relay[w].done \subseteq users
        /\ \A e \in relay[w].done : sent[e] > 0

RelayInv == TypeOK /\ RunsKnown

\* A run that cannot outlive its lock has it.
RunnerLocks == ~Overruns => \A w \in Workers : Running(w) => lock = w

\* A pending row that no run is about to mark was published at most once for each
\* fault, and any row once more than that; what a run has yet to publish is pending.
RepeatsCounted ==
    /\ \A e \in Events : sent[e] <= 1 + faults
    /\ \A e \in Events : row[e] = "none" => sent[e] = 0
    /\ \A e \in Pending : (\A w \in Workers : e \notin relay[w].done) => sent[e] <= faults
    /\ \A w \in Workers : \A e \in relay[w].todo : row[e] = "pending" /\ e \notin relay[w].done

USE SchedulerAssumption, RelayAssumption

---------------------------------------------------------------------------
\* Types and locals.
LEMMA InvInit == Init => RelayInv /\ RunnerLocks /\ RepeatsCounted
<1> SUFFICES ASSUME Init PROVE RelayInv /\ RunnerLocks /\ RepeatsCounted
    OBVIOUS
<1> USE DEF Init, SchedInit
<1>1. NoRun \in Run /\ NoRun.pc = "idle" /\ NoRun.todo = {} /\ NoRun.done = {}
    BY DEF NoRun, Run
<1>2. TypeOK
    BY <1>1 DEF TypeOK, SchedTypeOK, LoopStates, Rows
<1>3. RunsKnown
    BY <1>1 DEF RunsKnown
<1>4. RunnerLocks
    BY DEF RunnerLocks, Running
<1>5. RepeatsCounted
    BY <1>1 DEF RepeatsCounted, Pending
<1> QED BY <1>2, <1>3, <1>4, <1>5 DEF RelayInv

\* What the steps of a worker do to loops and locals.
LEMMA LoopTyped ==
    ASSUME SchedTypeOK, NEW w \in Workers, NEW st \in LoopStates, MoveTo(w, st)
    PROVE  /\ loop' \in [Workers -> LoopStates] /\ loop'[w] = st
           /\ \A v \in Workers : v # w => loop'[v] = loop[v]
BY DEF SchedTypeOK, MoveTo

\* Only w's locals change, and they fit its loop.
LEMMA LocalStep ==
    ASSUME RelayInv, NEW w \in Workers, NEW r \in Run, relay' = [relay EXCEPT ![w] = r],
           SchedTypeOK', UNCHANGED <<users, row>>,
           sent' \in [Events -> Nat], \A e \in Events : sent[e] <= sent'[e],
           \A v \in Workers : v # w => loop'[v] = loop[v],
           r.pc # "idle" <=> loop'[w] = "job",
           r.pc = "idle" => r = NoRun,
           r.pc = "fetch" => r.todo = {} /\ r.done = {},
           r.pc = "mark" => r.todo = {},
           r.todo \cup r.done \subseteq users,
           \A e \in r.done : sent'[e] > 0
    PROVE  RelayInv'
<1>0. relay \in [Workers -> Run] /\ relay'[w] = r /\ \A v \in Workers : v # w => relay'[v] = relay[v]
    BY DEF RelayInv, TypeOK
<1>1. TypeOK'
    BY <1>0 DEF RelayInv, TypeOK
<1>2. \A v \in Workers : \A e \in relay[v].done : e \in Events /\ sent[e] \in Nat /\ sent[e] > 0
    BY <1>0 DEF RelayInv, RunsKnown, TypeOK, Run
<1>3. RunsKnown'
    BY <1>0, <1>2 DEF RelayInv, RunsKnown
<1> QED BY <1>1, <1>3 DEF RelayInv

\* No locals change, and the loops that change have none.
LEMMA NoLocalStep ==
    ASSUME RelayInv, SchedTypeOK', UNCHANGED <<users, sent, relay>>,
           row' \in [Events -> Rows],
           \A e \in Events : row'[e] = "none" <=> row[e] = "none",
           \A w \in Workers : loop'[w] = "job" <=> loop[w] = "job"
    PROVE  RelayInv'
<1>1. TypeOK'
    BY DEF RelayInv, TypeOK
<1>2. RunsKnown'
    BY DEF RelayInv, RunsKnown
<1> QED BY <1>1, <1>2 DEF RelayInv

LEMMA InvStep == RelayInv /\ [Next]_vars => RelayInv'
<1> SUFFICES ASSUME RelayInv, [Next]_vars PROVE RelayInv'
    OBVIOUS
<1>0. /\ SchedTypeOK /\ users \in SUBSET Events /\ row \in [Events -> Rows]
      /\ sent \in [Events -> Nat] /\ relay \in [Workers -> Run]
      /\ \A w \in Workers : relay[w].pc # "idle" <=> loop[w] = "job"
      /\ \A e \in Events : row[e] # "none" <=> e \in users
    BY DEF RelayInv, TypeOK
<1>run. NoRun \in Run /\ NoRun.pc = "idle" /\ NoRun.todo = {} /\ NoRun.done = {}
    BY DEF NoRun, Run
<1>end. ASSUME NEW w \in Workers, NEW st \in LoopStates \ {"job"}, MoveTo(w, st), EndRun(w),
               lock' \in Workers \cup {NoWorker}, faults' \in 0..MaxFaults,
               UNCHANGED <<users, row, sent>>
        PROVE  RelayInv'
  <2>1. /\ loop' \in [Workers -> LoopStates] /\ loop'[w] = st
        /\ \A v \in Workers : v # w => loop'[v] = loop[v]
      BY <1>end, <1>0, LoopTyped
  <2>2. SchedTypeOK'
      BY <1>end, <2>1 DEF SchedTypeOK
  <2>3. relay' = [relay EXCEPT ![w] = NoRun] /\ sent' \in [Events -> Nat]
        /\ \A e \in Events : sent[e] <= sent'[e]
      BY <1>end, <1>0 DEF EndRun
  <2> QED BY <2>1, <2>2, <2>3, <1>end, <1>run, LocalStep
<1>alone. ASSUME NEW w \in Workers, NEW st \in LoopStates \ {"job"}, loop[w] # "job", MoveTo(w, st),
                 lock' \in Workers \cup {NoWorker}, faults' \in 0..MaxFaults, UNCHANGED relayVars
          PROVE  RelayInv'
  <2>1. /\ loop' \in [Workers -> LoopStates] /\ loop'[w] = st
        /\ \A v \in Workers : v # w => loop'[v] = loop[v]
      BY <1>alone, <1>0, LoopTyped
  <2>2. SchedTypeOK'
      BY <1>alone, <2>1 DEF SchedTypeOK
  <2> QED BY <2>1, <2>2, <1>alone, <1>0, NoLocalStep DEF relayVars
<1>1. ASSUME NEW e \in Events, CreateUser(e) PROVE RelayInv'
  <2>1. /\ e \notin users /\ users' = users \cup {e} /\ row' = [row EXCEPT ![e] = "pending"]
        /\ UNCHANGED <<loop, lock, faults, sent, relay>>
      BY <1>1 DEF CreateUser, schedVars
  <2>2. TypeOK'
      BY <2>1, <1>0 DEF TypeOK, SchedTypeOK, Rows
  <2>3. RunsKnown'
      BY <2>1 DEF RelayInv, RunsKnown
  <2> QED BY <2>2, <2>3 DEF RelayInv
<1>2. ASSUME NEW w \in Workers, Begin(w) PROVE RelayInv'
  <2> DEFINE r == [NoRun EXCEPT !.pc = "fetch"]
  <2>1. r \in Run /\ r.pc = "fetch" /\ r.todo = {} /\ r.done = {}
      BY DEF NoRun, Run
  <2>2. /\ MoveTo(w, "job") /\ lock' = w /\ faults' = faults /\ relay' = [relay EXCEPT ![w] = r]
        /\ UNCHANGED <<users, row, sent>>
      BY <1>2 DEF Begin, StartJob
  <2> HIDE DEF r
  <2>3. /\ loop' \in [Workers -> LoopStates] /\ loop'[w] = "job"
        /\ \A v \in Workers : v # w => loop'[v] = loop[v]
      BY <2>2, <1>0, LoopTyped DEF LoopStates
  <2>4. SchedTypeOK'
      BY <2>2, <2>3, <1>0 DEF SchedTypeOK
  <2>5. sent' \in [Events -> Nat] /\ \A e \in Events : sent[e] <= sent'[e]
      BY <2>2, <1>0
  <2> QED BY <2>1, <2>2, <2>3, <2>4, <2>5, LocalStep
<1>3. ASSUME NEW w \in Workers, Fetch(w) PROVE RelayInv'
  <2>1. PICK S \in SUBSET Pending :
          \/ /\ S # {} /\ relay' = [relay EXCEPT ![w].pc = "publish", ![w].todo = S]
             /\ UNCHANGED loop
          \/ S = {} /\ EndJob(w) /\ EndRun(w)
      BY <1>3 DEF Fetch
  <2>2. loop[w] = "job" /\ relay[w].pc = "fetch" /\ UNCHANGED <<lock, faults, users, row, sent>>
      BY <1>3 DEF Fetch
  <2>3. CASE relay' = [relay EXCEPT ![w].pc = "publish", ![w].todo = S] /\ UNCHANGED loop
    <3> DEFINE r == [relay[w] EXCEPT !.pc = "publish", !.todo = S]
    <3>1. S \subseteq users /\ relay[w].done = {} /\ relay[w] \in Run
        BY <2>2, <1>0 DEF Pending, RelayInv, RunsKnown
    <3>2. r \in Run /\ r.pc = "publish" /\ r.todo = S /\ r.done = {}
        BY <3>1, <1>0 DEF Run
    <3>3. relay' = [relay EXCEPT ![w] = r]
        BY <2>3
    <3> HIDE DEF r
    <3>4. SchedTypeOK' /\ sent' \in [Events -> Nat] /\ \A e \in Events : sent[e] <= sent'[e]
        BY <2>2, <2>3, <1>0 DEF SchedTypeOK
    <3> QED BY <3>1, <3>2, <3>3, <3>4, <2>2, <2>3, LocalStep
  <2>4. CASE EndJob(w) /\ EndRun(w)
    <3>1. MoveTo(w, "unlock") /\ lock' = lock
        BY <2>4 DEF EndJob
    <3> QED BY <3>1, <2>2, <2>4, <1>0, <1>end DEF SchedTypeOK, LoopStates
  <2> QED BY <2>1, <2>3, <2>4
<1>4. ASSUME NEW w \in Workers, NEW e \in Events, Publish(w, e) PROVE RelayInv'
  <2> DEFINE todo == relay[w].todo \ {e}
             pc == IF todo = {} THEN "mark" ELSE "publish"
             sentOk == [pc |-> pc, todo |-> todo, done |-> relay[w].done \cup {e}]
             failed == [relay[w] EXCEPT !.pc = pc, !.todo = todo]
  <2>1. /\ loop[w] = "job" /\ e \in relay[w].todo /\ UNCHANGED <<loop, lock, users, row>>
        /\ relay[w] \in Run /\ relay[w].todo \cup relay[w].done \subseteq users
        /\ \A f \in relay[w].done : sent[f] > 0
      BY <1>4, <1>0 DEF Publish, RelayInv, RunsKnown
  <2>2. \/ /\ sent' = [sent EXCEPT ![e] = @ + 1] /\ relay' = [relay EXCEPT ![w] = sentOk]
           /\ UNCHANGED faults
        \/ /\ sent' = sent \/ sent' = [sent EXCEPT ![e] = @ + 1]
           /\ relay' = [relay EXCEPT ![w] = failed] /\ (faults' = faults \/ Fault)
      BY <1>4 DEF Publish
  <2>3. /\ pc \in {"mark", "publish"} /\ (pc = "mark" => todo = {})
        /\ todo \subseteq users /\ todo \subseteq relay[w].todo
      BY <2>1
  <2>4. faults' \in 0..MaxFaults
      BY <2>2, <1>0 DEF Fault, SchedTypeOK
  <2>5. SchedTypeOK'
      BY <2>4, <2>1, <1>0 DEF SchedTypeOK
  <2>6. /\ sentOk \in Run /\ sentOk.pc = pc /\ sentOk.todo = todo
        /\ sentOk.done = relay[w].done \cup {e}
      BY <2>1, <2>3 DEF Run
  <2>7. failed \in Run /\ failed.pc = pc /\ failed.todo = todo /\ failed.done = relay[w].done
      BY <2>1, <2>3 DEF Run
  <2> HIDE DEF sentOk, failed, pc, todo
  <2>8. CASE /\ sent' = [sent EXCEPT ![e] = @ + 1] /\ relay' = [relay EXCEPT ![w] = sentOk]
    <3>1. /\ sent' \in [Events -> Nat] /\ \A f \in Events : sent[f] <= sent'[f]
          /\ sent'[e] > 0
        BY <2>8, <1>0
    <3>2. \A f \in sentOk.done : sent'[f] > 0
        BY <3>1, <2>1, <2>6, <2>8, <1>0
    <3>3. /\ sentOk.todo \cup sentOk.done \subseteq users
          /\ sentOk.pc \notin {"idle", "fetch"} /\ (sentOk.pc = "mark" => sentOk.todo = {})
        BY <2>1, <2>3, <2>6
    <3> QED BY <3>1, <3>2, <3>3, <2>1, <2>5, <2>6, <2>8, LocalStep
  <2>9. CASE /\ sent' = sent \/ sent' = [sent EXCEPT ![e] = @ + 1]
             /\ relay' = [relay EXCEPT ![w] = failed]
    <3>0. \A f \in relay[w].done : f \in Events /\ sent[f] \in Nat
        BY <2>1, <1>0
    <3>1. sent' \in [Events -> Nat] /\ \A f \in Events : sent[f] <= sent'[f]
        BY <2>9, <1>0
    <3>2. /\ failed.todo \cup failed.done \subseteq users
          /\ failed.pc \notin {"idle", "fetch"} /\ (failed.pc = "mark" => failed.todo = {})
          /\ \A f \in failed.done : sent'[f] > 0
        BY <2>1, <2>3, <2>7, <3>0, <3>1
    <3> QED BY <3>1, <3>2, <2>1, <2>5, <2>7, <2>9, LocalStep
  <2> QED BY <2>2, <2>8, <2>9
<1>5. ASSUME NEW w \in Workers, Mark(w) PROVE RelayInv'
  <2>1. /\ row' = [e \in Events |->
                     IF e \in relay[w].done /\ row[e] # "deleted" THEN "published" ELSE row[e]]
        /\ loop[w] = "job" /\ MoveTo(w, "unlock") /\ relay' = [relay EXCEPT ![w] = NoRun]
        /\ UNCHANGED <<lock, faults, users, sent>>
      BY <1>5 DEF Mark, EndJob, EndRun
  <2>2. /\ loop' \in [Workers -> LoopStates] /\ loop'[w] = "unlock"
        /\ \A v \in Workers : v # w => loop'[v] = loop[v]
      BY <2>1, <1>0, LoopTyped DEF LoopStates
  <2>3. SchedTypeOK'
      BY <2>1, <2>2, <1>0 DEF SchedTypeOK
  <2>4. row' \in [Events -> Rows] /\ \A e \in Events : row'[e] # "none" <=> e \in users
      BY <2>1, <1>0 DEF Rows, RelayInv, RunsKnown
  <2>5. relay' \in [Workers -> Run] /\ \A v \in Workers : relay'[v].pc # "idle" <=> loop'[v] = "job"
      BY <2>1, <2>2, <1>0, <1>run
  <2>6. TypeOK'
      BY <2>1, <2>3, <2>4, <2>5, <1>0 DEF TypeOK
  <2>7. RunsKnown'
      BY <2>1, <1>0, <1>run DEF RelayInv, RunsKnown
  <2> QED BY <2>6, <2>7 DEF RelayInv
<1>6. ASSUME NEW w \in Workers, RunFails(w) PROVE RelayInv'
  <2>1. /\ MoveTo(w, "unlock") /\ lock' = lock /\ faults' \in 0..MaxFaults /\ EndRun(w)
        /\ UNCHANGED <<users, row, sent>>
      BY <1>6, <1>0 DEF RunFails, EndJob, Fault, SchedTypeOK
  <2> QED BY <2>1, <1>0, <1>end DEF SchedTypeOK, LoopStates
<1>7. ASSUME NEW w \in Workers, Unlock(w) \/ LoopDies(w) \/ Boot(w) PROVE RelayInv'
  <2>1. PICK st \in LoopStates \ {"job"} : MoveTo(w, st)
      BY <1>7 DEF Unlock, Release, LoopDies, LockCallFails, Boot, Restart, LoopStates
  <2>2. /\ loop[w] # "job" /\ lock' \in Workers \cup {NoWorker} /\ faults' \in 0..MaxFaults
        /\ UNCHANGED relayVars
      BY <1>7, <1>0 DEF Unlock, Release, LoopDies, LockCallFails, Boot, Restart, Fault, SchedTypeOK
  <2> QED BY <2>1, <2>2, <1>alone
<1>8. ASSUME NEW w \in Workers, Cancel(w) \/ Kill(w) PROVE RelayInv'
  <2>1. PICK st \in LoopStates \ {"job"} : MoveTo(w, st)
      BY <1>8 DEF Cancel, Stop, Kill, Crash, LoopStates
  <2>2. /\ lock' \in Workers \cup {NoWorker} /\ faults' \in 0..MaxFaults
        /\ EndRun(w) /\ UNCHANGED <<users, row, sent>>
      BY <1>8, <1>0 DEF Cancel, Stop, Kill, Crash, Fault, SchedTypeOK
  <2> QED BY <2>1, <2>2, <1>end
<1>9. ASSUME NEW S \in SUBSET Events, Cleanup(S) PROVE RelayInv'
  <2>1. /\ UNCHANGED <<loop, lock, faults, users, sent, relay>>
        /\ row' = [e \in Events |-> IF e \in S THEN "deleted" ELSE row[e]]
        /\ \A e \in S : row[e] = "published"
      BY <1>9 DEF Cleanup, schedVars
  <2>2. row' \in [Events -> Rows] /\ \A e \in Events : row'[e] = "none" <=> row[e] = "none"
      BY <2>1, <1>0 DEF Rows
  <2>3. SchedTypeOK'
      BY <2>1, <1>0 DEF SchedTypeOK
  <2> QED BY <2>1, <2>2, <2>3, NoLocalStep
<1>10. CASE TtlPasses
  <2>1. UNCHANGED <<loop, faults, users, row, sent, relay>> /\ lock' = NoWorker
      BY <1>10 DEF TtlPasses, LockExpires, relayVars
  <2>2. SchedTypeOK'
      BY <2>1, <1>0 DEF SchedTypeOK
  <2> QED BY <2>1, <2>2, <1>0, NoLocalStep
<1>11. CASE UNCHANGED vars
  <2>1. UNCHANGED <<loop, lock, faults, users, row, sent, relay>>
      BY <1>11 DEF vars
  <2>2. SchedTypeOK'
      BY <2>1, <1>0 DEF SchedTypeOK
  <2> QED BY <2>1, <2>2, <1>0, NoLocalStep
<1> QED BY <1>1, <1>2, <1>3, <1>4, <1>5, <1>6, <1>7, <1>8, <1>9, <1>10, <1>11 DEF Next, Progress

LEMMA InvAlways == Spec => []RelayInv
BY InvInit, InvStep, PTL DEF Spec

---------------------------------------------------------------------------
\* The outbox delivers.

\* A step that commits no user, publishes nothing and leaves the rows pending is
\* no step of Delivery.
LEMMA Silent ==
    ASSUME UNCHANGED <<users, sent>>, \A e \in Events : row'[e] = "pending" <=> row[e] = "pending"
    PROVE  UNCHANGED D!vars
<1>1. Pending' = Pending
    BY DEF Pending
<1> QED BY <1>1 DEF D!vars

LEMMA DeliveryStep == RelayInv /\ [Next]_vars => [D!Next]_(D!vars)
<1> SUFFICES ASSUME RelayInv, [Next]_vars PROVE D!Next \/ UNCHANGED D!vars
    OBVIOUS
<1>0. /\ users \in SUBSET Events /\ row \in [Events -> Rows]
      /\ sent \in [Events -> Nat] /\ relay \in [Workers -> Run]
      /\ \A e \in Events : row[e] # "none" <=> e \in users
    BY DEF RelayInv, TypeOK
<1>1. ASSUME NEW e \in Events, CreateUser(e) PROVE D!Next
  <2>1. /\ e \notin users /\ users' = users \cup {e} /\ sent' = sent
        /\ row' = [row EXCEPT ![e] = "pending"]
      BY <1>1 DEF CreateUser
  <2>2. Pending' = Pending \cup {e}
      BY <2>1, <1>0 DEF Pending
  <2>3. D!Accept(e)
      BY <2>1, <2>2 DEF D!Accept
  <2> QED BY <2>3 DEF D!Next
<1>2. ASSUME NEW w \in Workers, NEW e \in Events, Publish(w, e) PROVE D!Next \/ UNCHANGED D!vars
  <2>1. e \in users /\ UNCHANGED <<users, row>>
      BY <1>2 DEF Publish, RelayInv, RunsKnown
  <2>2. Pending' = Pending
      BY <2>1 DEF Pending
  <2>3. CASE sent' = [sent EXCEPT ![e] = @ + 1]
    <3>1. D!Deliver(e)
        BY <2>1, <2>2, <2>3 DEF D!Deliver
    <3> QED BY <3>1 DEF D!Next
  <2>4. CASE sent' = sent
      BY <2>1, <2>4, Silent
  <2> QED BY <1>2, <2>3, <2>4 DEF Publish
<1>3. ASSUME NEW w \in Workers, Mark(w) PROVE D!Next
  <2> DEFINE S == relay[w].done
  <2>1. /\ row' = [e \in Events |-> IF e \in S /\ row[e] # "deleted" THEN "published" ELSE row[e]]
        /\ UNCHANGED <<users, sent>>
      BY <1>3 DEF Mark
  <2>2. S \in SUBSET Events /\ \A e \in S : sent[e] > 0
      BY <1>0 DEF Run, RelayInv, RunsKnown
  <2> HIDE DEF S
  <2>3. Pending' = Pending \ S
      BY <2>1, <1>0 DEF Pending
  <2>4. D!Forget(S)
      BY <2>1, <2>2, <2>3 DEF D!Forget
  <2> QED BY <2>2, <2>4 DEF D!Next
<1>4. ASSUME NEW S \in SUBSET Events, Cleanup(S) PROVE UNCHANGED D!vars
  <2>1. /\ UNCHANGED <<users, sent>> /\ \A e \in S : row[e] = "published"
        /\ row' = [e \in Events |-> IF e \in S THEN "deleted" ELSE row[e]]
      BY <1>4 DEF Cleanup
  <2>2. \A e \in Events : row'[e] = "pending" <=> row[e] = "pending"
      BY <2>1
  <2> QED BY <2>1, <2>2, Silent
<1>5. ASSUME UNCHANGED <<users, row, sent>> PROVE UNCHANGED D!vars
    BY <1>5, Silent
<1>6. ASSUME NEW w \in Workers,
             \/ Begin(w) \/ Fetch(w) \/ Unlock(w) \/ Boot(w)
             \/ RunFails(w) \/ LoopDies(w) \/ Cancel(w) \/ Kill(w)
      PROVE  UNCHANGED D!vars
    BY <1>5, <1>6 DEF Begin, Fetch, Unlock, Boot, RunFails, LoopDies, Cancel, Kill, relayVars
<1>7. CASE TtlPasses \/ UNCHANGED vars
    BY <1>5, <1>7 DEF TtlPasses, relayVars, vars
<1> QED BY <1>1, <1>2, <1>3, <1>4, <1>6, <1>7 DEF Next, Progress

\* OutboxRelay implements Delivery: whatever crashes, overruns and fails, an
\* event is owed from its user's commit until the broker has taken it.
THEOREM Refinement == Spec => ImplementsDelivery
<1>1. Init => D!Init
  <2> SUFFICES ASSUME Init PROVE D!Init
      OBVIOUS
  <2>1. Pending = {}
      BY DEF Init, Pending
  <2> QED BY <2>1 DEF Init, D!Init
<1> QED BY <1>1, DeliveryStep, InvAlways, PTL DEF Spec, ImplementsDelivery, D!Spec

\* The types of the relay and its scheduler.
THEOREM TypeCorrect == Spec => []TypeOK
<1>1. RelayInv => TypeOK
    BY DEF RelayInv
<1> QED BY <1>1, InvAlways, PTL

---------------------------------------------------------------------------
\* The lock.  Whoever runs holds it, unless a run may outlive the TTL.
LEMMA LockStep == RelayInv /\ RunnerLocks /\ [Next]_vars => RunnerLocks'
<1> SUFFICES ASSUME RelayInv, RunnerLocks, [Next]_vars, ~Overruns
             PROVE  \A w \in Workers : Running(w)' => lock' = w
    BY DEF RunnerLocks
<1>0. loop \in [Workers -> LoopStates] /\ \A w \in Workers : Running(w) => lock = w
    BY DEF RelayInv, TypeOK, SchedTypeOK, RunnerLocks
<1>1. ASSUME NEW w \in Workers, StartJob(w) PROVE \A v \in Workers : Running(v)' => lock' = v
    BY <1>0, <1>1 DEF StartJob, MoveTo, Running
<1>2. ASSUME NEW w \in Workers, EndJob(w) PROVE \A v \in Workers : Running(v)' => lock' = v
    BY <1>0, <1>2 DEF EndJob, MoveTo, Running
<1>3. ASSUME NEW w \in Workers, Release(w) PROVE \A v \in Workers : Running(v)' => lock' = v
    BY <1>0, <1>3 DEF Release, MoveTo, Running
<1>4. ASSUME NEW w \in Workers, LockCallFails(w) PROVE \A v \in Workers : Running(v)' => lock' = v
    BY <1>0, <1>4 DEF LockCallFails, MoveTo, Running
<1>5. ASSUME NEW w \in Workers, Stop(w) PROVE \A v \in Workers : Running(v)' => lock' = v
    BY <1>0, <1>5 DEF Stop, MoveTo, Running
<1>6. ASSUME NEW w \in Workers, Crash(w) PROVE \A v \in Workers : Running(v)' => lock' = v
    BY <1>0, <1>6 DEF Crash, MoveTo, Running
<1>7. ASSUME NEW w \in Workers, Restart(w) PROVE \A v \in Workers : Running(v)' => lock' = v
    BY <1>0, <1>7 DEF Restart, MoveTo, Running
<1>8. ASSUME LockExpires PROVE \A v \in Workers : Running(v)' => lock' = v
    BY <1>0, <1>8 DEF LockExpires, Running
<1>9. ASSUME UNCHANGED <<loop, lock>> PROVE \A v \in Workers : Running(v)' => lock' = v
    BY <1>0, <1>9 DEF Running
<1>10. ASSUME NEW e \in Events, CreateUser(e) PROVE UNCHANGED <<loop, lock>>
    BY <1>10 DEF CreateUser, schedVars
<1>11. ASSUME NEW S \in SUBSET Events, Cleanup(S) PROVE UNCHANGED <<loop, lock>>
    BY <1>11 DEF Cleanup, schedVars
<1>12. ASSUME NEW w \in Workers, Progress(w)
       PROVE  \/ StartJob(w) \/ EndJob(w) \/ Release(w) \/ Restart(w) \/ UNCHANGED <<loop, lock>>
    BY <1>12 DEF Progress, Begin, Fetch, Publish, Mark, Unlock, Boot
<1>13. ASSUME NEW w \in Workers, RunFails(w) \/ LoopDies(w) \/ Cancel(w) \/ Kill(w)
       PROVE  EndJob(w) \/ LockCallFails(w) \/ Stop(w) \/ Crash(w)
    BY <1>13 DEF RunFails, LoopDies, Cancel, Kill
<1>14. TtlPasses => LockExpires
    BY DEF TtlPasses
<1>15. UNCHANGED vars => UNCHANGED <<loop, lock>>
    BY DEF vars
<1> QED
  <2>1. ASSUME NEW w \in Workers, Progress(w) PROVE \A v \in Workers : Running(v)' => lock' = v
      BY <2>1, <1>12, <1>1, <1>2, <1>3, <1>7, <1>9
  <2>2. ASSUME NEW w \in Workers, RunFails(w) \/ LoopDies(w) \/ Cancel(w) \/ Kill(w)
        PROVE  \A v \in Workers : Running(v)' => lock' = v
      BY <2>2, <1>13, <1>2, <1>4, <1>5, <1>6
  <2> QED BY <2>1, <2>2, <1>8, <1>9, <1>10, <1>11, <1>14, <1>15 DEF Next

LEMMA LockAlways == Spec => []RunnerLocks
BY InvInit, InvAlways, LockStep, PTL DEF Spec

\* single_instance keeps its word over any number of workers, however they crash
\* and whatever Redis refuses, as long as no run outlives the lock's TTL.
THEOREM SingleCorrect == ASSUME ~Overruns PROVE Spec => []SingleInstance
<1>1. RunnerLocks => SingleInstance
    BY DEF RunnerLocks, SingleInstance
<1> QED BY <1>1, LockAlways, PTL

---------------------------------------------------------------------------
\* Repetitions.  While no run outlives its lock, one run at most has locals.
LEMMA OneRun ==
    ASSUME ~Overruns, RelayInv, RunnerLocks, NEW w \in Workers, loop[w] = "job"
    PROVE  \A v \in Workers : v # w => relay[v].todo = {} /\ relay[v].done = {}
<1> SUFFICES ASSUME NEW v \in Workers, v # w PROVE relay[v].todo = {} /\ relay[v].done = {}
    OBVIOUS
<1>1. ~Running(v)
    BY DEF RunnerLocks, Running
<1>2. relay[v] = NoRun
    BY <1>1 DEF Running, RelayInv, RunsKnown, TypeOK
<1> QED BY <1>2 DEF NoRun

\* ... nor does anybody while a run begins.
LEMMA NoRunWhileFree ==
    ASSUME ~Overruns, RelayInv, RunnerLocks, lock = NoWorker
    PROVE  \A v \in Workers : relay[v].todo = {} /\ relay[v].done = {}
<1> SUFFICES ASSUME NEW v \in Workers PROVE relay[v].todo = {} /\ relay[v].done = {}
    OBVIOUS
<1>1. ~Running(v)
    BY DEF RunnerLocks
<1>2. relay[v] = NoRun
    BY <1>1 DEF Running, RelayInv, RunsKnown, TypeOK
<1> QED BY <1>2 DEF NoRun

LEMMA RepeatsStep ==
    ASSUME ~Overruns
    PROVE  RelayInv /\ RunnerLocks /\ RepeatsCounted /\ [Next]_vars => RepeatsCounted'
<1> SUFFICES ASSUME RelayInv, RunnerLocks, RepeatsCounted, [Next]_vars
             PROVE  RepeatsCounted'
    OBVIOUS
<1>0. /\ faults \in Nat /\ users \in SUBSET Events /\ row \in [Events -> Rows]
      /\ sent \in [Events -> Nat] /\ relay \in [Workers -> Run]
      /\ \A e \in Events : row[e] # "none" <=> e \in users
      /\ \A w \in Workers : relay[w].todo \cup relay[w].done \subseteq users
    BY DEF RelayInv, TypeOK, SchedTypeOK, RunsKnown
<1>fault. Fault => faults' = faults + 1
    BY DEF Fault
<1>once. /\ \A e \in Events : sent[e] <= 1 + faults
         /\ \A e \in Events : row[e] = "none" => sent[e] = 0
         /\ \A e \in Events :
              row[e] = "pending" /\ (\A w \in Workers : e \notin relay[w].done) => sent[e] <= faults
         /\ \A w \in Workers : \A e \in relay[w].todo :
              row[e] = "pending" /\ e \notin relay[w].done
    BY DEF RepeatsCounted, Pending
<1>1. ASSUME NEW e \in Events, CreateUser(e) PROVE RepeatsCounted'
  <2>1. /\ e \notin users /\ row' = [row EXCEPT ![e] = "pending"]
        /\ UNCHANGED <<faults, sent, relay>>
      BY <1>1 DEF CreateUser, schedVars
  <2>2. sent[e] = 0 /\ \A w \in Workers : e \notin relay[w].todo
      BY <2>1, <1>0, <1>once
  <2> QED BY <2>1, <2>2, <1>0, <1>once DEF RepeatsCounted, Pending
<1>2. ASSUME NEW w \in Workers, Begin(w) PROVE RepeatsCounted'
  <2> DEFINE r == [NoRun EXCEPT !.pc = "fetch"]
  <2>1. r.todo = {} /\ r.done = {}
      BY DEF NoRun
  <2>2. lock = NoWorker /\ relay' = [relay EXCEPT ![w] = r] /\ UNCHANGED <<faults, row, sent>>
      BY <1>2 DEF Begin, StartJob
  <2> HIDE DEF r
  <2>3. \A v \in Workers : relay'[v].todo = {} /\ relay'[v].done = {} /\ relay[v].done = {}
      BY <2>1, <2>2, <1>0, NoRunWhileFree
  <2> QED BY <2>2, <2>3, <1>once DEF RepeatsCounted, Pending
<1>3. ASSUME NEW w \in Workers, Fetch(w) PROVE RepeatsCounted'
  <2>1. PICK S \in SUBSET Pending :
          \/ /\ S # {} /\ relay' = [relay EXCEPT ![w].pc = "publish", ![w].todo = S]
             /\ UNCHANGED loop
          \/ S = {} /\ EndJob(w) /\ EndRun(w)
      BY <1>3 DEF Fetch
  <2>2. loop[w] = "job" /\ relay[w].pc = "fetch" /\ UNCHANGED <<faults, row, sent>>
      BY <1>3 DEF Fetch
  <2>3. \A v \in Workers : relay[v].done = {} /\ relay[v].todo = {}
      BY <2>2, OneRun DEF RelayInv, RunsKnown
  <2>4. \A v \in Workers : relay'[v].done = {} /\ relay'[v].todo \subseteq S
    <3>1. CASE relay' = [relay EXCEPT ![w].pc = "publish", ![w].todo = S]
      <4> DEFINE r == [relay[w] EXCEPT !.pc = "publish", !.todo = S]
      <4>1. r.done = {} /\ r.todo = S
          BY <2>3, <1>0 DEF Run
      <4>2. relay' = [relay EXCEPT ![w] = r]
          BY <3>1
      <4> HIDE DEF r
      <4> QED BY <4>1, <4>2, <2>3, <1>0
    <3>2. CASE EndRun(w)
        BY <3>2, <2>3, <1>0 DEF EndRun, NoRun
    <3> QED BY <2>1, <3>1, <3>2
  <2>5. \A e \in S : row[e] = "pending"
      BY DEF Pending
  <2> QED BY <2>2, <2>3, <2>4, <2>5, <1>once DEF RepeatsCounted, Pending
<1>4. ASSUME NEW w \in Workers, NEW e \in Events, Publish(w, e) PROVE RepeatsCounted'
  <2> DEFINE todo == relay[w].todo \ {e}
             pc == IF todo = {} THEN "mark" ELSE "publish"
             sentOk == [pc |-> pc, todo |-> todo, done |-> relay[w].done \cup {e}]
             failed == [relay[w] EXCEPT !.pc = pc, !.todo = todo]
  <2>1. loop[w] = "job" /\ e \in relay[w].todo /\ UNCHANGED row
      BY <1>4 DEF Publish
  <2>2. \/ /\ sent' = [sent EXCEPT ![e] = @ + 1] /\ relay' = [relay EXCEPT ![w] = sentOk]
           /\ faults' = faults
        \/ /\ sent' = sent /\ relay' = [relay EXCEPT ![w] = failed]
           /\ faults' = faults \/ Fault
        \/ /\ sent' = [sent EXCEPT ![e] = @ + 1] /\ relay' = [relay EXCEPT ![w] = failed] /\ Fault
      BY <1>4 DEF Publish
  <2>3. faults' \in {faults, faults + 1}
      BY <2>2, <1>fault
  <2>4. \A v \in Workers : v # w => relay[v].todo = {} /\ relay[v].done = {}
      BY <2>1, OneRun
  <2>5. row[e] = "pending" /\ e \notin relay[w].done /\ sent[e] <= faults
      BY <2>1, <2>4, <1>once
  <2>6. sentOk.todo = todo /\ sentOk.done = relay[w].done \cup {e}
      OBVIOUS
  <2>7. failed.todo = todo /\ failed.done = relay[w].done
      BY <1>0 DEF Run
  <2> HIDE DEF sentOk, failed
  <2>8. CASE /\ sent' = [sent EXCEPT ![e] = @ + 1] /\ relay' = [relay EXCEPT ![w] = sentOk]
             /\ faults' = faults
    <3>1. sent'[e] = sent[e] + 1 /\ \A f \in Events : f # e => sent'[f] = sent[f]
        BY <2>8, <1>0
    <3>2. /\ relay'[w].todo = todo /\ relay'[w].done = relay[w].done \cup {e}
          /\ \A v \in Workers : v # w => relay'[v] = relay[v]
        BY <2>6, <2>8, <1>0
    <3>3. sent[e] \in Nat /\ sent'[e] <= 1 + faults'
        BY <3>1, <2>5, <2>8, <1>0
    <3>4. \A f \in Events : sent'[f] <= 1 + faults'
        BY <3>1, <3>3, <2>8, <1>once
    <3>5. \A f \in Events : row'[f] = "none" => sent'[f] = 0
        BY <3>1, <2>1, <2>5, <1>once
    <3>6. \A f \in Pending' : (\A v \in Workers : f \notin relay'[v].done) => sent'[f] <= faults'
        BY <3>1, <3>2, <2>1, <2>8, <1>once DEF Pending
    <3>7. \A v \in Workers : \A f \in relay'[v].todo : row'[f] = "pending" /\ f \notin relay'[v].done
        BY <3>2, <2>1, <2>4, <1>once
    <3> QED BY <3>4, <3>5, <3>6, <3>7 DEF RepeatsCounted
  <2>9. CASE /\ sent' = sent /\ relay' = [relay EXCEPT ![w] = failed]
             /\ faults' = faults \/ Fault
    <3>1. /\ relay'[w].todo = todo /\ relay'[w].done = relay[w].done
          /\ \A v \in Workers : v # w => relay'[v] = relay[v]
        BY <2>7, <2>9, <1>0
    <3>2. \A f \in Events : sent[f] \in Nat
        BY <1>0
    <3>3. \A f \in Events : sent'[f] <= 1 + faults' /\ (sent[f] <= faults => sent'[f] <= faults')
        BY <3>2, <2>3, <2>9, <1>once, <1>0
    <3>4. \A f \in Events : row'[f] = "none" => sent'[f] = 0
        BY <2>1, <2>9, <1>once
    <3>5. \A f \in Pending' : (\A v \in Workers : f \notin relay'[v].done) => sent'[f] <= faults'
        BY <3>1, <3>3, <2>1, <1>once DEF Pending
    <3>6. \A v \in Workers : \A f \in relay'[v].todo : row'[f] = "pending" /\ f \notin relay'[v].done
        BY <3>1, <2>1, <1>once
    <3> QED BY <3>3, <3>4, <3>5, <3>6 DEF RepeatsCounted
  <2>10. CASE /\ sent' = [sent EXCEPT ![e] = @ + 1] /\ relay' = [relay EXCEPT ![w] = failed] /\ Fault
    <3>1. /\ relay'[w].todo = todo /\ relay'[w].done = relay[w].done
          /\ \A v \in Workers : v # w => relay'[v] = relay[v]
        BY <2>7, <2>10, <1>0
    <3>2. sent'[e] = sent[e] + 1 /\ (\A f \in Events : f # e => sent'[f] = sent[f])
          /\ faults' = faults + 1
        BY <2>10, <1>0, <1>fault
    <3>3. \A f \in Events : sent[f] \in Nat
        BY <1>0
    <3>4. \A f \in Events : sent'[f] <= 1 + faults' /\ (sent[f] <= faults => sent'[f] <= faults')
        BY <3>2, <3>3, <2>5, <1>once, <1>0
    <3>5. \A f \in Events : row'[f] = "none" => sent'[f] = 0
        BY <3>2, <2>1, <2>5, <1>once
    <3>6. \A f \in Pending' : (\A v \in Workers : f \notin relay'[v].done) => sent'[f] <= faults'
        BY <3>1, <3>4, <2>1, <1>once DEF Pending
    <3>7. \A v \in Workers : \A f \in relay'[v].todo : row'[f] = "pending" /\ f \notin relay'[v].done
        BY <3>1, <2>1, <1>once
    <3> QED BY <3>4, <3>5, <3>6, <3>7 DEF RepeatsCounted
  <2> QED BY <2>2, <2>8, <2>9, <2>10
<1>5. ASSUME NEW w \in Workers, Mark(w) PROVE RepeatsCounted'
  <2>1. /\ row' = [e \in Events |->
                     IF e \in relay[w].done /\ row[e] # "deleted" THEN "published" ELSE row[e]]
        /\ loop[w] = "job" /\ relay[w].pc = "mark" /\ relay' = [relay EXCEPT ![w] = NoRun]
        /\ UNCHANGED <<faults, sent>>
      BY <1>5 DEF Mark, EndJob, EndRun
  <2>2. \A v \in Workers : v # w => relay[v].todo = {} /\ relay[v].done = {}
      BY <2>1, OneRun
  <2>3. \A v \in Workers : relay'[v].todo = {} /\ relay'[v].done = {}
      BY <2>1, <2>2, <1>0 DEF NoRun
  <2>4. \A e \in Events : /\ row'[e] = "none" => row[e] = "none"
                          /\ row'[e] = "pending" => row[e] = "pending" /\ e \notin relay[w].done
      BY <2>1
  <2> QED BY <2>1, <2>2, <2>3, <2>4, <1>once DEF RepeatsCounted, Pending
<1>6. ASSUME NEW S \in SUBSET Events, Cleanup(S) PROVE RepeatsCounted'
  <2>1. /\ UNCHANGED <<faults, sent, relay>> /\ \A e \in S : row[e] = "published"
        /\ row' = [e \in Events |-> IF e \in S THEN "deleted" ELSE row[e]]
      BY <1>6 DEF Cleanup, schedVars
  <2>2. \A e \in Events : /\ row'[e] = "none" <=> row[e] = "none"
                          /\ row'[e] = "pending" <=> row[e] = "pending"
      BY <2>1
  <2>3. \A w \in Workers : relay[w].todo \subseteq Events
      BY <1>0
  <2> QED BY <2>1, <2>2, <2>3, <1>once DEF RepeatsCounted, Pending
<1>7. ASSUME UNCHANGED <<faults, row, sent, relay>> PROVE RepeatsCounted'
    BY <1>7, <1>once DEF RepeatsCounted, Pending
<1>8. ASSUME NEW w \in Workers, Unlock(w) \/ Boot(w) PROVE RepeatsCounted'
    BY <1>7, <1>8 DEF Unlock, Release, Boot, Restart, relayVars
<1>9. ASSUME NEW w \in Workers, RunFails(w) \/ LoopDies(w) \/ Cancel(w) \/ Kill(w)
      PROVE  RepeatsCounted'
  <2>1. faults' = faults + 1 /\ UNCHANGED <<row, sent>> /\ (EndRun(w) \/ relay' = relay)
      BY <1>9, <1>fault DEF RunFails, LoopDies, LockCallFails, Cancel, Stop, Kill, Crash, relayVars
  <2>2. \A v \in Workers : \/ relay'[v].todo = relay[v].todo /\ relay'[v].done = relay[v].done
                           \/ relay'[v].todo = {} /\ relay'[v].done = {}
      BY <2>1, <1>0 DEF EndRun, NoRun
  <2>3. \A e \in Events : sent[e] \in Nat
      BY <1>0
  <2>4. \A e \in Events : sent'[e] <= faults' /\ sent'[e] <= 1 + faults'
      BY <2>1, <2>3, <1>once, <1>0
  <2>5. \A e \in Events : row'[e] = "none" => sent'[e] = 0
      BY <2>1, <1>once
  <2>6. \A v \in Workers : \A e \in relay'[v].todo : row'[e] = "pending" /\ e \notin relay'[v].done
      BY <2>1, <2>2, <1>once
  <2> QED BY <2>4, <2>5, <2>6 DEF RepeatsCounted, Pending
<1>10. CASE TtlPasses \/ UNCHANGED vars
    BY <1>7, <1>10 DEF TtlPasses, LockExpires, relayVars, vars
<1> QED BY <1>1, <1>2, <1>3, <1>4, <1>5, <1>6, <1>8, <1>9, <1>10 DEF Next, Progress

\* Two workers, a lock and three phases publish an event again only after a fault,
\* once for each at most, as long as no run outlives the lock's TTL.
THEOREM RepeatsCorrect == ASSUME ~Overruns PROVE Spec => []RepeatsNeedFaults
<1>1. RelayInv /\ RunnerLocks /\ RepeatsCounted /\ [Next]_vars => RepeatsCounted'
    BY RepeatsStep
<1>2. RepeatsCounted => RepeatsNeedFaults
    BY DEF RepeatsCounted, RepeatsNeedFaults
<1> QED BY <1>1, <1>2, InvInit, InvAlways, LockAlways, PTL DEF Spec
============================================================================
