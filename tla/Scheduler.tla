----------------------------- MODULE Scheduler ----------------------------
(***************************************************************************)
(* One single_instance job of app/scheduler, run by several worker         *)
(* processes: each process loops over sleep, Redis lock, job, unlock.      *)
(* Jobs are separate asyncio tasks with separate lock keys, so one job     *)
(* shows the scheduler; what the job does is up to the module that EXTENDS *)
(* this one, between StartJob and EndJob.  A definition marked "Mutant" is *)
(* a plausible bug in the definition after it; no specification uses it.   *)
(***************************************************************************)
EXTENDS Naturals

CONSTANTS Workers, NoWorker,
          Overruns,     \* whether a run may outlive the lock's TTL (lock_ttl, 300 s)
          RedisErrors,  \* whether SET and DELETE of the lock may raise
          MaxFaults     \* bound: faults of any kind in one behaviour

ASSUME SchedulerAssumption ==
    /\ NoWorker \notin Workers
    /\ Overruns \in BOOLEAN /\ RedisErrors \in BOOLEAN
    /\ MaxFaults \in Nat

VARIABLES loop,   \* loop[w]: where the job's asyncio task of worker w is
          lock,   \* the key scheduler:lock:{job}: NoWorker when absent, else its
                  \* setter (known to the model only: the stored value is b"1")
          faults  \* faults so far

schedVars == <<loop, lock, faults>>

\* asleep: waiting for the next run; job: in job.func; unlock: about to release;
\* unlock_stop: the same after a cancellation; dead: the task ended by an
\* exception while the process lives on; down: the process does not run.
LoopStates == {"asleep", "job", "unlock", "unlock_stop", "dead", "down"}

SchedTypeOK ==
    /\ loop \in [Workers -> LoopStates]
    /\ lock \in Workers \cup {NoWorker}
    /\ faults \in 0..MaxFaults

SchedInit ==
    /\ loop = [w \in Workers |-> "asleep"]
    /\ lock = NoWorker
    /\ faults = 0

Fault == faults < MaxFaults /\ faults' = faults + 1
MoveTo(w, st) == loop' = [loop EXCEPT ![w] = st]

---------------------------------------------------------------------------
\* Mutant: SET without NX.
StartJobAnyway(w) ==
    /\ loop[w] = "asleep"
    /\ lock' = w
    /\ MoveTo(w, "job")
    /\ UNCHANGED faults

\* The sleep is over (or run_on_start): _acquire does SET NX EX.  A run that
\* finds the lock taken is skipped and changes nothing.
StartJob(w) ==
    /\ loop[w] = "asleep"
    /\ lock = NoWorker
    /\ lock' = w
    /\ MoveTo(w, "job")
    /\ UNCHANGED faults

\* job.func returned, or raised an exception, which is logged.
EndJob(w) ==
    /\ loop[w] = "job"
    /\ MoveTo(w, "unlock")
    /\ UNCHANGED lock

\* finally: _release deletes the key, whoever set it.
Release(w) ==
    /\ loop[w] \in {"unlock", "unlock_stop"}
    /\ lock' = NoWorker
    /\ MoveTo(w, IF loop[w] = "unlock" THEN "asleep" ELSE "down")
    /\ UNCHANGED faults

\* _acquire and _release are outside the try: a Redis error ends the task.
\* The lock may or may not have been set or deleted when the error is seen.
LockCallFails(w) ==
    /\ RedisErrors /\ Fault
    /\ loop[w] \in {"asleep", "unlock"}
    /\ MoveTo(w, "dead")
    /\ \/ UNCHANGED lock
       \/ loop[w] = "asleep" /\ lock = NoWorker /\ lock' = w
       \/ loop[w] = "unlock" /\ lock' = NoWorker

---------------------------------------------------------------------------
\* SIGTERM: the task is cancelled.  In the job the lock is still released; a
\* cancellation that arrives while SET or DELETE is in flight skips the rest.
Stop(w) ==
    /\ Fault
    /\ \/ loop[w] \in {"asleep", "dead"} /\ MoveTo(w, "down") /\ UNCHANGED lock
       \/ loop[w] = "asleep" /\ lock = NoWorker /\ MoveTo(w, "down") /\ lock' = w
       \/ loop[w] = "job" /\ MoveTo(w, "unlock_stop") /\ UNCHANGED lock
       \/ loop[w] = "unlock" /\ MoveTo(w, "down") /\ lock' \in {lock, NoWorker}

\* The process is killed.
Crash(w) ==
    /\ Fault
    /\ loop[w] # "down"
    /\ MoveTo(w, "down")
    /\ UNCHANGED lock

Restart(w) ==
    /\ loop[w] = "down"
    /\ MoveTo(w, "asleep")
    /\ UNCHANGED <<lock, faults>>

\* The TTL of the key runs out: always possible once its setter no longer
\* runs the job, and in the middle of a run only if runs may be that long.
Running(w) == loop[w] \in {"job", "unlock", "unlock_stop"}

\* Mutant: SET NX without EX.
LockNeverExpires == FALSE /\ UNCHANGED schedVars

LockExpires ==
    /\ lock # NoWorker
    /\ Overruns \/ ~Running(lock)
    /\ lock' = NoWorker
    /\ UNCHANGED <<loop, faults>>

---------------------------------------------------------------------------
\* single_instance: no two workers run the job at once.
SingleInstance == \A v, w \in Workers : Running(v) /\ Running(w) => v = w

\* scheduler.py: an error of one task does not bring the scheduler down, the
\* loop goes on.
LoopSurvives == \A w \in Workers : loop[w] # "dead"
===========================================================================
