----------------------------- MODULE Payments -----------------------------
(***************************************************************************)
(* POST /accounts/{id}/deposit and /withdraw: the helper idempotent() over *)
(* the Redis store of Idempotency-Key, around AccountService, which moves  *)
(* the balance under SELECT ... FOR UPDATE.                                *)
(*                                                                         *)
(* An attempt is one HTTP request; a client sends any number of attempts   *)
(* of the same logical operation under the operation's key, one after the  *)
(* other or at once (a retry after a timeout overlaps the first attempt).  *)
(* Every action is what an attempt does between two awaits.  A definition  *)
(* marked "Mutant" is a plausible bug in the definition after it; no       *)
(* specification uses it.                                                  *)
(***************************************************************************)
EXTENDS Integers, FiniteSets

CONSTANTS Keys,        \* Idempotency-Key values, one per logical operation
          Accounts,
          Op,          \* Op[k]: [account, delta]; a deposit has delta > 0, a withdrawal < 0
          Attempts,    \* HTTP requests
          NoAttempt, NoKey,
          MaxBalance,  \* accounts.balance is a BIGINT
          Expiring,    \* keys whose TTL (24 h) may run out while attempts arrive
          Faults       \* which of FaultKinds the environment may produce

\* cache_lost: the Redis DEL after the commit fails; commit_unknown: the commit
\* is applied and its acknowledgement is lost; save_lost, release_lost: storing the
\* response or deleting the key fails; crash: the process ends.
FaultKinds == {"cache_lost", "commit_unknown", "save_lost", "release_lost", "crash"}

ASSUME PaymentsAssumption ==
    /\ NoAttempt \notin Attempts /\ NoKey \notin Keys
    /\ MaxBalance \in Nat
    /\ Op \in [Keys -> [account : Accounts, delta : Int]]
    /\ \A k \in Keys : Op[k].delta # 0
    /\ Expiring \subseteq Keys
    /\ Faults \subseteq FaultKinds

VARIABLES slot,     \* slot[k]: the Redis key idempotency:{key}
          balance,  \* accounts.balance, committed
          opened,   \* accounts whose row exists
          posted,   \* posted[a]: sum of the committed rows of transactions
          lock,     \* lock[a]: the attempt whose transaction holds the row lock
          att,      \* att[p]: program counter and locals of attempt p
          effects   \* history: the attempts that committed operation k

vars == <<slot, balance, opened, posted, lock, att, effects>>

\* The response stored under a key only matters as present or not.
Slots == {"free", "in_progress", "response"}

\* Outcomes: ok (200), conflict (409: in progress or insufficient funds),
\* missing (404), error (500 or no answer at all).
Outcomes == {"none", "ok", "conflict", "missing", "error"}

Pcs == {"new", "acquire", "lookup", "lock", "locked", "invalidate", "save",
        "release", "done", "crashed"}

Local == [pc : Pcs, key : Keys \cup {NoKey}, read : Int, out : Outcomes]

Acct(p) == Op[att[p].key].account
Delta(p) == Op[att[p].key].delta

Init ==
    /\ slot = [k \in Keys |-> "free"]
    /\ balance = [a \in Accounts |-> 0]
    /\ opened = Accounts
    /\ posted = [a \in Accounts |-> 0]
    /\ lock = [a \in Accounts |-> NoAttempt]
    /\ att = [p \in Attempts |-> [pc |-> "new", key |-> NoKey, read |-> 0, out |-> "none"]]
    /\ effects = [k \in Keys |-> {}]

---------------------------------------------------------------------------
Goto(p, pc) == att' = [att EXCEPT ![p].pc = pc]
Finish(p, out) == att' = [att EXCEPT ![p].pc = "done", ![p].out = out]
\* Mutant: the exception leaves idempotent() without releasing the key.
FailKeepsKey(p, out) == Finish(p, out)

Fail(p, out) == att' = [att EXCEPT ![p].pc = "release", ![p].out = out]

\* The client sends an attempt; the header is mandatory on these endpoints.
Send(p, k) ==
    /\ att[p].pc = "new"
    /\ att' = [att EXCEPT ![p].pc = "acquire", ![p].key = k]
    /\ UNCHANGED <<slot, balance, opened, posted, lock, effects>>

\* Mutant: SET without NX.
AcquireOverwrites(p) ==
    /\ att[p].pc = "acquire"
    /\ slot' = [slot EXCEPT ![att[p].key] = "in_progress"]
    /\ Goto(p, "lock")
    /\ UNCHANGED <<balance, opened, posted, lock, effects>>

\* IdempotencyStore.try_acquire: SET NX EX.
Acquire(p) ==
    LET k == att[p].key
    IN  /\ att[p].pc = "acquire"
        /\ \/ /\ slot[k] = "free"
              /\ slot' = [slot EXCEPT ![k] = "in_progress"]
              /\ Goto(p, "lock")
           \/ /\ slot[k] # "free"
              /\ Goto(p, "lookup")
              /\ UNCHANGED slot
        /\ UNCHANGED <<balance, opened, posted, lock, effects>>

\* Mutant: whatever is stored under the key is answered as a replay.
LookupReplaysMarker(p) ==
    /\ att[p].pc = "lookup"
    /\ Finish(p, IF slot[att[p].key] = "free" THEN "error" ELSE "ok")
    /\ UNCHANGED <<slot, balance, opened, posted, lock, effects>>

\* The GET that follows a failed SET NX, and what idempotent() makes of it:
\* 409, a replay, or an error from orjson.loads(None) when the key has gone.
Lookup(p) ==
    /\ att[p].pc = "lookup"
    /\ Finish(p, CASE slot[att[p].key] = "in_progress" -> "conflict"
                   [] slot[att[p].key] = "response" -> "ok"
                   [] slot[att[p].key] = "free" -> "error")
    /\ UNCHANGED <<slot, balance, opened, posted, lock, effects>>

---------------------------------------------------------------------------
\* Mutant: the row is read without FOR UPDATE.
LockRowWithoutWaiting(p) ==
    /\ att[p].pc = "lock"
    /\ Acct(p) \in opened
    /\ att' = [att EXCEPT ![p].pc = "locked", ![p].read = balance[Acct(p)]]
    /\ lock' = [lock EXCEPT ![Acct(p)] = p]
    /\ UNCHANGED <<slot, balance, opened, posted, effects>>

\* AccountService.deposit and withdraw: SELECT ... FOR UPDATE waits for the
\* row lock and returns the committed balance; no row is a 404.
LockRow(p) ==
    LET a == Acct(p)
    IN  /\ att[p].pc = "lock"
        /\ lock[a] = NoAttempt
        /\ \/ /\ a \in opened
              /\ lock' = [lock EXCEPT ![a] = p]
              /\ att' = [att EXCEPT ![p].pc = "locked", ![p].read = balance[a]]
           \/ /\ a \notin opened
              /\ Fail(p, "missing")
              /\ UNCHANGED lock
        /\ UNCHANGED <<slot, balance, opened, posted, effects>>

Covered(p) == att[p].read + Delta(p) >= 0
Fits(p) == att[p].read + Delta(p) <= MaxBalance

\* Mutant: the exception does not end the transaction.
RejectKeepsLock(p) ==
    /\ att[p].pc = "locked"
    /\ Fail(p, "error")
    /\ UNCHANGED <<slot, balance, opened, posted, lock, effects>>

\* Mutant: the error is stored as the response of the operation.
RejectSaves(p) ==
    /\ att[p].pc = "locked"
    /\ Goto(p, "save")
    /\ lock' = [lock EXCEPT ![Acct(p)] = NoAttempt]
    /\ UNCHANGED <<slot, balance, opened, posted, effects>>

\* Leaving the transaction by an exception rolls back and unlocks: funds too
\* low (409), an unknown category of a deposit (404), a balance out of BIGINT
\* or any other database error (500).
Reject(p) ==
    /\ att[p].pc = "locked"
    /\ \/ Delta(p) < 0 /\ ~Covered(p) /\ Fail(p, "conflict")
       \/ Delta(p) > 0 /\ Fail(p, "missing")
       \/ Fail(p, "error")
    /\ lock' = [lock EXCEPT ![Acct(p)] = NoAttempt]
    /\ UNCHANGED <<slot, balance, opened, posted, effects>>

\* Mutant: withdraw does not compare the balance with the amount.
CommitUncovered(p) ==
    LET a == Acct(p)
    IN  /\ att[p].pc = "locked"
        /\ balance' = [balance EXCEPT ![a] = att[p].read + Delta(p)]
        /\ posted' = [posted EXCEPT ![a] = @ + Delta(p)]
        /\ lock' = [lock EXCEPT ![a] = NoAttempt]
        /\ effects' = [effects EXCEPT ![att[p].key] = @ \cup {p}]
        /\ Goto(p, "invalidate")
        /\ UNCHANGED <<slot, opened>>

\* The new balance and the row of transactions in one commit; the balance
\* written is computed from the one read.
Commit(p) ==
    LET a == Acct(p)
        k == att[p].key
    IN  /\ att[p].pc = "locked"
        /\ Delta(p) < 0 => Covered(p)
        /\ Fits(p)
        /\ balance' = [balance EXCEPT ![a] = att[p].read + Delta(p)]
        /\ posted' = [posted EXCEPT ![a] = @ + Delta(p)]
        /\ lock' = [lock EXCEPT ![a] = NoAttempt]
        /\ effects' = [effects EXCEPT ![k] = @ \cup {p}]
        /\ \/ Goto(p, "invalidate")
           \/ "commit_unknown" \in Faults /\ Fail(p, "error")
        /\ UNCHANGED <<slot, opened>>

\* cache.delete of the user's cached form, after the transaction.
Invalidate(p) ==
    /\ att[p].pc = "invalidate"
    /\ \/ Goto(p, "save")
       \/ "cache_lost" \in Faults /\ Fail(p, "error")
    /\ UNCHANGED <<slot, balance, opened, posted, lock, effects>>

\* IdempotencyStore.save_response: SET without NX.  Its failure is outside
\* the try block and leaves the marker.
Save(p) ==
    /\ att[p].pc = "save"
    /\ \/ /\ slot' = [slot EXCEPT ![att[p].key] = "response"]
          /\ Finish(p, "ok")
       \/ /\ "save_lost" \in Faults
          /\ Finish(p, "error")
          /\ UNCHANGED slot
    /\ UNCHANGED <<balance, opened, posted, lock, effects>>

\* except Exception: IdempotencyStore.release deletes the key, whatever it holds.
\* When Redis fails the marker stays, as after a crash, and the answer is a 500.
Release(p) ==
    /\ att[p].pc = "release"
    /\ \/ /\ slot' = [slot EXCEPT ![att[p].key] = "free"]
          /\ Finish(p, att[p].out)
       \/ /\ "release_lost" \in Faults
          /\ Goto(p, "crashed")
          /\ UNCHANGED slot
    /\ UNCHANGED <<balance, opened, posted, lock, effects>>

---------------------------------------------------------------------------
\* Deleting the user cascades to the account; it waits for the row lock.
CloseAccount(a) ==
    /\ a \in opened
    /\ lock[a] = NoAttempt
    /\ opened' = opened \ {a}
    /\ UNCHANGED <<slot, balance, posted, lock, att, effects>>

\* The process ends: the database rolls back, Redis keeps the marker.
Crash(p) ==
    /\ "crash" \in Faults
    /\ att[p].pc \notin {"new", "done", "crashed"}
    /\ Goto(p, "crashed")
    /\ lock' = [a \in Accounts |-> IF lock[a] = p THEN NoAttempt ELSE lock[a]]
    /\ UNCHANGED <<slot, balance, opened, posted, effects>>

Expire(k) ==
    /\ k \in Expiring
    /\ slot[k] # "free"
    /\ slot' = [slot EXCEPT ![k] = "free"]
    /\ UNCHANGED <<balance, opened, posted, lock, att, effects>>

Step(p) ==
    \/ Acquire(p) \/ Lookup(p)
    \/ LockRow(p) \/ Reject(p) \/ Commit(p) \/ Invalidate(p)
    \/ Save(p) \/ Release(p)

Next ==
    \/ \E p \in Attempts : (\E k \in Keys : Send(p, k)) \/ Step(p) \/ Crash(p)
    \/ \E a \in Accounts : CloseAccount(a)
    \/ \E k \in Keys : Expire(k)

Spec == Init /\ [][Next]_vars

\* An attempt once sent is run on by the event loop; a client need not send.
FairSpec == Spec /\ \A p \in Attempts : WF_vars(Step(p))

---------------------------------------------------------------------------
\* Properties.

\* Types; an attempt that was sent has a key, and a row lock belongs to an
\* open transaction.
TypeOK ==
    /\ slot \in [Keys -> Slots]
    /\ balance \in [Accounts -> Int]
    /\ opened \in SUBSET Accounts
    /\ posted \in [Accounts -> Int]
    /\ lock \in [Accounts -> Attempts \cup {NoAttempt}]
    /\ att \in [Attempts -> Local]
    /\ effects \in [Keys -> SUBSET Attempts]
    /\ \A p \in Attempts : att[p].pc # "new" => att[p].key \in Keys
    /\ \A a \in Accounts : lock[a] # NoAttempt => att[lock[a]].pc = "locked" /\ Acct(lock[a]) = a

\* Lost updates: whatever deposits and withdrawals interleave, the balance is
\* the sum of the account's transactions and is never negative or out of range.
BalanceIsSumOfTransactions ==
    \A a \in Accounts : balance[a] = posted[a] /\ balance[a] \in 0..MaxBalance

\* ADR-0010: a retry under the key, concurrent or later, after an error or a
\* crash, does not execute the operation again within the key's TTL.
ExecutedAtMostOnce == \A k \in Keys \ Expiring : \A p, q \in effects[k] : p = q

\* A client told "ok", by the execution or by a replay, had its money moved; a
\* client told 404 or 409 had it not moved by the attempt that was refused.
AnswerIsTruthful ==
    \A p \in Attempts : att[p].pc = "done" =>
        /\ att[p].out = "ok" => effects[att[p].key] # {}
        /\ att[p].out \in {"conflict", "missing"} => p \notin effects[att[p].key]

\* A response is stored only for an operation that was executed.
StoredMeansExecuted == \A k \in Keys : slot[k] = "response" => effects[k] # {}

L == INSTANCE Ledger WITH
    Operations <- Keys, Repeatable <- Expiring, funds <- balance,
    applied <- {k \in Keys : effects[k] # {}}

\* Attempts, retries, conflicts, crashes and closed accounts together look
\* like operations each applied at once and at most once.
ImplementsLedger == L!Spec

\* A key does not stay "in progress" (409 to every retry) unless an attempt
\* died holding it, or could not store its response or delete the key.
Stranded(p) ==
    \/ att[p].pc = "crashed"
    \/ att[p].pc = "done" /\ att[p].out = "error" /\ p \in effects[att[p].key]

MarkerResolves ==
    \A k \in Keys :
        slot[k] = "in_progress" ~>
            slot[k] # "in_progress" \/ \E p \in Attempts : att[p].key = k /\ Stranded(p)
===========================================================================
