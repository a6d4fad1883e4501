-------------------------- MODULE Payments_proofs --------------------------
(***************************************************************************)
(* Theorems about Payments for any number of operations, accounts and      *)
(* attempts.  Two inductive invariants carry them: what the row lock       *)
(* guarantees to the attempt that holds it, and what the Idempotency-Key   *)
(* guarantees to the attempt that set it.                                  *)
(***************************************************************************)
EXTENDS Payments, TLAPS

\* The row lock: nobody moves the balance between the read and the commit.
LockProtects ==
    \A p \in Attempts : att[p].pc = "locked" =>
        lock[Acct(p)] = p /\ att[p].read = balance[Acct(p)]

BalanceInv == TypeOK /\ LockProtects /\ BalanceIsSumOfTransactions

\* Where an attempt stands, by its effects: none before the commit, its own
\* after it, and an answer that does not deny them.
EffectsKnown ==
    \A p \in Attempts :
        /\ \A k \in Keys : p \in effects[k] =>
            /\ att[p].key = k
            /\ att[p].pc \notin {"new", "acquire", "lookup", "lock", "locked"}
            /\ att[p].pc \in {"release", "done"} => att[p].out \in {"ok", "error"}
        /\ att[p].pc \in {"invalidate", "save"} => p \in effects[att[p].key]
        /\ att[p].pc = "release" => att[p].out # "ok"

AnswerInv == TypeOK /\ EffectsKnown /\ StoredMeansExecuted /\ AnswerIsTruthful

\* The faults after which the key is released although the money has moved.
NoLostReply == "cache_lost" \notin Faults /\ "commit_unknown" \notin Faults

\* An attempt between SET NX and the end of idempotent() owns the marker.
Holds(p, k) ==
    att[p].key = k /\ att[p].pc \in {"lock", "locked", "invalidate", "save", "release"}

MarkerAt(k) ==
    /\ \A p \in Attempts : Holds(p, k) => slot[k] = "in_progress"
    /\ \A p, q \in Attempts : Holds(p, k) /\ Holds(q, k) => p = q
    /\ slot[k] = "free" => effects[k] = {}
    /\ \A p \in Attempts :
        Holds(p, k) /\ effects[k] # {} => att[p].pc \in {"invalidate", "save"}

MarkerProtects == \A k \in Keys \ Expiring : MarkerAt(k)

OnceInv == TypeOK /\ EffectsKnown /\ MarkerProtects /\ ExecutedAtMostOnce

\* The three parts of TypeOK.
StoreTyped ==
    /\ slot \in [Keys -> Slots]
    /\ balance \in [Accounts -> Int]
    /\ opened \in SUBSET Accounts
    /\ posted \in [Accounts -> Int]
    /\ lock \in [Accounts -> Attempts \cup {NoAttempt}]
    /\ effects \in [Keys -> SUBSET Attempts]

AttemptsTyped ==
    /\ att \in [Attempts -> Local]
    /\ \A p \in Attempts : att[p].pc # "new" => att[p].key \in Keys

LockOwned ==
    \A a \in Accounts : lock[a] # NoAttempt => att[lock[a]].pc = "locked" /\ Acct(lock[a]) = a

USE PaymentsAssumption

---------------------------------------------------------------------------
\* The ways an attempt moves: to another step, to an answer, into its transaction.
LEMMA LocalUpdate ==
    ASSUME NEW l \in Local, NEW pc \in Pcs, NEW out \in Outcomes, NEW n \in Int
    PROVE  /\ [l EXCEPT !.pc = pc] \in Local
           /\ [l EXCEPT !.pc = pc, !.out = out] \in Local
           /\ [l EXCEPT !.pc = pc, !.read = n] \in Local
BY DEF Local

\* A move that keeps the key keeps the types.
LEMMA Moved ==
    ASSUME TypeOK, NEW p \in Attempts, att[p].pc # "new", NEW l \in Local,
           att' = [att EXCEPT ![p] = l], l.key = att[p].key
    PROVE  AttemptsTyped'
BY DEF TypeOK, AttemptsTyped

\* A move to another step.
LEMMA GotoTyped ==
    ASSUME TypeOK, NEW p \in Attempts, att[p].pc # "new", NEW pc \in Pcs, Goto(p, pc)
    PROVE  AttemptsTyped'
<1>1. att[p] \in Local
  BY DEF TypeOK
<1>2. PICK l \in Local : l = [att[p] EXCEPT !.pc = pc]
  BY <1>1, 0 \in Int, "none" \in Outcomes, LocalUpdate DEF Outcomes
<1>3. att' = [att EXCEPT ![p] = l] /\ l.key = att[p].key
  BY <1>1, <1>2 DEF Goto, Local
<1> QED BY <1>3, Moved

\* A move to an answer.
LEMMA FinishTyped ==
    ASSUME TypeOK, NEW p \in Attempts, att[p].pc # "new", NEW out \in Outcomes,
           Finish(p, out) \/ Fail(p, out)
    PROVE  AttemptsTyped'
<1>1. att[p] \in Local
  BY DEF TypeOK
<1>2. ASSUME NEW pc \in Pcs, att' = [att EXCEPT ![p].pc = pc, ![p].out = out]
      PROVE  AttemptsTyped'
  <2>1. PICK l \in Local : l = [att[p] EXCEPT !.pc = pc, !.out = out]
    BY <1>1, 0 \in Int, LocalUpdate
  <2>2. att' = [att EXCEPT ![p] = l] /\ l.key = att[p].key
    BY <1>1, <1>2, <2>1 DEF Local
  <2> QED BY <2>2, Moved
<1> QED BY <1>2 DEF Finish, Fail, Pcs

\* A step leaves every attempt with the locals its next step needs.
LEMMA AttemptsStep == TypeOK /\ [Next]_vars => AttemptsTyped'
<1> SUFFICES ASSUME TypeOK, [Next]_vars PROVE AttemptsTyped'
  OBVIOUS
<1>1. ASSUME NEW p \in Attempts, NEW k \in Keys, Send(p, k) PROVE AttemptsTyped'
  <2>1. PICK l \in Local : l = [att[p] EXCEPT !.pc = "acquire", !.key = k]
    <3>1. att[p] \in Local
      BY DEF TypeOK
    <3> QED BY <3>1 DEF Local, Pcs
  <2>2. att' = [att EXCEPT ![p] = l] /\ l.key = k
    BY <1>1, <2>1 DEF Send, Local, TypeOK
  <2> QED BY <2>2 DEF TypeOK, AttemptsTyped
<1>2. ASSUME NEW p \in Attempts, Step(p) PROVE AttemptsTyped'
  <2>1. att[p].pc # "new"
    BY <1>2 DEF Step, Acquire, Lookup, LockRow, Reject, Commit, Invalidate, Save, Release
  <2>2. CASE \E n \in Int :
                att' = [att EXCEPT ![p].pc = "locked", ![p].read = n]
    <3>1. PICK n \in Int : att' = [att EXCEPT ![p].pc = "locked", ![p].read = n]
      BY <2>2
    <3>2. PICK l \in Local : l = [att[p] EXCEPT !.pc = "locked", !.read = n]
      BY "none" \in Outcomes, LocalUpdate DEF TypeOK, Pcs, Outcomes
    <3>3. att' = [att EXCEPT ![p] = l] /\ l.key = att[p].key
      BY <3>1, <3>2 DEF Local, TypeOK
    <3> QED BY <2>1, <3>3, Moved
  <2>3. CASE \E pc \in Pcs : Goto(p, pc)
    BY <2>1, <2>3, GotoTyped
  <2>4. CASE \E out \in Outcomes : Finish(p, out) \/ Fail(p, out)
    BY <2>1, <2>4, FinishTyped
  <2>5. CASE Acquire(p)
    BY <2>3, <2>5 DEF Acquire, Pcs
  <2>6. CASE Lookup(p)
    BY <2>4, <2>6 DEF Lookup, Outcomes, TypeOK, Slots
  <2>7. CASE LockRow(p)
    <3>1. Acct(p) \in Accounts
      BY <2>1 DEF TypeOK, Acct
    <3>2. balance[Acct(p)] \in Int
      BY <3>1 DEF TypeOK
    <3> QED BY <2>2, <2>4, <2>7, <3>1, <3>2 DEF LockRow, Outcomes
  <2>8. CASE Reject(p)
    BY <2>4, <2>8 DEF Reject, Outcomes
  <2>9. CASE Commit(p)
    BY <2>3, <2>4, <2>9 DEF Commit, Pcs, Outcomes
  <2>10. CASE Invalidate(p)
    BY <2>3, <2>4, <2>10 DEF Invalidate, Pcs, Outcomes
  <2>11. CASE Save(p)
    BY <2>4, <2>11 DEF Save, Outcomes
  <2>12. CASE Release(p)
    <3>1. att[p].out \in Outcomes
      BY DEF TypeOK, Local
    <3> QED BY <2>3, <2>4, <2>12, <3>1 DEF Release, Pcs
  <2> QED BY <1>2, <2>5, <2>6, <2>7, <2>8, <2>9, <2>10, <2>11, <2>12 DEF Step
<1>3. ASSUME NEW p \in Attempts, Crash(p) PROVE AttemptsTyped'
  BY <1>3, GotoTyped DEF Crash, Pcs
<1>4. CASE UNCHANGED att
  BY <1>4 DEF TypeOK, AttemptsTyped
<1> QED BY <1>1, <1>2, <1>3, <1>4 DEF Next, CloseAccount, Expire, vars

\* Every step writes values of the right type.
LEMMA StoreStep == TypeOK /\ [Next]_vars => StoreTyped'
<1> SUFFICES ASSUME TypeOK, [Next]_vars PROVE StoreTyped'
  OBVIOUS
<1> USE DEF TypeOK, StoreTyped, Local, Slots, Acct, Delta
<1>1. ASSUME NEW p \in Attempts, NEW k \in Keys, Send(p, k) PROVE StoreTyped'
  BY <1>1 DEF Send
<1>2. ASSUME NEW p \in Attempts, Step(p) PROVE StoreTyped'
  <2>1. CASE Acquire(p)
    BY <2>1 DEF Acquire, Goto
  <2>2. CASE Lookup(p)
    BY <2>2 DEF Lookup, Finish
  <2>3. CASE LockRow(p)
    BY <2>3 DEF LockRow, Fail
  <2>4. CASE Reject(p)
    BY <2>4 DEF Reject, Fail
  <2>5. CASE Commit(p)
    BY <2>5 DEF Commit, Goto, Fail, Covered, Fits
  <2>6. CASE Invalidate(p)
    BY <2>6 DEF Invalidate, Goto, Fail
  <2>7. CASE Save(p)
    BY <2>7 DEF Save, Finish
  <2>8. CASE Release(p)
    BY <2>8 DEF Release, Finish, Goto
  <2> QED BY <1>2, <2>1, <2>2, <2>3, <2>4, <2>5, <2>6, <2>7, <2>8 DEF Step
<1>3. ASSUME NEW p \in Attempts, Crash(p) PROVE StoreTyped'
  BY <1>3 DEF Crash, Goto
<1>4. ASSUME NEW a \in Accounts, CloseAccount(a) PROVE StoreTyped'
  BY <1>4 DEF CloseAccount
<1>5. ASSUME NEW k \in Keys, Expire(k) PROVE StoreTyped'
  BY <1>5 DEF Expire
<1>6. CASE UNCHANGED vars
  BY <1>6 DEF vars
<1> QED BY <1>1, <1>2, <1>3, <1>4, <1>5, <1>6 DEF Next

\* Whatever ends a transaction ends its row lock.
LEMMA LockStep == TypeOK /\ [Next]_vars => LockOwned'
<1> SUFFICES ASSUME TypeOK, [Next]_vars PROVE LockOwned'
  OBVIOUS
<1> USE DEF TypeOK, LockOwned, Local, Acct
<1>1. ASSUME NEW p \in Attempts, NEW k \in Keys, Send(p, k) PROVE LockOwned'
  BY <1>1 DEF Send
<1>2. ASSUME NEW p \in Attempts, Step(p) PROVE LockOwned'
  <2>1. CASE Acquire(p)
    BY <2>1 DEF Acquire, Goto
  <2>2. CASE Lookup(p)
    BY <2>2 DEF Lookup, Finish
  <2>3. CASE LockRow(p)
    <3>1. CASE Fail(p, "missing")
      BY <2>3, <3>1 DEF LockRow, Fail
    <3>2. CASE lock' = [lock EXCEPT ![Acct(p)] = p]
      <4>1. att'[p].pc = "locked" /\ att'[p].key = att[p].key
        BY <2>3, <3>2 DEF LockRow, Fail
      <4>2. \A q \in Attempts \ {p} : att'[q] = att[q]
        BY <2>3 DEF LockRow, Fail
      <4>3. att[p].pc = "lock"
        BY <2>3 DEF LockRow
      <4> QED BY <3>2, <4>1, <4>2, <4>3
    <3> QED BY <2>3, <3>1, <3>2 DEF LockRow
  <2>4. CASE Reject(p)
    <3>1. lock' = [lock EXCEPT ![Acct(p)] = NoAttempt]
      BY <2>4 DEF Reject
    <3>2. \A q \in Attempts \ {p} : att'[q] = att[q]
      BY <2>4 DEF Reject, Fail
    <3> QED BY <3>1, <3>2
  <2>5. CASE Commit(p)
    <3>1. lock' = [lock EXCEPT ![Acct(p)] = NoAttempt]
      BY <2>5 DEF Commit
    <3>2. \A q \in Attempts \ {p} : att'[q] = att[q]
      BY <2>5 DEF Commit, Goto, Fail
    <3> QED BY <3>1, <3>2
  <2>6. CASE Invalidate(p)
    BY <2>6 DEF Invalidate, Goto, Fail
  <2>7. CASE Save(p)
    <3>1. \A q \in Attempts \ {p} : att'[q] = att[q]
      BY <2>7 DEF Save, Finish
    <3>2. att[p].pc = "save" /\ UNCHANGED lock
      BY <2>7 DEF Save
    <3> QED BY <3>1, <3>2
  <2>8. CASE Release(p)
    <3>1. CASE Finish(p, att[p].out)
      BY <2>8, <3>1 DEF Release, Finish
    <3>2. CASE Goto(p, "crashed")
      BY <2>8, <3>2 DEF Release, Goto
    <3> QED BY <2>8, <3>1, <3>2 DEF Release
  <2> QED BY <1>2, <2>1, <2>2, <2>3, <2>4, <2>5, <2>6, <2>7, <2>8 DEF Step
<1>3. ASSUME NEW p \in Attempts, Crash(p) PROVE LockOwned'
  BY <1>3 DEF Crash, Goto
<1>4. ASSUME NEW a \in Accounts, CloseAccount(a) PROVE LockOwned'
  BY <1>4 DEF CloseAccount
<1>5. ASSUME NEW k \in Keys, Expire(k) PROVE LockOwned'
  BY <1>5 DEF Expire
<1>6. CASE UNCHANGED vars
  BY <1>6 DEF vars
<1> QED BY <1>1, <1>2, <1>3, <1>4, <1>5, <1>6 DEF Next

\* The three parts together.
LEMMA TypeStep == TypeOK /\ [Next]_vars => TypeOK'
<1> SUFFICES ASSUME TypeOK, [Next]_vars PROVE StoreTyped' /\ AttemptsTyped' /\ LockOwned'
  BY DEF TypeOK, StoreTyped, AttemptsTyped, LockOwned
<1> QED BY StoreStep, AttemptsStep, LockStep

\* The initial state is typed.
LEMMA InitTyped == Init => TypeOK
BY DEF Init, TypeOK, Local, Pcs, Outcomes, Slots

\* Type correctness; a row lock is only held by an attempt in its transaction.
THEOREM TypeCorrect == Spec => []TypeOK
BY InitTyped, TypeStep, PTL DEF Spec

---------------------------------------------------------------------------
\* Balances.

\* Nobody but the holder of the row lock moves the balance.
LEMMA LockProtectsStep == BalanceInv /\ [Next]_vars => LockProtects'
<1> SUFFICES ASSUME BalanceInv, [Next]_vars PROVE LockProtects'
  OBVIOUS
<1> USE DEF BalanceInv, TypeOK, LockProtects, Local, Acct, Delta
<1>1. ASSUME NEW p \in Attempts, NEW k \in Keys, Send(p, k) PROVE LockProtects'
  BY <1>1 DEF Send
<1>2. ASSUME NEW p \in Attempts, Step(p) PROVE LockProtects'
  <2>1. CASE Acquire(p)
    BY <2>1 DEF Acquire, Goto
  <2>2. CASE Lookup(p)
    BY <2>2 DEF Lookup, Finish
  <2>3. CASE LockRow(p)
    <3>1. \A q \in Attempts \ {p} : att'[q] = att[q]
      BY <2>3 DEF LockRow, Fail
    <3>2. UNCHANGED balance /\ lock[Acct(p)] = NoAttempt
      BY <2>3 DEF LockRow
    <3>3. CASE Fail(p, "missing") /\ UNCHANGED lock
      BY <3>1, <3>2, <3>3 DEF Fail
    <3>4. CASE /\ lock' = [lock EXCEPT ![Acct(p)] = p]
               /\ att' = [att EXCEPT ![p].pc = "locked", ![p].read = balance[Acct(p)]]
      <4>1. att'[p].key = att[p].key /\ att'[p].read = balance[Acct(p)]
        BY <3>4
      <4>2. lock'[Acct(p)] = p /\ \A a \in Accounts \ {Acct(p)} : lock'[a] = lock[a]
        <5>1. Acct(p) \in Accounts
          BY <2>3 DEF LockRow
        <5> QED BY <3>4, <5>1
      <4> QED BY <3>1, <3>2, <4>1, <4>2
    <3> QED BY <2>3, <3>3, <3>4 DEF LockRow
  <2>4. CASE Reject(p)
    BY <2>4 DEF Reject, Fail
  <2>5. CASE Commit(p)
    BY <2>5 DEF Commit, Goto, Fail, Covered, Fits
  <2>6. CASE Invalidate(p)
    <3>1. CASE Goto(p, "save")
      BY <2>6, <3>1 DEF Invalidate, Goto
    <3>2. CASE Fail(p, "error")
      BY <2>6, <3>2 DEF Invalidate, Fail
    <3> QED BY <2>6, <3>1, <3>2 DEF Invalidate
  <2>7. CASE Save(p)
    BY <2>7 DEF Save, Finish
  <2>8. CASE Release(p)
    BY <2>8 DEF Release, Finish, Goto
  <2> QED BY <1>2, <2>1, <2>2, <2>3, <2>4, <2>5, <2>6, <2>7, <2>8 DEF Step
<1>3. ASSUME NEW p \in Attempts, Crash(p) PROVE LockProtects'
  BY <1>3 DEF Crash, Goto
<1>4. ASSUME NEW a \in Accounts, CloseAccount(a) PROVE LockProtects'
  BY <1>4 DEF CloseAccount
<1>5. ASSUME NEW k \in Keys, Expire(k) PROVE LockProtects'
  BY <1>5 DEF Expire
<1>6. CASE UNCHANGED vars
  BY <1>6 DEF vars
<1> QED BY <1>1, <1>2, <1>3, <1>4, <1>5, <1>6 DEF Next

\* A commit moves balance and transactions by the same amount.
LEMMA BalanceStep == BalanceInv /\ [Next]_vars => BalanceIsSumOfTransactions'
<1> SUFFICES ASSUME BalanceInv, [Next]_vars PROVE BalanceIsSumOfTransactions'
  OBVIOUS
<1> USE DEF BalanceInv, TypeOK, LockProtects, BalanceIsSumOfTransactions, Local, Acct, Delta
<1>1. ASSUME NEW p \in Attempts, NEW k \in Keys, Send(p, k) PROVE BalanceIsSumOfTransactions'
  BY <1>1 DEF Send
<1>2. ASSUME NEW p \in Attempts, Step(p) PROVE BalanceIsSumOfTransactions'
  <2>1. CASE Acquire(p)
    BY <2>1 DEF Acquire, Goto
  <2>2. CASE Lookup(p)
    BY <2>2 DEF Lookup, Finish
  <2>3. CASE LockRow(p)
    BY <2>3 DEF LockRow, Fail
  <2>4. CASE Reject(p)
    BY <2>4 DEF Reject, Fail
  <2>5. CASE Commit(p)
    BY <2>5 DEF Commit, Goto, Fail, Covered, Fits
  <2>6. CASE Invalidate(p)
    BY <2>6 DEF Invalidate, Goto, Fail
  <2>7. CASE Save(p)
    BY <2>7 DEF Save, Finish
  <2>8. CASE Release(p)
    BY <2>8 DEF Release, Finish, Goto
  <2> QED BY <1>2, <2>1, <2>2, <2>3, <2>4, <2>5, <2>6, <2>7, <2>8 DEF Step
<1>3. ASSUME NEW p \in Attempts, Crash(p) PROVE BalanceIsSumOfTransactions'
  BY <1>3 DEF Crash, Goto
<1>4. ASSUME NEW a \in Accounts, CloseAccount(a) PROVE BalanceIsSumOfTransactions'
  BY <1>4 DEF CloseAccount
<1>5. ASSUME NEW k \in Keys, Expire(k) PROVE BalanceIsSumOfTransactions'
  BY <1>5 DEF Expire
<1>6. CASE UNCHANGED vars
  BY <1>6 DEF vars
<1> QED BY <1>1, <1>2, <1>3, <1>4, <1>5, <1>6 DEF Next

\* The invariant of the row lock is inductive.
LEMMA BalanceInductive == (Init => BalanceInv) /\ (BalanceInv /\ [Next]_vars => BalanceInv')
<1>1. Init => BalanceInv
  BY InitTyped DEF Init, BalanceInv, LockProtects, BalanceIsSumOfTransactions
<1>2. BalanceInv /\ [Next]_vars => BalanceInv'
  BY TypeStep, LockProtectsStep, BalanceStep DEF BalanceInv
<1> QED BY <1>1, <1>2

\* No update is lost and no account leaves its range, for any operations on any
\* accounts.
THEOREM BalanceCorrect == Spec => []BalanceIsSumOfTransactions
<1>1. Init => BalanceInv
  BY BalanceInductive
<1>2. BalanceInv /\ [Next]_vars => BalanceInv'
  BY BalanceInductive
<1>3. BalanceInv => BalanceIsSumOfTransactions
  BY DEF BalanceInv
<1> QED BY <1>1, <1>2, <1>3, PTL DEF Spec

---------------------------------------------------------------------------
\* Answers.

\* Only the commit adds to effects, and its attempt then answers ok or an error.
LEMMA EffectsStep == TypeOK /\ EffectsKnown /\ [Next]_vars => EffectsKnown'
<1> SUFFICES ASSUME TypeOK, EffectsKnown, [Next]_vars PROVE EffectsKnown'
  OBVIOUS
<1> USE DEF TypeOK, EffectsKnown, Local
<1>1. ASSUME NEW p \in Attempts, NEW k \in Keys, Send(p, k) PROVE EffectsKnown'
  BY <1>1 DEF Send
<1>2. ASSUME NEW p \in Attempts, Step(p) PROVE EffectsKnown'
  <2>1. CASE Acquire(p)
    <3>1. CASE Goto(p, "lock")
      BY <2>1, <3>1 DEF Acquire, Goto
    <3>2. CASE Goto(p, "lookup")
      BY <2>1, <3>2 DEF Acquire, Goto
    <3> QED BY <2>1, <3>1, <3>2 DEF Acquire
  <2>2. CASE Lookup(p)
    BY <2>2 DEF Lookup, Finish
  <2>3. CASE LockRow(p)
    <3>1. CASE Fail(p, "missing")
      BY <2>3, <3>1 DEF LockRow, Fail
    <3>2. CASE ~Fail(p, "missing")
      BY <2>3, <3>2 DEF LockRow
    <3> QED BY <3>1, <3>2
  <2>4. CASE Reject(p)
    <3>1. PICK out \in {"conflict", "missing", "error"} : Fail(p, out)
      BY <2>4 DEF Reject
    <3>2. att[p].pc = "locked" /\ UNCHANGED effects
      BY <2>4 DEF Reject
    <3> QED BY <3>1, <3>2 DEF Fail
  <2>5. CASE Commit(p)
    BY <2>5 DEF Commit, Goto, Fail, Covered, Fits
  <2>6. CASE Invalidate(p)
    <3>1. CASE Goto(p, "save")
      BY <2>6, <3>1 DEF Invalidate, Goto
    <3>2. CASE Fail(p, "error")
      BY <2>6, <3>2 DEF Invalidate, Fail
    <3> QED BY <2>6, <3>1, <3>2 DEF Invalidate
  <2>7. CASE Save(p)
    <3>1. CASE Finish(p, "ok")
      BY <2>7, <3>1 DEF Save, Finish
    <3>2. CASE Finish(p, "error")
      BY <2>7, <3>2 DEF Save, Finish
    <3> QED BY <2>7, <3>1, <3>2 DEF Save
  <2>8. CASE Release(p)
    <3>1. CASE Finish(p, att[p].out)
      BY <2>8, <3>1 DEF Release, Finish
    <3>2. CASE Goto(p, "crashed")
      BY <2>8, <3>2 DEF Release, Goto
    <3> QED BY <2>8, <3>1, <3>2 DEF Release
  <2> QED BY <1>2, <2>1, <2>2, <2>3, <2>4, <2>5, <2>6, <2>7, <2>8 DEF Step
<1>3. ASSUME NEW p \in Attempts, Crash(p) PROVE EffectsKnown'
  BY <1>3 DEF Crash, Goto
<1>4. ASSUME NEW a \in Accounts, CloseAccount(a) PROVE EffectsKnown'
  BY <1>4 DEF CloseAccount
<1>5. ASSUME NEW k \in Keys, Expire(k) PROVE EffectsKnown'
  BY <1>5 DEF Expire
<1>6. CASE UNCHANGED vars
  BY <1>6 DEF vars
<1> QED BY <1>1, <1>2, <1>3, <1>4, <1>5, <1>6 DEF Next

\* A response is saved after the commit of the attempt that saves it.
LEMMA StoredStep == AnswerInv /\ [Next]_vars => StoredMeansExecuted'
<1> SUFFICES ASSUME AnswerInv, [Next]_vars PROVE StoredMeansExecuted'
  OBVIOUS
<1> USE DEF AnswerInv, TypeOK, EffectsKnown, StoredMeansExecuted, Local, Slots
<1>1. ASSUME NEW p \in Attempts, NEW k \in Keys, Send(p, k) PROVE StoredMeansExecuted'
  BY <1>1 DEF Send
<1>2. ASSUME NEW p \in Attempts, Step(p) PROVE StoredMeansExecuted'
  <2>1. CASE Acquire(p)
    BY <2>1 DEF Acquire, Goto
  <2>2. CASE Lookup(p)
    BY <2>2 DEF Lookup, Finish
  <2>3. CASE LockRow(p)
    BY <2>3 DEF LockRow, Fail
  <2>4. CASE Reject(p)
    BY <2>4 DEF Reject, Fail
  <2>5. CASE Commit(p)
    BY <2>5 DEF Commit, Goto, Fail, Covered, Fits
  <2>6. CASE Invalidate(p)
    BY <2>6 DEF Invalidate, Goto, Fail
  <2>7. CASE Save(p)
    BY <2>7 DEF Save, Finish
  <2>8. CASE Release(p)
    BY <2>8 DEF Release, Finish, Goto
  <2> QED BY <1>2, <2>1, <2>2, <2>3, <2>4, <2>5, <2>6, <2>7, <2>8 DEF Step
<1>3. ASSUME NEW p \in Attempts, Crash(p) PROVE StoredMeansExecuted'
  BY <1>3 DEF Crash, Goto
<1>4. ASSUME NEW a \in Accounts, CloseAccount(a) PROVE StoredMeansExecuted'
  BY <1>4 DEF CloseAccount
<1>5. ASSUME NEW k \in Keys, Expire(k) PROVE StoredMeansExecuted'
  BY <1>5 DEF Expire
<1>6. CASE UNCHANGED vars
  BY <1>6 DEF vars
<1> QED BY <1>1, <1>2, <1>3, <1>4, <1>5, <1>6 DEF Next

\* An answer given stays true.
LEMMA AnswerStep == AnswerInv /\ [Next]_vars => AnswerIsTruthful'
<1> SUFFICES ASSUME AnswerInv, [Next]_vars PROVE AnswerIsTruthful'
  OBVIOUS
<1> USE DEF AnswerInv, TypeOK, EffectsKnown, StoredMeansExecuted, AnswerIsTruthful, Local, Slots
<1>1. ASSUME NEW p \in Attempts, NEW k \in Keys, Send(p, k) PROVE AnswerIsTruthful'
  BY <1>1 DEF Send
<1>2. ASSUME NEW p \in Attempts, Step(p) PROVE AnswerIsTruthful'
  <2>1. CASE Acquire(p)
    BY <2>1 DEF Acquire, Goto
  <2>2. CASE Lookup(p)
    BY <2>2 DEF Lookup, Finish
  <2>3. CASE LockRow(p)
    <3>1. CASE Fail(p, "missing")
      BY <2>3, <3>1 DEF LockRow, Fail
    <3>2. CASE ~Fail(p, "missing")
      <4>1. att'[p].pc = "locked" /\ UNCHANGED effects
        BY <2>3, <3>2 DEF LockRow
      <4>2. \A q \in Attempts \ {p} : att'[q] = att[q]
        BY <2>3, <3>2 DEF LockRow
      <4> QED BY <4>1, <4>2
    <3> QED BY <3>1, <3>2
  <2>4. CASE Reject(p)
    BY <2>4 DEF Reject, Fail
  <2>5. CASE Commit(p)
    BY <2>5 DEF Commit, Goto, Fail, Covered, Fits
  <2>6. CASE Invalidate(p)
    <3>1. CASE Goto(p, "save")
      BY <2>6, <3>1 DEF Invalidate, Goto
    <3>2. CASE Fail(p, "error")
      BY <2>6, <3>2 DEF Invalidate, Fail
    <3> QED BY <2>6, <3>1, <3>2 DEF Invalidate
  <2>7. CASE Save(p)
    <3>1. CASE Finish(p, "ok")
      BY <2>7, <3>1 DEF Save, Finish
    <3>2. CASE Finish(p, "error")
      BY <2>7, <3>2 DEF Save, Finish
    <3> QED BY <2>7, <3>1, <3>2 DEF Save
  <2>8. CASE Release(p)
    <3>1. att[p].pc = "release" /\ att[p].key \in Keys /\ UNCHANGED effects
      BY <2>8 DEF Release
    <3>2. att'[p].out = att[p].out /\ att'[p].key = att[p].key
      BY <2>8 DEF Release, Finish, Goto
    <3>3. \A q \in Attempts \ {p} : att'[q] = att[q]
      BY <2>8 DEF Release, Finish, Goto
    <3> QED BY <3>1, <3>2, <3>3
  <2> QED BY <1>2, <2>1, <2>2, <2>3, <2>4, <2>5, <2>6, <2>7, <2>8 DEF Step
<1>3. ASSUME NEW p \in Attempts, Crash(p) PROVE AnswerIsTruthful'
  BY <1>3 DEF Crash, Goto
<1>4. ASSUME NEW a \in Accounts, CloseAccount(a) PROVE AnswerIsTruthful'
  BY <1>4 DEF CloseAccount
<1>5. ASSUME NEW k \in Keys, Expire(k) PROVE AnswerIsTruthful'
  BY <1>5 DEF Expire
<1>6. CASE UNCHANGED vars
  BY <1>6 DEF vars
<1> QED BY <1>1, <1>2, <1>3, <1>4, <1>5, <1>6 DEF Next

LEMMA AnswersAlways == Spec => []AnswerInv
<1>1. Init => AnswerInv
  BY InitTyped DEF Init, AnswerInv, EffectsKnown, StoredMeansExecuted, AnswerIsTruthful
<1>2. AnswerInv /\ [Next]_vars => AnswerInv'
  BY TypeStep, EffectsStep, StoredStep, AnswerStep DEF AnswerInv
<1> QED BY <1>1, <1>2, PTL DEF Spec

\* A client is told "ok" only if its money has moved, and refused only if its
\* attempt has not moved any.
THEOREM AnswersCorrect == Spec => []AnswerIsTruthful
<1>1. AnswerInv => AnswerIsTruthful
  BY DEF AnswerInv
<1> QED BY <1>1, AnswersAlways, PTL

\* What idempotent() stores for replays belongs to an operation that was
\* executed, also when the key expired and was acquired again in between.
THEOREM StoredCorrect == Spec => []StoredMeansExecuted
<1>1. AnswerInv => StoredMeansExecuted
  BY DEF AnswerInv
<1> QED BY <1>1, AnswersAlways, PTL

---------------------------------------------------------------------------
\* At most once.

\* A step of p that does not take the marker and touches neither key nor effects.
LEMMA KeepsMarker ==
    ASSUME NEW k, NEW p \in Attempts, MarkerAt(k),
           \A q \in Attempts \ {p} : att'[q] = att[q],
           slot'[k] = slot[k], effects'[k] = effects[k],
           Holds(p, k)' => /\ Holds(p, k)
                           /\ att[p].pc \in {"invalidate", "save"} =>
                                att'[p].pc \in {"invalidate", "save"}
    PROVE  MarkerAt(k)'
BY DEF MarkerAt, Holds

\* The marker keeps every other attempt out until its owner has saved or failed.
LEMMA MarkerStep == NoLostReply /\ OnceInv /\ [Next]_vars => MarkerProtects'
<1> SUFFICES ASSUME NoLostReply, OnceInv, [Next]_vars, NEW k \in Keys \ Expiring
             PROVE  MarkerAt(k)'
  BY DEF MarkerProtects
<1>0. MarkerAt(k) /\ TypeOK /\ EffectsKnown
  BY DEF OnceInv, MarkerProtects
<1> DEFINE Others(p) == \A q \in Attempts \ {p} : att'[q] = att[q]
<1>1. ASSUME NEW p \in Attempts, NEW h \in Keys, Send(p, h) PROVE MarkerAt(k)'
  <2>1. Others(p) /\ att'[p].pc = "acquire" /\ UNCHANGED <<slot, effects>>
    BY <1>0, <1>1 DEF Send, TypeOK, Local
  <2> QED BY <1>0, <2>1, KeepsMarker DEF Holds
<1>2. ASSUME NEW p \in Attempts, Acquire(p) PROVE MarkerAt(k)'
  <2>1. Others(p) /\ att[p].pc = "acquire" /\ att'[p].key = att[p].key /\ UNCHANGED effects
    BY <1>0, <1>2 DEF Acquire, Goto, TypeOK, Local
  <2>2. CASE att[p].key = k /\ slot[k] = "free"
    <3>1. slot'[k] = "in_progress" /\ att'[p].pc = "lock"
      BY <1>0, <1>2, <2>2 DEF Acquire, Goto, TypeOK, Local
    <3>2. \A q \in Attempts : ~Holds(q, k)
      BY <1>0, <2>2 DEF MarkerAt
    <3>3. effects'[k] = {}
      BY <1>0, <2>1, <2>2 DEF MarkerAt
    <3> QED BY <2>1, <3>1, <3>2, <3>3 DEF MarkerAt, Holds
  <2>3. CASE att[p].key = k /\ slot[k] # "free"
    <3>1. UNCHANGED slot /\ att'[p].pc = "lookup"
      BY <1>0, <1>2, <2>3 DEF Acquire, Goto, TypeOK, Local
    <3> QED BY <1>0, <2>1, <3>1, KeepsMarker DEF Holds
  <2>4. CASE att[p].key # k
    <3>1. slot'[k] = slot[k]
      BY <1>0, <1>2, <2>4 DEF Acquire, TypeOK
    <3> QED BY <1>0, <2>1, <2>4, <3>1, KeepsMarker DEF Holds
  <2> QED BY <2>2, <2>3, <2>4
<1>3. ASSUME NEW p \in Attempts, Lookup(p) PROVE MarkerAt(k)'
  <2>1. Others(p) /\ att'[p].pc = "done" /\ UNCHANGED <<slot, effects>>
    BY <1>0, <1>3 DEF Lookup, Finish, TypeOK, Local
  <2> QED BY <1>0, <2>1, KeepsMarker DEF Holds
<1>4. ASSUME NEW p \in Attempts, LockRow(p) \/ Reject(p) PROVE MarkerAt(k)'
  <2>1. Others(p) /\ att'[p].key = att[p].key /\ UNCHANGED <<slot, effects>>
    BY <1>0, <1>4 DEF LockRow, Reject, Fail, TypeOK, Local
  <2>2. att[p].pc \in {"lock", "locked"}
    BY <1>4 DEF LockRow, Reject
  <2> QED BY <1>0, <2>1, <2>2, KeepsMarker DEF Holds
<1>5. ASSUME NEW p \in Attempts, Commit(p) PROVE MarkerAt(k)'
  <2>1. /\ Others(p) /\ att'[p].key = att[p].key /\ UNCHANGED slot
        /\ att[p].pc = "locked" /\ att'[p].pc = "invalidate"
    BY <1>0, <1>5 DEF Commit, Goto, TypeOK, Local, NoLostReply
  <2>2. CASE att[p].key = k
    BY <1>0, <2>1, <2>2 DEF MarkerAt, Holds
  <2>3. CASE att[p].key # k
    <3>1. effects'[k] = effects[k]
      BY <1>0, <1>5, <2>3 DEF Commit, TypeOK
    <3> QED BY <1>0, <2>1, <2>3, <3>1, KeepsMarker DEF Holds
  <2> QED BY <2>2, <2>3
<1>6. ASSUME NEW p \in Attempts, Invalidate(p) PROVE MarkerAt(k)'
  <2>1. /\ Others(p) /\ att'[p].key = att[p].key /\ UNCHANGED <<slot, effects>>
        /\ att[p].pc = "invalidate" /\ att'[p].pc = "save"
    BY <1>0, <1>6 DEF Invalidate, Goto, TypeOK, Local, NoLostReply
  <2> QED BY <1>0, <2>1, KeepsMarker DEF Holds
<1>7. ASSUME NEW p \in Attempts, Save(p) PROVE MarkerAt(k)'
  <2>1. /\ Others(p) /\ att'[p].key = att[p].key /\ UNCHANGED effects
        /\ att[p].pc = "save" /\ att'[p].pc = "done"
    BY <1>0, <1>7 DEF Save, Finish, TypeOK, Local
  <2>2. CASE slot'[k] = slot[k]
    BY <1>0, <2>1, <2>2, KeepsMarker DEF Holds
  <2>3. CASE slot'[k] # slot[k]
    <3>1. att[p].key = k /\ slot'[k] = "response"
      BY <1>0, <1>7, <2>3 DEF Save, TypeOK
    <3>2. \A q \in Attempts : ~Holds(q, k)'
      BY <1>0, <2>1, <3>1 DEF MarkerAt, Holds
    <3> QED BY <3>1, <3>2 DEF MarkerAt
  <2> QED BY <2>2, <2>3
<1>8. ASSUME NEW p \in Attempts, Release(p) PROVE MarkerAt(k)'
  <2>1. /\ Others(p) /\ att'[p].key = att[p].key /\ UNCHANGED effects
        /\ att[p].pc = "release" /\ att'[p].pc \in {"done", "crashed"}
    BY <1>0, <1>8 DEF Release, Finish, Goto, TypeOK, Local
  <2>2. CASE att[p].key = k
    <3>1. effects[k] = {}
      BY <1>0, <2>1, <2>2 DEF MarkerAt, Holds
    <3>2. \A q \in Attempts : ~Holds(q, k)'
      BY <1>0, <2>1, <2>2 DEF MarkerAt, Holds
    <3> QED BY <2>1, <3>1, <3>2 DEF MarkerAt
  <2>3. CASE att[p].key # k
    <3>1. slot'[k] = slot[k]
      BY <1>0, <1>8, <2>3 DEF Release, TypeOK
    <3> QED BY <1>0, <2>1, <3>1, KeepsMarker DEF Holds
  <2> QED BY <2>2, <2>3
<1>9. ASSUME NEW p \in Attempts, Crash(p) PROVE MarkerAt(k)'
  <2>1. Others(p) /\ att'[p].pc = "crashed" /\ UNCHANGED <<slot, effects>>
    BY <1>0, <1>9 DEF Crash, Goto, TypeOK, Local
  <2> QED BY <1>0, <2>1, KeepsMarker DEF Holds
<1>10. ASSUME NEW h \in Keys, Expire(h) PROVE MarkerAt(k)'
  <2>1. slot'[k] = slot[k] /\ UNCHANGED <<att, effects>>
    BY <1>0, <1>10 DEF Expire, TypeOK
  <2> QED BY <1>0, <2>1 DEF MarkerAt, Holds
<1>11. CASE UNCHANGED <<slot, att, effects>>
  BY <1>0, <1>11 DEF MarkerAt, Holds
<1> QED
  BY <1>1, <1>2, <1>3, <1>4, <1>5, <1>6, <1>7, <1>8, <1>9, <1>10, <1>11
     DEF Next, Step, CloseAccount, vars

\* A commit finds no earlier effect of its operation.
LEMMA OnceStep == OnceInv /\ [Next]_vars => ExecutedAtMostOnce'
<1> SUFFICES ASSUME OnceInv, [Next]_vars PROVE ExecutedAtMostOnce'
  OBVIOUS
<1> USE DEF OnceInv, TypeOK, MarkerProtects, MarkerAt, ExecutedAtMostOnce, Holds, Local
<1>1. ASSUME NEW p \in Attempts, NEW k \in Keys, Send(p, k) PROVE ExecutedAtMostOnce'
  BY <1>1 DEF Send
<1>2. ASSUME NEW p \in Attempts, Step(p) PROVE ExecutedAtMostOnce'
  <2>1. CASE Acquire(p)
    BY <2>1 DEF Acquire, Goto
  <2>2. CASE Lookup(p)
    BY <2>2 DEF Lookup, Finish
  <2>3. CASE LockRow(p)
    BY <2>3 DEF LockRow, Fail
  <2>4. CASE Reject(p)
    BY <2>4 DEF Reject, Fail
  <2>5. CASE Commit(p)
    BY <2>5 DEF Commit, Goto, Fail, Covered, Fits
  <2>6. CASE Invalidate(p)
    BY <2>6 DEF Invalidate, Goto, Fail
  <2>7. CASE Save(p)
    BY <2>7 DEF Save, Finish
  <2>8. CASE Release(p)
    BY <2>8 DEF Release, Finish, Goto
  <2> QED BY <1>2, <2>1, <2>2, <2>3, <2>4, <2>5, <2>6, <2>7, <2>8 DEF Step
<1>3. ASSUME NEW p \in Attempts, Crash(p) PROVE ExecutedAtMostOnce'
  BY <1>3 DEF Crash, Goto
<1>4. ASSUME NEW a \in Accounts, CloseAccount(a) PROVE ExecutedAtMostOnce'
  BY <1>4 DEF CloseAccount
<1>5. ASSUME NEW k \in Keys, Expire(k) PROVE ExecutedAtMostOnce'
  BY <1>5 DEF Expire
<1>6. CASE UNCHANGED vars
  BY <1>6 DEF vars
<1> QED BY <1>1, <1>2, <1>3, <1>4, <1>5, <1>6 DEF Next

\* The invariant of the marker is inductive.
LEMMA OnceInductive ==
    /\ Init => OnceInv
    /\ NoLostReply /\ OnceInv /\ [Next]_vars => OnceInv'
<1>1. Init => OnceInv
  BY InitTyped
     DEF Init, OnceInv, EffectsKnown, MarkerProtects, MarkerAt, Holds, ExecutedAtMostOnce
<1>2. NoLostReply /\ OnceInv /\ [Next]_vars => OnceInv'
  BY TypeStep, EffectsStep, MarkerStep, OnceStep DEF OnceInv
<1> QED BY <1>1, <1>2

\* If neither the call that follows the commit nor the commit's acknowledgement
\* fails, no retry executes an operation twice, whatever else fails.
THEOREM AtMostOnce == NoLostReply => (Spec => []ExecutedAtMostOnce)
<1> SUFFICES ASSUME NoLostReply PROVE Spec => []ExecutedAtMostOnce
  OBVIOUS
<1>1. Init => OnceInv
  BY OnceInductive
<1>2. OnceInv /\ [Next]_vars => OnceInv'
  BY OnceInductive
<1>3. OnceInv => ExecutedAtMostOnce
  BY DEF OnceInv
<1> QED BY <1>1, <1>2, <1>3, PTL DEF Spec

---------------------------------------------------------------------------
\* What a lost reply costs.

\* The executions of k whose client was not told of an error.
Standing(k) == {p \in effects[k] : att[p].out # "error"}

\* Whatever is lost, of the executions under a key that does not expire all but one
\* were answered with an error: the money moves again only for a client that was
\* told that it had not moved.
RepeatsFollowErrors == \A k \in Keys \ Expiring : \A p, q \in Standing(k) : p = q

\* An attempt has no outcome before it has been decided.
Undecided ==
    \A p \in Attempts :
        att[p].pc \in {"new", "acquire", "lookup", "lock", "locked", "invalidate", "save"} =>
            att[p].out = "none"

\* MarkerAt with the standing executions in place of all.
StandingAt(k) ==
    /\ \A p \in Attempts : Holds(p, k) => slot[k] = "in_progress"
    /\ \A p, q \in Attempts : Holds(p, k) /\ Holds(q, k) => p = q
    /\ \A p, q \in Standing(k) : p = q
    /\ slot[k] = "free" => Standing(k) = {}
    /\ \A p \in Attempts :
        Holds(p, k) /\ Standing(k) # {} => att[p].pc \in {"invalidate", "save"}

StandingInv == TypeOK /\ EffectsKnown /\ Undecided /\ \A k \in Keys \ Expiring : StandingAt(k)

\* A step of p that takes no marker and adds no standing execution.
LEMMA KeepsStanding ==
    ASSUME NEW k, NEW p \in Attempts, StandingAt(k),
           \A q \in Attempts \ {p} : att'[q] = att[q],
           slot'[k] = slot[k], Standing(k)' \subseteq Standing(k),
           Holds(p, k)' => /\ Holds(p, k)
                           /\ \/ Standing(k)' = {}
                              \/ att[p].pc \in {"invalidate", "save"} =>
                                   att'[p].pc \in {"invalidate", "save"}
    PROVE  StandingAt(k)'
<1> DEFINE S == Standing(k)
           T == Standing(k)'
<1>1. T \subseteq S /\ \A q, r \in S : q = r
    BY DEF StandingAt
<1>2. \A q \in Attempts : Holds(q, k)' => Holds(q, k)
    BY DEF Holds
<1>3. slot[k] = "free" => S = {}
    BY DEF StandingAt
<1>4. ASSUME NEW q \in Attempts, Holds(q, k)', T # {}
      PROVE  att'[q].pc \in {"invalidate", "save"}
  <2>1. att[q].pc \in {"invalidate", "save"}
    BY <1>1, <1>2, <1>4 DEF StandingAt
  <2> QED BY <1>4, <2>1
<1> HIDE DEF S, T
<1>5. \A q, r \in T : q = r
    BY <1>1
<1>6. slot'[k] = "free" => T = {}
    BY <1>1, <1>3
<1> QED BY <1>2, <1>4, <1>5, <1>6 DEF StandingAt, T

\* An undecided attempt stays so until it is answered.
LEMMA UndecidedStep == TypeOK /\ Undecided /\ [Next]_vars => Undecided'
<1> SUFFICES ASSUME TypeOK, Undecided, [Next]_vars PROVE Undecided'
  OBVIOUS
<1> DEFINE Ended(pc) == pc \in {"release", "done", "crashed"}
           GoesOn(p) == /\ \A q \in Attempts \ {p} : att'[q] = att[q]
                        /\ Ended(att'[p].pc) \/ (att'[p].out = att[p].out /\ ~Ended(att[p].pc))
<1>0. att \in [Attempts -> Local]
  BY DEF TypeOK
<1>1. ASSUME NEW p \in Attempts, GoesOn(p) PROVE Undecided'
  <2>1. ~Ended(att[p].pc) => att[p].out = "none"
    BY <1>0 DEF Undecided, Local, Pcs
  <2> QED BY <1>1, <2>1 DEF Undecided
<1>2. ASSUME NEW p \in Attempts, NEW k \in Keys, Send(p, k) PROVE GoesOn(p)
  BY <1>0, <1>2 DEF Send, Local
<1>3. ASSUME NEW p \in Attempts, Step(p) PROVE GoesOn(p)
  <2>1. CASE Acquire(p)
    BY <1>0, <2>1 DEF Acquire, Goto, Local
  <2>2. CASE Lookup(p)
    BY <1>0, <2>2 DEF Lookup, Finish, Local
  <2>3. CASE LockRow(p)
    BY <1>0, <2>3 DEF LockRow, Fail, Local
  <2>4. CASE Reject(p)
    BY <1>0, <2>4 DEF Reject, Fail, Local
  <2>5. CASE Commit(p)
    <3>1. att[p].pc = "locked" /\ (Goto(p, "invalidate") \/ Fail(p, "error"))
      BY <2>5 DEF Commit
    <3> QED BY <1>0, <3>1 DEF Goto, Fail, Local
  <2>6. CASE Invalidate(p)
    BY <1>0, <2>6 DEF Invalidate, Goto, Fail, Local
  <2>7. CASE Save(p)
    BY <1>0, <2>7 DEF Save, Finish, Local
  <2>8. CASE Release(p)
    BY <1>0, <2>8 DEF Release, Finish, Goto, Local
  <2> QED BY <1>3, <2>1, <2>2, <2>3, <2>4, <2>5, <2>6, <2>7, <2>8 DEF Step
<1>4. ASSUME NEW p \in Attempts, Crash(p) PROVE GoesOn(p)
  BY <1>0, <1>4 DEF Crash, Goto, Local
<1>5. CASE UNCHANGED att
  BY <1>5 DEF Undecided
<1> QED
  <2> HIDE DEF GoesOn
  <2> QED BY <1>1, <1>2, <1>3, <1>4, <1>5 DEF Next, CloseAccount, Expire, vars

\* The marker keeps every other attempt out while an execution stands.
LEMMA StandingStep ==
    ASSUME StandingInv, [Next]_vars, NEW k \in Keys \ Expiring
    PROVE  StandingAt(k)'
<1>0. StandingAt(k) /\ TypeOK /\ EffectsKnown /\ Undecided
  BY DEF StandingInv
<1> DEFINE Others(p) == \A q \in Attempts \ {p} : att'[q] = att[q]
<1>elsewhere. ASSUME NEW p \in Attempts, att[p].key # k, Others(p), effects'[k] = effects[k]
              PROVE  Standing(k)' = Standing(k)
  <2>1. \A q \in effects[k] : q \in Attempts /\ q # p
    BY <1>0, <1>elsewhere DEF EffectsKnown, TypeOK
  <2> QED BY <1>elsewhere, <2>1 DEF Standing
<1>same. ASSUME NEW p \in Attempts, Others(p), effects'[k] = effects[k],
                att'[p].out = att[p].out \/ att'[p].out = "error" \/ p \notin effects[k]
         PROVE  Standing(k)' \subseteq Standing(k)
  <2>1. \A q \in effects[k] : q \in Attempts
    BY <1>0 DEF TypeOK
  <2> QED BY <1>same, <2>1 DEF Standing
<1>1. ASSUME NEW p \in Attempts, NEW h \in Keys, Send(p, h) PROVE StandingAt(k)'
  <2>1. Others(p) /\ att'[p].pc = "acquire" /\ att'[p].out = att[p].out /\ UNCHANGED <<slot, effects>>
    BY <1>0, <1>1 DEF Send, TypeOK, Local
  <2>2. Standing(k)' \subseteq Standing(k)
    BY <1>same, <2>1
  <2> QED BY <1>0, <2>1, <2>2, KeepsStanding DEF Holds
<1>2. ASSUME NEW p \in Attempts, Acquire(p) PROVE StandingAt(k)'
  <2>1. /\ Others(p) /\ att[p].pc = "acquire" /\ UNCHANGED effects
        /\ att'[p].key = att[p].key /\ att'[p].out = att[p].out
    BY <1>0, <1>2 DEF Acquire, Goto, TypeOK, Local
  <2>s. Standing(k)' \subseteq Standing(k)
    BY <1>same, <2>1
  <2>2. CASE att[p].key = k /\ slot[k] = "free"
    <3>1. slot'[k] = "in_progress" /\ att'[p].pc = "lock"
      BY <1>0, <1>2, <2>2 DEF Acquire, Goto, TypeOK, Local
    <3>2. \A q \in Attempts : ~Holds(q, k)
      BY <1>0, <2>2 DEF StandingAt
    <3>3. Standing(k)' = {}
      BY <1>0, <2>2, <2>s DEF StandingAt
    <3>4. \A q \in Attempts : Holds(q, k)' => q = p
      BY <2>1, <3>2 DEF Holds
    <3> QED BY <3>1, <3>3, <3>4 DEF StandingAt
  <2>3. CASE att[p].key = k /\ slot[k] # "free"
    <3>1. UNCHANGED slot /\ att'[p].pc = "lookup"
      BY <1>0, <1>2, <2>3 DEF Acquire, Goto, TypeOK, Local
    <3> QED BY <1>0, <2>1, <2>s, <3>1, KeepsStanding DEF Holds
  <2>4. CASE att[p].key # k
    <3>1. slot'[k] = slot[k]
      BY <1>0, <1>2, <2>4 DEF Acquire, TypeOK
    <3> QED BY <1>0, <2>1, <2>s, <2>4, <3>1, KeepsStanding DEF Holds
  <2> QED BY <2>2, <2>3, <2>4
<1>3. ASSUME NEW p \in Attempts, Lookup(p) PROVE StandingAt(k)'
  <2>1. Others(p) /\ att'[p].pc = "done" /\ att[p].pc = "lookup" /\ UNCHANGED <<slot, effects>>
    BY <1>0, <1>3 DEF Lookup, Finish, TypeOK, Local
  <2>2. p \notin effects[k]
    BY <1>0, <2>1 DEF EffectsKnown
  <2>3. Standing(k)' \subseteq Standing(k)
    BY <1>same, <2>1, <2>2
  <2> QED BY <1>0, <2>1, <2>3, KeepsStanding DEF Holds
<1>4. ASSUME NEW p \in Attempts, LockRow(p) \/ Reject(p) PROVE StandingAt(k)'
  <2>1. Others(p) /\ att'[p].key = att[p].key /\ UNCHANGED <<slot, effects>>
    BY <1>0, <1>4 DEF LockRow, Reject, Fail, TypeOK, Local
  <2>2. att[p].pc \in {"lock", "locked"}
    BY <1>4 DEF LockRow, Reject
  <2>3. p \notin effects[k]
    BY <1>0, <2>2 DEF EffectsKnown
  <2>4. Standing(k)' \subseteq Standing(k)
    BY <1>same, <2>1, <2>3
  <2> QED BY <1>0, <2>1, <2>2, <2>4, KeepsStanding DEF Holds
<1>5. ASSUME NEW p \in Attempts, Commit(p) PROVE StandingAt(k)'
  <2>1. /\ Others(p) /\ att'[p].key = att[p].key /\ UNCHANGED slot
        /\ att[p].pc = "locked" /\ att'[p].pc \in {"invalidate", "release"}
        /\ att'[p].pc = "release" => att'[p].out = "error"
    BY <1>0, <1>5 DEF Commit, Goto, Fail, TypeOK, Local
  <2>2. CASE att[p].key = k
    <3>1. slot[k] = "in_progress" /\ Standing(k) = {}
      BY <1>0, <2>1, <2>2 DEF StandingAt, Holds
    <3>2. effects'[k] = effects[k] \cup {p} /\ \A q \in effects[k] : q \in Attempts
      BY <1>0, <1>5, <2>2 DEF Commit, TypeOK
    <3>3. Standing(k)' \subseteq {p} /\ (att'[p].pc = "release" => Standing(k)' = {})
      BY <2>1, <3>1, <3>2 DEF Standing
    <3>4. \A q \in Attempts : Holds(q, k)' => q = p
      BY <1>0, <2>1, <2>2 DEF StandingAt, Holds
    <3>5. slot'[k] = "in_progress" /\ \A q, r \in Standing(k)' : q = r
      BY <2>1, <3>1, <3>3
    <3> QED BY <2>1, <3>3, <3>4, <3>5 DEF StandingAt
  <2>3. CASE att[p].key # k
    <3>1. effects'[k] = effects[k]
      BY <1>0, <1>5, <2>3 DEF Commit, TypeOK
    <3>2. Standing(k)' = Standing(k)
      BY <1>elsewhere, <2>1, <2>3, <3>1
    <3> QED BY <1>0, <2>1, <2>3, <3>2, KeepsStanding DEF Holds
  <2> QED BY <2>2, <2>3
<1>6. ASSUME NEW p \in Attempts, Invalidate(p) PROVE StandingAt(k)'
  <2>1. /\ Others(p) /\ att'[p].key = att[p].key /\ UNCHANGED <<slot, effects>>
        /\ att[p].pc = "invalidate"
        /\ \/ att'[p].pc = "save" /\ att'[p].out = att[p].out
           \/ att'[p].pc = "release" /\ att'[p].out = "error"
    BY <1>0, <1>6 DEF Invalidate, Goto, Fail, TypeOK, Local
  <2>2. Standing(k)' \subseteq Standing(k)
    BY <1>same, <2>1
  <2>3. ASSUME att[p].key = k, att'[p].pc = "release" PROVE Standing(k)' = {}
    <3>1. p \in effects[k] /\ att[p].out = "none"
      BY <1>0, <2>1, <2>3 DEF EffectsKnown, Undecided
    <3>2. p \in Standing(k)
      BY <3>1 DEF Standing
    <3>3. Standing(k) = {p}
      BY <1>0, <3>2 DEF StandingAt
    <3>4. p \notin Standing(k)'
      BY <2>1, <2>3 DEF Standing
    <3> QED BY <2>2, <3>3, <3>4
  <2> QED BY <1>0, <2>1, <2>2, <2>3, KeepsStanding DEF Holds
<1>7. ASSUME NEW p \in Attempts, Save(p) PROVE StandingAt(k)'
  <2>1. /\ Others(p) /\ att'[p].key = att[p].key /\ UNCHANGED effects
        /\ att[p].pc = "save" /\ att'[p].pc = "done"
    BY <1>0, <1>7 DEF Save, Finish, TypeOK, Local
  <2>2. att[p].out = "none"
    BY <1>0, <2>1 DEF Undecided
  <2>3. Standing(k)' \subseteq Standing(k)
    <3>1. \A q \in effects[k] : q \in Attempts
      BY <1>0 DEF TypeOK
    <3> QED BY <2>1, <2>2, <3>1 DEF Standing
  <2>4. CASE slot'[k] = slot[k]
    BY <1>0, <2>1, <2>3, <2>4, KeepsStanding DEF Holds
  <2>5. CASE slot'[k] # slot[k]
    <3>1. att[p].key = k /\ slot'[k] = "response"
      BY <1>0, <1>7, <2>5 DEF Save, TypeOK
    <3>2. \A q \in Attempts : ~Holds(q, k)'
      BY <1>0, <2>1, <3>1 DEF StandingAt, Holds
    <3>3. \A q, r \in Standing(k)' : q = r
      BY <1>0, <2>3 DEF StandingAt
    <3> QED BY <3>1, <3>2, <3>3 DEF StandingAt
  <2> QED BY <2>4, <2>5
<1>8. ASSUME NEW p \in Attempts, Release(p) PROVE StandingAt(k)'
  <2>1. /\ Others(p) /\ att'[p].key = att[p].key /\ UNCHANGED effects
        /\ att[p].pc = "release" /\ att'[p].pc \in {"done", "crashed"} /\ att'[p].out = att[p].out
    BY <1>0, <1>8 DEF Release, Finish, Goto, TypeOK, Local
  <2>2. Standing(k)' \subseteq Standing(k)
    BY <1>same, <2>1
  <2>3. CASE att[p].key = k
    <3>1. Standing(k)' = {}
      BY <1>0, <2>1, <2>2, <2>3 DEF StandingAt, Holds
    <3>2. \A q \in Attempts : ~Holds(q, k)'
      BY <1>0, <2>1, <2>3 DEF StandingAt, Holds
    <3> QED BY <3>1, <3>2 DEF StandingAt
  <2>4. CASE att[p].key # k
    <3>1. slot'[k] = slot[k]
      BY <1>0, <1>8, <2>4 DEF Release, TypeOK
    <3> QED BY <1>0, <2>1, <2>2, <2>4, <3>1, KeepsStanding DEF Holds
  <2> QED BY <2>3, <2>4
<1>9. ASSUME NEW p \in Attempts, Crash(p) PROVE StandingAt(k)'
  <2>1. Others(p) /\ att'[p].pc = "crashed" /\ att'[p].out = att[p].out /\ UNCHANGED <<slot, effects>>
    BY <1>0, <1>9 DEF Crash, Goto, TypeOK, Local
  <2>2. Standing(k)' \subseteq Standing(k)
    BY <1>same, <2>1
  <2> QED BY <1>0, <2>1, <2>2, KeepsStanding DEF Holds
<1>10. CASE slot'[k] = slot[k] /\ UNCHANGED <<att, effects>>
  <2>1. Standing(k)' = Standing(k)
    BY <1>10 DEF Standing
  <2>2. \A q \in Attempts : Holds(q, k)' <=> Holds(q, k)
    BY <1>10 DEF Holds
  <2> QED BY <1>0, <1>10, <2>1, <2>2 DEF StandingAt
<1>11. ASSUME NEW h \in Keys, Expire(h) PROVE slot'[k] = slot[k] /\ UNCHANGED <<att, effects>>
  BY <1>0, <1>11 DEF Expire, TypeOK
<1> QED
  BY <1>1, <1>2, <1>3, <1>4, <1>5, <1>6, <1>7, <1>8, <1>9, <1>10, <1>11
     DEF Next, Step, CloseAccount, vars

\* With every fault allowed, lost replies included: an operation is executed again
\* only after the execution before was answered with an error.
THEOREM RepeatsCorrect == Spec => []RepeatsFollowErrors
<1>1. Init => StandingInv
  BY InitTyped
     DEF Init, StandingInv, EffectsKnown, Undecided, StandingAt, Standing, Holds
<1>2. StandingInv /\ [Next]_vars => StandingInv'
  BY TypeStep, EffectsStep, UndecidedStep, StandingStep DEF StandingInv
<1>3. StandingInv => RepeatsFollowErrors
  BY DEF StandingInv, StandingAt, RepeatsFollowErrors
<1> QED BY <1>1, <1>2, <1>3, PTL DEF Spec

---------------------------------------------------------------------------
\* Refinement.

\* The commit of an attempt applies its operation.
LEMMA CommitApplies ==
    ASSUME NoLostReply, OnceInv, BalanceInv, NEW p \in Attempts, Commit(p)
    PROVE  L!Next
<1>1. PICK k \in Keys : k = att[p].key
  BY DEF Commit, OnceInv, TypeOK
<1>2. PICK a \in Accounts : a = Op[k].account
  OBVIOUS
<1>3. Acct(p) = a /\ Delta(p) = Op[k].delta /\ att[p].pc = "locked"
  BY <1>1, <1>2 DEF Acct, Delta, Commit
<1>4. att[p].read = balance[a] /\ balance[a] \in Int /\ balance[a] >= 0
  BY <1>2, <1>3 DEF BalanceInv, LockProtects, BalanceIsSumOfTransactions, TypeOK
<1>5. k \notin {h \in Keys : effects[h] # {}} \/ k \in Expiring
  <2>1. CASE k \notin Expiring
    <3>1. Holds(p, k) /\ MarkerAt(k)
      BY <1>1, <1>3, <2>1 DEF OnceInv, MarkerProtects, Holds
    <3> QED BY <1>3, <3>1 DEF MarkerAt
  <2> QED BY <2>1
<1>6. balance[a] + Op[k].delta >= 0
  BY <1>3, <1>4 DEF Commit, Covered
<1>7. balance' = [balance EXCEPT ![a] = @ + Op[k].delta]
  BY <1>3, <1>4 DEF Commit
<1>8. {h \in Keys : effects[h] # {}}' = {h \in Keys : effects[h] # {}} \cup {k}
  BY <1>1 DEF Commit, OnceInv, TypeOK
<1>9. L!Apply(k)
  BY <1>2, <1>5, <1>6, <1>7, <1>8 DEF L!Apply
<1> QED BY <1>9 DEF L!Next

\* Attempts and retries together are operations applied once or not at all,
\* under the same proviso.
THEOREM Refinement == NoLostReply => (Spec => ImplementsLedger)
<1> SUFFICES ASSUME NoLostReply PROVE Spec => ImplementsLedger
  OBVIOUS
<1>1. Init => L!Init
  BY DEF Init, L!Init
<1>2. OnceInv /\ BalanceInv /\ [Next]_vars => [L!Next]_(L!vars)
  <2> SUFFICES ASSUME OnceInv, BalanceInv, [Next]_vars
               PROVE  L!Next \/ UNCHANGED L!vars
    OBVIOUS
  <2>1. ASSUME NEW p \in Attempts, Commit(p) PROVE L!Next
    BY <2>1, CommitApplies
  <2>2. CASE UNCHANGED <<balance, effects>>
    BY <2>2 DEF L!vars
  <2> QED
    BY <2>1, <2>2
       DEF Next, Step, Send, Acquire, Lookup, LockRow, Reject, Invalidate, Save, Release,
           Crash, CloseAccount, Expire, vars
<1>3. Init => OnceInv /\ BalanceInv
  BY OnceInductive, BalanceInductive
<1>4. OnceInv /\ BalanceInv /\ [Next]_vars => (OnceInv /\ BalanceInv)'
  BY OnceInductive, BalanceInductive
<1> QED BY <1>1, <1>2, <1>3, <1>4, PTL DEF Spec, ImplementsLedger, L!Spec
===========================================================================
