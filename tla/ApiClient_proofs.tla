-------------------------- MODULE ApiClient_proofs -------------------------
(***************************************************************************)
(* Theorems about ApiClient for any number of calls, attempts and expiring *)
(* tokens: the shared token and the login lock, and what a result says of  *)
(* the remote server's work.                                               *)
(***************************************************************************)
EXTENDS ApiClient, TLAPS

\* The parts of TypeOK: the shared state, the calls, the lock.
SharedTyped ==
    /\ auth \in {"static", "login"}
    /\ token \in 0..logins
    /\ logins \in Nat /\ drops \in Nat
    /\ dead \subseteq 1..logins

CallsTyped == call \in [Calls -> Local] /\ done \in [Calls -> Nat]

LockHeld ==
    /\ lock = {c \in Calls : call[c].pc = "login"}
    /\ \A c, d \in lock : c = d

\* A login is only under way without a token, and without a token there is no
\* login that was not paid for by a discarded token.
LoginsPaid ==
    /\ \A c \in Calls : call[c].pc = "login" => token = 0
    /\ auth = "login" /\ token = 0 => logins <= drops

\* What a call knows of the tokens: the one it sent was issued, and after a 401
\* every token it may still get is newer than the refused one.
TokensKnown ==
    \A c \in Calls :
        /\ call[c].pc = "new" => ~call[c].second
        /\ call[c].pc \in {"sent", "answered"} => call[c].sent <= logins
        /\ call[c].second /\ call[c].pc \in {"wait_lock", "login"} =>
             /\ call[c].refused <= logins
             /\ token # 0 => call[c].refused < token

TokenInv == TypeOK /\ LoginsPaid /\ TokensKnown /\ OneLoginPerDrop /\ ReplayUsesNewerToken

\* What the server has done for a call that has no answer it can end with.
Unsettled(c) ==
    \/ call[c].pc \in {"wait_lock", "login", "sent"}
    \/ call[c].pc = "answered" /\ call[c].answer \in NotExecuted \cup {"unauthorized"}

EffectOf(c) ==
    /\ call[c].pc = "new" => done[c] = 0
    /\ call[c].pc # "ended" => call[c].result = "none"
    /\ call[c].pc \in {"sent", "answered"} => call[c].attempt >= 1
    /\ Unsettled(c) /\ call[c].op = "send" => done[c] = 0
    /\ Unsettled(c) /\ done[c] > 0 =>
         \/ call[c].second
         \/ call[c].pc \in {"sent", "answered"} /\ call[c].attempt > 1
    /\ call[c].pc = "answered" /\ call[c].answer \in Executed /\ call[c].op # "status"
         => done[c] > 0

EffectsKnown == \A c \in Calls : EffectOf(c)

EffectInv == TypeOK /\ EffectsKnown /\ SentAtMostOnce /\ AnswersMatchEffects

USE ClientAssumption

LEMMA TypeParts == TypeOK <=> SharedTyped /\ CallsTyped /\ LockHeld
BY DEF TypeOK, SharedTyped, CallsTyped, LockHeld

---------------------------------------------------------------------------
LEMMA AttemptTyped ==
    ASSUME NEW l \in Local, NEW n \in Nat, NEW t \in Nat
    PROVE  /\ [l EXCEPT !.pc = "sent", !.attempt = n, !.sent = t] \in Local
           /\ [l EXCEPT !.pc = "sent", !.answer = "none", !.attempt = n] \in Local
BY DEF Local, Pcs

LEMMA ResultTyped ==
    ASSUME NEW op \in Ops, NEW a \in Answers \cup {"none"}
    PROVE  Result(op, a) \in Results
BY DEF Result, Service, Results, Answers, Executed, NotExecuted, MaybeExecuted

\* A move of one coroutine that is not at the lock before or after it.
LEMMA Moved ==
    ASSUME TypeOK, NEW c \in Calls, NEW l \in Local, call' = [call EXCEPT ![c] = l],
           call[c].pc # "login", l.pc # "login", lock' = lock
    PROVE  call' \in [Calls -> Local] /\ LockHeld'
BY DEF TypeOK, LockHeld

\* Every step keeps the types, and the lock is held by whoever logs in.
LEMMA TypeStep == TypeOK /\ [Next]_vars => TypeOK'
<1> SUFFICES ASSUME TypeOK, [Next]_vars PROVE TypeOK'
    OBVIOUS
<1>0. \A c \in Calls : call[c] \in Local /\ call[c].pc \in Pcs /\ call[c].op \in Ops
                       /\ call[c].sent \in Nat /\ call[c].attempt \in Nat /\ token \in Nat
                       /\ logins \in Nat
    BY DEF TypeOK, Local
<1>1. ASSUME NEW c \in Calls, Begin(c) PROVE TypeOK'
  <2>1. PICK op \in Ops : call' = [call EXCEPT ![c] = Prepare([call[c] EXCEPT !.op = op])]
      BY <1>1 DEF Begin
  <2> DEFINE l0 == [call[c] EXCEPT !.op = op]
             l == Prepare(l0)
  <2>2. l0 \in Local
      BY <1>0 DEF Local
  <2>3. l \in Local /\ l.pc # "login"
    <3>1. [l0 EXCEPT !.pc = "wait_lock"] \in Local
        BY <2>2, <1>0 DEF Local, Pcs
    <3>2. [l0 EXCEPT !.pc = "sent", !.attempt = 1, !.sent = token] \in Local
        BY <2>2, <1>0 DEF Local, Pcs
    <3>3. l = [l0 EXCEPT !.pc = "sent", !.attempt = 1, !.sent = token]
          \/ l = [l0 EXCEPT !.pc = "wait_lock"]
        BY DEF Prepare, Sent
    <3> HIDE DEF l0
    <3> QED BY <3>1, <3>2, <3>3, <2>2 DEF Local
  <2>4. call[c].pc # "login" /\ UNCHANGED <<auth, token, lock, logins, dead, drops, done>>
      BY <1>1 DEF Begin
  <2> HIDE DEF l
  <2>5. call' \in [Calls -> Local] /\ LockHeld'
      BY <2>1, <2>3, <2>4, Moved DEF l
  <2> QED BY <2>4, <2>5 DEF TypeOK, LockHeld
<1>2. ASSUME NEW c \in Calls, InvalidInput(c) PROVE TypeOK'
  <2> DEFINE l == [call[c] EXCEPT !.op = "send", !.pc = "ended", !.result = "client_error"]
  <2>1. l \in Local /\ l.pc = "ended"
          BY <1>0 DEF Local, Pcs, Ops, Results, Answers
  <2>2. call' = [call EXCEPT ![c] = l] /\ call[c].pc # "login"
        /\ UNCHANGED <<auth, token, lock, logins, dead, drops, done>>
      BY <1>2 DEF InvalidInput
  <2> HIDE DEF l
  <2>3. call' \in [Calls -> Local] /\ LockHeld'
      BY <2>1, <2>2, Moved
  <2> QED BY <2>2, <2>3 DEF TypeOK, LockHeld
<1>3. ASSUME NEW c \in Calls, Acquire(c) PROVE TypeOK'
  <2>1. CASE token # 0
    <3> DEFINE l == [call[c] EXCEPT !.pc = "sent", !.attempt = 1, !.sent = token]
    <3>1. l \in Local /\ l.pc = "sent"
          BY <1>0 DEF Local, Pcs, Ops, Results, Answers
    <3>2. call' = [call EXCEPT ![c] = l] /\ call[c].pc # "login"
          /\ UNCHANGED <<auth, token, lock, logins, dead, drops, done>>
        BY <1>3, <2>1 DEF Acquire, Sent
    <3> HIDE DEF l
    <3>3. call' \in [Calls -> Local] /\ LockHeld'
        BY <3>1, <3>2, Moved
    <3> QED BY <3>2, <3>3 DEF TypeOK, LockHeld
  <2>2. CASE token = 0
    <3> DEFINE l == [call[c] EXCEPT !.pc = "login"]
    <3>1. l \in Local /\ l.pc = "login"
          BY <1>0 DEF Local, Pcs, Ops, Results, Answers
    <3>2. call' = [call EXCEPT ![c] = l] /\ lock = {} /\ lock' = {c}
          /\ UNCHANGED <<auth, token, logins, dead, drops, done>>
        BY <1>3, <2>2 DEF Acquire
    <3> HIDE DEF l
    <3> QED BY <3>1, <3>2 DEF TypeOK
  <2> QED BY <2>1, <2>2
<1>4. ASSUME NEW c \in Calls, LoginOk(c) PROVE TypeOK'
  <2> DEFINE l == [call[c] EXCEPT !.pc = "sent", !.attempt = 1, !.sent = logins + 1]
  <2>0. l \in Local
    <3>1. logins + 1 \in Nat
        BY <1>0
    <3> QED BY <3>1, <1>0, AttemptTyped
  <2>1. l \in Local /\ l.pc = "sent"
      BY <2>0 DEF Local
  <2>2. call' = [call EXCEPT ![c] = l] /\ call[c].pc = "login" /\ lock' = {}
        /\ token' = logins + 1 /\ logins' = logins + 1 /\ UNCHANGED <<auth, dead, drops, done>>
      BY <1>4 DEF LoginOk, Sent
  <2> HIDE DEF l
  <2>3. \A d \in Calls : call'[d].pc # "login"
      BY <2>1, <2>2 DEF TypeOK
  <2> QED BY <2>1, <2>2, <2>3 DEF TypeOK
<1>5. ASSUME NEW c \in Calls, NEW r \in Results, End(c, r),
             UNCHANGED <<auth, token, logins, dead, drops, done>>, lock' = lock \ {c}
      PROVE  TypeOK'
  <2> DEFINE l == [call[c] EXCEPT !.pc = "ended", !.result = r, !.sent = 0, !.refused = 0,
                                  !.answer = "none"]
  <2>1. l \in Local /\ l.pc = "ended"
          BY <1>0 DEF Local, Pcs, Ops, Results, Answers
  <2>2. call' = [call EXCEPT ![c] = l]
      BY <1>5 DEF End
  <2> HIDE DEF l
  <2> QED BY <2>1, <2>2, <1>5 DEF TypeOK
<1>6. ASSUME NEW c \in Calls, LoginFails(c) PROVE TypeOK'
  <2>1. PICK r \in {"unavailable", "internal"} : End(c, r)
      BY <1>6 DEF LoginFails
  <2>2. r \in Results /\ lock' = lock \ {c} /\ UNCHANGED <<auth, token, logins, dead, drops, done>>
      BY <1>6 DEF LoginFails, Results, TypeOK
  <2> QED BY <2>1, <2>2, <1>5
<1>7. ASSUME NEW c \in Calls, Serve(c) PROVE TypeOK'
  <2>1. PICK a \in Answers, executed \in BOOLEAN :
          /\ call' = [call EXCEPT ![c] = [call[c] EXCEPT !.pc = "answered", !.answer = a]]
          /\ done' = [done EXCEPT ![c] = IF executed /\ call[c].op # "status" THEN @ + 1 ELSE @]
      BY <1>7 DEF Serve
  <2> DEFINE l == [call[c] EXCEPT !.pc = "answered", !.answer = a]
  <2>2. l \in Local /\ l.pc = "answered"
          BY <1>0 DEF Local, Pcs, Ops, Results, Answers
  <2>a. done' \in [Calls -> Nat]
      BY <2>1 DEF TypeOK
  <2>3. call' = [call EXCEPT ![c] = l] /\ call[c].pc = "sent" /\ done' \in [Calls -> Nat]
        /\ UNCHANGED <<auth, token, lock, logins, dead, drops>>
      BY <1>7, <2>1, <2>a DEF Serve
  <2> HIDE DEF l
  <2>4. call' \in [Calls -> Local] /\ LockHeld'
      BY <2>2, <2>3, Moved
  <2> QED BY <2>3, <2>4 DEF TypeOK, LockHeld
<1>8. ASSUME NEW c \in Calls, Retry(c) PROVE TypeOK'
  <2> DEFINE l == [call[c] EXCEPT !.pc = "sent", !.answer = "none", !.attempt = call[c].attempt + 1]
  <2>0. l \in Local
    <3>1. call[c].attempt + 1 \in Nat
        BY <1>0
    <3> QED BY <3>1, <1>0, AttemptTyped
  <2>1. l \in Local /\ l.pc = "sent"
      BY <2>0 DEF Local
  <2>2. call' = [call EXCEPT ![c] = l] /\ call[c].pc # "login"
        /\ UNCHANGED <<auth, token, lock, logins, dead, drops, done>>
      BY <1>8 DEF Retry
  <2> HIDE DEF l
  <2>3. call' \in [Calls -> Local] /\ LockHeld'
      BY <2>1, <2>2, Moved
  <2> QED BY <2>2, <2>3 DEF TypeOK, LockHeld
<1>9. ASSUME NEW c \in Calls, Replay(c) PROVE TypeOK'
  <2> DEFINE l == [call[c] EXCEPT !.pc = "wait_lock", !.second = TRUE, !.refused = call[c].sent,
                                  !.answer = "none"]
  <2>1. l \in Local /\ l.pc = "wait_lock"
          BY <1>0 DEF Local, Pcs, Ops, Results, Answers
  <2>2. call' = [call EXCEPT ![c] = l] /\ call[c].pc # "login"
        /\ UNCHANGED <<auth, lock, logins, dead, done>> /\ token' = 0 /\ drops' = drops + 1
      BY <1>9 DEF Replay
  <2> HIDE DEF l
  <2>3. call' \in [Calls -> Local] /\ LockHeld'
      BY <2>1, <2>2, Moved
  <2> QED BY <2>2, <2>3 DEF TypeOK, LockHeld
<1>10. ASSUME NEW c \in Calls, Finish(c) PROVE TypeOK'
  <2>1. call[c].answer \in Answers \cup {"none"}
      BY <1>0 DEF Local
  <2>2. Result(call[c].op, call[c].answer) \in Results
      BY <2>1, <1>0, ResultTyped
  <2>3. End(c, Result(call[c].op, call[c].answer)) /\ lock' = lock \ {c}
        /\ UNCHANGED <<auth, token, logins, dead, drops, done>>
      BY <1>10 DEF Finish, TypeOK
  <2> QED BY <2>2, <2>3, <1>5
<1>11. ASSUME NEW c \in Calls, Cancel(c) PROVE TypeOK'
    BY <1>11, <1>5 DEF Cancel, Results
<1>12. ASSUME ExpireToken PROVE TypeOK'
    BY <1>12 DEF ExpireToken, TypeOK
<1>13. CASE UNCHANGED vars
    BY <1>13 DEF vars, TypeOK
<1> QED BY <1>1, <1>2, <1>3, <1>4, <1>6, <1>7, <1>8, <1>9, <1>10, <1>11, <1>12, <1>13
    DEF Next, Progress

\* Every reachable state of ApiClient is well typed, and the login lock is held
\* by the one coroutine that logs in: TokenLoginMixin's lock and token, and the
\* locals of BaseHTTPClient.request.
THEOREM TypeCorrect == Spec => []TypeOK
<1>1. Init => TypeOK
    BY DEF Init, TypeOK, Local, Fresh, Pcs, Ops, Answers, Results
<1> QED BY <1>1, TypeStep, PTL DEF Spec

---------------------------------------------------------------------------
\* What an action of c leaves alone, and what it makes of c's locals.
Others(c) == \A d \in Calls : d # c => call'[d] = call[d] /\ done'[d] = done[d]

\* To the request with token t, or to the login lock.
Prepared(c, l) ==
    /\ call'[c].second = l.second /\ call'[c].refused = l.refused /\ call'[c].result = l.result
    /\ \/ token # 0 /\ call'[c].pc = "sent" /\ call'[c].sent = token /\ call'[c].attempt = 1
       \/ token = 0 /\ call'[c].pc = "wait_lock"

LEMMA BeginMoves ==
    ASSUME CallsTyped, NEW c \in Calls, Begin(c)
    PROVE  Others(c) /\ Prepared(c, call[c]) /\ done'[c] = done[c] /\ call[c].pc = "new"
<1>1. PICK op \in Ops : call' = [call EXCEPT ![c] = Prepare([call[c] EXCEPT !.op = op])]
    BY DEF Begin
<1>2. call'[c] = Prepare([call[c] EXCEPT !.op = op]) /\ \A d \in Calls : d # c => call'[d] = call[d]
    BY <1>1 DEF CallsTyped
<1>3. call[c] \in Local /\ done' = done
    BY DEF CallsTyped, Begin
<1>4. CASE token # 0
  <2>1. call'[c] = [[call[c] EXCEPT !.op = op] EXCEPT !.pc = "sent", !.attempt = 1, !.sent = token]
      BY <1>2, <1>4 DEF Prepare, Sent
  <2> QED BY <2>1, <1>2, <1>3, <1>4 DEF Others, Prepared, Local, Begin
<1>5. CASE token = 0
  <2>1. call'[c] = [[call[c] EXCEPT !.op = op] EXCEPT !.pc = "wait_lock"]
      BY <1>2, <1>5 DEF Prepare
  <2> QED BY <2>1, <1>2, <1>3, <1>5 DEF Others, Prepared, Local, Begin
<1> QED BY <1>4, <1>5

Keeps(c) == call'[c].op = call[c].op /\ call'[c].result = call[c].result

LEMMA AcquireMoves ==
    ASSUME CallsTyped, NEW c \in Calls, Acquire(c)
    PROVE  /\ Others(c) /\ Keeps(c) /\ done'[c] = done[c] /\ call[c].pc = "wait_lock"
           /\ call'[c].second = call[c].second /\ call'[c].refused = call[c].refused
           /\ \/ token # 0 /\ call'[c].pc = "sent" /\ call'[c].sent = token /\ call'[c].attempt = 1
              \/ token = 0 /\ call'[c].pc = "login" /\ call'[c].attempt = call[c].attempt
<1>1. CASE token # 0
  <2>1. call' = [call EXCEPT ![c] = [call[c] EXCEPT !.pc = "sent", !.attempt = 1, !.sent = token]]
        /\ done' = done /\ call[c].pc = "wait_lock"
      BY <1>1 DEF Acquire, Sent
  <2> QED BY <2>1, <1>1 DEF Others, Keeps, CallsTyped, Local
<1>2. CASE token = 0
  <2>1. call' = [call EXCEPT ![c] = [call[c] EXCEPT !.pc = "login"]]
        /\ done' = done /\ call[c].pc = "wait_lock"
      BY <1>2 DEF Acquire
  <2> QED BY <2>1, <1>2 DEF Others, Keeps, CallsTyped, Local
<1> QED BY <1>1, <1>2

LEMMA LoginOkMoves ==
    ASSUME CallsTyped, NEW c \in Calls, LoginOk(c)
    PROVE  /\ Others(c) /\ Keeps(c) /\ done'[c] = done[c] /\ call[c].pc = "login"
           /\ call'[c].second = call[c].second /\ call'[c].refused = call[c].refused
           /\ call'[c].pc = "sent" /\ call'[c].sent = logins + 1 /\ call'[c].attempt = 1
BY DEF Others, Keeps, LoginOk, Sent, CallsTyped, Local

LEMMA EndMoves ==
    ASSUME CallsTyped, NEW c \in Calls, NEW r, End(c, r), done' = done
    PROVE  /\ Others(c) /\ done'[c] = done[c]
           /\ call'[c].pc = "ended" /\ call'[c].result = r /\ call'[c].op = call[c].op
           /\ call'[c].attempt = call[c].attempt /\ call'[c].second = call[c].second
BY DEF Others, End, CallsTyped, Local

LEMMA InvalidMoves ==
    ASSUME CallsTyped, NEW c \in Calls, InvalidInput(c)
    PROVE  /\ Others(c) /\ done'[c] = done[c] /\ call[c].pc = "new"
           /\ call'[c].pc = "ended" /\ call'[c].result = "client_error" /\ call'[c].op = "send"
           /\ call'[c].second = call[c].second
BY DEF Others, InvalidInput, CallsTyped, Local

LEMMA ServeMoves ==
    ASSUME CallsTyped, NEW c \in Calls, Serve(c)
    PROVE  /\ Others(c) /\ Keeps(c) /\ call[c].pc = "sent" /\ call'[c].pc = "answered"
           /\ call'[c].attempt = call[c].attempt /\ call'[c].second = call[c].second
           /\ call'[c].sent = call[c].sent /\ call'[c].refused = call[c].refused
           /\ \E executed \in BOOLEAN :
                /\ call'[c].answer \in Executed => executed
                /\ call'[c].answer \in NotExecuted \cup {"unauthorized"} => ~executed
                /\ done'[c] = IF executed /\ call[c].op # "status" THEN done[c] + 1 ELSE done[c]
<1>1. PICK a \in Answers, executed \in BOOLEAN :
        /\ a = "unauthorized" => call[c].sent \in dead
        /\ call[c].sent \in dead => a \in MaybeExecuted \cup {"unauthorized"} /\ ~executed
        /\ a \in Executed => executed
        /\ a \in NotExecuted => ~executed
        /\ call' = [call EXCEPT ![c] = [call[c] EXCEPT !.pc = "answered", !.answer = a]]
        /\ done' = [done EXCEPT ![c] = IF executed /\ call[c].op # "status" THEN @ + 1 ELSE @]
    BY DEF Serve
<1>2. call'[c] = [call[c] EXCEPT !.pc = "answered", !.answer = a] /\ call[c] \in Local
      /\ done'[c] = IF executed /\ call[c].op # "status" THEN done[c] + 1 ELSE done[c]
    BY <1>1 DEF CallsTyped
<1>3. Others(c)
    BY <1>1 DEF CallsTyped, Others
<1>4. call[c].pc = "sent"
    BY DEF Serve
<1>5. call'[c].answer = a
    BY <1>2 DEF Local
<1>6. a = "unauthorized" \/ a \in NotExecuted => ~executed
    BY <1>1
<1>7. Keeps(c) /\ call'[c].pc = "answered"
      /\ call'[c].attempt = call[c].attempt /\ call'[c].second = call[c].second
      /\ call'[c].sent = call[c].sent /\ call'[c].refused = call[c].refused
    BY <1>2 DEF Keeps, Local
<1>8. /\ call'[c].answer \in Executed => executed
      /\ call'[c].answer \in NotExecuted \cup {"unauthorized"} => ~executed
    BY <1>1, <1>5, <1>6
<1> QED BY <1>2, <1>3, <1>4, <1>7, <1>8

LEMMA RetryMoves ==
    ASSUME CallsTyped, NEW c \in Calls, Retry(c)
    PROVE  /\ Others(c) /\ Keeps(c) /\ done'[c] = done[c]
           /\ call[c].pc = "answered" /\ call[c].answer \in MaybeExecuted /\ call[c].op # "send"
           /\ call'[c].pc = "sent" /\ call'[c].attempt = call[c].attempt + 1
           /\ call'[c].second = call[c].second
           /\ call'[c].sent = call[c].sent /\ call'[c].refused = call[c].refused
BY DEF Others, Keeps, Retry, CanRetry, Retryable, CallsTyped, Local

LEMMA ReplayMoves ==
    ASSUME CallsTyped, NEW c \in Calls, Replay(c)
    PROVE  /\ Others(c) /\ Keeps(c) /\ done'[c] = done[c]
           /\ call[c].pc = "answered" /\ call[c].answer = "unauthorized"
           /\ call'[c].pc = "wait_lock" /\ call'[c].second /\ call'[c].refused = call[c].sent
BY DEF Others, Keeps, Replay, CallsTyped, Local

---------------------------------------------------------------------------
\* The shared token.
LEMMA TokenInit == Init => TokenInv
BY DEF Init, TokenInv, TypeOK, LoginsPaid, TokensKnown, OneLoginPerDrop, ReplayUsesNewerToken,
       Local, Fresh, Pcs, Ops, Answers, Results

LEMMA TokenStep == TokenInv /\ [Next]_vars => TokenInv'
<1> SUFFICES ASSUME TokenInv, [Next]_vars PROVE TokenInv'
    OBVIOUS
<1> USE DEF TokenInv
<1>0. TypeOK' /\ CallsTyped /\ SharedTyped
    BY TypeStep, TypeParts
<1>t. /\ token \in Nat /\ logins \in Nat /\ drops \in Nat /\ token <= logins
      /\ \A c \in Calls : call[c].sent \in Nat /\ call[c].refused \in Nat
    BY <1>0 DEF SharedTyped, CallsTyped, Local
<1> DEFINE Rest == LoginsPaid /\ TokensKnown /\ OneLoginPerDrop /\ ReplayUsesNewerToken
<1>1. ASSUME NEW c \in Calls, Begin(c) PROVE Rest'
  <2>1. Others(c) /\ Prepared(c, call[c]) /\ call[c].pc = "new"
      BY <1>1, <1>0, BeginMoves
  <2>2. UNCHANGED <<auth, token, lock, logins, dead, drops>>
      BY <1>1 DEF Begin
  <2> QED BY <2>1, <2>2, <1>t
      DEF Others, Prepared, LoginsPaid, TokensKnown, OneLoginPerDrop, ReplayUsesNewerToken
<1>2. ASSUME NEW c \in Calls, call'[c].pc = "ended", Others(c),
             UNCHANGED <<auth, token, logins, dead, drops>>
      PROVE  Rest'
    BY <1>2, <1>t DEF Others, LoginsPaid, TokensKnown, OneLoginPerDrop, ReplayUsesNewerToken
<1>3. ASSUME NEW c \in Calls, InvalidInput(c) PROVE Rest'
    BY <1>3, <1>2, <1>0, InvalidMoves DEF InvalidInput
<1>4. ASSUME NEW c \in Calls, Acquire(c) PROVE Rest'
  <2>1. UNCHANGED <<auth, token, logins, dead, drops>>
      BY <1>4 DEF Acquire
  <2> QED BY <2>1, <1>4, <1>0, <1>t, AcquireMoves
      DEF Others, LoginsPaid, TokensKnown, OneLoginPerDrop, ReplayUsesNewerToken
<1>5. ASSUME NEW c \in Calls, LoginOk(c) PROVE Rest'
  <2>1. token' = logins + 1 /\ logins' = logins + 1 /\ UNCHANGED <<auth, dead, drops>>
      BY <1>5 DEF LoginOk
  <2>2. call[c].pc = "login" /\ token = 0
      BY <1>5 DEF LoginOk, LoginsPaid
  <2>3. \A d \in Calls : d # c => call[d].pc # "login"
      BY <2>2 DEF TypeOK
  <2>4. Others(c) /\ call'[c].second = call[c].second /\ call'[c].refused = call[c].refused
        /\ call'[c].pc = "sent" /\ call'[c].sent = logins + 1
      BY <1>5, <1>0, LoginOkMoves
  <2>5. LoginsPaid' /\ OneLoginPerDrop'
      BY <2>1, <2>2, <2>3, <2>4, <1>t DEF Others, LoginsPaid, OneLoginPerDrop
  <2>6. TokensKnown'
      BY <2>1, <2>2, <2>3, <2>4, <1>t DEF Others, TokensKnown
  <2>7. ReplayUsesNewerToken'
      BY <2>1, <2>2, <2>3, <2>4, <1>t DEF Others, TokensKnown, ReplayUsesNewerToken
  <2> QED BY <2>5, <2>6, <2>7
<1>6. ASSUME NEW c \in Calls, LoginFails(c) PROVE Rest'
  <2>1. PICK r \in {"unavailable", "internal"} : End(c, r)
      BY <1>6 DEF LoginFails
  <2>2. done' = done /\ UNCHANGED <<auth, token, logins, dead, drops>>
      BY <1>6 DEF LoginFails
  <2> QED BY <2>1, <2>2, <1>0, <1>2, EndMoves
<1>7. ASSUME NEW c \in Calls, Serve(c) PROVE Rest'
  <2>1. UNCHANGED <<auth, token, lock, logins, dead, drops>>
      BY <1>7 DEF Serve
  <2>2. Others(c) /\ call[c].pc = "sent" /\ call'[c].pc = "answered"
        /\ call'[c].second = call[c].second
        /\ call'[c].sent = call[c].sent /\ call'[c].refused = call[c].refused
      BY <1>7, <1>0, ServeMoves
  <2> QED BY <2>1, <2>2, <1>t
      DEF Others, LoginsPaid, TokensKnown, OneLoginPerDrop, ReplayUsesNewerToken
<1>8. ASSUME NEW c \in Calls, Retry(c) PROVE Rest'
  <2>1. UNCHANGED <<auth, token, lock, logins, dead, drops>>
      BY <1>8 DEF Retry
  <2>2. Others(c) /\ call[c].pc = "answered" /\ call'[c].pc = "sent"
        /\ call'[c].second = call[c].second
        /\ call'[c].sent = call[c].sent /\ call'[c].refused = call[c].refused
      BY <1>8, <1>0, RetryMoves
  <2> QED BY <2>1, <2>2, <1>t
      DEF Others, LoginsPaid, TokensKnown, OneLoginPerDrop, ReplayUsesNewerToken
<1>9. ASSUME NEW c \in Calls, Replay(c) PROVE Rest'
  <2>1. token' = 0 /\ drops' = drops + 1 /\ UNCHANGED <<auth, lock, logins, dead>>
      BY <1>9 DEF Replay
  <2>2. Others(c) /\ call[c].pc = "answered" /\ call'[c].pc = "wait_lock"
        /\ call'[c].refused = call[c].sent
      BY <1>9, <1>0, ReplayMoves
  <2> QED BY <2>1, <2>2, <1>t
      DEF Others, LoginsPaid, TokensKnown, OneLoginPerDrop, ReplayUsesNewerToken
<1>10. ASSUME NEW c \in Calls, Finish(c) PROVE Rest'
  <2>1. End(c, Result(call[c].op, call[c].answer)) /\ done' = done
        /\ UNCHANGED <<auth, token, logins, dead, drops>>
      BY <1>10 DEF Finish
  <2> QED BY <2>1, <1>0, <1>2, EndMoves
<1>11. ASSUME NEW c \in Calls, Cancel(c) PROVE Rest'
  <2>1. End(c, "cancelled") /\ done' = done /\ UNCHANGED <<auth, token, logins, dead, drops>>
      BY <1>11 DEF Cancel
  <2> QED BY <2>1, <1>0, <1>2, EndMoves
<1>12. ASSUME ExpireToken PROVE Rest'
    BY <1>12 DEF ExpireToken, LoginsPaid, TokensKnown, OneLoginPerDrop, ReplayUsesNewerToken
<1>13. ASSUME UNCHANGED vars PROVE Rest'
    BY <1>13 DEF vars, LoginsPaid, TokensKnown, OneLoginPerDrop, ReplayUsesNewerToken
<1> HIDE DEF Rest
<1>14. Rest'
    BY <1>1, <1>3, <1>4, <1>5, <1>6, <1>7, <1>8, <1>9, <1>10, <1>11, <1>12, <1>13
    DEF Next, Progress
<1> QED BY <1>0, <1>14 DEF Rest

\* One login for the first token and one for every token discarded, however many
\* calls share the client: the second look at the token under _login_lock.
THEOREM LoginsCorrect == Spec => []OneLoginPerDrop
BY TokenInit, TokenStep, PTL DEF Spec, TokenInv

\* A call that repeats its request after a 401 does so with a newer token than
\* the one refused, whoever else logs in or discards tokens meanwhile.
THEOREM ReplayCorrect == Spec => []ReplayUsesNewerToken
BY TokenInit, TokenStep, PTL DEF Spec, TokenInv

---------------------------------------------------------------------------
\* What the remote server has done.
LEMMA EffectInit == Init => EffectInv
BY DEF Init, EffectInv, TypeOK, EffectsKnown, EffectOf, Unsettled, SentAtMostOnce,
       AnswersMatchEffects, Local, Fresh, Pcs, Ops, Answers, Results

\* The coroutines that do not move.
LEMMA OthersKnown ==
    ASSUME EffectsKnown, NEW c \in Calls, Others(c), EffectOf(c)'
    PROVE  EffectsKnown'
BY DEF EffectsKnown, EffectOf, Unsettled, Others

LEMMA EffectStep == EffectInv /\ [Next]_vars => EffectInv'
<1> SUFFICES ASSUME EffectInv, [Next]_vars PROVE EffectInv'
    OBVIOUS
<1> USE DEF EffectInv
<1>0. TypeOK' /\ CallsTyped
    BY TypeStep, TypeParts
<1>t. \A c \in Calls : done[c] \in Nat /\ call[c].attempt \in Nat
    BY <1>0 DEF CallsTyped, Local
<1> DEFINE Rest == EffectsKnown /\ SentAtMostOnce /\ AnswersMatchEffects
<1>1. ASSUME NEW c \in Calls, Begin(c) PROVE Rest'
  <2>1. Others(c) /\ Prepared(c, call[c]) /\ done'[c] = done[c] /\ call[c].pc = "new"
      BY <1>1, <1>0, BeginMoves
  <2>2. done'[c] = 0 /\ call'[c].result = "none"
      BY <2>1 DEF EffectsKnown, EffectOf, Prepared
  <2> QED BY <2>1, <2>2, <1>t
      DEF Others, Prepared, EffectsKnown, EffectOf, Unsettled, SentAtMostOnce, AnswersMatchEffects
<1>2. ASSUME NEW c \in Calls, InvalidInput(c) PROVE Rest'
  <2>1. Others(c) /\ done'[c] = 0 /\ call'[c].pc = "ended" /\ call'[c].result = "client_error"
        /\ call'[c].op = "send"
      BY <1>2, <1>0, InvalidMoves DEF EffectsKnown, EffectOf
  <2> QED BY <2>1, <1>t DEF Others, EffectsKnown, EffectOf, Unsettled, SentAtMostOnce, AnswersMatchEffects
<1>3. ASSUME NEW c \in Calls, NEW r, End(c, r), done' = done, r \notin {"value", "client_error"}
      PROVE  Rest'
  <2>1. Others(c) /\ done'[c] = done[c] /\ call'[c].pc = "ended" /\ call'[c].result = r
        /\ call'[c].op = call[c].op
      BY <1>3, <1>0, EndMoves
  <2> QED BY <2>1, <1>3, <1>t
      DEF Others, EffectsKnown, EffectOf, Unsettled, SentAtMostOnce, AnswersMatchEffects
<1>4. ASSUME NEW c \in Calls, Acquire(c) PROVE Rest'
  <2>1. Others(c) /\ Keeps(c) /\ done'[c] = done[c] /\ call[c].pc = "wait_lock"
        /\ call'[c].second = call[c].second
        /\ \/ call'[c].pc = "sent" /\ call'[c].attempt = 1
           \/ call'[c].pc = "login" /\ call'[c].attempt = call[c].attempt
      BY <1>4, <1>0, AcquireMoves
  <2>2. /\ call[c].op = "send" => done[c] = 0
        /\ done[c] > 0 => call[c].second
        /\ call[c].result = "none"
      BY <2>1, <1>t DEF EffectsKnown, EffectOf, Unsettled
  <2>3. EffectsKnown'
    <3>1. EffectOf(c)'
        BY <2>1, <2>2, <1>t DEF Keeps, EffectOf, Unsettled
    <3> QED BY <3>1, <2>1, OthersKnown
  <2> QED BY <2>1, <2>2, <2>3, <1>t DEF Others, Keeps, SentAtMostOnce, AnswersMatchEffects
<1>5. ASSUME NEW c \in Calls, LoginOk(c) PROVE Rest'
  <2>1. Others(c) /\ Keeps(c) /\ done'[c] = done[c] /\ call[c].pc = "login"
        /\ call'[c].second = call[c].second /\ call'[c].pc = "sent" /\ call'[c].attempt = 1
      BY <1>5, <1>0, LoginOkMoves
  <2>2. /\ call[c].op = "send" => done[c] = 0
        /\ done[c] > 0 => call[c].second
        /\ call[c].result = "none"
      BY <2>1, <1>t DEF EffectsKnown, EffectOf, Unsettled
  <2>3. EffectsKnown'
    <3>1. EffectOf(c)'
        BY <2>1, <2>2, <1>t DEF Keeps, EffectOf, Unsettled
    <3> QED BY <3>1, <2>1, OthersKnown
  <2> QED BY <2>1, <2>2, <2>3, <1>t DEF Others, Keeps, SentAtMostOnce, AnswersMatchEffects
<1>6. ASSUME NEW c \in Calls, LoginFails(c) PROVE Rest'
  <2>1. PICK r \in {"unavailable", "internal"} : End(c, r)
      BY <1>6 DEF LoginFails
  <2> QED BY <2>1, <1>3, <1>6 DEF LoginFails
<1>7. ASSUME NEW c \in Calls, Serve(c) PROVE Rest'
  <2>1. /\ Others(c) /\ Keeps(c) /\ call[c].pc = "sent" /\ call'[c].pc = "answered"
        /\ call'[c].attempt = call[c].attempt /\ call'[c].second = call[c].second
      BY <1>7, <1>0, ServeMoves
  <2>2. PICK executed \in BOOLEAN :
          /\ call'[c].answer \in Executed => executed
          /\ call'[c].answer \in NotExecuted \cup {"unauthorized"} => ~executed
          /\ done'[c] = IF executed /\ call[c].op # "status" THEN done[c] + 1 ELSE done[c]
      BY <1>7, <1>0, ServeMoves
  <2>3. call[c].op = "send" => done[c] = 0
      BY <2>1 DEF EffectsKnown, EffectOf, Unsettled
  <2>4. EffectsKnown'
      BY <2>1, <2>2, <2>3, <1>t DEF Others, Keeps, EffectsKnown, EffectOf, Unsettled
  <2>5. SentAtMostOnce' /\ AnswersMatchEffects'
      BY <2>1, <2>2, <2>3, <1>t
         DEF Others, Keeps, EffectsKnown, EffectOf, SentAtMostOnce, AnswersMatchEffects
  <2> QED BY <2>4, <2>5
<1>8. ASSUME NEW c \in Calls, Retry(c) PROVE Rest'
  <2>1. Others(c) /\ Keeps(c) /\ done'[c] = done[c]
        /\ call[c].pc = "answered" /\ call[c].op # "send"
        /\ call'[c].pc = "sent" /\ call'[c].attempt = call[c].attempt + 1
      BY <1>8, <1>0, RetryMoves
  <2>2. call'[c].attempt > 1
      BY <2>1, <1>t DEF EffectsKnown, EffectOf
  <2> QED BY <2>1, <2>2, <1>t
      DEF Others, Keeps, EffectsKnown, EffectOf, Unsettled, SentAtMostOnce, AnswersMatchEffects
<1>9. ASSUME NEW c \in Calls, Replay(c) PROVE Rest'
  <2>1. Others(c) /\ Keeps(c) /\ done'[c] = done[c]
        /\ call[c].pc = "answered" /\ call[c].answer = "unauthorized"
        /\ call'[c].pc = "wait_lock" /\ call'[c].second
      BY <1>9, <1>0, ReplayMoves
  <2>2. /\ call[c].op = "send" => done[c] = 0
        /\ call[c].result = "none"
      BY <2>1, <1>t DEF EffectsKnown, EffectOf, Unsettled
  <2>3. EffectsKnown'
    <3>1. EffectOf(c)'
        BY <2>1, <2>2, <1>t DEF Keeps, EffectOf, Unsettled
    <3> QED BY <3>1, <2>1, OthersKnown
  <2> QED BY <2>1, <2>2, <2>3, <1>t DEF Others, Keeps, SentAtMostOnce, AnswersMatchEffects
<1>10. ASSUME NEW c \in Calls, Finish(c) PROVE Rest'
  <2> DEFINE a == call[c].answer
             r == Result(call[c].op, a)
  <2>1. End(c, r) /\ done' = done /\ call[c].pc = "answered"
      BY <1>10 DEF Finish
  <2>2. /\ Others(c) /\ done'[c] = done[c]
        /\ call'[c].pc = "ended" /\ call'[c].result = r /\ call'[c].op = call[c].op
        /\ call'[c].attempt = call[c].attempt /\ call'[c].second = call[c].second
      BY <2>1, <1>0, EndMoves
  <2>3. r = "value" => a \in Executed
      BY DEF Result, Service, Envelope, Executed
  <2>4. r = "client_error" => a \in NotExecuted
      BY DEF Result, Service, Envelope, NotExecuted
  <2>5. /\ r = "value" => call[c].op = "status" \/ done[c] > 0
        /\ r = "client_error" /\ done[c] > 0
             => call[c].op # "send" /\ (call[c].attempt > 1 \/ call[c].second)
      BY <2>1, <2>3, <2>4, <1>t DEF EffectsKnown, EffectOf, Unsettled
  <2> HIDE DEF r
  <2> QED BY <2>2, <2>5, <1>t DEF Others, EffectsKnown, EffectOf, Unsettled, SentAtMostOnce, AnswersMatchEffects
<1>11. ASSUME NEW c \in Calls, Cancel(c) PROVE Rest'
    BY <1>11, <1>3 DEF Cancel
<1>12. ASSUME UNCHANGED <<call, done>> PROVE Rest'
    BY <1>12 DEF EffectsKnown, EffectOf, Unsettled, SentAtMostOnce, AnswersMatchEffects
<1> HIDE DEF Rest
<1>13. Rest'
    BY <1>1, <1>2, <1>4, <1>5, <1>6, <1>7, <1>8, <1>9, <1>10, <1>11, <1>12
    DEF Next, Progress, ExpireToken, vars
<1> QED BY <1>0, <1>13 DEF Rest

\* One call of create_task never sends its message twice: POST is not in
\* RetryPolicy.retry_methods, and a 401 means that nothing was executed.
THEOREM SendCorrect == Spec => []SentAtMostOnce
BY EffectInit, EffectStep, PTL DEF Spec, EffectInv

\* What NotificationService reports is what the remote server did, whatever
\* answers were lost, repeated or malformed on the way.
THEOREM AnswersCorrect == Spec => []AnswersMatchEffects
BY EffectInit, EffectStep, PTL DEF Spec, EffectInv
============================================================================
