----------------------------- MODULE ApiClient ----------------------------
(***************************************************************************)
(* One HTTP client object shared by the coroutines of a process: the retry *)
(* loop of BaseHTTPClient.request, a static key or the shared token of     *)
(* TokenLoginMixin, and the layers that turn an answer into a value or an  *)
(* error (call, call_envelope, NotificationService).                       *)
(*                                                                         *)
(* An action is what a coroutine does between two awaits, or the remote    *)
(* server handling one request (Serve): the answer is received later, in   *)
(* any order.  A definition marked "Mutant" is a plausible bug in the      *)
(* definition after it; no specification uses it.                          *)
(***************************************************************************)
EXTENDS Naturals, FiniteSets

CONSTANTS Calls,       \* coroutines, each of which makes one call
          Attempts,    \* RetryPolicy.attempts
          MaxExpiries  \* bound: tokens the server stops accepting

ASSUME ClientAssumption == Attempts \in Nat \ {0} /\ MaxExpiries \in Nat

VARIABLES auth,    \* the client's class: a static key, or TokenLoginMixin
          token,   \* self._token, 0 being None
          lock,    \* the coroutine that holds self._login_lock, as a set
          logins,  \* tokens received; the n-th one is written n
          dead,    \* tokens the server no longer accepts
          drops,   \* how often request() has set self._token to None
          call,    \* call[c]: program counter and locals of the coroutine
          done     \* done[c]: how often the server has carried out the message or
                   \* its cancellation

vars == <<auth, token, lock, logins, dead, drops, call, done>>

\* get_status, create_task, cancel: GET, POST, DELETE.  RetryPolicy.retry_methods
\* holds GET, HEAD, PUT, DELETE, OPTIONS, and neither POST nor PATCH.
Ops == {"status", "send", "cancel"}
Retryable == {"status", "cancel"}

\* Answers with a 2xx status: a body of the expected model, status true with
\* data null, a body that is no object or has data of another model, a body that
\* is not JSON, status false with an error code.  Then 401, another 4xx with or
\* without a code, a status of retry_statuses, and no answer at all.
Executed == {"good", "null", "mismatch", "not_json"}
NotExecuted == {"denied", "refused", "rejected"}
MaybeExecuted == {"temporary", "lost"}
Answers == Executed \cup NotExecuted \cup MaybeExecuted \cup {"unauthorized"}

\* unauthorized: unavailable (502), because of a 401.
Results == {"value", "client_error", "unavailable", "unauthorized", "internal", "cancelled"}
Pcs == {"new", "wait_lock", "login", "sent", "answered", "ended"}
Local == [pc : Pcs, op : Ops, attempt : Nat, second : BOOLEAN, sent : Nat,
          refused : Nat, answer : Answers \cup {"none"}, result : Results \cup {"none"}]
Fresh == [pc |-> "new", op |-> "status", attempt |-> 0, second |-> FALSE, sent |-> 0,
          refused |-> 0, answer |-> "none", result |-> "none"]

Init ==
    /\ auth \in {"static", "login"}
    /\ token = IF auth = "static" THEN 1 ELSE 0
    /\ logins = token
    /\ lock = {}
    /\ dead = {}
    /\ drops = 0
    /\ call = [c \in Calls |-> Fresh]
    /\ done = [c \in Calls |-> 0]

---------------------------------------------------------------------------
\* What the layers above make of an answer.

\* call_envelope: [ok, data, code] of the ApiResponse.  The code is the one of
\* the body, when there is one.
\* Mutant: the status field of the body is not looked at.
EnvelopeIgnoresStatus(a) ==
    [ok |-> a \in {"good", "null", "denied"},
     data |-> a \in {"good", "denied"},
     code |-> a = "refused"]
Envelope(a) ==
    [ok |-> a \in {"good", "null"},
     data |-> a = "good",
     code |-> a \in {"denied", "refused"}]

\* NotificationService.send, status and cancel: a value or a ServerException
\* whose status is found in _ERROR_MAP by the code, 502 without one.
Service(op, a) ==
    LET env == Envelope(a)
    IN  IF env.ok /\ (env.data \/ op = "cancel") THEN "value"
        ELSE IF env.code THEN "client_error" ELSE "unavailable"

\* Everything that request() does not turn into ExternalAPIError passes through
\* every layer: resp.json() of a body that is not JSON.
Result(op, a) == CASE a = "not_json" -> "internal"
                   [] a = "unauthorized" -> a
                   [] OTHER -> Service(op, a)

---------------------------------------------------------------------------
End(c, result) ==
    call' = [call EXCEPT ![c] = [@ EXCEPT !.pc = "ended", !.result = result,
                                          !.sent = 0, !.refused = 0, !.answer = "none"]]

\* prepare(): the header is built once per pass, from the token of that moment.
Sent(local, t) == [local EXCEPT !.pc = "sent", !.attempt = 1, !.sent = t]
Prepare(local) ==
    IF token # 0 THEN Sent(local, token) ELSE [local EXCEPT !.pc = "wait_lock"]

Begin(c) ==
    /\ call[c].pc = "new"
    /\ \E op \in Ops : call' = [call EXCEPT ![c] = Prepare([@ EXCEPT !.op = op])]
    /\ UNCHANGED <<auth, token, lock, logins, dead, drops, done>>

\* create_task: CreateMessageRequest rejects the input before any request.
InvalidInput(c) ==
    /\ call[c].pc = "new"
    /\ call' = [call EXCEPT ![c] = [@ EXCEPT !.op = "send", !.pc = "ended",
                                             !.result = "client_error"]]
    /\ UNCHANGED <<auth, token, lock, logins, dead, drops, done>>

\* Mutant: the token is not looked at again under the lock.
AcquireUnchecked(c) ==
    /\ call[c].pc = "wait_lock" /\ lock = {}
    /\ lock' = {c} /\ call' = [call EXCEPT ![c].pc = "login"]
    /\ UNCHANGED <<auth, token, logins, dead, drops, done>>

\* _ensure_token: the lock is taken and the token looked at again.
Acquire(c) ==
    /\ call[c].pc = "wait_lock"
    /\ lock = {}
    /\ \/ /\ token = 0
          /\ lock' = {c}
          /\ call' = [call EXCEPT ![c].pc = "login"]
       \/ /\ token # 0
          /\ call' = [call EXCEPT ![c] = Sent(@, token)]
          /\ UNCHANGED lock
    /\ UNCHANGED <<auth, token, logins, dead, drops, done>>

LoginOk(c) ==
    /\ call[c].pc = "login"
    /\ token' = logins + 1
    /\ logins' = logins + 1
    /\ lock' = {}
    /\ call' = [call EXCEPT ![c] = Sent(@, token')]
    /\ UNCHANGED <<auth, dead, drops, done>>

\* Mutant: the lock is not released when the login raises.
LoginFailsLocked(c) ==
    /\ call[c].pc = "login"
    /\ \E r \in {"unavailable", "internal"} : End(c, r)
    /\ UNCHANGED <<auth, token, lock, logins, dead, drops, done>>

\* The POST of the login is not retried.  Its ExternalAPIError is an answer of
\* the call (a 401 too: token is None); a body without access_token is not.
LoginFails(c) ==
    /\ call[c].pc = "login"
    /\ lock' = {}
    /\ \E r \in {"unavailable", "internal"} : End(c, r)
    /\ UNCHANGED <<auth, token, logins, dead, drops, done>>

---------------------------------------------------------------------------
\* The remote server handles a request.  A token it does not accept is refused
\* before anything is executed; the client may see no answer in any case.
Serve(c) ==
    /\ call[c].pc = "sent"
    /\ \E a \in Answers, executed \in BOOLEAN :
        /\ a = "unauthorized" => call[c].sent \in dead
        /\ call[c].sent \in dead => a \in MaybeExecuted \cup {"unauthorized"} /\ ~executed
        /\ a \in Executed => executed
        /\ a \in NotExecuted => ~executed
        /\ call' = [call EXCEPT ![c] = [@ EXCEPT !.pc = "answered", !.answer = a]]
        /\ done' = [done EXCEPT ![c] = IF executed /\ call[c].op # "status" THEN @ + 1 ELSE @]
    /\ UNCHANGED <<auth, token, lock, logins, dead, drops>>

\* Mutant: every method is retried.
RetriesAll(c) == call[c].attempt < Attempts
CanRetry(c) == call[c].op \in Retryable /\ call[c].attempt < Attempts

\* Mutant: the attempts are not counted.
RetryUncounted(c) ==
    /\ call[c].pc = "answered" /\ call[c].answer \in MaybeExecuted /\ CanRetry(c)
    /\ call' = [call EXCEPT ![c] = [@ EXCEPT !.pc = "sent", !.answer = "none"]]
    /\ UNCHANGED <<auth, token, lock, logins, dead, drops, done>>

\* An attempt failed for the time being and is repeated, with the same headers.
Retry(c) ==
    /\ call[c].pc = "answered"
    /\ call[c].answer \in MaybeExecuted /\ CanRetry(c)
    /\ call' = [call EXCEPT ![c] = [@ EXCEPT !.pc = "sent", !.answer = "none",
                                             !.attempt = call[c].attempt + 1]]
    /\ UNCHANGED <<auth, token, lock, logins, dead, drops, done>>

\* Mutant: the repeated request goes out with the token that was refused.
ReplaySameToken(c) ==
    /\ call[c].pc = "answered" /\ call[c].answer = "unauthorized"
    /\ auth = "login" /\ ~call[c].second /\ token # 0
    /\ drops' = drops + 1
    /\ call' = [call EXCEPT ![c] =
                  Prepare([@ EXCEPT !.second = TRUE, !.refused = call[c].sent, !.answer = "none"])]
    /\ UNCHANGED <<auth, token, lock, logins, dead, done>>

\* TokenLoginMixin.request: a 401 discards whatever token there is and the
\* request is made once more from the start.  There is no await between the
\* assignment and the test of _ensure_token.
Replay(c) ==
    /\ call[c].pc = "answered"
    /\ call[c].answer = "unauthorized"
    /\ auth = "login" /\ ~call[c].second
    /\ token # 0
    /\ token' = 0
    /\ drops' = drops + 1
    /\ call' = [call EXCEPT ![c] = [@ EXCEPT !.pc = "wait_lock", !.second = TRUE,
                                             !.refused = call[c].sent, !.answer = "none"]]
    /\ UNCHANGED <<auth, lock, logins, dead, done>>

\* Every other answer is the answer of the call.
Finish(c) ==
    LET a == call[c].answer
    IN  /\ call[c].pc = "answered"
        /\ a \in MaybeExecuted => ~CanRetry(c)
        /\ a = "unauthorized" => auth = "static" \/ call[c].second \/ token = 0
        /\ End(c, Result(call[c].op, a))
        /\ UNCHANGED <<auth, token, lock, logins, dead, drops, done>>

\* The coroutine is cancelled at an await (the HTTP request it serves is
\* aborted, or the process stops); "async with" releases the lock.
Cancel(c) ==
    /\ call[c].pc \notin {"new", "ended"}
    /\ End(c, "cancelled")
    /\ lock' = lock \ {c}
    /\ UNCHANGED <<auth, token, logins, dead, drops, done>>

\* The server stops accepting a token it has issued.
ExpireToken ==
    /\ Cardinality(dead) < MaxExpiries
    /\ \E t \in 1..logins \ dead : dead' = dead \cup {t}
    /\ UNCHANGED <<auth, token, lock, logins, drops, call, done>>

---------------------------------------------------------------------------
Progress(c) ==
    \/ Acquire(c) \/ LoginOk(c) \/ LoginFails(c)
    \/ Serve(c) \/ Retry(c) \/ Replay(c) \/ Finish(c)

Next ==
    \/ \E c \in Calls : Begin(c) \/ InvalidInput(c) \/ Progress(c) \/ Cancel(c)
    \/ ExpireToken

Spec == Init /\ [][Next]_vars

\* Timeouts end every request and the event loop resumes the coroutine.
FairSpec == Spec /\ \A c \in Calls : WF_vars(Progress(c))

---------------------------------------------------------------------------
\* Types, and the login lock is held exactly while a login is under way.
TypeOK ==
    /\ auth \in {"static", "login"}
    /\ token \in 0..logins
    /\ logins \in Nat /\ drops \in Nat
    /\ dead \subseteq 1..logins
    /\ call \in [Calls -> Local]
    /\ done \in [Calls -> Nat]
    /\ lock = {c \in Calls : call[c].pc = "login"}
    /\ \A c, d \in lock : c = d

\* The repeated request never carries the token that was refused, nor an older
\* one, whatever the other coroutines did with the shared token in between.
ReplayUsesNewerToken ==
    \A c \in Calls : call[c].second /\ call[c].pc \in {"sent", "answered"}
                        => call[c].sent > call[c].refused

\* However many calls find no token at once, there is one login for the first
\* and one for every token discarded: the lock keeps off the herd, and a late
\* 401 that discards a fresh token costs a login, no more.
OneLoginPerDrop == auth = "login" => logins <= 1 + drops

\* A message is not sent twice by one call: not by the retries and not by the
\* repetition after a 401.
SentAtMostOnce == \A c \in Calls : call[c].op = "send" => done[c] <= 1

\* What the service reports is what the remote server did: a value means that
\* the call was executed, and an error that blames the caller's input means that
\* it was not, unless an earlier request of the same call was (a cancel whose
\* answer was lost is retried, and then told that there is nothing to cancel).
AnswersMatchEffects ==
    \A c \in Calls :
        /\ call[c].result = "value" => call[c].op = "status" \/ done[c] > 0
        /\ call[c].result = "client_error" /\ done[c] > 0
              => call[c].op # "send" /\ (call[c].attempt > 1 \/ call[c].second)

\* "On 401 the token is discarded and the request repeated once": a call of a
\* client that logs in does not end with a 401 it has not repeated.
RefusedIsReplayed ==
    \A c \in Calls : auth = "login" /\ call[c].result = "unauthorized" => call[c].second

\* Every call ends: attempts are bounded, and nobody waits for the login lock for
\* ever, however logins fail and tokens expire.
EveryCallEnds == \A c \in Calls : call[c].pc # "new" ~> call[c].pc = "ended"
===========================================================================
