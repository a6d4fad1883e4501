------------------------------- MODULE Gateway -----------------------------
(***************************************************************************)
(* One HTTP request through the application: the middlewares in the order  *)
(* main.py stacks them, the router built from the settings, authentication *)
(* and roles, the handlers with their errors, and what the client gets.    *)
(* Requests of a process share nothing but the counters in Redis and the   *)
(* object storage, so one request at a time is followed, while other       *)
(* replicas delete files and time passes.                                  *)
(*                                                                         *)
(* A definition marked "Mutant" is a plausible bug in the definition after *)
(* it; no specification uses it.                                           *)
(***************************************************************************)
EXTENDS RateLimiter, Sequences

CONSTANTS Candidates,  \* settings a deployment may ask for
          MaxCounted   \* bound: identities that have counters at one time

VARIABLES settings,  \* core/config.Settings, constant after the start
          req,       \* the request in the process
          file       \* the object of the latest upload: is it stored

vars == <<limiterVars, settings, req, file>>

\* Paths, a route each, and two without: unknown, and one that begins as the
\* documentation's path does.
Routes == {"live", "ready", "docs", "docs_like", "login", "list_users", "get_user", "delete_user",
           "upload", "url", "download", "delete_file", "unknown"}
FileRoutes == {"upload", "url", "download", "delete_file"}
Keys == {"none", "right", "wrong", "non_ascii", "not_utf8"}
Firsts == {"same", "empty", "other"}
\* closed: an access token of a user whose session is closed.
Tokens == {"none", "user", "admin", "closed", "refresh", "expired"}
Transports == {"header", "cookie"}

\* What of the settings the requests depend on.
Settings == [jwt : BOOLEAN, gate : BOOLEAN, keySet : BOOLEAN, transport : Transports,
             prod : BOOLEAN, docs : BOOLEAN, docsPassword : BOOLEAN, storage : BOOLEAN,
             limit : BOOLEAN, checkSession : BOOLEAN]

\* A request is counted by its address, by the trusted key or by another.
ASSUME GatewayAssumption ==
    /\ Candidates \subseteq Settings
    /\ Identities = {"ip", "right", "other"}
    /\ MaxCounted \in Nat

---------------------------------------------------------------------------
\* Settings._validate_auth_modes: a start with other settings fails.
\* Mutant: the mode without any protection is not refused.
ValidatedCookie(s) == s.transport = "cookie" => s.jwt /\ ~s.gate

Validated(s) ==
    /\ s.jwt \/ s.gate
    /\ s.transport = "cookie" => s.jwt /\ ~s.gate

\* _docs_visible: in production only behind a password.
DocsVisible == settings.docs /\ ~(settings.prod /\ ~settings.docsPassword)

\* register_docs: Basic Auth on the documentation when it has a password.
Guarded(route) == route = "docs" /\ settings.docsPassword

\* build_api_router.
Registered(route) ==
    CASE route = "login"        -> settings.jwt
      [] route \in FileRoutes   -> settings.storage
      [] route = "docs"         -> DocsVisible
      [] route \in {"unknown", "docs_like"} -> FALSE
      [] OTHER                  -> TRUE

\* _EXEMPT_PREFIXES, of the gate and of the limiter: all that begins like these.
Exempt(route) == route \in {"live", "ready", "docs", "docs_like"}
NeedsUser(route) == route \in {"get_user", "delete_user"}

\* The credential get_current_user looks at, by AUTH_TOKEN_TRANSPORT.
Presented == IF req.place = settings.transport THEN req.token ELSE "none"

\* decode_token accepts access tokens that have not expired; AUTH_VALIDATE_SESSION
\* also asks for the session.  With JWT off the principal is the anonymous service
\* account.
Principal ==
    CASE ~settings.jwt                     -> "anonymous"
      [] Presented \in {"user", "admin"}   -> Presented
      [] Presented = "closed" /\ ~settings.checkSession -> "user"
      [] OTHER                             -> "nobody"

AsksForSession(route) ==
    /\ settings.jwt /\ settings.checkSession /\ NeedsUser(route)
    /\ Presented \in {"user", "admin", "closed"}

RoleAllowed == req.route = "delete_user" /\ settings.jwt => Principal = "admin"

---------------------------------------------------------------------------
\* The order of execution; ServerErrorMiddleware is Starlette's outermost.
\* Mutant: add_middleware(RateLimit) after add_middleware(ApiKey).
StackLimitFirst == <<"errors", "security", "context", "limit", "key", "cors", "app">>
\* Mutant: add_middleware(RequestContext) before add_middleware(ApiKey).
StackContextInside == <<"errors", "security", "key", "context", "limit", "cors", "app">>
Stack == <<"errors", "security", "context", "key", "limit", "cors", "app">>

Depth(layer) == CHOOSE d \in DOMAIN Stack : Stack[d] = layer
Inner(layer) == Stack[Depth(layer) + 1]

\* What the layers around the one that answers add to the answer.
Marks(layer) == {m \in {"security", "context", "cors"} : Depth(m) < Depth(layer)}

Idle == [at |-> "idle"]
Answered == req.at = "answered"
At(step) == req.at = step
Go(step) == req' = [req EXCEPT !.at = step]

\* The answer: status, body and marks.  Bodies: the envelope with its flag, or
\* what is not an envelope.
Answer(status, body, layer) ==
    req' = [req EXCEPT !.at = "answered", !.status = status, !.body = body, !.marks = Marks(layer)]
Error(status, layer) == Answer(status, "error", layer)

\* Any exception that is not a ServerException, HTTPException or validation error.
Unhandled == Error(500, "errors")

Init ==
    /\ LimiterInit
    /\ settings \in {s \in Candidates : Validated(s)}
    /\ req = Idle
    /\ file = FALSE

\* RateLimitMiddleware._identity: the key when the gate is on, else the address.
\* Of several X-API-Key headers it takes the first, the gate the last.
IdentityOf(key, first) ==
    CASE ~settings.gate \/ key = "none" \/ first = "empty" -> "ip"
      [] key = "right" /\ first = "same"                  -> "right"
      [] OTHER                                            -> "other"
Identity == IdentityOf(req.key, req.first)

Counted == {i \in Identities : \E t \in Tiers : count[i][t] > 0}

\* A request arrives and passes SecurityHeaders: key is its last X-API-Key, first
\* says what a header before it has, for a request that can pass the gate.
Send ==
    /\ req = Idle
    /\ \E route \in Routes, key \in Keys, first \in Firsts, token \in Tokens, place \in Transports :
        /\ key = "right" => settings.keySet
        /\ ~settings.gate => key = "none"
        /\ first # "same" => key = "right" /\ ~Exempt(route)
        /\ Cardinality(Counted \cup {IdentityOf(key, first)}) <= MaxCounted
        /\ ~NeedsUser(route) \/ ~settings.jwt => token = "none"
        /\ token = "none" => place = "header"
        /\ req' = [at |-> Inner("security"), route |-> route, key |-> key, first |-> first,
                   token |-> token, place |-> place, status |-> 0, body |-> "none", marks |-> {},
                   seen |-> {file}]
    /\ UNCHANGED <<limiterVars, settings, file>>

\* RequestContextMiddleware and, inside the others, CORSMiddleware only wrap the
\* answer; but an X-Request-ID or X-Trace-ID that is not UTF-8 raises.
Wrap ==
    /\ \/ req.at \in {"context", "cors"} /\ Go(Inner(req.at))
       \/ At("context") /\ Unhandled
    /\ UNCHANGED <<limiterVars, settings, file>>

\* ApiKeyMiddleware: decode() raises for bytes that are not UTF-8; an empty
\* GLOBAL_API_KEY admits nobody; compare_digest raises for what is not ASCII.
KeyGate ==
    /\ At("key")
    /\ \/ (~settings.gate \/ Exempt(req.route) \/ (settings.keySet /\ req.key = "right")) /\ Go(Inner("key"))
       \/ /\ settings.gate /\ ~Exempt(req.route) /\ req.key # "right"
          /\ IF req.key = "not_utf8" \/ (settings.keySet /\ req.key = "non_ascii")
               THEN Unhandled ELSE Error(401, "key")
    /\ UNCHANGED <<limiterVars, settings, file>>

Limited ==
    /\ At("limit")
    /\ IF Exempt(req.route) \/ ~settings.limit
         THEN Go(Inner("limit")) /\ UNCHANGED limiterVars
         ELSE \/ /\ Check(Identity)
                 /\ IF Allowed(Identity) THEN Go(Inner("limit")) ELSE Error(429, "limit")
              \/ Unhandled /\ UNCHANGED limiterVars   \* Redis does not answer
    /\ UNCHANGED <<settings, file>>

\* Routing, validation of the input, get_current_user, require_roles; a docs
\* request also has its Basic Auth checked.
Dispatch ==
    /\ At("app")
    /\ \/ IF ~Registered(req.route) THEN Error(404, "app")
          ELSE IF NeedsUser(req.route) /\ Principal = "nobody" THEN Error(401, "app")
          ELSE IF ~RoleAllowed THEN Error(403, "app")
          ELSE \/ Go("handler")
               \/ ~Exempt(req.route) /\ Error(422, "app")
               \/ Guarded(req.route) /\ Error(401, "app")
       \/ AsksForSession(req.route) /\ Unhandled   \* Redis does not answer
    /\ UNCHANGED <<limiterVars, settings, file>>

---------------------------------------------------------------------------
Refusal(route) == CASE route = "login" -> 401 [] route = "list_users" -> 400 [] OTHER -> 404

\* The handlers without files: a controlled ServerException, an exception nobody
\* expected, or success.  readiness answers 503 in a success envelope.
Handle ==
    /\ At("handler") /\ req.route \notin FileRoutes
    /\ CASE req.route = "live"  -> Answer(200, "success", "app")
         [] req.route = "ready" -> \E status \in {200, 503} : Answer(status, "success", "app")
         [] req.route = "docs"  -> Answer(200, "html", "app")
         [] OTHER -> \/ Answer(200, "success", "app")
                     \/ Error(Refusal(req.route), "app")
                     \/ Unhandled
    /\ UNCHANGED <<limiterVars, settings, file>>

\* put, under a fresh key; then the link.
Put ==
    /\ At("handler") /\ req.route = "upload"
    /\ \/ /\ file' = TRUE
          /\ req' = [req EXCEPT !.at = "presign", !.seen = {TRUE}]
       \/ Unhandled /\ UNCHANGED file
    /\ UNCHANGED <<limiterVars, settings>>

\* Mutant: the link is made without asking whether the object exists.
LookUnchecked ==
    /\ At("handler") /\ req.route \in {"url", "download"}
    /\ Go(IF req.route = "url" THEN "presign" ELSE "stream")
    /\ UNCHANGED <<limiterVars, settings, file>>

\* exists: HEAD; of the errors only "not found" is an answer.
Look ==
    /\ At("handler") /\ req.route \in {"url", "download"}
    /\ \/ ~file /\ Error(404, "app")
       \/ file /\ Go(IF req.route = "url" THEN "presign" ELSE "stream")
       \/ Unhandled
    /\ UNCHANGED <<limiterVars, settings, file>>

Presign ==
    /\ At("presign")
    /\ \/ Answer(IF req.route = "upload" THEN 201 ELSE 200, "success", "app")
       \/ Unhandled
    /\ UNCHANGED <<limiterVars, settings, file>>

\* StreamingResponse has sent status 200 before storage.stream asks for the
\* object: its errors can only break the connection.
Stream ==
    /\ At("stream")
    /\ \/ file /\ Answer(200, "bytes", "app")
       \/ Answer(200, "broken", "app")
    /\ UNCHANGED <<limiterVars, settings, file>>

\* S3 deletes what does not exist without an error.
Delete ==
    /\ At("handler") /\ req.route = "delete_file"
    /\ \/ /\ file' = FALSE
          /\ req' = [req EXCEPT !.at = "answered", !.status = 200, !.body = "success",
                                !.marks = Marks("app"), !.seen = @ \cup {FALSE}]
       \/ Unhandled /\ UNCHANGED file
    /\ UNCHANGED <<limiterVars, settings>>

OthersDelete ==
    /\ file
    /\ file' = FALSE
    /\ req' = IF req = Idle \/ Answered THEN req ELSE [req EXCEPT !.seen = @ \cup {FALSE}]
    /\ UNCHANGED <<limiterVars, settings>>

Receive ==
    /\ Answered
    /\ req' = Idle
    /\ UNCHANGED <<limiterVars, settings, file>>

Tick == Expire /\ UNCHANGED <<settings, req, file>>

Process == \/ Wrap \/ KeyGate \/ Limited \/ Dispatch
           \/ Handle \/ Put \/ Look \/ Presign \/ Stream \/ Delete \/ Receive

Next == Send \/ Process \/ OthersDelete \/ Tick

Spec == Init /\ [][Next]_vars

---------------------------------------------------------------------------
\* What the OpenAPI document says a route requires: alternatives, each a set of
\* schemes that belong together.
Declared(route) == IF NeedsUser(route) THEN {{"HTTPBearer"}} ELSE {}
StripJwt(alternatives) ==
    IF settings.jwt THEN alternatives ELSE {a \ {"HTTPBearer"} : a \in alternatives} \ {{}}

\* Mutant: the key is a requirement of its own, not one more in each.
ApplyGateBeside(alternatives) ==
    IF settings.gate THEN alternatives \cup {{"ApiKeyAuth"}} ELSE alternatives

ApplyGate(alternatives) ==
    IF ~settings.gate THEN alternatives
    ELSE IF alternatives = {} THEN {{"ApiKeyAuth"}}
    ELSE {a \cup {"ApiKeyAuth"} : a \in alternatives}

Schema(route) ==
    IF route \in {"live", "ready"} THEN StripJwt(Declared(route))
                                   ELSE ApplyGate(StripJwt(Declared(route)))

Supplied == {c \in {"HTTPBearer", "ApiKeyAuth"} :
               IF c = "ApiKeyAuth" THEN req.key = "right"
               ELSE req.place = "header" /\ req.token \in {"user", "admin", "closed"}}

Documented == Schema(req.route) = {} \/ \E a \in Schema(req.route) : a \subseteq Supplied

InHandler == req.at \in {"handler", "presign", "stream"}

\* The published requirements are the enforced ones, in every valid combination
\* of JWT and API key: who fulfils them meets no 401 on the way to the handler,
\* unless AUTH_VALIDATE_SESSION finds the session closed, and nobody gets there
\* without.  (Cookies are not part of the document.)
SchemaIsEnforced ==
    req # Idle /\ settings.transport = "header" /\ req.route \in Routes \ {"docs", "docs_like", "unknown"} =>
        /\ InHandler => Documented
        /\ Answered /\ req.status = 401 =>
             \/ ~Documented
             \/ req.route = "login" /\ "cors" \in req.marks
             \/ settings.checkSession /\ req.token = "closed"

\* Whatever the settings: the anonymous principal only exists behind the API key,
\* GET and DELETE of one user need an access token or that key, the deletion an
\* administrator where there are roles, and with the gate on nothing but what is
\* exempt reaches the limiter or a handler without the trusted key, as the last of
\* its X-API-Key headers.  (The limiter may then count it by another.)
AccessIsEarned ==
    /\ req # Idle /\ InHandler /\ NeedsUser(req.route) =>
         \/ settings.jwt /\ Presented \in {"user", "admin", "closed"}
         \/ settings.gate /\ req.key = "right"
    /\ req # Idle /\ InHandler /\ req.route = "delete_user" /\ settings.jwt => Presented = "admin"
    /\ req # Idle /\ settings.gate /\ ~Exempt(req.route) /\ (At("limit") \/ InHandler) =>
         req.key = "right"

\* Every answer can be traced by X-Request-ID and carries the security headers,
\* but those of exceptions that nobody handles, which are made outside every
\* middleware of the application.  (core/openapi.py:34 promises more: "request_id
\* is in every answer and in the X-Request-ID header", which these 500s refute.)
TracedUnlessUnhandled ==
    req # Idle /\ Answered =>
        \/ {"security", "context"} \subseteq req.marks
        \/ req.status = 500 /\ req.marks = {}

\* Answers about files were true at some moment of the request, whoever deleted
\* the object meanwhile: a link, a body or an upload of something that existed,
\* "not found" and "deleted" of something that did not.  Nothing but a download
\* that has begun can break.
FileAnswersHeld ==
    req # Idle /\ Answered /\ req.route \in FileRoutes =>
        /\ req.route # "delete_file" /\ req.status \in {200, 201} => TRUE \in req.seen
        /\ req.route = "delete_file" /\ req.status = 200 => FALSE \in req.seen
        /\ settings.storage /\ req.status = 404 => FALSE \in req.seen
        /\ req.body = "broken" => req.route = "download"
===========================================================================
