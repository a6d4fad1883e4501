# A TLA+ model of FullFastAPITemplate

The repository is an async FastAPI backend (PostgreSQL through SQLAlchemy, Redis,
a message broker, a background worker). Its own logic is not in any single
function but in what happens *between awaits*: requests of one or several
processes interleave at every `await`, and state is spread over PostgreSQL rows,
Redis keys, broker queues and tokens that no transaction joins. These modules
model that logic, TLC checks it on small instances, and TLAPS proves the main
safety results for any number of users, requests, keys, workers, replicas and
messages.

## 1. Inventory

Paths are relative to `src/app/`.

| Component | State | Operations | What is hard |
|---|---|---|---|
| **Login sessions**: `security/session_store.py`, `services/auth.py`, `api/v1/auth.py` | Redis hash `sess:{sid}` (uid, jti), set `usess:{user_id}`, tokens at clients, user's `is_active` | login, refresh (validate, rotate, reload user), logout, logout/all, logout/others, user deletion, register, change_password, TTL | every operation reads in one round trip and writes in another; rotation's HSET creates keys; failures between the steps |
| **Payments**: `services/account.py`, `api/v1/accounts.py` | `accounts.balance`, `transactions` | deposit, withdraw, create account and category, account removed by cascade | row locks, retries, money moved twice |
| **Idempotency-Key**: `idempotency/store.py`, `idempotency/runner.py` | Redis key `idempotency:{key}`: absent, in progress, response | try_acquire, save_response, release, TTL | an error *after* the commit, a crash holding the marker, a retry that overlaps the first attempt |
| **Outbox**: `outbox/relay.py`, `repositories/outbox.py`, `models/outbox.py` | rows of `outbox_messages` | event written with the user; relay in three phases; retention | crash between publish and mark; failing rows in front of others |
| **Scheduler**: `scheduler/*.py`, `worker.py` | one asyncio task per job and process, Redis lock `scheduler:lock:{job}` | acquire, run, release, cancel, TTL | several workers, overrun of the lock's TTL, errors of Redis itself, unconditional DELETE |
| **User service and cache**: `services/user.py`, `cache/redis_cache.py` | rows of `users` (versioned), `profiles`, `accounts`; Redis key `user:{id}` | create, get (cache-aside), update (optimistic lock), upsert_profile, delete, list, stream | stale puts, forgotten invalidations, torn reads, lost updates |
| **Unit of work, repositories**: `db/uow.py`, `db/session.py`, `repositories/base.py`, `db/query.py` | one session, transaction and pooled connection per unit of work | first statement, flush, commit, rollback, exit; pages | unique-index races, waiting for connections while holding uncommitted keys, COUNT and SELECT apart |
| **Broker, consumers**: `broker/*.py`, `consumers/*.py` | subscriptions, queues or offsets, tasks of handlers | connect, publish, subscribe, deliver, acknowledge or commit, disconnect | redelivery to handlers that are not idempotent, lost connections and rebalances, offsets committed in the background, consumer tasks that end in silence, delivery in process |
| **Rate limiter**: `ratelimit/limiter.py`, `middleware/rate_limit.py` | Redis counters per tier and identity | check (one Lua script), expiry | where windows meet, several tiers, refused requests that count |
| **HTTP clients**: `clients/*.py`, `services/notification.py` | shared bearer token, login lock | request with retries, login, replay on 401, envelope | concurrent 401s, retries of what was already executed |
| **Access control**: `security/{jwt,roles,cookies}.py`, `api/deps.py`, `middleware/api_key.py` | settings | decode, roles, API key | valid combinations of modes; the published schema against the enforced one |
| **Object storage**: `storage/*.py`, `api/v1/files.py` | objects in S3 | put, HEAD, link, stream, delete | the object disappears between two calls |
| **Application shell**: `main.py`, `core/*.py`, `middleware/*.py`, `api/router.py` | what is open in a process; the request under way | start, stop, middlewares, routes, errors | order of shutdown, order of middlewares, answers made outside of them |
| **Acquiring**: `acquiring/*.py` | payments at a gateway | create, capture, cancel, refund | used by no route (section 7) |

How they interact: the middlewares of the shell wrap the routes; the API layer calls
services; services open a unit of work (one transaction), then touch Redis after it is
closed. `AccountService` deletes the cache key owned by `UserService`;
`UserService.delete` revokes the sessions of `SessionStore`; `UserService.create`
writes the outbox row that the worker's relay publishes to the broker, whose consumers
run inside the web processes; `POST /notifications` publishes directly, and its consumer
calls the messages API through the HTTP client; `idempotent()` wraps whole service
calls, cache deletion included; account rows disappear when their user is deleted.

What makes each component correct:

* sessions: a closed session stays closed; the valid token of a live session
  reaches its client; only the user's own requests close a session;
* payments: the balance is the sum of the transactions, never negative; one key,
  one execution; the client is told the truth; a failed attempt frees its key;
* outbox and scheduler: no event without its user and no user without its event;
  every event is delivered, again only after a fault, once for each; one run at a time; a
  dead worker's lock comes back;
* user cache: every change owes an invalidation (one operation does not); no lost update;
* units of work: one winner per unique key, who alone is told so; connections come
  back; nobody waits for ever; a walk over the pages misses no more rows than were
  changed or deleted meanwhile;
* messaging: every group handles what it is owed but for what a broker may lose, which
  is bounded; handled twice only when a delivery was taken back; a graceful stop leaves
  nothing open;
* clients: a message is sent once; a refused token is never used again; logins do not
  multiply; what is reported is what happened;
* gateway: access only with the credentials the mode requires; the OpenAPI document
  says the same; limits hold up to the factor the limiter documents; answers are
  traceable; answers about files were true.

## 2. Modules

| Module | Models | Role |
|---|---|---|
| `Sessions` | sessions, step by step | component |
| `SessionLifecycle` | what a session store promises | abstract specification of `Sessions` |
| `Payments` | deposit/withdraw under `idempotent()` | idempotency and accounts composed |
| `Ledger` | what a paying client relies on | abstract specification of `Payments` |
| `Scheduler` | one `single_instance` job over several workers | component, extended by `OutboxRelay` |
| `OutboxRelay` | outbox rows, relay and retention run by `Scheduler` | scheduler and relay composed |
| `Delivery` | at-least-once delivery | abstract specification of `OutboxRelay` |
| `UserCache` | cache-aside, invalidation, optimistic lock of one user | component |
| `Records` | units of work over the pool and the unique indexes; pages | component |
| `ApiClient` | the client object shared by coroutines, up to the service above it | component |
| `Broker` | messages and consumer groups over the three brokers | component, extended by `Lifespan` |
| `Lifespan` | start and stop of web processes around their consumers | broker and shell composed |
| `RateLimiter` | the window counters | component, extended by `Gateway` |
| `Gateway` | one request through middlewares, router, access control, handlers, storage | shell, access, limiter and storage composed |
| `MC*` | values of constants that a .cfg cannot write | instances |
| `*_proofs` | theorems and proofs | proofs |

Common conventions. A request, attempt, call or worker is a process with a program
counter and the locals it keeps across awaits; **an action is what it does up to
the next await** (one Redis command, one MULTI/EXEC pipeline, one transaction or,
where the statements of a transaction can be told apart, one statement).
`Abort`, `Crash`, `Kill`, `Cancel` end a process between any two of them, leaving
what it wrote. Definitions commented "Mutant" are plausible bugs of the definition
below them; no specification uses them; they are there to show that each property
can fail.

### Sessions
`sess[s]` is the hash (uid, jti), `index[u]` the set, `issued` the refresh tokens
that clients hold, `req[p]` a request, `users[u]` the row's state. jti values are
uuid4; the n-th one made for a session is written `n`, 0 is "no key". Each operation
is split as in the code: `LoginRead` (transaction), `LoginCreate` (pipeline of
`create`), `LoginRespond`; `RefreshValidate`, `RotateRead`, `RotateWrite`,
`LoadUser`; `RevokeRead`/`RevokeWrite`; `AllRead`/`AllWrite`;
`OthersRead`/`OthersWrite`. `RotateWrite` writes jti and *not* uid, which is what
saves the store from resurrecting a closed session for refresh (and is the hazard
`ImplementsLifecycle` is aimed at), and it creates the key when it is gone, which
is what breaks `AUTH_VALIDATE_SESSION`. An access token carries the same sub and
sid as the refresh token of its pair, so `issued` stands for both.

### Payments
`slot[k]` is the Redis key, `att[p]` one HTTP attempt, `lock[a]` the row lock of
`SELECT ... FOR UPDATE`, `posted[a]` the sum of the committed rows of
`transactions`, `effects[k]` (history) the attempts that committed. `Faults` is the
set of things that may go wrong: `cache_lost` and `commit_unknown` (an exception
after the commit), `save_lost` and `release_lost` (Redis fails there, and the marker
stays), `crash`. A key in `Expiring` may lose its TTL at
any time while attempts are running.

### Scheduler and OutboxRelay
`loop[w]` is the asyncio task of the job in worker `w`; `lock` the Redis key (its
setter is known to the model only: the code stores a constant, and `Release`
deletes the key whoever set it). `OutboxRelay` puts the phases of `run_once`
between `StartJob` and `EndJob`. `Stamp` orders rows by `created_at`, with ties
resolved by the database; a `Poison` event is one whose publish always raises; any other
publish may raise although the broker has accepted the message, which is one of the faults.
`Overruns` says whether the TTL may run out during a run.

### UserCache
`row` is the user with its profile and accounts as change counters, `cache` the
Redis entry, `req[p]` a request; `owes` marks a request that has committed a change
and not deleted the key yet. `PasswordRead`/`PasswordWrite` are the second transaction of
`change_password`, the one writer of the row that knows nothing of the cache: it changes
`updated_at`, a field of the cached form, and `silent` remembers the versions it made. `get` reads the users row with the profile and then the
accounts in two SELECTs at READ COMMITTED, so the two are two actions.

### Records
A request is `create` (POST /users), `register`, `category`, `update` (PATCH), `delete`,
`change` (of a password) or `walk` (a client that reads GET /users page by page). `conn` is
who holds one of the `PoolSize` connections: taken with the first statement (`Acquire`),
returned by `End`, which is `__aexit__`, `commit` or `rollback`. `rows` are the committed
rows, `inserted` the flushed ones, `Deleting` those under a DELETE that is not committed;
an INSERT waits for the keys of both, an UPDATE or DELETE for the latter. Passwords are
hashed with no connection (`Hash`). `place[x]` is the place of the user x in the order that
the walks ask for: a commit that inserts or updates a user puts it anywhere (`Orders`) and
leaves the others in their order. `Count` and `Select` are the two statements of `paginate`;
a page is the rows whose `Rank` lies between its OFFSET and its end. `BadQuery` refuses
unknown operators and values before a statement, an unknown field to sort by after COUNT.

### ApiClient
`token` is `self._token` (the n-th token received is `n`), `lock` the holder of
`_login_lock`, `dead` the tokens the server does not accept any more, `call[c]` a
coroutine in `request()`: header built by `Prepare`, the double-checked login in
`Acquire`/`LoginOk`/`LoginFails`, `Serve` the remote server (it may execute a request and
the answer be lost), `Retry` the loop of `BaseHTTPClient.request`, `Replay` the
repetition after a 401. Answers are classes (a good body, `data: null`, a body of
another shape, no JSON, refusals with and without a code, 401, temporary errors,
none); `Envelope`, `Service` and `Result` say what `call_envelope` and
`NotificationService` make of each. `done[c]` counts what the server really did.

### Broker and Lifespan
`backend` is the configured broker. `msg[g][n]` is the n-th message as consumer group
`g` sees it: `missed` (the group did not exist for the broker yet), `waiting`, `out`
(delivered, not acknowledged) or `done` (not to be delivered again), to which process it is
delivered (`by`), how often a handler has begun with it (`starts`) and whether one came to its
end (`handled`). A copy that is done, not handled and in no handler is `Lost`. The three backends differ in
`CopyFor` (memory delivers to the handlers of the publishing process only), `MayTake`
(kafka: one after the other by the owner of the partition; rabbitmq: any consumer),
`Ack` (rabbitmq, after the handler), `Commit` (kafka, in the background and past the
message that is being handled) and `Disconnect` (memory gathers its tasks; the others
drop the connection). A delivery is taken back (`TakeBack`) when a process ends (`Leave`), a
connection to RabbitMQ is lost and made again by `connect_robust` (`Drop`), kafka moves a
partition (`Rebalance`) or a kafka consumer's task fails, which nobody notices (`Fail`).
What the brokers' servers and client libraries do is not in the repository; it is modelled
from how the code uses them. `Lifespan` adds `stage[p]`, the next step of
`lifespan()` in process `p`, `open[p]`, what it has opened, and `Handle`, whose
handlers open Redis and the messages client lazily (`Needs`).

### RateLimiter and Gateway
`count`, `ttl` per identity and tier, as the Lua script leaves them; time passes in
`Expire`; `age` is how long a counter has existed; `admitted[i]` is history, the requests admitted with their age and their number
in their unit of time, and `Since(i, n)` those younger than n. `Gateway` follows one request at a time through
`Stack`, the order in which `main.py`'s `add_middleware` calls really execute: `Wrap`,
`Limited`, `KeyGate`, `Dispatch` (router by settings, authentication, roles, input) and
the handlers; file routes are split at their storage calls, between which another
replica may delete the object (`OthersDelete`; `req.seen` remembers whether it was
stored). `marks` are the headers that wrapping middlewares add to an answer. `settings`
is any member of `Candidates` that `_validate_auth_modes` accepts. A request may bring several
`X-API-Key` headers: `key` is the last, which the gate checks, `first` says what the first is,
which the limiter counts by. `Declared`,
`StripJwt` and `ApplyGate` are the post-processing of the OpenAPI document.

## 3. Runs

| Run | Instance | Distinct states | Checks |
|---|---|---|---|
| `sessions` | 2 users, 2 sids, 2 requests in flight, 3 calls, expiry | 89,309 | `TypeOK`, `RecordsAgree`, `ValidTokenDelivered`, `OnlyOwnerCloses`, `ImplementsLifecycle`, `CondemnedSessionDies` |
| `sessions_zombie` | 1 user, 1 sid, 4 calls, `AUTH_VALIDATE_SESSION` | violation | `ClosedSessionDeniesAccess` fails |
| `payments` | 3 attempts, 3 keys on 1 account, one key expiring, crashes, failed saves and releases | 515,015 | `TypeOK`, `BalanceIsSumOfTransactions`, `ExecutedAtMostOnce`, `AnswerIsTruthful`, `StoredMeansExecuted`, `ImplementsLedger`, `MarkerResolves` |
| `payments_cache_lost` | 2 attempts, fault `cache_lost` | violation | `ExecutedAtMostOnce` fails |
| `outbox` | 2 workers, 3 events (1 poison), batch of 2, 3 faults | 25,640 | `SingleInstance`, `RepeatsNeedFaults`, `ImplementsDelivery`, `EventsArePublished`, `LockComesBack` |
| `scheduler_loop` | 1 worker, 1 Redis error | violation | `LoopSurvives` fails |
| `user_cache` | 3 requests in flight, 5 calls of any kind | 431,694 | `MutationsInvalidate`, `OneUpdatePerVersion` |
| `records` | 3 requests of any kind, 2 emails, 2 connections, pages of 1 | 608,135 | `OneWinnerPerEmail`, `ConnectionsReturned`, `WalkMissesFew`, `EveryRequestAnswered` |
| `api_client` | 2 calls, 2 attempts, 2 expiring tokens, static key or login | 346,159 | `ReplayUsesNewerToken`, `OneLoginPerDrop`, `SentAtMostOnce`, `AnswersMatchEffects`, `EveryCallEnds` |
| `api_client_401` | 2 calls, 1 attempt, 1 expiring token | violation | `RefusedIsReplayed` fails |
| `messaging` | 3 brokers, 2 replicas, 1 group, 2 messages, 2 breaks, 1 stop or crash | 342,831 | `RepeatsNeedBreaks`, `LossesAreInFlight`, `NothingLeftOpen`, `EveryGroupHandles` |
| `gateway` | every accepted combination of JWT, API key, transport; dev and prod; 2 tiers of 4 and 2 units of time, 3 identities | 1,597,043 | `NearTwiceTheLimit`, `WindowsEnd`, `AccessIsEarned`, `SchemaIsEnforced`, `TracedUnlessUnhandled`, `FileAnswersHeld` |

`TypeOK` of `OutboxRelay`, `UserCache` and `ApiClient` is proved (section 5) and not
repeated in their runs; that of `Lifespan` states in addition what each stage consumes,
and is there for whoever changes the module.

Why the bounds are enough. Every hazard of `Sessions` is a race of two requests
over one session, with a second session and a second user as the bystander that
must not be touched; a third call is the login that creates the session. The
payments hazards need a first attempt, its retry, and a third attempt of another
operation competing for the row (the deposits and the withdrawal make insufficient
funds, success and overflow all reachable). Two workers are what a lock can confuse;
three events against a batch of two leave one event outside the batch behind a
failing one. In the cache a reader, a writer and a third request cover the put that
is overtaken by an invalidation, the update that finds its row deleted, and the password
change between a put and another operation's debt; five calls leave room for the creation and
a reader before them. In `Records` two requests race for a key while a third holds the second
connection or walks pages between their commits; one email is taken from the start and one is
free; with pages of one row, an insertion, an update and a deletion each move a row over a
page's edge. In `ApiClient` two calls are what the token and the lock are shared by; two expiries
let the replay's token die too, and two attempts give every call one retry. In `messaging` two
breaks and one end take a message back three times, from one replica to the other and back; the
run registers the group `notifications`, because groups share no state but the processes
(two groups make 2.6 million states, too many for the liveness property; that the handlers of
`users-audit` open Redis, and any number of groups, messages, breaks and stops, is covered by
the theorems, but not by `EveryGroupHandles`). In `gateway` requests of a process share only the
counters and the store, so one request at a time, with other replicas' deletes and the clock
between its steps, loses no behaviour; the limits (3 per 4 units, 1 per 2) let each tier refuse
alone, both of them in turn, and one window end while the other goes on; one identity at a time
has counters (`MaxCounted`), which is enough because identities share none. The theorems of
section 5 remove these bounds for the properties they cover.

Every counter that could grow is bounded by a constant: `MaxCalls` (requests
started), the sets `Attempts`, `Requests` and `Calls` (each member makes one),
`MaxFaults`, `MaxStops` (ends of processes), `MaxBreaks` (deliveries taken back from living
processes), `MaxMessages`, `MaxEvents`, `MaxExpiries`, `MaxBalance` (BIGINT), `MaxCount`
(counters saturate above every limit), `MaxCounted`. Deadlock is checked in `gateway`, which
never rests; the other systems may come to rest: no more calls, every attempt answered.

### What some properties do not say

* `SingleInstance` is about runs that end within their lock's TTL: with `Overruns` the
  unconditional DELETE of `scheduler.py:159` may hit another worker's lock.
* `ImplementsLifecycle` does not notice a login that creates its session after the user was
  deleted (`auth.py:86`): it is a new session.
* `FileAnswersHeld` permits a link to an object that is gone by the time it is used and a
  download that breaks: status 200 is sent before the object is opened. It says that nothing
  else breaks and that what an answer claims was so.
* `WalkMissesFew` is about walks by a column without equal values. With equal ones PostgreSQL
  may order them differently for each page, and nothing can be promised; `sort=role` or
  `sort=is_active` are such walks. It also excepts a last page whose COUNT and SELECT saw
  different rows. "At most one for each update or deletion" is tight: OFFSET pages do skip rows.
* `LossesAreInFlight` bounds what kafka loses of the messages published once a group has a
  committed offset. Before its first commit a group begins at the end of the log each time it
  gets its partition (`broker/kafka.py` leaves `auto_offset_reset` at `latest`), and there is no
  bound for what it skips.
* `EveryGroupHandles` excepts what the brokers may lose, and a kafka group whose consumer task
  has failed in every process: `_consume` runs in a task whose exception nobody reads
  (`kafka.py:61`, `:77`, `:80`), so such a process lives on, healthy by its probes
  (`healthcheck` looks at the producer), and consumes no more.
* `SchemaIsEnforced` is about the header transport and the routes of the schema; cookies are
  not part of the document. With `AUTH_VALIDATE_SESSION` a documented bearer token of a closed
  session meets a 401, as it should.
* `WindowsEnd` does not say that a client that keeps asking is ever admitted, see below.

### What the violated properties mean

1. **`sessions_zombie`**: refresh reads the hash; logout deletes key and index
   entry; the pipeline of `rotate` (`session_store.py:95`) creates the key again
   with `jti` and `last_used` but no `uid`. With `AUTH_VALIDATE_SESSION=true`,
   `exists(sid)` accepts access tokens of the closed session, for which
   `config.py:186` promises immediate invalidation. No refresh token works with the
   key (uid is missing), but neither `revoke` nor `revoke_all` can remove it.
2. **`payments_cache_lost`**: `cache.delete` runs inside `produce()` but after the
   commit (`account.py:99`, `:120`). When Redis fails there, `runner.py:54` releases
   the key and the client's retry deposits again. Losing the acknowledgement of the
   commit (`commit_unknown`) has the same effect; ADR-0010 does not mention either.
3. **`scheduler_loop`**: `_acquire` and `_release` are outside the `try` of `_run`,
   so one Redis error ends the job's task, silently, until the process restarts.
4. **`api_client_401`**: two calls are refused with one expired token; the first
   401 sets `_token` to None and logs in; the second arrives meanwhile, finds no token
   (`clients/auth.py:127`) and is raised, though `auth.py:86` promises a repetition.

### Observations without a run

Met while modelling. Where a property had to be weaker than what is promised, it says so.

* ADR-0012:26 says "Любая мутация данных, которые где-то кэшируются, обязана инвалидировать
  соответствующий ключ". `change_password` (`auth.py:134`) commits an UPDATE of the users row,
  which bumps `version_id` and `updated_at`, and deletes no key: `GET /users/{id}` may show the
  old `updated_at` for the TTL. `MutationsInvalidate` lets exactly this operation do so.
* `core/openapi.py:34` tells the clients "`request_id` есть в каждом ответе и в заголовке
  `X-Request-ID`". The answer to an unhandled exception (and to a request whose X-Request-ID is
  not UTF-8) is made outside every middleware of the application: it has neither that header nor
  the security headers. `TracedUnlessUnhandled` excepts these answers and no others. With `DEBUG`
  at its default, true, Starlette's debug page takes the place of `_unhandled_handler`.
* `rate_limit.py:5` and `:71` call the key that requests are counted by validated. With two
  `X-API-Key` headers `ApiKeyMiddleware` checks the last (`dict(headers)`, `api_key.py:46`) and
  the limiter takes the first (`rate_limit.py:74`): a client with the trusted key may be
  counted under any name it chooses. `Gateway!IdentityOf` has this, and `AccessIsEarned` speaks
  of the key the gate has checked.
* A refused request is counted in all tiers (`limiter.py:37`). With a burst tier a client that
  keeps asking can fill the long window with requests that the burst window refuses, and the other way
  round, for as long as it asks: `WindowsEnd` holds, but `~Allowed(i) ~> Allowed(i)` does not.
* `kafka.disconnect` cancels its consumer tasks and does not wait for them (`kafka.py:45`); what
  they do until the event loop has run them is not modelled. An exception in `disconnect` skips
  the remaining closes of `lifespan.py:58`; the model treats this as the process's end (`Crash`).
* `session_store.py:148`: `revoke_all` reads the index and later deletes the whole
  index key; a login in between is in no index, so it is not listed and survives the next
  "log out everywhere". `Sessions!LiveSessionsIndexed` states it and is false.
* `scheduler.py:153`: nothing renews the lock, so a batch that takes longer than
  `lock_ttl` is published by two workers although nothing failed, which `relay.py:15` and
  `jobs.py:79` exclude. With `Overruns = TRUE` and `MaxFaults = 0`,
  `RepeatsNeedFaults` is false; the theorem assumes `~Overruns`.
* `user.py:105`, `:89`: a reader that missed stores what it read although a writer has
  committed and invalidated in between; so does `create` with its empty form. ADR-0012:44
  says data do not stick; they do, for the TTL.
* `session_store.py:14` says `revoke_all` is called when a user is blocked; setting
  `is_active` to false revokes nothing, and the tokens die at the next refresh.
* `outbox_batch_size` rows that can never be published fill every batch, so
  `EventsArePublished` is checked with fewer of them than that.
* `consumers/users.py:6` says the event is published when a user registers; `register`
  writes none, only `UserService.create` does.
* A `cancel` whose answer was lost is repeated and then told that there is nothing to
  cancel: the caller gets a conflict for what has succeeded (`AnswersMatchEffects` allows
  exactly this). A body that is not JSON raises `ValueError` out of `call()`, whose
  docstring (`clients/base.py:320`) says no exception is thrown.
* `rate_limit.py:5` speaks of a quota per product; there is one `GLOBAL_API_KEY`, so all
  clients behind the gate that send one key share one counter.
* `presigned_url`'s own default of 3600 is what the routes use: `storage_presign_expire`
  only sets a default that no call falls back to.

## 4. Fairness and liveness

* `Sessions`: weak fairness of `Continue(p)`: the event loop resumes a request whose
  await is over. Nobody must start a request; `Abort` may always end one.
* `Payments`: weak fairness of `Step(p)` for attempts that were sent; clients need
  not send, accounts need not be closed, keys need not expire, and crashes need not
  happen.
* `OutboxRelay`: weak fairness of each worker's `Progress` (event loop, periodic
  start of the job, restart by `restart: unless-stopped` of docker-compose) and of
  the lock's TTL. `EventsArePublished` excludes the case in which every loop has died
  (violation 3): the code does not guarantee delivery then. The bounded number of
  faults is the usual assumption that failures eventually pause.
* `Records`: weak fairness of each request's steps and of `db_pool_timeout`: a request
  that waits for a connection gives up. That, and not the order of the queue, is why
  `EveryRequestAnswered` holds; `Fail` may happen and need not.
* `ApiClient`: weak fairness of a call's `Progress`: HTTP timeouts end every request.
  Cancellation and expiring tokens are never required.
* `Lifespan`: weak fairness of start and shutdown (the orchestrator restarts processes), of
  each handler's begin and end (the clients they call have timeouts) and of kafka's
  assignment. Commits, acknowledgements, publishing, stops, crashes and breaks are not assumed.
* `UserCache` and `Gateway` have no liveness property.

All liveness properties (`CondemnedSessionDies`, `MarkerResolves`,
`EventsArePublished`, `LockComesBack`, `EveryRequestAnswered`, `EveryCallEnds`,
`EveryGroupHandles`) are checked by TLC only:
liveness under fairness is out of the prover's reach.

## 5. Theorems

All hold for every value of the constants that satisfies the named ASSUME of the
module (absent values differ from real ones, bounds are natural numbers, operations
are well formed). `LimiterAssumption` asks for a positive limit and period in every tier and
for counters that saturate above the limits; `GatewayAssumption` says what a setting is made of
and that requests are counted by their address or by the key they bring, as
`RateLimitMiddleware._identity` does. Nothing is assumed finite that the code does not
make finite: finitely many rows and admitted requests are part of the invariants.

| Module | Theorem | States |
|---|---|---|
| `Sessions_proofs` | `TypeCorrect` | `[]TypeOK` |
| | `RecordsCorrect` | `[]RecordsAgree` |
| | `Refinement` | `Spec => ImplementsLifecycle` |
| | `OwnerCloses` | `OnlyOwnerCloses` |
| | `TokenDelivered` | `[]ValidTokenDelivered` |
| `Payments_proofs` | `TypeCorrect` | `[]TypeOK` |
| | `BalanceCorrect` | `[]BalanceIsSumOfTransactions` |
| | `AnswersCorrect` | `[]AnswerIsTruthful` |
| | `StoredCorrect` | `[]StoredMeansExecuted` |
| | `AtMostOnce` | `NoLostReply => (Spec => []ExecutedAtMostOnce)` |
| | `RepeatsCorrect` | `[]RepeatsFollowErrors` |
| | `Refinement` | `NoLostReply => (Spec => ImplementsLedger)` |
| `UserCache_proofs` | `TypeCorrect` | `[]TypeOK` |
| | `Invalidation` | `[]MutationsInvalidate` |
| | `VersionsCorrect` | `[]OneUpdatePerVersion` |
| `OutboxRelay_proofs` | `TypeCorrect` | `[]TypeOK` |
| | `Refinement` | `Spec => ImplementsDelivery` |
| | `SingleCorrect` | `[]SingleInstance`, assuming `~Overruns` |
| | `RepeatsCorrect` | `[]RepeatsNeedFaults`, assuming `~Overruns` |
| `ApiClient_proofs` | `TypeCorrect` | `[]TypeOK` |
| | `LoginsCorrect` | `[]OneLoginPerDrop` |
| | `ReplayCorrect` | `[]ReplayUsesNewerToken` |
| | `SendCorrect` | `[]SentAtMostOnce` |
| | `AnswersCorrect` | `[]AnswersMatchEffects` |
| `Records_proofs` | `PoolCorrect` | `[]ConnectionsReturned` |
| | `UniqueCorrect` | `[]OneWinnerPerEmail` |
| | `WalkCorrect` | `[]WalkMissesFew` |
| `Lifespan_proofs` | `RepeatsCorrect` | `[]RepeatsNeedBreaks` |
| | `LossesCorrect` | `[]LossesAreInFlight` |
| | `ShutdownCorrect` | `[]NothingLeftOpen` |
| `Gateway_proofs` | `GatewayCorrect` | `[]GatewayInv` |
| | `LimitHolds` | `[]NearTwiceTheLimit` |
| | `WindowsCorrect` | `[]WindowsEnd` |
| | `HistoryComplete` | `[][HistoryKept]_vars` |
| | `AccessCorrect` | `[]AccessIsEarned` |
| | `SchemaCorrect` | `[]SchemaIsEnforced` |
| | `TraceCorrect` | `[]TracedUnlessUnhandled` |
| | `FilesCorrect` | `[]FileAnswersHeld` |

`NoLostReply` says that neither `cache_lost` nor `commit_unknown` is in `Faults`: run
`payments_cache_lost` shows that the theorem is false without it. `save_lost`,
`crash` and expiry of other keys are allowed.

The arguments:

* **Sessions.** `RecordsAgree` is not inductive: a step after an await acts on
  locals read earlier. `LocalsAgree` states what those locals still guarantee:
  the session a request acts on is of its own user, the sids collected by
  `revoke_all` and `revoke_others` are too, `revoke_others` never collected its own,
  and the jti it made is not newer than the last one made. For
  the refinement the key step is `RotateWrite`: on a live session it is `Renew`
  (the new jti is above every earlier one); on a deleted hash it changes nothing that
  a refresh token can see, because uid stays absent. `TokenDelivered` adds
  `TokensHeld` (`DInv`): the newest jti is either issued or in the locals of a
  request that will issue it, revoke the session, or has died.
* **Payments.** `LockProtects`: the balance read by the holder of the row lock is
  still the stored one; hence `BalanceInv`. `EffectsKnown` ties an attempt's
  program counter to whether it has committed; `AnswerInv` follows under every
  combination of faults. For `ExecutedAtMostOnce`, `Holds`, `MarkerAt` and
  `MarkerProtects` say that a key which does not expire is in progress exactly while
  one attempt holds it and stays taken once the operation has been executed; `OnceInv`
  is inductive only without a lost reply, since `Release` would free such a key. What is left
  with lost replies is `RepeatsFollowErrors`: of the executions under a living key all but
  one were answered with an error, so violation 2 needs a client that was told of one.
  `StandingAt` is `MarkerAt` with the executions that were *not* answered with an error.
* **UserCache.** `MutationsInvalidate` is not inductive because an update whose
  `session.refresh` finds the row deleted gives up its own invalidation;
  `DeletionInvalidates` says that what is cached of a deleted user is then owed by
  another request as well. What only password changes have made stale stays so until an
  operation that owes its deletion comes (`OnlyPasswordsSince`). `BuiltOnPast` carries the
  optimistic lock: versions only grow, so an update built on the present version is the first.
* **OutboxRelay.** For the refinement `RunsKnown` says that what a run will mark has
  been published and that its rows belong to committed users: then `Mark` forgets only
  delivered events, whichever run, however stale, executes it. `RunnerLocks`: a run that
  cannot outlive the TTL is the setter of the key, so `Release`, which does not ask,
  deletes its own lock. `RepeatsCounted` needs both: one run has locals; a pending row
  that is in no run's `done` was published at most once for each fault, any other once
  more; the end of a run without its mark is itself a fault and pays for what it forgets.
* **ApiClient.** `TokenInv`: a login is under way only while there is no token, and
  the number of logins without a token is at most the number of discarded ones
  (`LoginsPaid`); a call on its second pass, which has yet to get a token, can only get
  one newer than the refused one (`TokensKnown`). `EffectInv`: a call whose outcome is
  not settled has executed nothing unless it is on a later attempt or on its second
  pass, which a send never is with an effect: the server refuses a token before it
  executes (`EffectOf`, `Unsettled`).
* **Records.** `RowsKept` says that exactly the requests that wait for their commit
  have inserted rows; `Unique` extends the unique index to uncommitted rows, which is
  what makes the wait in `Insert` sound; `AnswersKnown` then follows from the order of
  commit and answer. `WalkMissesFew` speaks of the answered walk alone; `WalkOf` says of a walk
  under way that the rows it has not got and that rank among the pages it has asked for
  (`Before`) are no more than the updates and deletions since it began. A step gives one row
  another place, a first or none (`Rearranged`): a new row brings no other one forward
  (`NewcomersPushBack`), a move or a deletion at most one (`OneComesForward`), and an answered,
  untorn walk has asked for as many pages as there are ranks (`Ranks`).
* **Lifespan.** `CopyKnown` describes one copy of a message: a copy that may still be
  delivered has been begun with no more often than deliveries were taken back; what is
  delivered is with one process that works on it or has handled it (`Held`). With kafka what is
  committed and not handled is being handled, of which `OneAtATime` allows one per process and
  group, so the end of a process, the only thing that stops a handler there, loses at most one
  (`LostFew`). `OpenKnown`: a process outside the stages between connect and disconnect has no
  consumer and no handler, so nothing can open a resource again.
* **RateLimiter.** `NearTwiceTheLimit` bounds a sum over time and is not inductive. `Windows`
  describes each counter: `Closed` (no key: the last window's requests left in the stretch are
  fewer than a limit, because the request that opened it has aged out of it) or `Open` (since
  the window began no more were admitted than are counted and than the limit, one of them in
  its first unit; the windows before have left less than a limit). `Closed` and the part of
  `Open` before the window's first unit both say "less than", which is where "less than twice"
  comes from. The step that needs care is `Expire`, which ages the history and may close the
  window at once (`Aging`, `ExpireKeepsWindows`). Since a theorem about a history is worth what
  the history records, `HistoryComplete` proves that every admission adds one to it and that
  none leaves it before it is older than every window; `Numbered` keeps two requests of one
  unit apart. `Dated` ties a counter's age to the life it has left, which gives `WindowsEnd`.
* **Gateway.** `RequestInv` says what each stage has behind it: behind the gate the last key
  was right (`Passed`), in a handler the route is registered and the principal may use it, a 401
  has one of four origins (`Refused`), a wrapping middleware's header is on every answer that
  went through it (`Traced`), and a request that is about to answer something about the object
  has seen it so (`Witnessed`). Each layer of `Stack` keeps it by itself. For the document,
  `Resolved` computes what `Declared`, `StripJwt` and `ApplyGate` make of a route under each
  combination of the modes: exactly the credentials `Passed` and `Refused` speak of.

Only model-checked: all liveness (`CondemnedSessionDies`, `MarkerResolves`,
`EventsArePublished`, `LockComesBack`, `EveryRequestAnswered`, `EveryCallEnds`,
`EveryGroupHandles`), out of the prover's reach. Every
invariant and every action property that a passing run checks is also a theorem, and so
are the three refinements. What a violated run shows is by nature an instance.

## 6. What is abstracted

* Time: a TTL is an action that may happen at any time (in `OutboxRelay` not during a run
  unless `Overruns`; in `RateLimiter` units are counted, because the property is about
  them). Pauses between retries have no length.
* Payloads, texts, header values, encodings, password hashes: members of small sets, or
  left out. JWTs are classes: none, of a user, of an admin, of a user whose session is closed,
  of the refresh type, expired.
* Kafka has one partition per topic; groups without an offset begin at the end of the log
  (`broker/kafka.py` leaves the client's default). RabbitMQ redelivers what a lost connection held, and the
  client library cancels the callbacks of its channel. An arbitrarily slow handler keeps running
  when kafka gives its partition to another consumer.
* In `Records` the column that walks sort by has no equal values; the order is the same for all walks.
* Redis keeps a TTL to the millisecond and `limiter.py` reports whole seconds: in `RateLimiter`
  windows are whole units of time.
* In `Gateway` the answers of documentation pages and downloads are only told apart from the
  envelope (`html`, `bytes`, `broken`).

## 7. Not modelled, and why

* **Acquiring**: no route, service or job calls an acquirer. The YooKassa gateway
  translates call by call into an external SDK; the in-memory one is a stub whose capture
  and cancel assign a status without a condition.
* **Cookies, CORS rules, logging, command line, migrations, the decorators** `cached`,
  `retry`, `transactional` (used nowhere): no protocol state. Transport by cookie takes
  part in `Gateway` as the place where the token is looked for.
* **The WHERE clause of filters and search** (a pure translation to SQL; its refusals are
  an action of `Records`), `stream`, `list_sessions`, account overview: reads without effect.
* **Cron arithmetic** (croniter), the stub jobs, the worker's other resources.
* **Idempotency of `POST /users` and account creation**: the same helper as payments.
* **Redis losing data, PostgreSQL failing over**: the code has no provision for either.

What could come next: a `Worker` counterpart of `Lifespan` (start and stop order of
`worker.py`) and the composition of `OutboxRelay` with `Broker` over one log (now joined only
by `RelayUserCreated`).
