----------------------------- MODULE UserCache ----------------------------
(***************************************************************************)
(* GET /users/{id} through the cache: the key user:{id} (cache-aside, TTL  *)
(* 30 s) of one user, the operations of UserService and AccountService     *)
(* that change the cached form and then delete the key, change_password    *)
(* of AuthService, which changes it and does not, and the optimistic lock  *)
(* of the row.  Users do not share keys or rows, so one user shows them    *)
(* all.                                                                    *)
(*                                                                         *)
(* Every action is what a request does between two awaits or, for a read   *)
(* of several SELECTs, one statement: the database runs at READ COMMITTED. *)
(* A definition marked "Mutant" is a plausible bug in the definition after *)
(* it; no specification uses it.                                           *)
(***************************************************************************)
EXTENDS Naturals

CONSTANTS Requests,  \* request coroutines that may be in flight at once
          MaxCalls   \* bound: requests started in one behaviour

ASSUME CacheAssumption == MaxCalls \in Nat

VARIABLES row,        \* the user's rows in the database
          cache,      \* the key user:{id}
          req,        \* req[p]: program counter and locals of request p
          calls,      \* requests started so far
          bornStale,  \* history: the entry differed from the database when it was stored
          built,      \* history: updates committed, each with the version it read
          silent      \* history: versions of the row that change_password committed

vars == <<row, cache, req, calls, bornStale, built, silent>>

\* The detail form (UserReadDetail).  A version of the users row stands for
\* its columns; profile and accounts count the changes of the other tables,
\* 0 being no profile and no accounts.
Form == [version : Nat, profile : Nat, accounts : Nat]
NoForm == [version |-> 0, profile |-> 0, accounts |-> 0]
NewForm == [NoForm EXCEPT !.version = 1]

States == {"absent", "live", "deleted"}
Row == [st : States, form : Form]

\* What a reader of the database would be given now.
Current == IF row.st = "live" THEN row.form ELSE NoForm

Pcs == {"idle", "load_user", "load_accounts", "put", "update", "refresh",
        "password", "upsert", "invalidate", "aborted"}

\* owes: a change is committed and the key not yet deleted.
Local == [pc : Pcs, form : Form, owes : BOOLEAN]
Idle == [pc |-> "idle", form |-> NoForm, owes |-> FALSE]

Init ==
    /\ row = [st |-> "absent", form |-> NoForm]
    /\ cache = NoForm
    /\ req = [p \in Requests |-> Idle]
    /\ calls = 0
    /\ bornStale = FALSE
    /\ built = {}
    /\ silent = {}

---------------------------------------------------------------------------
Start(p, pc, form, owes) ==
    /\ req[p].pc = "idle"
    /\ calls < MaxCalls
    /\ calls' = calls + 1
    /\ req' = [req EXCEPT ![p] = [pc |-> pc, form |-> form, owes |-> owes]]

Done(p) == req' = [req EXCEPT ![p] = Idle]
Goto(p, pc) == req' = [req EXCEPT ![p].pc = pc]
Owe(p, pc) == req' = [req EXCEPT ![p].pc = pc, ![p].owes = TRUE]

\* UserService.create has committed; the form it caches is built without a query.
Create(p) ==
    /\ row.st = "absent"
    /\ row' = [st |-> "live", form |-> NewForm]
    /\ Start(p, "put", NewForm, FALSE)
    /\ UNCHANGED <<cache, bornStale, built, silent>>

---------------------------------------------------------------------------
\* UserService.get.  A hit is answered at once and leaves everything as it is.
GetMiss(p) ==
    /\ cache = NoForm
    /\ Start(p, "load_user", NoForm, FALSE)
    /\ UNCHANGED <<row, cache, bornStale, built, silent>>

\* First SELECT: users and, by joinedload, profiles; no row is a 404.
LoadUser(p) ==
    /\ req[p].pc = "load_user"
    /\ \/ row.st # "live" /\ Done(p)
       \/ /\ row.st = "live"
          /\ req' = [req EXCEPT ![p].pc = "load_accounts",
                                ![p].form = [row.form EXCEPT !.accounts = 0]]
    /\ UNCHANGED <<row, cache, calls, bornStale, built, silent>>

\* Second SELECT, by selectinload: accounts.
LoadAccounts(p) ==
    /\ req[p].pc = "load_accounts"
    /\ req' = [req EXCEPT ![p].pc = "put",
                          ![p].form = [@ EXCEPT !.accounts = Current.accounts]]
    /\ UNCHANGED <<row, cache, calls, bornStale, built, silent>>

\* _cache_put: SET EX, whatever the key and the database hold by now.
Put(p) ==
    /\ req[p].pc = "put"
    /\ cache' = req[p].form
    /\ bornStale' = (req[p].form # Current)
    /\ Done(p)
    /\ UNCHANGED <<row, calls, built, silent>>

---------------------------------------------------------------------------
\* UserService.update reads the row and its version.
UpdateRead(p) ==
    /\ row.st = "live"
    /\ Start(p, "update", row.form, FALSE)
    /\ UNCHANGED <<row, cache, bornStale, built, silent>>

\* Mutant: the model is not versioned; the UPDATE has no version in its WHERE.
UpdateWriteUnversioned(p) ==
    /\ req[p].pc = "update"
    /\ row.st = "live"
    /\ row' = [row EXCEPT !.form.version = @ + 1]
    /\ built' = built \cup {<<p, req[p].form.version>>}
    /\ Owe(p, "refresh")
    /\ UNCHANGED <<cache, calls, bornStale, silent>>

\* Mutant: the new values are cached before the commit has succeeded.
UpdateWriteThrough(p) ==
    /\ req[p].pc = "update"
    /\ req' = [req EXCEPT ![p].pc = "put", ![p].form.version = @ + 1]
    /\ UNCHANGED <<row, cache, calls, bornStale, built, silent>>

\* UPDATE ... WHERE version_id = <the one read>, and commit; no matching row is
\* a StaleDataError (409).  Values equal to the stored ones send no UPDATE.
UpdateWrite(p) ==
    LET read == req[p].form.version
        matches == row.st = "live" /\ row.form.version = read
    IN  /\ req[p].pc = "update"
        /\ \/ /\ matches
              /\ row' = [row EXCEPT !.form.version = @ + 1]
              /\ built' = built \cup {<<p, read>>}
              /\ Owe(p, "refresh")
           \/ ~matches /\ Done(p) /\ UNCHANGED <<row, built>>
           \/ Owe(p, "refresh") /\ UNCHANGED <<row, built>>
        /\ UNCHANGED <<cache, calls, bornStale, silent>>

\* session.refresh after the commit: when the row is gone it raises, and the
\* key is not deleted by this request.
Refresh(p) ==
    /\ req[p].pc = "refresh"
    /\ \/ row.st = "live" /\ Goto(p, "invalidate")
       \/ row.st # "live" /\ Done(p)
    /\ UNCHANGED <<row, cache, calls, bornStale, built, silent>>

\* AuthService.change_password, its second transaction: the row is read again
\* (none is a 401, which changes nothing)...
PasswordRead(p) ==
    /\ row.st = "live"
    /\ Start(p, "password", row.form, FALSE)
    /\ UNCHANGED <<row, cache, bornStale, built, silent>>

\* ... and the new hash, which always differs, written under the same optimistic
\* lock: a StaleDataError is an unhandled 500.  updated_at is part of the cached
\* form, but the service has no cache: the key stays.
PasswordWrite(p) ==
    LET read == req[p].form.version
        matches == row.st = "live" /\ row.form.version = read
    IN  /\ req[p].pc = "password"
        /\ \/ /\ matches
              /\ row' = [row EXCEPT !.form.version = @ + 1]
              /\ built' = built \cup {<<p, read>>}
              /\ silent' = silent \cup {read + 1}
           \/ ~matches /\ UNCHANGED <<row, built, silent>>
        /\ Done(p)
        /\ UNCHANGED <<cache, calls, bornStale>>

\* UserService.delete; profiles and accounts go by cascade.
Delete(p) ==
    /\ row.st = "live"
    /\ row' = [row EXCEPT !.st = "deleted"]
    /\ Start(p, "invalidate", NoForm, TRUE)
    /\ UNCHANGED <<cache, bornStale, built, silent>>

\* UserService.upsert_profile reads the user with the profile.
UpsertRead(p) ==
    /\ row.st = "live"
    /\ Start(p, "upsert", row.form, FALSE)
    /\ UNCHANGED <<row, cache, bornStale, built, silent>>

\* INSERT when there was no profile, which the unique user_id refuses if there
\* is one now; UPDATE, or nothing for equal values, when there was one.  A user
\* deleted meanwhile fails the foreign key or matches no row.
UpsertWrite(p) ==
    LET had == req[p].form.profile > 0
    IN  /\ req[p].pc = "upsert"
        /\ \/ /\ row.st = "live"
              /\ had \/ row.form.profile = 0
              /\ row' = [row EXCEPT !.form.profile = @ + 1]
              /\ Owe(p, "invalidate")
           \/ had /\ Owe(p, "invalidate") /\ UNCHANGED row
           \/ /\ row.st # "live" \/ (~had /\ row.form.profile > 0)
              /\ Done(p)
              /\ UNCHANGED row
        /\ UNCHANGED <<cache, calls, bornStale, built, silent>>

\* Mutant: the service does not know the key (the bug recorded in ADR-0012).
AccountWriteOnly(p) ==
    /\ row.st = "live"
    /\ row' = [row EXCEPT !.form.accounts = @ + 1]
    /\ Start(p, "idle", NoForm, FALSE)
    /\ UNCHANGED <<cache, bornStale, built, silent>>

\* AccountService.create_account, deposit and withdraw have committed.
AccountWrite(p) ==
    /\ row.st = "live"
    /\ row' = [row EXCEPT !.form.accounts = @ + 1]
    /\ Start(p, "invalidate", NoForm, TRUE)
    /\ UNCHANGED <<cache, bornStale, built, silent>>

\* cache.delete, the last thing each of these operations does.
Invalidate(p) ==
    /\ req[p].pc = "invalidate"
    /\ cache' = NoForm
    /\ bornStale' = FALSE
    /\ Done(p)
    /\ UNCHANGED <<row, calls, built, silent>>

---------------------------------------------------------------------------
\* A Redis or database error, or the end of the process, stops a request
\* between two awaits; what it has written stays.  Its slot is not reused.
Abort(p) ==
    /\ req[p].pc \notin {"idle", "aborted"}
    /\ Goto(p, "aborted")
    /\ UNCHANGED <<row, cache, calls, bornStale, built, silent>>

\* TTL of the key.
Expire ==
    /\ cache # NoForm
    /\ cache' = NoForm
    /\ bornStale' = FALSE
    /\ UNCHANGED <<row, req, calls, built, silent>>

Next ==
    \/ \E p \in Requests :
        \/ Create(p)
        \/ GetMiss(p) \/ LoadUser(p) \/ LoadAccounts(p) \/ Put(p)
        \/ UpdateRead(p) \/ UpdateWrite(p) \/ Refresh(p)
        \/ PasswordRead(p) \/ PasswordWrite(p)
        \/ Delete(p)
        \/ UpsertRead(p) \/ UpsertWrite(p)
        \/ AccountWrite(p)
        \/ Invalidate(p)
        \/ Abort(p)
    \/ Expire

Spec == Init /\ [][Next]_vars

---------------------------------------------------------------------------
\* Properties.

\* Types; a row has a version exactly from its creation on, and a stored form
\* is one that a row had.
TypeOK ==
    /\ row \in Row
    /\ cache \in Form
    /\ req \in [Requests -> Local]
    /\ calls \in 0..MaxCalls
    /\ bornStale \in BOOLEAN
    /\ built \in SUBSET (Requests \X Nat)
    /\ silent \in SUBSET Nat
    /\ row.st = "absent" <=> row.form = NoForm
    /\ cache.version <= row.form.version
    /\ \A p \in Requests : req[p].form.version <= row.form.version

Stale == cache # NoForm /\ cache # Current

\* The user is there, and all that has changed since the entry was read from
\* the database is what change_password wrote.
OnlyPasswordsSince ==
    /\ row.st = "live"
    /\ <<cache.profile, cache.accounts>> = <<row.form.profile, row.form.accounts>>
    /\ \A v \in (cache.version + 1)..row.form.version : v \in silent

\* ADR-0012, as far as the code follows it: an entry that was right when it was
\* stored becomes stale only by an operation of UserService or AccountService
\* that has committed and still owes the deletion, or failed before it, or by
\* change_password, and then by nothing else.
MutationsInvalidate ==
    Stale /\ ~bornStale => (\E p \in Requests : req[p].owes) \/ OnlyPasswordsSince

\* Optimistic lock: of several updates and password changes that read the same
\* version at most one is committed, whatever else changes or deletes the row.
OneUpdatePerVersion ==
    \A a, b \in built : a[2] = b[2] => a = b
===========================================================================
