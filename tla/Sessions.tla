----------------------------- MODULE Sessions -----------------------------
(***************************************************************************)
(* Login sessions: SessionStore (Redis), AuthService, UserService.delete   *)
(* and the AUTH_VALIDATE_SESSION check of every authorised request.        *)
(*                                                                         *)
(* A request is a coroutine; every action is what it does between two      *)
(* awaits, so any number of requests interleave at the awaits.  A Redis    *)
(* MULTI/EXEC pipeline is one action.  Wrong passwords, malformed and      *)
(* expired tokens are answered 401 before any state changes and are not    *)
(* actions of their own.  A definition marked "Mutant" is a plausible bug  *)
(* in the definition after it; no specification uses it.                   *)
(***************************************************************************)
EXTENDS Naturals

CONSTANTS Users,            \* user ids
          Sids,             \* supply of session ids (uuid4: never reused)
          Requests,         \* request coroutines that may be in flight at once
          NoUser, NoSid,    \* absent values
          ValidateSession,  \* settings.auth_validate_session
          KeysExpire,       \* whether a session's TTL (days) may run out
          MaxCalls          \* bound: requests started in one behaviour

ASSUME SessionsAssumption ==
    /\ NoUser \notin Users
    /\ NoSid \notin Sids
    /\ ValidateSession \in BOOLEAN /\ KeysExpire \in BOOLEAN
    /\ MaxCalls \in Nat

VARIABLES users,   \* users[u]: the row of table users
          sess,    \* sess[s]: the hash sess:{sid}, NoHash when the key is absent
          index,   \* index[u]: the set usess:{user_id}
          issued,  \* refresh tokens handed to clients (an access token comes with each)
          req,     \* req[p]: program counter and locals of request p
          calls,   \* requests started so far
          owner,   \* history: owner[s] is the user session s was created for
          minted   \* history: minted[s] is the number of jti made for session s

vars == <<users, sess, index, issued, req, calls, owner, minted>>

\* jti values are uuid4: the n-th made for a session is written n, and 0 is
\* a hash without the field.  Every HSET writes the field jti, so a key
\* exists exactly when its jti is not 0.  uid is NoUser when the field is missing.
Hash == [uid : Users \cup {NoUser}, jti : Nat]
NoHash == [uid |-> NoUser, jti |-> 0]
Exists(s) == sess[s].jti # 0

Token == [sub : Users, sid : Sids, jti : Nat]

Pcs == {"idle", "create", "respond", "rotate_read", "rotate_write", "load_user",
        "revoke_read", "revoke_write", "all_read", "all_write",
        "others_read", "others_write", "aborted"}

Local == [pc : Pcs, user : Users \cup {NoUser}, sid : Sids \cup {NoSid},
          jti : Nat, sids : SUBSET Sids]
Idle == [pc |-> "idle", user |-> NoUser, sid |-> NoSid, jti |-> 0, sids |-> {}]

Init ==
    /\ users = [u \in Users |-> "active"]
    /\ sess = [s \in Sids |-> NoHash]
    /\ index = [u \in Users |-> {}]
    /\ issued = {}
    /\ req = [p \in Requests |-> Idle]
    /\ calls = 0
    /\ owner = [s \in Sids |-> NoUser]
    /\ minted = [s \in Sids |-> 0]

---------------------------------------------------------------------------
\* Request p starts with the given locals; finishes; or moves to another step.
Start(p, locals) ==
    /\ req[p].pc = "idle"
    /\ calls < MaxCalls
    /\ calls' = calls + 1
    /\ req' = [req EXCEPT ![p] = locals]

Done(p) == req' = [req EXCEPT ![p] = Idle]
Goto(p, pc) == req' = [req EXCEPT ![p].pc = pc]

\* get_current_user: the access token of a pair is accepted, and, with
\* AUTH_VALIDATE_SESSION, its session key must exist.
Authorised(s) == ValidateSession => Exists(s)

---------------------------------------------------------------------------
\* AuthService.login.  The snapshot of the user is taken in a transaction
\* that is closed before argon2 runs; is_active is the snapshot's.
LoginRead(p, u) ==
    /\ users[u] = "active"
    /\ \E s \in Sids : owner[s] = NoUser
    /\ Start(p, [Idle EXCEPT !.pc = "create", !.user = u])
    /\ UNCHANGED <<users, sess, index, issued, owner, minted>>

\* SessionStore.create: one pipeline writes the hash and the index entry.
Create(p, s) ==
    /\ sess' = [sess EXCEPT ![s] = [uid |-> req[p].user, jti |-> 1]]
    /\ index' = [index EXCEPT ![req[p].user] = @ \cup {s}]
    /\ owner' = [owner EXCEPT ![s] = req[p].user]
    /\ minted' = [minted EXCEPT ![s] = 1]
    /\ req' = [req EXCEPT ![p].pc = "respond", ![p].sid = s, ![p].jti = 1]
    /\ UNCHANGED <<users, issued, calls>>

\* Mutant: the session id is not fresh (made from the device, not by uuid4).
LoginCreateReusesSid(p) == req[p].pc = "create" /\ \E s \in Sids : Create(p, s)

LoginCreate(p) ==
    /\ req[p].pc = "create"
    /\ \E s \in Sids : owner[s] = NoUser /\ Create(p, s)

\* AuthService._pair reaches the client.
Issue(p) == issued' = issued \cup {[sub |-> req[p].user, sid |-> req[p].sid, jti |-> req[p].jti]}

LoginRespond(p) ==
    /\ req[p].pc = "respond"
    /\ Issue(p)
    /\ Done(p)
    /\ UNCHANGED <<users, sess, index, calls, owner, minted>>

---------------------------------------------------------------------------
\* AuthService.refresh: SessionStore.validate compares uid and jti; a token
\* that does not match is taken for a replay and its session is revoked.
RefreshValidate(p, t) ==
    /\ LET valid == sess[t.sid].uid = t.sub /\ sess[t.sid].jti = t.jti
       IN  Start(p, [Idle EXCEPT !.pc = IF valid THEN "rotate_read" ELSE "revoke_read",
                                 !.user = t.sub, !.sid = t.sid])
    /\ UNCHANGED <<users, sess, index, issued, owner, minted>>

\* SessionStore.rotate, HGETALL: without the session the answer is 401.
RotateRead(p) ==
    /\ req[p].pc = "rotate_read"
    /\ IF sess[req[p].sid].uid = req[p].user THEN Goto(p, "rotate_write") ELSE Done(p)
    /\ UNCHANGED <<users, sess, index, issued, calls, owner, minted>>

\* Mutant: the pipeline writes uid as well, like the one of create.
RotateWriteWithUid(p) ==
    LET s == req[p].sid
        jti == minted[s] + 1
    IN  /\ req[p].pc = "rotate_write"
        /\ sess' = [sess EXCEPT ![s] = [uid |-> req[p].user, jti |-> jti]]
        /\ minted' = [minted EXCEPT ![s] = jti]
        /\ req' = [req EXCEPT ![p].pc = "load_user", ![p].jti = jti]
        /\ UNCHANGED <<users, index, issued, calls, owner>>

\* SessionStore.rotate, pipeline: HSET writes jti and not uid, on whatever
\* is stored now, and creates the key when it is gone.
RotateWrite(p) ==
    LET s == req[p].sid
        jti == minted[s] + 1
    IN  /\ req[p].pc = "rotate_write"
        /\ sess' = [sess EXCEPT ![s].jti = jti]
        /\ minted' = [minted EXCEPT ![s] = jti]
        /\ req' = [req EXCEPT ![p].pc = "load_user", ![p].jti = jti]
        /\ UNCHANGED <<users, index, issued, calls, owner>>

\* Mutant: 401 for an inactive user without revoking the session.
LoadUserKeepsSession(p) ==
    /\ req[p].pc = "load_user"
    /\ IF users[req[p].user] = "active" THEN Issue(p) ELSE UNCHANGED issued
    /\ Done(p)
    /\ UNCHANGED <<users, sess, index, calls, owner, minted>>

\* Back in refresh: a deleted or inactive user loses the session, otherwise
\* the new pair is returned.
LoadUser(p) ==
    /\ req[p].pc = "load_user"
    /\ \/ /\ users[req[p].user] = "active"
          /\ Issue(p)
          /\ Done(p)
       \/ /\ users[req[p].user] # "active"
          /\ Goto(p, "revoke_read")
          /\ UNCHANGED issued
    /\ UNCHANGED <<users, sess, index, calls, owner, minted>>

---------------------------------------------------------------------------
\* AuthService.logout_current, after get_current_user accepted the access token.
Logout(p, t) ==
    /\ Authorised(t.sid)
    /\ Start(p, [Idle EXCEPT !.pc = "revoke_read", !.user = t.sub, !.sid = t.sid])
    /\ UNCHANGED <<users, sess, index, issued, owner, minted>>

\* Mutant: the early return for a key without uid is missing.
RevokeReadUnchecked(p) ==
    /\ req[p].pc = "revoke_read"
    /\ req' = [req EXCEPT ![p].pc = "revoke_write", ![p].user = sess[req[p].sid].uid]
    /\ UNCHANGED <<users, sess, index, issued, calls, owner, minted>>

\* SessionStore.revoke: HGET uid; nothing to do for a key without it.
RevokeRead(p) ==
    LET uid == sess[req[p].sid].uid
    IN  /\ req[p].pc = "revoke_read"
        /\ \/ uid = NoUser /\ Done(p)
           \/ uid # NoUser /\ req' = [req EXCEPT ![p].pc = "revoke_write", ![p].user = uid]
        /\ UNCHANGED <<users, sess, index, issued, calls, owner, minted>>

\* Mutant: the sid leaves the index and its hash stays.
RevokeWriteKeepsHash(p) ==
    /\ req[p].pc = "revoke_write"
    /\ index' = [index EXCEPT ![req[p].user] = @ \ {req[p].sid}]
    /\ Done(p)
    /\ UNCHANGED <<users, sess, issued, calls, owner, minted>>

RevokeWrite(p) ==
    /\ req[p].pc = "revoke_write"
    /\ sess' = [sess EXCEPT ![req[p].sid] = NoHash]
    /\ index' = [index EXCEPT ![req[p].user] = @ \ {req[p].sid}]
    /\ Done(p)
    /\ UNCHANGED <<users, issued, calls, owner, minted>>

\* AuthService.logout_all.
LogoutAll(p, t) ==
    /\ Authorised(t.sid)
    /\ Start(p, [Idle EXCEPT !.pc = "all_read", !.user = t.sub])
    /\ UNCHANGED <<users, sess, index, issued, owner, minted>>

\* UserService.delete: the row is gone first, the sessions are revoked after.
DeleteUser(p, u) ==
    /\ users[u] # "deleted"
    /\ users' = [users EXCEPT ![u] = "deleted"]
    /\ Start(p, [Idle EXCEPT !.pc = "all_read", !.user = u])
    /\ UNCHANGED <<sess, index, issued, owner, minted>>

\* SessionStore.revoke_all: SMEMBERS, then one pipeline that deletes what
\* SMEMBERS returned and the whole index key.
AllRead(p) ==
    LET sids == index[req[p].user]
    IN  /\ req[p].pc = "all_read"
        /\ \/ sids = {} /\ Done(p)
           \/ sids # {} /\ req' = [req EXCEPT ![p].pc = "all_write", ![p].sids = sids]
        /\ UNCHANGED <<users, sess, index, issued, calls, owner, minted>>

Without(S) == [s \in Sids |-> IF s \in S THEN NoHash ELSE sess[s]]

AllWrite(p) ==
    /\ req[p].pc = "all_write"
    /\ sess' = Without(req[p].sids)
    /\ index' = [index EXCEPT ![req[p].user] = {}]
    /\ Done(p)
    /\ UNCHANGED <<users, issued, calls, owner, minted>>

\* AuthService.logout_others and SessionStore.revoke_others.  Every access
\* token carries a sid, so the fallback to revoke_all is not reached.
LogoutOthers(p, t) ==
    /\ Authorised(t.sid)
    /\ Start(p, [Idle EXCEPT !.pc = "others_read", !.user = t.sub, !.sid = t.sid])
    /\ UNCHANGED <<users, sess, index, issued, owner, minted>>

\* Mutant: the caller's own session is not left out.
OthersReadIncludesOwn(p) ==
    /\ req[p].pc = "others_read"
    /\ req' = [req EXCEPT ![p].pc = "others_write", ![p].sids = index[req[p].user]]
    /\ UNCHANGED <<users, sess, index, issued, calls, owner, minted>>

OthersRead(p) ==
    LET others == index[req[p].user] \ {req[p].sid}
    IN  /\ req[p].pc = "others_read"
        /\ \/ others = {} /\ Done(p)
           \/ others # {} /\ req' = [req EXCEPT ![p].pc = "others_write", ![p].sids = others]
        /\ UNCHANGED <<users, sess, index, issued, calls, owner, minted>>

OthersWrite(p) ==
    /\ req[p].pc = "others_write"
    /\ sess' = Without(req[p].sids)
    /\ index' = [index EXCEPT ![req[p].user] = @ \ req[p].sids]
    /\ Done(p)
    /\ UNCHANGED <<users, issued, calls, owner, minted>>

---------------------------------------------------------------------------
\* UserService.update of is_active: sessions are left alone.
SetActive(u) ==
    /\ users[u] # "deleted"
    /\ users' = [users EXCEPT ![u] = IF @ = "active" THEN "inactive" ELSE "active"]
    /\ UNCHANGED <<sess, index, issued, req, calls, owner, minted>>

\* A Redis or database error, or the end of the process, stops a request
\* between two awaits; what it has written stays.  Its slot is not reused.
Abort(p) ==
    /\ req[p].pc \notin {"idle", "aborted"}
    /\ Goto(p, "aborted")
    /\ UNCHANGED <<users, sess, index, issued, calls, owner, minted>>

\* TTL of sess:{sid}.
ExpireSession(s) ==
    /\ KeysExpire /\ Exists(s)
    /\ sess' = [sess EXCEPT ![s] = NoHash]
    /\ UNCHANGED <<users, index, issued, req, calls, owner, minted>>

\* TTL of usess:{user_id}: set by the same pipelines to the same value as the
\* session's, so it runs out after that of every session it lists.
ExpireIndex(u) ==
    /\ KeysExpire /\ index[u] # {}
    /\ \A s \in index[u] : ~Exists(s)
    /\ index' = [index EXCEPT ![u] = {}]
    /\ UNCHANGED <<users, sess, issued, req, calls, owner, minted>>

---------------------------------------------------------------------------
Begin(p) ==
    \/ \E u \in Users : LoginRead(p, u) \/ DeleteUser(p, u)
    \/ \E t \in issued :
        RefreshValidate(p, t) \/ Logout(p, t) \/ LogoutAll(p, t) \/ LogoutOthers(p, t)

Continue(p) ==
    \/ LoginCreate(p) \/ LoginRespond(p)
    \/ RotateRead(p) \/ RotateWrite(p) \/ LoadUser(p)
    \/ RevokeRead(p) \/ RevokeWrite(p)
    \/ AllRead(p) \/ AllWrite(p)
    \/ OthersRead(p) \/ OthersWrite(p)

Next ==
    \/ \E p \in Requests : Begin(p) \/ Continue(p) \/ Abort(p)
    \/ \E u \in Users : SetActive(u) \/ ExpireIndex(u)
    \/ \E s \in Sids : ExpireSession(s)

Spec == Init /\ [][Next]_vars

\* The event loop resumes every started coroutine; nobody has to start one.
FairSpec == Spec /\ \A p \in Requests : WF_vars(Continue(p))

---------------------------------------------------------------------------
\* Properties.

\* The steps of a request that acts on one session.
OnSession == {"respond", "rotate_read", "rotate_write", "load_user",
              "revoke_read", "revoke_write", "others_read", "others_write"}

\* Types; a request that has begun knows its user, and its session if it has one.
TypeOK ==
    /\ users \in [Users -> {"active", "inactive", "deleted"}]
    /\ sess \in [Sids -> Hash]
    /\ index \in [Users -> SUBSET Sids]
    /\ issued \in SUBSET Token
    /\ req \in [Requests -> Local]
    /\ calls \in 0..MaxCalls
    /\ owner \in [Sids -> Users \cup {NoUser}]
    /\ minted \in [Sids -> Nat]
    /\ \A p \in Requests :
        /\ req[p].pc \notin {"idle", "aborted"} => req[p].user \in Users
        /\ req[p].pc \in OnSession => req[p].sid \in Sids

\* A hash without uid (or no hash) validates no refresh token.
Live(s) == sess[s].uid # NoUser

Phase(s) == IF owner[s] = NoUser THEN "unborn" ELSE IF Live(s) THEN "live" ELSE "dead"

Lifecycle == INSTANCE SessionLifecycle WITH
    phase <- [s \in Sids |-> Phase(s)],
    holder <- owner,
    gen <- [s \in Sids |-> IF Live(s) THEN sess[s].jti ELSE 0]

\* Whatever refreshes, logouts, deletions and expiries race, a session that
\* was closed never validates a refresh token again and the valid token of a
\* live one only moves forward: the pipeline of rotate, run after a revoke it
\* did not see, must not bring the session back.
ImplementsLifecycle == Lifecycle!Spec

\* The three records of whose session it is (hash, index, the request that
\* made it) never disagree, and no token outruns the jti made for its session.
RecordsAgree ==
    /\ \A s \in Sids : sess[s].uid \in {owner[s], NoUser} /\ sess[s].jti <= minted[s]
    /\ \A u \in Users : \A s \in index[u] : owner[s] = u
    /\ \A t \in issued : owner[t.sid] = t.sub /\ t.jti <= minted[t.sid]

\* A session is closed by its expiry or by a request of its own user, never
\* by somebody else's logout, and never by the "log out the others" it sent.
OnlyOwnerCloses ==
    [][\A s \in Sids :
        Live(s) /\ ~Live(s)' =>
            \/ UNCHANGED req
            \/ \E p \in Requests :
                /\ req'[p] # req[p]
                /\ req[p].user = owner[s]
                /\ req[p].pc = "others_write" => req[p].sid # s]_vars

\* The valid refresh token of a live session is in the client's hands or is
\* being delivered: rotation never locks the client out, short of a request
\* that died between the rotation and its answer.
ValidTokenDelivered ==
    \A s \in Sids : Live(s) =>
        \/ [sub |-> owner[s], sid |-> s, jti |-> sess[s].jti] \in issued
        \/ \E p \in Requests :
            req[p].pc # "idle" /\ req[p].sid = s /\ req[p].jti = sess[s].jti

\* A session whose revocation has begun (logout, a replayed token, a user
\* found deleted or inactive) is dead in the end, unless the request dies.
Condemned(p, s) == req[p].pc = "revoke_read" /\ req[p].sid = s
CondemnedSessionDies ==
    \A p \in Requests, s \in Sids :
        Condemned(p, s) ~> (~Live(s) \/ req[p].pc = "aborted")

\* config.py and session_store.py: with AUTH_VALIDATE_SESSION the key's
\* existence means the session is active, so access tokens of a revoked
\* session stop working at once.
ClosedSessionDeniesAccess ==
    ValidateSession =>
        \A s \in Sids : owner[s] # NoUser /\ ~Live(s) => ~Authorised(s)

\* session_store.py: usess:{user_id} is the set of the user's sids, the index
\* by which "log out everywhere" finds every live session.
LiveSessionsIndexed ==
    \A s \in Sids : Live(s) => s \in index[owner[s]]
===========================================================================
