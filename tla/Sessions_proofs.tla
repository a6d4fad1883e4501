-------------------------- MODULE Sessions_proofs --------------------------
(***************************************************************************)
(* Theorems about Sessions for any number of users, session ids and        *)
(* concurrent requests.  The inductive invariant adds to TypeOK and        *)
(* RecordsAgree what the locals of a suspended coroutine still say about   *)
(* the stored records: that is what a step after an await relies on.       *)
(***************************************************************************)
EXTENDS Sessions, TLAPS

\* The two halves of TypeOK: the records, and the requests in flight.
StoreTyped ==
    /\ users \in [Users -> {"active", "inactive", "deleted"}]
    /\ sess \in [Sids -> Hash]
    /\ index \in [Users -> SUBSET Sids]
    /\ issued \in SUBSET Token
    /\ calls \in 0..MaxCalls
    /\ owner \in [Sids -> Users \cup {NoUser}]
    /\ minted \in [Sids -> Nat]

RequestsTyped ==
    /\ req \in [Requests -> Local]
    /\ \A p \in Requests :
        /\ req[p].pc \notin {"idle", "aborted"} => req[p].user \in Users
        /\ req[p].pc \in OnSession => req[p].sid \in Sids

\* What a suspended request remembers is of its own user, however old it is.
LocalsAgree ==
    \A p \in Requests :
        /\ req[p].pc \in OnSession => owner[req[p].sid] = req[p].user
        /\ req[p].pc \in {"all_write", "others_write"} =>
            \A s \in req[p].sids : owner[s] = req[p].user
        /\ req[p].pc = "others_write" => req[p].sid \notin req[p].sids
        /\ req[p].pc \in {"respond", "load_user"} => req[p].jti <= minted[req[p].sid]

IInv == TypeOK /\ RecordsAgree /\ LocalsAgree

USE SessionsAssumption

---------------------------------------------------------------------------
\* Types.

\* The two steps that store a new jti in the locals of their request.
LEMMA LocalUpdate ==
    ASSUME NEW r \in Local, NEW pc \in Pcs, NEW s \in Sids, NEW j \in Nat
    PROVE  /\ [r EXCEPT !.pc = pc, !.jti = j] \in Local
           /\ [r EXCEPT !.pc = pc, !.sid = s, !.jti = j] \in Local
BY DEF Local

\* A step of one request leaves every request with the locals its next step needs.
LEMMA RequestsStep == TypeOK /\ [Next]_vars => RequestsTyped'
<1> SUFFICES ASSUME TypeOK, [Next]_vars PROVE RequestsTyped'
  OBVIOUS
<1> USE DEF TypeOK, RequestsTyped, Local, Pcs, Idle, OnSession, Token
<1>1. ASSUME NEW p \in Requests, NEW u \in Users, LoginRead(p, u) PROVE RequestsTyped'
  BY <1>1 DEF LoginRead, Start
<1>2. ASSUME NEW p \in Requests, NEW u \in Users, DeleteUser(p, u) PROVE RequestsTyped'
  BY <1>2 DEF DeleteUser, Start
<1>3. ASSUME NEW p \in Requests, NEW t \in issued,
             RefreshValidate(p, t) \/ Logout(p, t) \/ LogoutAll(p, t) \/ LogoutOthers(p, t)
      PROVE RequestsTyped'
  <2>1. CASE RefreshValidate(p, t)
    BY <2>1 DEF RefreshValidate, Start
  <2>2. CASE Logout(p, t)
    BY <2>2 DEF Logout, Start
  <2>3. CASE LogoutAll(p, t)
    BY <2>3 DEF LogoutAll, Start
  <2>4. CASE LogoutOthers(p, t)
    BY <2>4 DEF LogoutOthers, Start
  <2> QED BY <1>3, <2>1, <2>2, <2>3, <2>4
<1>4. ASSUME NEW p \in Requests, Continue(p) PROVE RequestsTyped'
  <2>1. CASE LoginCreate(p)
    <3>1. PICK s \in Sids : owner[s] = NoUser /\ Create(p, s)
      BY <2>1 DEF LoginCreate
    <3>2. req' = [req EXCEPT ![p].pc = "respond", ![p].sid = s, ![p].jti = 1]
      BY <3>1 DEF Create
    <3>3. req[p].pc = "create"
      BY <2>1 DEF LoginCreate
    <3> DEFINE r == [req[p] EXCEPT !.pc = "respond", !.sid = s, !.jti = 1]
    <3>4. req' \in [Requests -> Local]
      <4>1. r \in Local
        <5>1. req[p] \in Local /\ "respond" \in Pcs
          OBVIOUS
        <5> HIDE DEF TypeOK, Local, Pcs
        <5> QED BY <5>1, LocalUpdate
      <4>2. req' = [req EXCEPT ![p] = r]
        BY <3>2
      <4> QED BY <4>1, <4>2
    <3>5. \A q \in Requests \ {p} : req'[q] = req[q]
      BY <3>2
    <3>6. req'[p].pc = "respond" /\ req'[p].sid = s /\ req'[p].user = req[p].user
      BY <3>2
    <3> QED BY <3>3, <3>4, <3>5, <3>6
  <2>2. CASE LoginRespond(p)
    BY <2>2 DEF LoginRespond, Issue, Done
  <2>3. CASE RotateRead(p)
    BY <2>3 DEF RotateRead, Goto, Done
  <2>4. CASE RotateWrite(p)
    <3>1. minted[req[p].sid] + 1 \in Nat
      BY <2>4 DEF RotateWrite
    <3>2. PICK j \in Nat : req' = [req EXCEPT ![p].pc = "load_user", ![p].jti = j]
      BY <2>4, <3>1 DEF RotateWrite
    <3>3. req[p].pc = "rotate_write"
      BY <2>4 DEF RotateWrite
    <3> DEFINE r == [req[p] EXCEPT !.pc = "load_user", !.jti = j]
    <3>4. req' \in [Requests -> Local]
      <4>1. r \in Local
        <5>1. req[p] \in Local /\ "load_user" \in Pcs /\ req[p].sid \in Sids
          BY <3>3
        <5> HIDE DEF TypeOK, Local, Pcs
        <5> QED BY <5>1, LocalUpdate
      <4>2. req' = [req EXCEPT ![p] = r]
        BY <3>2
      <4> QED BY <4>1, <4>2
    <3>5. \A q \in Requests \ {p} : req'[q] = req[q]
      BY <3>2
    <3>6. req'[p].sid = req[p].sid /\ req'[p].user = req[p].user
      BY <3>2
    <3> QED BY <3>3, <3>4, <3>5, <3>6
  <2>5. CASE LoadUser(p)
    BY <2>5 DEF LoadUser, Issue, Goto, Done
  <2>6. CASE RevokeRead(p)
    BY <2>6 DEF RevokeRead, Done
  <2>7. CASE RevokeWrite(p)
    BY <2>7 DEF RevokeWrite, Done
  <2>8. CASE AllRead(p)
    BY <2>8 DEF AllRead, Done
  <2>9. CASE AllWrite(p)
    BY <2>9 DEF AllWrite, Done, Without
  <2>10. CASE OthersRead(p)
    BY <2>10 DEF OthersRead, Done
  <2>11. CASE OthersWrite(p)
    BY <2>11 DEF OthersWrite, Done, Without
  <2> QED
    BY <1>4, <2>1, <2>2, <2>3, <2>4, <2>5, <2>6, <2>7, <2>8, <2>9, <2>10, <2>11 DEF Continue
<1>5. ASSUME NEW p \in Requests, Abort(p) PROVE RequestsTyped'
  BY <1>5 DEF Abort, Goto
<1>6. ASSUME NEW u \in Users, SetActive(u) PROVE RequestsTyped'
  BY <1>6 DEF SetActive
<1>7. ASSUME NEW u \in Users, ExpireIndex(u) PROVE RequestsTyped'
  BY <1>7 DEF ExpireIndex
<1>8. ASSUME NEW s \in Sids, ExpireSession(s) PROVE RequestsTyped'
  BY <1>8 DEF ExpireSession
<1>9. CASE UNCHANGED vars
  BY <1>9 DEF vars
<1> QED BY <1>1, <1>2, <1>3, <1>4, <1>5, <1>6, <1>7, <1>8, <1>9 DEF Next, Begin

\* Every step writes well-formed hashes, indexes and tokens.
LEMMA StoreStep == TypeOK /\ [Next]_vars => StoreTyped'
<1> SUFFICES ASSUME TypeOK, [Next]_vars PROVE StoreTyped'
  OBVIOUS
<1> USE DEF TypeOK, StoreTyped, Local, OnSession, Hash, NoHash, Token
<1>1. ASSUME NEW p \in Requests, NEW u \in Users, LoginRead(p, u) PROVE StoreTyped'
  BY <1>1 DEF LoginRead, Start
<1>2. ASSUME NEW p \in Requests, NEW u \in Users, DeleteUser(p, u) PROVE StoreTyped'
  BY <1>2 DEF DeleteUser, Start
<1>3. ASSUME NEW p \in Requests, NEW t \in issued,
             RefreshValidate(p, t) \/ Logout(p, t) \/ LogoutAll(p, t) \/ LogoutOthers(p, t)
      PROVE StoreTyped'
  <2>1. CASE RefreshValidate(p, t)
    BY <2>1 DEF RefreshValidate, Start
  <2>2. CASE Logout(p, t)
    BY <2>2 DEF Logout, Start
  <2>3. CASE LogoutAll(p, t)
    BY <2>3 DEF LogoutAll, Start
  <2>4. CASE LogoutOthers(p, t)
    BY <2>4 DEF LogoutOthers, Start
  <2> QED BY <1>3, <2>1, <2>2, <2>3, <2>4
<1>4. ASSUME NEW p \in Requests, Continue(p) PROVE StoreTyped'
  <2>1. CASE LoginCreate(p)
    BY <2>1 DEF LoginCreate, Create
  <2>2. CASE LoginRespond(p)
    BY <2>2 DEF LoginRespond, Issue, Done
  <2>3. CASE RotateRead(p)
    BY <2>3 DEF RotateRead, Goto, Done
  <2>4. CASE RotateWrite(p)
    BY <2>4 DEF RotateWrite
  <2>5. CASE LoadUser(p)
    BY <2>5 DEF LoadUser, Issue, Goto, Done
  <2>6. CASE RevokeRead(p)
    BY <2>6 DEF RevokeRead, Done
  <2>7. CASE RevokeWrite(p)
    BY <2>7 DEF RevokeWrite, Done
  <2>8. CASE AllRead(p)
    BY <2>8 DEF AllRead, Done
  <2>9. CASE AllWrite(p)
    BY <2>9 DEF AllWrite, Done, Without
  <2>10. CASE OthersRead(p)
    BY <2>10 DEF OthersRead, Done
  <2>11. CASE OthersWrite(p)
    BY <2>11 DEF OthersWrite, Done, Without
  <2> QED
    BY <1>4, <2>1, <2>2, <2>3, <2>4, <2>5, <2>6, <2>7, <2>8, <2>9, <2>10, <2>11 DEF Continue
<1>5. ASSUME NEW p \in Requests, Abort(p) PROVE StoreTyped'
  BY <1>5 DEF Abort, Goto
<1>6. ASSUME NEW u \in Users, SetActive(u) PROVE StoreTyped'
  BY <1>6 DEF SetActive
<1>7. ASSUME NEW u \in Users, ExpireIndex(u) PROVE StoreTyped'
  BY <1>7 DEF ExpireIndex
<1>8. ASSUME NEW s \in Sids, ExpireSession(s) PROVE StoreTyped'
  BY <1>8 DEF ExpireSession
<1>9. CASE UNCHANGED vars
  BY <1>9 DEF vars
<1> QED BY <1>1, <1>2, <1>3, <1>4, <1>5, <1>6, <1>7, <1>8, <1>9 DEF Next, Begin

\* Both halves together.
LEMMA TypeStep == TypeOK /\ [Next]_vars => TypeOK'
<1> SUFFICES ASSUME TypeOK, [Next]_vars PROVE StoreTyped' /\ RequestsTyped'
  BY DEF TypeOK, StoreTyped, RequestsTyped
<1> QED BY RequestsStep, StoreStep

\* The initial state is typed.
LEMMA InitTyped == Init => TypeOK
BY DEF Init, TypeOK, Hash, NoHash, Token, Local, Pcs, Idle, OnSession

\* Type correctness of the session store and of every suspended request.
THEOREM TypeCorrect == Spec => []TypeOK
BY InitTyped, TypeStep, PTL DEF Spec

---------------------------------------------------------------------------
\* Agreement of the records.

\* No step writes a hash, an index entry or a token of another user's session.
LEMMA RecordsStep == IInv /\ [Next]_vars => RecordsAgree'
<1> SUFFICES ASSUME IInv, [Next]_vars PROVE RecordsAgree'
  OBVIOUS
<1> USE DEF IInv, TypeOK, RecordsAgree, LocalsAgree, Local, Idle, OnSession, Token, Hash, NoHash
<1>1. ASSUME NEW p \in Requests, NEW u \in Users, LoginRead(p, u) PROVE RecordsAgree'
  BY <1>1 DEF LoginRead, Start
<1>2. ASSUME NEW p \in Requests, NEW u \in Users, DeleteUser(p, u) PROVE RecordsAgree'
  BY <1>2 DEF DeleteUser, Start
<1>3. ASSUME NEW p \in Requests, NEW t \in issued,
             RefreshValidate(p, t) \/ Logout(p, t) \/ LogoutAll(p, t) \/ LogoutOthers(p, t)
      PROVE RecordsAgree'
  <2>1. CASE RefreshValidate(p, t)
    BY <2>1 DEF RefreshValidate, Start
  <2>2. CASE Logout(p, t)
    BY <2>2 DEF Logout, Start
  <2>3. CASE LogoutAll(p, t)
    BY <2>3 DEF LogoutAll, Start
  <2>4. CASE LogoutOthers(p, t)
    BY <2>4 DEF LogoutOthers, Start
  <2> QED BY <1>3, <2>1, <2>2, <2>3, <2>4
<1>4. ASSUME NEW p \in Requests, Continue(p) PROVE RecordsAgree'
  <2>1. CASE LoginCreate(p)
    BY <2>1 DEF LoginCreate, Create
  <2>2. CASE LoginRespond(p)
    BY <2>2 DEF LoginRespond, Issue, Done
  <2>3. CASE RotateRead(p)
    BY <2>3 DEF RotateRead, Goto, Done
  <2>4. CASE RotateWrite(p)
    BY <2>4 DEF RotateWrite
  <2>5. CASE LoadUser(p)
    BY <2>5 DEF LoadUser, Issue, Goto, Done
  <2>6. CASE RevokeRead(p)
    BY <2>6 DEF RevokeRead, Done
  <2>7. CASE RevokeWrite(p)
    BY <2>7 DEF RevokeWrite, Done
  <2>8. CASE AllRead(p)
    BY <2>8 DEF AllRead, Done
  <2>9. CASE AllWrite(p)
    BY <2>9 DEF AllWrite, Done, Without
  <2>10. CASE OthersRead(p)
    BY <2>10 DEF OthersRead, Done
  <2>11. CASE OthersWrite(p)
    BY <2>11 DEF OthersWrite, Done, Without
  <2> QED
    BY <1>4, <2>1, <2>2, <2>3, <2>4, <2>5, <2>6, <2>7, <2>8, <2>9, <2>10, <2>11 DEF Continue
<1>5. ASSUME NEW p \in Requests, Abort(p) PROVE RecordsAgree'
  BY <1>5 DEF Abort, Goto
<1>6. ASSUME NEW u \in Users, SetActive(u) PROVE RecordsAgree'
  BY <1>6 DEF SetActive
<1>7. ASSUME NEW u \in Users, ExpireIndex(u) PROVE RecordsAgree'
  BY <1>7 DEF ExpireIndex
<1>8. ASSUME NEW s \in Sids, ExpireSession(s) PROVE RecordsAgree'
  BY <1>8 DEF ExpireSession
<1>9. CASE UNCHANGED vars
  BY <1>9 DEF vars
<1> QED BY <1>1, <1>2, <1>3, <1>4, <1>5, <1>6, <1>7, <1>8, <1>9 DEF Next, Begin

\* No step makes the locals of another request, suspended at an await, untrue.
LEMMA LocalsStep == IInv /\ [Next]_vars => LocalsAgree'
<1> SUFFICES ASSUME IInv, [Next]_vars PROVE LocalsAgree'
  OBVIOUS
<1> USE DEF IInv, TypeOK, RecordsAgree, LocalsAgree, Local, Idle, OnSession, Token, Hash
<1>1. ASSUME NEW p \in Requests, NEW u \in Users, LoginRead(p, u) PROVE LocalsAgree'
  BY <1>1 DEF LoginRead, Start
<1>2. ASSUME NEW p \in Requests, NEW u \in Users, DeleteUser(p, u) PROVE LocalsAgree'
  BY <1>2 DEF DeleteUser, Start
<1>3. ASSUME NEW p \in Requests, NEW t \in issued,
             RefreshValidate(p, t) \/ Logout(p, t) \/ LogoutAll(p, t) \/ LogoutOthers(p, t)
      PROVE LocalsAgree'
  <2>1. CASE RefreshValidate(p, t)
    BY <2>1 DEF RefreshValidate, Start
  <2>2. CASE Logout(p, t)
    BY <2>2 DEF Logout, Start
  <2>3. CASE LogoutAll(p, t)
    BY <2>3 DEF LogoutAll, Start
  <2>4. CASE LogoutOthers(p, t)
    BY <2>4 DEF LogoutOthers, Start
  <2> QED BY <1>3, <2>1, <2>2, <2>3, <2>4
<1>4. ASSUME NEW p \in Requests, Continue(p) PROVE LocalsAgree'
  <2>1. CASE LoginCreate(p)
    BY <2>1 DEF LoginCreate, Create
  <2>2. CASE LoginRespond(p)
    BY <2>2 DEF LoginRespond, Issue, Done
  <2>3. CASE RotateRead(p)
    <3>1. CASE Goto(p, "rotate_write")
      BY <2>3, <3>1 DEF RotateRead, Goto
    <3>2. CASE Done(p)
      BY <2>3, <3>2 DEF RotateRead, Done
    <3> QED BY <2>3, <3>1, <3>2 DEF RotateRead
  <2>4. CASE RotateWrite(p)
    BY <2>4 DEF RotateWrite
  <2>5. CASE LoadUser(p)
    BY <2>5 DEF LoadUser, Issue, Goto, Done
  <2>6. CASE RevokeRead(p)
    BY <2>6 DEF RevokeRead, Done
  <2>7. CASE RevokeWrite(p)
    BY <2>7 DEF RevokeWrite, Done
  <2>8. CASE AllRead(p)
    BY <2>8 DEF AllRead, Done
  <2>9. CASE AllWrite(p)
    BY <2>9 DEF AllWrite, Done, Without
  <2>10. CASE OthersRead(p)
    BY <2>10 DEF OthersRead, Done
  <2>11. CASE OthersWrite(p)
    BY <2>11 DEF OthersWrite, Done, Without
  <2> QED
    BY <1>4, <2>1, <2>2, <2>3, <2>4, <2>5, <2>6, <2>7, <2>8, <2>9, <2>10, <2>11 DEF Continue
<1>5. ASSUME NEW p \in Requests, Abort(p) PROVE LocalsAgree'
  BY <1>5 DEF Abort, Goto
<1>6. ASSUME NEW u \in Users, SetActive(u) PROVE LocalsAgree'
  BY <1>6 DEF SetActive
<1>7. ASSUME NEW u \in Users, ExpireIndex(u) PROVE LocalsAgree'
  BY <1>7 DEF ExpireIndex
<1>8. ASSUME NEW s \in Sids, ExpireSession(s) PROVE LocalsAgree'
  BY <1>8 DEF ExpireSession
<1>9. CASE UNCHANGED vars
  BY <1>9 DEF vars
<1> QED BY <1>1, <1>2, <1>3, <1>4, <1>5, <1>6, <1>7, <1>8, <1>9 DEF Next, Begin

\* The strengthened invariant is inductive.
LEMMA Inductive == IInv /\ [Next]_vars => IInv'
<1> SUFFICES ASSUME IInv, [Next]_vars PROVE TypeOK' /\ RecordsAgree' /\ LocalsAgree'
  BY DEF IInv
<1> QED BY TypeStep, RecordsStep, LocalsStep DEF IInv

\* The strengthened invariant holds initially.
LEMMA InitInv == Init => IInv
<1> SUFFICES ASSUME Init PROVE TypeOK /\ RecordsAgree /\ LocalsAgree
  BY DEF IInv
<1>1. TypeOK
  BY InitTyped
<1> QED BY <1>1 DEF Init, RecordsAgree, LocalsAgree, Idle, NoHash, OnSession

\* The strengthened invariant.
THEOREM Invariance == Spec => []IInv
BY InitInv, Inductive, PTL DEF Spec

\* Hash, index, tokens and requests in flight agree on whose session it is.
THEOREM RecordsCorrect == Spec => []RecordsAgree
<1>1. IInv => RecordsAgree
  BY DEF IInv
<1> QED BY <1>1, Invariance, PTL

---------------------------------------------------------------------------
\* Refinement: what a step does to phase, holder and gen.

\* A step that changes no hash and no owner is a stuttering step.
LEMMA Stutters == UNCHANGED <<sess, owner>> => UNCHANGED Lifecycle!vars
BY DEF Lifecycle!vars, Phase, Live

\* Deleting the hashes of a set of sessions closes those of them that are live.
LEMMA DeletingCloses ==
    ASSUME IInv, NEW S \in SUBSET Sids, sess' = Without(S), UNCHANGED owner
    PROVE  Lifecycle!Next
<1>0. PICK C \in SUBSET Sids : C = {s \in S : Live(s)}
  OBVIOUS
<1>1. \A s \in C : owner[s] # NoUser
  BY <1>0 DEF IInv, TypeOK, RecordsAgree, Live
<1>2. \A s \in Sids : Live(s)' <=> Live(s) /\ s \notin S
  BY DEF Live, Without, NoHash
<1>3. \A s \in Sids : Phase(s)' = IF s \in C THEN "dead" ELSE Phase(s)
  BY <1>0, <1>1, <1>2 DEF Phase
<1>4. \A s \in Sids : s \notin S => sess'[s] = sess[s]
  BY DEF Without
<1>5. Lifecycle!Close(C)
  <2>1. \A s \in C : Phase(s) = "live"
    BY <1>0, <1>1 DEF Phase
  <2>2. [s \in Sids |-> Phase(s)]' = [s \in Sids |-> IF s \in C THEN "dead" ELSE Phase(s)]
    BY <1>3
  <2>3. [s \in Sids |-> IF Live(s) THEN sess[s].jti ELSE 0]'
            = [s \in Sids |-> IF s \in C THEN 0 ELSE IF Live(s) THEN sess[s].jti ELSE 0]
    BY <1>0, <1>2, <1>4
  <2> QED BY <2>1, <2>2, <2>3 DEF Lifecycle!Close
<1> QED BY <1>5 DEF Lifecycle!Next

\* The same for one hash.
LEMMA DeletingOneCloses ==
    ASSUME IInv, NEW s \in Sids, sess' = [sess EXCEPT ![s] = NoHash], UNCHANGED owner
    PROVE  Lifecycle!Next
<1>1. sess' = Without({s})
  BY DEF Without, IInv, TypeOK
<1> QED BY <1>1, DeletingCloses

\* create: the session had no owner, so its id is new to everybody.
LEMMA CreatingOpens ==
    ASSUME IInv, NEW p \in Requests, LoginCreate(p)
    PROVE  Lifecycle!Next
<1>1. PICK s \in Sids : owner[s] = NoUser /\ Create(p, s)
  BY DEF LoginCreate
<1>2. PICK u \in Users : u = req[p].user
  BY DEF IInv, TypeOK, LoginCreate
<1>3. owner' = [owner EXCEPT ![s] = u] /\ sess' = [sess EXCEPT ![s] = [uid |-> u, jti |-> 1]]
  BY <1>1, <1>2 DEF Create
<1>4. /\ owner'[s] = u /\ sess'[s] = [uid |-> u, jti |-> 1]
      /\ \A r \in Sids \ {s} : owner'[r] = owner[r] /\ sess'[r] = sess[r]
  BY <1>3 DEF IInv, TypeOK
<1>5. Phase(s) = "unborn"
  BY <1>1 DEF Phase
<1>A. Live(s)' /\ Phase(s)' = "live" /\ sess'[s].jti = 1
  BY <1>2, <1>4 DEF Phase, Live
<1>B. \A r \in Sids \ {s} : Live(r)' = Live(r) /\ Phase(r)' = Phase(r)
  BY <1>4 DEF Phase, Live
<1>6. [r \in Sids |-> Phase(r)]' = [[r \in Sids |-> Phase(r)] EXCEPT ![s] = "live"]
  BY <1>A, <1>B
<1>7. [r \in Sids |-> IF Live(r) THEN sess[r].jti ELSE 0]'
        = [[r \in Sids |-> IF Live(r) THEN sess[r].jti ELSE 0] EXCEPT ![s] = 1]
  BY <1>A, <1>B, <1>4
<1>8. Lifecycle!Open(s, u)
  BY <1>3, <1>5, <1>6, <1>7 DEF Lifecycle!Open
<1>9. Lifecycle!Next
  BY <1>2, <1>8 DEF Lifecycle!Next
<1> QED BY <1>9

\* rotate: a live session moves forward; a hash that is gone, or has lost its
\* uid, gets a jti and stays dead.
LEMMA RotatingRenews ==
    ASSUME IInv, NEW p \in Requests, RotateWrite(p)
    PROVE  Lifecycle!Next \/ UNCHANGED Lifecycle!vars
<1>1. PICK s \in Sids : s = req[p].sid
  BY DEF RotateWrite, IInv, TypeOK, OnSession
<1> DEFINE j == minted[s] + 1
           Gen == [r \in Sids |-> IF Live(r) THEN sess[r].jti ELSE 0]
<1>2. sess[s].jti \in Nat /\ minted[s] \in Nat /\ sess[s].jti <= minted[s]
  BY <1>1 DEF IInv, TypeOK, RecordsAgree, Hash
<1>3. sess' = [sess EXCEPT ![s].jti = j] /\ UNCHANGED owner
  BY <1>1 DEF RotateWrite
<1>4. /\ sess'[s].uid = sess[s].uid /\ sess'[s].jti = j
      /\ \A r \in Sids \ {s} : sess'[r] = sess[r]
  BY <1>1, <1>3 DEF IInv, TypeOK, Hash
<1>5. \A r \in Sids : Live(r)' = Live(r) /\ Phase(r)' = Phase(r)
  BY <1>3, <1>4 DEF Live, Phase
<1>6. [r \in Sids |-> Phase(r)]' = [r \in Sids |-> Phase(r)]
  BY <1>5
<1>7. CASE Live(s)
  <2>1. Gen' = [Gen EXCEPT ![s] = j]
    BY <1>1, <1>4, <1>5, <1>7
  <2>2. Gen'[s] = j /\ j \in Nat /\ j > Gen[s]
    BY <1>1, <1>2, <1>4, <1>5, <1>7
  <2>3. owner[s] # NoUser
    BY <1>1, <1>7 DEF IInv, RecordsAgree, Live
  <2>4. Phase(s) = "live"
    BY <1>7, <2>3 DEF Phase
  <2>5. Lifecycle!Renew(s)
    BY <1>1, <1>3, <1>6, <2>1, <2>2, <2>4 DEF Lifecycle!Renew
  <2> QED BY <1>1, <2>5 DEF Lifecycle!Next
<1>8. CASE ~Live(s)
  <2>1. Gen' = Gen
    BY <1>1, <1>4, <1>5, <1>8
  <2> QED BY <1>3, <1>6, <2>1 DEF Lifecycle!vars
<1> QED BY <1>7, <1>8

\* Every step of the session store is a step of the lifecycle, or none.
LEMMA StepSimulation == IInv /\ [Next]_vars => [Lifecycle!Next]_(Lifecycle!vars)
<1> SUFFICES ASSUME IInv, [Next]_vars
             PROVE  Lifecycle!Next \/ UNCHANGED Lifecycle!vars
  OBVIOUS
<1>1. CASE UNCHANGED <<sess, owner>>
  BY <1>1, Stutters
<1>2. ASSUME NEW p \in Requests, LoginCreate(p)
      PROVE  Lifecycle!Next
  BY <1>2, CreatingOpens
<1>3. ASSUME NEW p \in Requests, RotateWrite(p)
      PROVE  Lifecycle!Next \/ UNCHANGED Lifecycle!vars
  BY <1>3, RotatingRenews
<1>4. ASSUME NEW p \in Requests, RevokeWrite(p) PROVE Lifecycle!Next
  <2>1. req[p].sid \in Sids
    BY <1>4 DEF RevokeWrite, IInv, TypeOK, OnSession
  <2> QED BY <1>4, <2>1, DeletingOneCloses DEF RevokeWrite
<1>5. ASSUME NEW p \in Requests, AllWrite(p) \/ OthersWrite(p) PROVE Lifecycle!Next
  <2>1. req[p].sids \in SUBSET Sids
    BY DEF IInv, TypeOK, Local
  <2> QED BY <1>5, <2>1, DeletingCloses DEF AllWrite, OthersWrite
<1>6. ASSUME NEW s \in Sids, ExpireSession(s) PROVE Lifecycle!Next
  BY <1>6, DeletingOneCloses DEF ExpireSession
<1>7. ASSUME NEW p \in Requests, Begin(p) \/ Abort(p) PROVE UNCHANGED <<sess, owner>>
  BY <1>7 DEF Begin, Abort, LoginRead, DeleteUser, RefreshValidate, Logout, LogoutAll, LogoutOthers
<1>8. ASSUME NEW p \in Requests,
             \/ LoginRespond(p) \/ RotateRead(p) \/ LoadUser(p)
             \/ RevokeRead(p) \/ AllRead(p) \/ OthersRead(p)
      PROVE  UNCHANGED <<sess, owner>>
  BY <1>8 DEF LoginRespond, RotateRead, LoadUser, RevokeRead, AllRead, OthersRead
<1>9. ASSUME NEW u \in Users, SetActive(u) \/ ExpireIndex(u) PROVE UNCHANGED <<sess, owner>>
  BY <1>9 DEF SetActive, ExpireIndex
<1> QED BY <1>1, <1>2, <1>3, <1>4, <1>5, <1>6, <1>7, <1>8, <1>9 DEF Next, Continue, vars

\* Whatever interleaves, a closed session stays closed and the valid token of
\* a live one only moves forward: Sessions implements SessionLifecycle.
THEOREM Refinement == Spec => ImplementsLifecycle
<1>1. Init => Lifecycle!Init
  <2> SUFFICES ASSUME Init PROVE Lifecycle!Init
    OBVIOUS
  <2>1. \A s \in Sids : Phase(s) = "unborn" /\ ~Live(s)
    BY DEF Init, Phase, Live, NoHash
  <2> QED BY <2>1 DEF Init, Lifecycle!Init
<1> QED BY <1>1, StepSimulation, Invariance, PTL DEF Spec, ImplementsLifecycle, Lifecycle!Spec

---------------------------------------------------------------------------
\* Who closes a session.

\* The step that closes a session is its expiry or a step of a request of its user.
LEMMA CloserStep ==
    ASSUME IInv, [Next]_vars, NEW s \in Sids, Live(s), ~Live(s)'
    PROVE  \/ UNCHANGED req
           \/ \E p \in Requests :
                /\ req'[p] # req[p]
                /\ req[p].user = owner[s]
                /\ req[p].pc = "others_write" => req[p].sid # s
<1>1. sess'[s] # sess[s] /\ owner[s] # NoUser
  BY DEF Live, IInv, RecordsAgree
<1>2. ASSUME NEW p \in Requests, LoginCreate(p) PROVE FALSE
  BY <1>1, <1>2 DEF LoginCreate, Create, IInv, TypeOK
<1>3. ASSUME NEW p \in Requests, RotateWrite(p) PROVE FALSE
  <2>1. sess'[s].uid = sess[s].uid
    BY <1>3 DEF RotateWrite, IInv, TypeOK, Hash
  <2> QED BY <2>1 DEF Live
<1>4. ASSUME NEW p \in Requests, RevokeWrite(p) \/ AllWrite(p) \/ OthersWrite(p)
      PROVE  /\ req'[p] # req[p]
             /\ req[p].user = owner[s]
             /\ req[p].pc = "others_write" => req[p].sid # s
  <2>1. req'[p].pc = "idle" /\ req[p].pc \in {"revoke_write", "all_write", "others_write"}
    BY <1>4 DEF RevokeWrite, AllWrite, OthersWrite, Done, Idle, IInv, TypeOK
  <2>2. CASE RevokeWrite(p)
    <3>1. s = req[p].sid /\ req[p].pc = "revoke_write"
      BY <1>1, <2>2 DEF RevokeWrite, IInv, TypeOK
    <3> QED BY <2>1, <3>1 DEF IInv, LocalsAgree, OnSession
  <2>3. CASE AllWrite(p)
    <3>1. s \in req[p].sids /\ req[p].pc = "all_write"
      BY <1>1, <2>3 DEF AllWrite, Without
    <3> QED BY <2>1, <3>1 DEF IInv, LocalsAgree
  <2>4. CASE OthersWrite(p)
    <3>1. s \in req[p].sids /\ req[p].pc = "others_write"
      BY <1>1, <2>4 DEF OthersWrite, Without
    <3> QED BY <2>1, <3>1 DEF IInv, LocalsAgree
  <2> QED BY <1>4, <2>2, <2>3, <2>4
<1>5. ASSUME NEW r \in Sids, ExpireSession(r) PROVE UNCHANGED req
  BY <1>5 DEF ExpireSession
<1>6. ASSUME NEW p \in Requests, Begin(p) \/ Abort(p) PROVE FALSE
  BY <1>1, <1>6
     DEF Begin, Abort, LoginRead, DeleteUser, RefreshValidate, Logout, LogoutAll, LogoutOthers
<1>7. ASSUME NEW p \in Requests,
             \/ LoginRespond(p) \/ RotateRead(p) \/ LoadUser(p)
             \/ RevokeRead(p) \/ AllRead(p) \/ OthersRead(p)
      PROVE  FALSE
  BY <1>1, <1>7 DEF LoginRespond, RotateRead, LoadUser, RevokeRead, AllRead, OthersRead
<1>8. ASSUME NEW u \in Users, SetActive(u) \/ ExpireIndex(u) PROVE FALSE
  BY <1>1, <1>8 DEF SetActive, ExpireIndex
<1> QED BY <1>1, <1>2, <1>3, <1>4, <1>5, <1>6, <1>7, <1>8 DEF Next, Continue, vars

\* No request closes a session of another user, and none its own by closing
\* the others: sessions are closed by their user's requests or by expiry.
THEOREM OwnerCloses == Spec => OnlyOwnerCloses
<1>1. IInv /\ [Next]_vars =>
        [\A s \in Sids :
            Live(s) /\ ~Live(s)' =>
                \/ UNCHANGED req
                \/ \E p \in Requests :
                    /\ req'[p] # req[p]
                    /\ req[p].user = owner[s]
                    /\ req[p].pc = "others_write" => req[p].sid # s]_vars
  BY CloserStep
<1> QED BY <1>1, Invariance, PTL DEF Spec, OnlyOwnerCloses

---------------------------------------------------------------------------
\* Rotation does not lock the client out.

\* A request that remembers a jti is delivering it, or closing its session.
TokensHeld ==
    /\ \A s \in Sids : Live(s) => sess[s].jti # 0
    /\ \A p \in Requests :
        req[p].jti # 0 =>
            req[p].pc \in {"respond", "load_user", "revoke_read", "revoke_write", "aborted"}

DInv == IInv /\ TokensHeld /\ ValidTokenDelivered

\* A jti is remembered until it is delivered or its session is revoked.
LEMMA HeldStep == DInv /\ [Next]_vars => TokensHeld'
<1> SUFFICES ASSUME DInv, [Next]_vars PROVE TokensHeld'
  OBVIOUS
<1> USE DEF DInv, IInv, TypeOK, TokensHeld, Local, Idle, OnSession, Token, Hash, NoHash, Live
<1>1. ASSUME NEW p \in Requests, NEW u \in Users, LoginRead(p, u) PROVE TokensHeld'
  BY <1>1 DEF LoginRead, Start
<1>2. ASSUME NEW p \in Requests, NEW u \in Users, DeleteUser(p, u) PROVE TokensHeld'
  BY <1>2 DEF DeleteUser, Start
<1>3. ASSUME NEW p \in Requests, NEW t \in issued,
             RefreshValidate(p, t) \/ Logout(p, t) \/ LogoutAll(p, t) \/ LogoutOthers(p, t)
      PROVE TokensHeld'
  <2>1. CASE RefreshValidate(p, t)
    BY <2>1 DEF RefreshValidate, Start
  <2>2. CASE Logout(p, t)
    BY <2>2 DEF Logout, Start
  <2>3. CASE LogoutAll(p, t)
    BY <2>3 DEF LogoutAll, Start
  <2>4. CASE LogoutOthers(p, t)
    BY <2>4 DEF LogoutOthers, Start
  <2> QED BY <1>3, <2>1, <2>2, <2>3, <2>4
<1>4. ASSUME NEW p \in Requests, Continue(p) PROVE TokensHeld'
  <2>1. CASE LoginCreate(p)
    BY <2>1 DEF LoginCreate, Create
  <2>2. CASE LoginRespond(p)
    BY <2>2 DEF LoginRespond, Issue, Done
  <2>3. CASE RotateRead(p)
    BY <2>3 DEF RotateRead, Goto, Done
  <2>4. CASE RotateWrite(p)
    BY <2>4 DEF RotateWrite
  <2>5. CASE LoadUser(p)
    BY <2>5 DEF LoadUser, Issue, Goto, Done
  <2>6. CASE RevokeRead(p)
    <3>1. CASE Done(p)
      BY <2>6, <3>1 DEF RevokeRead, Done
    <3>2. CASE ~Done(p)
      BY <2>6, <3>2 DEF RevokeRead
    <3> QED BY <3>1, <3>2
  <2>7. CASE RevokeWrite(p)
    BY <2>7 DEF RevokeWrite, Done
  <2>8. CASE AllRead(p)
    BY <2>8 DEF AllRead, Done
  <2>9. CASE AllWrite(p)
    BY <2>9 DEF AllWrite, Done, Without
  <2>10. CASE OthersRead(p)
    <3>1. CASE Done(p)
      BY <2>10, <3>1 DEF OthersRead, Done
    <3>2. CASE ~Done(p)
      BY <2>10, <3>2 DEF OthersRead
    <3> QED BY <3>1, <3>2
  <2>11. CASE OthersWrite(p)
    BY <2>11 DEF OthersWrite, Done, Without
  <2> QED
    BY <1>4, <2>1, <2>2, <2>3, <2>4, <2>5, <2>6, <2>7, <2>8, <2>9, <2>10, <2>11 DEF Continue
<1>5. ASSUME NEW p \in Requests, Abort(p) PROVE TokensHeld'
  BY <1>5 DEF Abort, Goto
<1>6. ASSUME NEW u \in Users, SetActive(u) PROVE TokensHeld'
  BY <1>6 DEF SetActive
<1>7. ASSUME NEW u \in Users, ExpireIndex(u) PROVE TokensHeld'
  BY <1>7 DEF ExpireIndex
<1>8. ASSUME NEW s \in Sids, ExpireSession(s) PROVE TokensHeld'
  BY <1>8 DEF ExpireSession
<1>9. CASE UNCHANGED vars
  BY <1>9 DEF vars
<1> QED BY <1>1, <1>2, <1>3, <1>4, <1>5, <1>6, <1>7, <1>8, <1>9 DEF Next, Begin

\* A step that replaces or drops the token of a live session hands out its successor.
LEMMA DeliveredStep == DInv /\ [Next]_vars => ValidTokenDelivered'
<1> SUFFICES ASSUME DInv, [Next]_vars PROVE ValidTokenDelivered'
  OBVIOUS
<1> USE DEF DInv, IInv, TypeOK, LocalsAgree, RecordsAgree, TokensHeld, ValidTokenDelivered,
        Local, Idle, OnSession, Token, Hash, NoHash, Live
<1>1. ASSUME NEW p \in Requests, NEW u \in Users, LoginRead(p, u) PROVE ValidTokenDelivered'
  BY <1>1 DEF LoginRead, Start
<1>2. ASSUME NEW p \in Requests, NEW u \in Users, DeleteUser(p, u) PROVE ValidTokenDelivered'
  BY <1>2 DEF DeleteUser, Start
<1>3. ASSUME NEW p \in Requests, NEW t \in issued,
             RefreshValidate(p, t) \/ Logout(p, t) \/ LogoutAll(p, t) \/ LogoutOthers(p, t)
      PROVE ValidTokenDelivered'
  <2>1. CASE RefreshValidate(p, t)
    BY <2>1 DEF RefreshValidate, Start
  <2>2. CASE Logout(p, t)
    BY <2>2 DEF Logout, Start
  <2>3. CASE LogoutAll(p, t)
    BY <2>3 DEF LogoutAll, Start
  <2>4. CASE LogoutOthers(p, t)
    BY <2>4 DEF LogoutOthers, Start
  <2> QED BY <1>3, <2>1, <2>2, <2>3, <2>4
<1>4. ASSUME NEW p \in Requests, Continue(p) PROVE ValidTokenDelivered'
  <2>1. CASE LoginCreate(p)
    BY <2>1 DEF LoginCreate, Create
  <2>2. CASE LoginRespond(p)
    BY <2>2 DEF LoginRespond, Issue, Done
  <2>3. CASE RotateRead(p)
    <3>1. req[p].jti = 0
      BY <2>3 DEF RotateRead
    <3>2. \A q \in Requests \ {p} : req'[q] = req[q]
      BY <2>3 DEF RotateRead, Goto, Done
    <3>3. UNCHANGED <<sess, owner, issued>>
      BY <2>3 DEF RotateRead
    <3> QED BY <3>1, <3>2, <3>3
  <2>4. CASE RotateWrite(p)
    BY <2>4 DEF RotateWrite
  <2>5. CASE LoadUser(p)
    <3>1. UNCHANGED <<sess, owner>> /\ issued \subseteq issued'
      BY <2>5 DEF LoadUser, Issue
    <3>2. \A q \in Requests \ {p} : req'[q] = req[q]
      BY <2>5 DEF LoadUser, Goto, Done
    <3>3. CASE Issue(p)
      <4>1. req[p].user = owner[req[p].sid]
        BY <2>5 DEF LoadUser
      <4>2. [sub |-> owner[req[p].sid], sid |-> req[p].sid, jti |-> req[p].jti] \in issued'
        BY <3>3, <4>1 DEF Issue
      <4> QED BY <3>1, <3>2, <4>2
    <3>4. CASE Goto(p, "revoke_read")
      <4>1. req'[p].pc # "idle" /\ req'[p].sid = req[p].sid /\ req'[p].jti = req[p].jti
        BY <3>4 DEF Goto
      <4> QED BY <3>1, <3>2, <4>1
    <3> QED BY <2>5, <3>3, <3>4 DEF LoadUser
  <2>6. CASE RevokeRead(p)
    <3>1. CASE Done(p)
      BY <2>6, <3>1 DEF RevokeRead, Done
    <3>2. CASE ~Done(p)
      BY <2>6, <3>2 DEF RevokeRead
    <3> QED BY <3>1, <3>2
  <2>7. CASE RevokeWrite(p)
    BY <2>7 DEF RevokeWrite, Done
  <2>8. CASE AllRead(p)
    <3>1. req[p].jti = 0
      BY <2>8 DEF AllRead
    <3>2. \A q \in Requests \ {p} : req'[q] = req[q]
      BY <2>8 DEF AllRead, Done
    <3>3. UNCHANGED <<sess, owner, issued>>
      BY <2>8 DEF AllRead
    <3> QED BY <3>1, <3>2, <3>3
  <2>9. CASE AllWrite(p)
    BY <2>9 DEF AllWrite, Done, Without
  <2>10. CASE OthersRead(p)
    <3>1. req[p].jti = 0
      BY <2>10 DEF OthersRead
    <3>2. \A q \in Requests \ {p} : req'[q] = req[q]
      BY <2>10 DEF OthersRead, Done
    <3>3. UNCHANGED <<sess, owner, issued>>
      BY <2>10 DEF OthersRead
    <3> QED BY <3>1, <3>2, <3>3
  <2>11. CASE OthersWrite(p)
    <3>1. req[p].jti = 0
      BY <2>11 DEF OthersWrite
    <3>2. \A q \in Requests \ {p} : req'[q] = req[q]
      BY <2>11 DEF OthersWrite, Done
    <3>3. \A s \in Sids : Live(s)' => sess'[s] = sess[s] /\ Live(s)
      BY <2>11 DEF OthersWrite, Without
    <3>4. UNCHANGED <<owner, issued>>
      BY <2>11 DEF OthersWrite
    <3> QED BY <3>1, <3>2, <3>3, <3>4
  <2> QED
    BY <1>4, <2>1, <2>2, <2>3, <2>4, <2>5, <2>6, <2>7, <2>8, <2>9, <2>10, <2>11 DEF Continue
<1>5. ASSUME NEW p \in Requests, Abort(p) PROVE ValidTokenDelivered'
  BY <1>5 DEF Abort, Goto
<1>6. ASSUME NEW u \in Users, SetActive(u) PROVE ValidTokenDelivered'
  BY <1>6 DEF SetActive
<1>7. ASSUME NEW u \in Users, ExpireIndex(u) PROVE ValidTokenDelivered'
  BY <1>7 DEF ExpireIndex
<1>8. ASSUME NEW s \in Sids, ExpireSession(s) PROVE ValidTokenDelivered'
  BY <1>8 DEF ExpireSession
<1>9. CASE UNCHANGED vars
  BY <1>9 DEF vars
<1> QED BY <1>1, <1>2, <1>3, <1>4, <1>5, <1>6, <1>7, <1>8, <1>9 DEF Next, Begin

\* The valid token of a live session is known to the client, or on its way,
\* or was lost with the request that died delivering it.
THEOREM TokenDelivered == Spec => []ValidTokenDelivered
<1>1. Init => DInv
  <2> SUFFICES ASSUME Init PROVE IInv /\ TokensHeld /\ ValidTokenDelivered
    BY DEF DInv
  <2>1. IInv
    BY InitInv
  <2> QED BY <2>1 DEF Init, TokensHeld, ValidTokenDelivered, Live, NoHash, Idle
<1>2. DInv /\ [Next]_vars => DInv'
  BY Inductive, HeldStep, DeliveredStep DEF DInv
<1>3. DInv => ValidTokenDelivered
  BY DEF DInv
<1> QED BY <1>1, <1>2, <1>3, PTL DEF Spec
===========================================================================
