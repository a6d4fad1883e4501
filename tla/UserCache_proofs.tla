-------------------------- MODULE UserCache_proofs -------------------------
(***************************************************************************)
(* Theorems about UserCache for any number of requests.                    *)
(***************************************************************************)
EXTENDS UserCache, TLAPS

\* Only a request that has changed the database and not deleted the key owes.
Owing == \A p \in Requests : req[p].owes => req[p].pc \in {"refresh", "invalidate", "aborted"}

\* Nothing is cached, and nothing about to be, for a user that does not exist.
NothingBeforeCreation ==
    row.st = "absent" =>
        cache = NoForm /\ \A p \in Requests : req[p].pc \in {"idle", "load_user", "aborted"}

\* An update that finds its row deleted may give up the invalidation it owes,
\* because what is cached of a deleted user is owed by another request too.
DeletionInvalidates ==
    row.st = "deleted" /\ cache # NoForm =>
        bornStale \/ \E p \in Requests : req[p].owes /\ req[p].pc # "refresh"

\* Versions only grow, so the version an update was built on is in the past.
BuiltOnPast == OneUpdatePerVersion /\ \A b \in built : b[2] < row.form.version

CacheInv == TypeOK /\ Owing /\ NothingBeforeCreation /\ DeletionInvalidates /\ MutationsInvalidate

USE CacheAssumption

---------------------------------------------------------------------------
\* Types.

\* A request that has committed its change is typed and keeps its form.
LEMMA OweTyped ==
    ASSUME TypeOK, NEW p \in Requests, NEW pc \in Pcs, Owe(p, pc)
    PROVE  /\ req' \in [Requests -> Local]
           /\ \A q \in Requests : req'[q].form = req[q].form
<1> DEFINE r == [req[p] EXCEPT !.pc = pc, !.owes = TRUE]
<1>1. r \in Local /\ r.form = req[p].form
  <2>1. req[p] \in Local
    BY DEF TypeOK
  <2> QED BY <2>1 DEF Local
<1>2. req' = [req EXCEPT ![p] = r]
  BY DEF Owe
<1>3. req \in [Requests -> Local]
  BY DEF TypeOK
<1> HIDE DEF r
<1> QED BY <1>1, <1>2, <1>3

\* Every action keeps the types.
LEMMA TypeStep == TypeOK /\ [Next]_vars => TypeOK'
<1> SUFFICES ASSUME TypeOK, [Next]_vars PROVE TypeOK'
  OBVIOUS
<1> USE DEF TypeOK, Row, States, Form, NoForm, Local, Pcs, Idle
<1>1. ASSUME NEW p \in Requests, Create(p) PROVE TypeOK'
  BY <1>1 DEF Create, Start, NewForm
<1>2. ASSUME NEW p \in Requests, GetMiss(p) PROVE TypeOK'
  BY <1>2 DEF GetMiss, Start
<1>3. ASSUME NEW p \in Requests, LoadUser(p) PROVE TypeOK'
  <2>1. CASE Done(p) /\ UNCHANGED row
    BY <1>3, <2>1 DEF LoadUser, Done
  <2>2. CASE row.st = "live"
             /\ req' = [req EXCEPT ![p].pc = "load_accounts",
                                   ![p].form = [row.form EXCEPT !.accounts = 0]]
    <3>1. [row.form EXCEPT !.accounts = 0] \in Form
      OBVIOUS
    <3>2. PICK f \in Form : f.version = row.form.version
                           /\ req' = [req EXCEPT ![p].pc = "load_accounts", ![p].form = f]
      BY <2>2, <3>1
    <3> QED BY <1>3, <3>2 DEF LoadUser
  <2> QED BY <1>3, <2>1, <2>2 DEF LoadUser
<1>4. ASSUME NEW p \in Requests, LoadAccounts(p) PROVE TypeOK'
  <2> DEFINE f == [req[p].form EXCEPT !.accounts = Current.accounts]
  <2> DEFINE r == [req[p] EXCEPT !.pc = "put", !.form = f]
  <2>1. Current.accounts \in Nat
    BY DEF Current
  <2>2. req' = [req EXCEPT ![p] = r]
    BY <1>4 DEF LoadAccounts
  <2>3. f \in Form /\ f.version = req[p].form.version
    BY <2>1
  <2>4. r \in Local /\ r.form = f
    <3>1. req[p] \in Local
      OBVIOUS
    <3> HIDE DEF TypeOK, f
    <3> QED BY <3>1, <2>3
  <2>5. /\ req' \in [Requests -> Local]
        /\ \A q \in Requests : req'[q].form.version = req[q].form.version
    <3> HIDE DEF r, f
    <3> QED BY <2>2, <2>3, <2>4
  <2> HIDE DEF r, f
  <2> QED BY <1>4, <2>5 DEF LoadAccounts
<1>5. ASSUME NEW p \in Requests, Put(p) PROVE TypeOK'
  BY <1>5 DEF Put, Done, Current
<1>6. ASSUME NEW p \in Requests, UpdateRead(p) PROVE TypeOK'
  BY <1>6 DEF UpdateRead, Start
<1>7. ASSUME NEW p \in Requests, UpdateWrite(p) PROVE TypeOK'
  <2>1. CASE Done(p) /\ UNCHANGED <<row, built>>
    BY <1>7, <2>1 DEF UpdateWrite, Done
  <2>2. CASE Owe(p, "refresh") /\ UNCHANGED <<row, built>>
    <3>1. /\ req' \in [Requests -> Local]
          /\ \A q \in Requests : req'[q].form = req[q].form
      BY <2>2, OweTyped
    <3> QED BY <1>7, <2>2, <3>1 DEF UpdateWrite
  <2>3. CASE /\ row.st = "live"
             /\ row' = [row EXCEPT !.form.version = @ + 1]
             /\ built' = built \cup {<<p, req[p].form.version>>}
             /\ Owe(p, "refresh")
    <3>1. row' \in Row /\ row'.st = "live" /\ row'.form.version = row.form.version + 1
      BY <2>3
    <3>2. built' \in SUBSET (Requests \X Nat)
      BY <2>3
    <3>3. req' \in [Requests -> Local] /\ \A q \in Requests : req'[q].form = req[q].form
      BY <2>3, OweTyped
    <3> QED BY <1>7, <3>1, <3>2, <3>3 DEF UpdateWrite
  <2> QED BY <1>7, <2>1, <2>2, <2>3 DEF UpdateWrite
<1>8. ASSUME NEW p \in Requests, Refresh(p) PROVE TypeOK'
  <2>1. CASE Goto(p, "invalidate")
    BY <1>8, <2>1 DEF Refresh, Goto
  <2>2. CASE Done(p)
    BY <1>8, <2>2 DEF Refresh, Done
  <2> QED BY <1>8, <2>1, <2>2 DEF Refresh
<1>9. ASSUME NEW p \in Requests, Delete(p) PROVE TypeOK'
  BY <1>9 DEF Delete, Start
<1>10. ASSUME NEW p \in Requests, UpsertRead(p) PROVE TypeOK'
  BY <1>10 DEF UpsertRead, Start
<1>11. ASSUME NEW p \in Requests, UpsertWrite(p) PROVE TypeOK'
  <2>1. CASE Done(p) /\ UNCHANGED row
    BY <1>11, <2>1 DEF UpsertWrite, Done
  <2>2. CASE Owe(p, "invalidate") /\ UNCHANGED row
    <3>1. /\ req' \in [Requests -> Local]
          /\ \A q \in Requests : req'[q].form = req[q].form
      BY <2>2, OweTyped
    <3> QED BY <1>11, <2>2, <3>1 DEF UpsertWrite
  <2>3. CASE /\ row.st = "live"
             /\ row' = [row EXCEPT !.form.profile = @ + 1]
             /\ Owe(p, "invalidate")
    <3>1. row' \in Row /\ row'.st = "live" /\ row'.form.version = row.form.version
      BY <2>3
    <3>2. row'.form.profile > 0
      BY <2>3
    <3>3. req' \in [Requests -> Local] /\ \A q \in Requests : req'[q].form = req[q].form
      BY <2>3, OweTyped
    <3> QED BY <1>11, <3>1, <3>2, <3>3 DEF UpsertWrite
  <2> QED BY <1>11, <2>1, <2>2, <2>3 DEF UpsertWrite
<1>12. ASSUME NEW p \in Requests, AccountWrite(p) PROVE TypeOK'
  BY <1>12 DEF AccountWrite, Start
<1>13. ASSUME NEW p \in Requests, Invalidate(p) PROVE TypeOK'
  <2>1. cache' = NoForm /\ NoForm \in Form /\ cache'.version <= row'.form.version
    BY <1>13 DEF Invalidate
  <2>2. /\ req' \in [Requests -> Local]
        /\ \A q \in Requests : req'[q].form.version <= row'.form.version
    BY <1>13 DEF Invalidate, Done
  <2> QED BY <1>13, <2>1, <2>2 DEF Invalidate
<1>14. ASSUME NEW p \in Requests, Abort(p) PROVE TypeOK'
  BY <1>14 DEF Abort, Goto
<1>17. ASSUME NEW p \in Requests, PasswordRead(p) PROVE TypeOK'
  BY <1>17 DEF PasswordRead, Start
<1>18. ASSUME NEW p \in Requests, PasswordWrite(p) PROVE TypeOK'
  <2>1. CASE UNCHANGED <<row, built, silent>>
    BY <1>18, <2>1 DEF PasswordWrite, Done
  <2>2. CASE /\ row.st = "live"
             /\ row' = [row EXCEPT !.form.version = @ + 1]
             /\ built' = built \cup {<<p, req[p].form.version>>}
             /\ silent' = silent \cup {req[p].form.version + 1}
    <3>1. row' \in Row /\ row'.st = "live" /\ row'.form.version = row.form.version + 1
      BY <2>2
    <3>2. built' \in SUBSET (Requests \X Nat) /\ silent' \in SUBSET Nat
      BY <2>2
    <3>3. /\ req' \in [Requests -> Local]
          /\ \A q \in Requests : req'[q].form = req[q].form \/ req'[q].form = NoForm
      BY <1>18 DEF PasswordWrite, Done
    <3> QED BY <1>18, <3>1, <3>2, <3>3 DEF PasswordWrite
  <2> QED BY <1>18, <2>1, <2>2 DEF PasswordWrite
<1>15. CASE Expire
  <2>1. cache' = NoForm /\ NoForm \in Form /\ cache'.version <= row'.form.version
    BY <1>15 DEF Expire
  <2> QED BY <1>15, <2>1 DEF Expire
<1>16. CASE UNCHANGED vars
  BY <1>16 DEF vars
<1> QED
  BY <1>1, <1>2, <1>3, <1>4, <1>5, <1>6, <1>7, <1>8, <1>9, <1>10, <1>11, <1>12, <1>13, <1>14,
     <1>15, <1>16, <1>17, <1>18 DEF Next

\* Init establishes the invariants.
LEMMA InitInv == Init => CacheInv /\ BuiltOnPast
<1> SUFFICES ASSUME Init PROVE CacheInv /\ BuiltOnPast
  OBVIOUS
<1> USE DEF Init
<1>1. NoForm \in Form /\ Idle \in Local
  BY DEF NoForm, Form, Idle, Local, Pcs
<1>2. TypeOK
  <2>1. row \in Row
    BY <1>1 DEF Row, States
  <2>2. NoForm.version <= NoForm.version
    BY DEF NoForm
  <2>3. \A p \in Requests : req[p].form = NoForm
    BY DEF Idle
  <2>4. \A p \in Requests : req[p].form.version <= row.form.version
    BY <2>2, <2>3
  <2>5. cache.version <= row.form.version
    BY <2>2
  <2>6. calls \in 0..MaxCalls /\ bornStale \in BOOLEAN
    <3>1. calls \in 0..MaxCalls
      BY SMT
    <3>2. bornStale \in BOOLEAN
      BY Zenon
    <3> QED BY <3>1, <3>2
  <2>7. row.st = "absent" <=> row.form = NoForm
    OBVIOUS
  <2>8. req \in [Requests -> Local] /\ cache \in Form
    BY <1>1
  <2>9. built \in SUBSET (Requests \X Nat) /\ silent \in SUBSET Nat
    OBVIOUS
  <2> QED BY <2>1, <2>4, <2>5, <2>6, <2>7, <2>8, <2>9 DEF TypeOK
<1>3. Owing /\ NothingBeforeCreation /\ DeletionInvalidates /\ MutationsInvalidate
  BY DEF Owing, NothingBeforeCreation, DeletionInvalidates, MutationsInvalidate, Stale, Idle
<1>4. BuiltOnPast
  BY DEF BuiltOnPast, OneUpdatePerVersion
<1> QED BY <1>2, <1>3, <1>4 DEF CacheInv

\* Every reachable state of UserCache is well typed.
THEOREM TypeCorrect == Spec => []TypeOK
<1>1. Init => TypeOK
  BY InitInv DEF CacheInv
<1> QED BY <1>1, TypeStep, PTL DEF Spec

---------------------------------------------------------------------------
\* Invalidation.

\* Every action keeps the reason why a stale entry is there.
LEMMA InvalidationStep == CacheInv /\ [Next]_vars => CacheInv'
<1> SUFFICES ASSUME CacheInv, [Next]_vars PROVE CacheInv'
  OBVIOUS
<1> DEFINE Rest == Owing /\ NothingBeforeCreation /\ DeletionInvalidates /\ MutationsInvalidate
<1>0. TypeOK'
  BY TypeStep DEF CacheInv
<1> SUFFICES Rest'
  BY <1>0 DEF CacheInv
<1> USE DEF CacheInv, TypeOK, Row, States, Form, NoForm, Local, Pcs, Idle,
            Owing, NothingBeforeCreation, DeletionInvalidates, MutationsInvalidate, Stale, OnlyPasswordsSince, Current
<1>1. ASSUME NEW p \in Requests, Create(p) PROVE Rest'
  BY <1>1 DEF Create, Start, NewForm
<1>2. ASSUME NEW p \in Requests, GetMiss(p) PROVE Rest'
  BY <1>2 DEF GetMiss, Start
<1>3. ASSUME NEW p \in Requests, LoadUser(p) PROVE Rest'
  <2>1. CASE row.st # "live" /\ Done(p)
    BY <1>3, <2>1 DEF LoadUser, Done
  <2>2. CASE row.st = "live"
             /\ req' = [req EXCEPT ![p].pc = "load_accounts",
                                   ![p].form = [row.form EXCEPT !.accounts = 0]]
    <3>1. \A q \in Requests : req'[q].owes = req[q].owes
      BY <2>2
    <3>2. \A q \in Requests \ {p} : req'[q].pc = req[q].pc
      BY <2>2
    <3>3. ~req[p].owes /\ req[p].pc = "load_user"
      BY <1>3 DEF LoadUser
    <3> QED BY <1>3, <2>2, <3>1, <3>2, <3>3 DEF LoadUser
  <2> QED BY <1>3, <2>1, <2>2 DEF LoadUser
<1>4. ASSUME NEW p \in Requests, LoadAccounts(p) PROVE Rest'
  <2>1. \A q \in Requests \ {p} : req'[q] = req[q]
    BY <1>4 DEF LoadAccounts
  <2>2. ~req[p].owes /\ req[p].pc = "load_accounts" /\ row.st # "absent"
    BY <1>4 DEF LoadAccounts
  <2>3. req'[p].owes = req[p].owes
    BY <1>4 DEF LoadAccounts
  <2> QED BY <1>4, <2>1, <2>2, <2>3 DEF LoadAccounts
<1>5. ASSUME NEW p \in Requests, Put(p) PROVE Rest'
  BY <1>5 DEF Put, Done
<1>6. ASSUME NEW p \in Requests, UpdateRead(p) PROVE Rest'
  BY <1>6 DEF UpdateRead, Start
<1>7. ASSUME NEW p \in Requests, UpdateWrite(p) PROVE Rest'
  <2>1. \A q \in Requests \ {p} : req'[q] = req[q]
    BY <1>7 DEF UpdateWrite, Owe, Done
  <2>2. /\ ~req[p].owes /\ req[p].pc = "update" /\ row.st # "absent"
        /\ UNCHANGED <<cache, bornStale, silent>>
    BY <1>7 DEF UpdateWrite
  <2>3. CASE Done(p) /\ UNCHANGED row
    BY <2>1, <2>2, <2>3 DEF Done
  <2>4. CASE Owe(p, "refresh") /\ row'.st = row.st
    <3>1. req'[p].owes /\ req'[p].pc = "refresh"
      BY <2>4 DEF Owe
    <3> QED BY <2>1, <2>2, <2>4, <3>1
  <2>5. \/ Done(p) /\ UNCHANGED row
        \/ Owe(p, "refresh") /\ row'.st = row.st
    BY <1>7 DEF UpdateWrite
  <2> QED BY <2>3, <2>4, <2>5
<1>8. ASSUME NEW p \in Requests, Refresh(p) PROVE Rest'
  BY <1>8 DEF Refresh, Goto, Done
<1>9. ASSUME NEW p \in Requests, Delete(p) PROVE Rest'
  BY <1>9 DEF Delete, Start
<1>10. ASSUME NEW p \in Requests, UpsertRead(p) PROVE Rest'
  BY <1>10 DEF UpsertRead, Start
<1>11. ASSUME NEW p \in Requests, UpsertWrite(p) PROVE Rest'
  <2>1. \A q \in Requests \ {p} : req'[q] = req[q]
    BY <1>11 DEF UpsertWrite, Owe, Done
  <2>2. /\ ~req[p].owes /\ req[p].pc = "upsert" /\ row.st # "absent"
        /\ UNCHANGED <<cache, bornStale, silent>>
    BY <1>11 DEF UpsertWrite
  <2>3. CASE Done(p) /\ UNCHANGED row
    BY <2>1, <2>2, <2>3 DEF Done
  <2>4. CASE Owe(p, "invalidate") /\ row'.st = row.st
    <3>1. req'[p].owes /\ req'[p].pc = "invalidate"
      BY <2>4 DEF Owe
    <3> QED BY <2>1, <2>2, <2>4, <3>1
  <2>5. \/ Done(p) /\ UNCHANGED row
        \/ Owe(p, "invalidate") /\ row'.st = row.st
    BY <1>11 DEF UpsertWrite
  <2> QED BY <2>3, <2>4, <2>5
<1>12. ASSUME NEW p \in Requests, AccountWrite(p) PROVE Rest'
  BY <1>12 DEF AccountWrite, Start
<1>13. ASSUME NEW p \in Requests, Invalidate(p) PROVE Rest'
  BY <1>13 DEF Invalidate, Done
<1>14. ASSUME NEW p \in Requests, Abort(p) PROVE Rest'
  BY <1>14 DEF Abort, Goto
<1>17. ASSUME NEW p \in Requests, PasswordRead(p) PROVE Rest'
  BY <1>17 DEF PasswordRead, Start
<1>18. ASSUME NEW p \in Requests, PasswordWrite(p) PROVE Rest'
  <2>1. \A q \in Requests \ {p} : req'[q] = req[q]
    BY <1>18 DEF PasswordWrite, Done
  <2>2. /\ ~req[p].owes /\ req[p].pc = "password" /\ row.st # "absent"
        /\ UNCHANGED <<cache, bornStale>>
    BY <1>18 DEF PasswordWrite
  <2>3. req'[p].pc = "idle" /\ ~req'[p].owes
    BY <1>18 DEF PasswordWrite, Done
  <2>4. CASE UNCHANGED <<row, silent>>
    BY <2>1, <2>2, <2>3, <2>4
  <2>5. CASE /\ row.st = "live"
             /\ row' = [row EXCEPT !.form.version = @ + 1]
             /\ silent' = silent \cup {row.form.version + 1}
    <3>1. /\ row'.st = "live"
          /\ row'.form.version = row.form.version + 1
          /\ row'.form.profile = row.form.profile /\ row'.form.accounts = row.form.accounts
      BY <2>5
    <3>2. MutationsInvalidate'
      <4>1. SUFFICES ASSUME ~(Stale' /\ ~bornStale' => \E q \in Requests : req'[q].owes)
            PROVE OnlyPasswordsSince'
        OBVIOUS
      <4>2. cache = Current \/ OnlyPasswordsSince
        BY <2>1, <2>2, <4>1
      <4>3. /\ cache.profile = row.form.profile /\ cache.accounts = row.form.accounts
            /\ \A v \in (cache.version + 1)..row.form.version : v \in silent
        BY <2>5, <4>2
      <4>4. \A v \in (cache'.version + 1)..row'.form.version :
               v \in (cache.version + 1)..row.form.version \/ v = row.form.version + 1
        BY <2>2, <3>1
      <4> QED BY <2>2, <2>5, <3>1, <4>3, <4>4
    <3> QED BY <2>1, <2>2, <2>3, <3>1, <3>2
  <2> QED BY <1>18, <2>4, <2>5 DEF PasswordWrite
<1>15. CASE Expire
  BY <1>15 DEF Expire
<1>16. CASE UNCHANGED vars
  BY <1>16 DEF vars
<1> QED
  BY <1>1, <1>2, <1>3, <1>4, <1>5, <1>6, <1>7, <1>8, <1>9, <1>10, <1>11, <1>12, <1>13, <1>14,
     <1>15, <1>16, <1>17, <1>18 DEF Next

\* ADR-0012 for any number of requests: a stale entry was born stale, or an
\* operation that committed still owes its deletion or failed before it, or it
\* differs from the database by nothing but what change_password wrote.
THEOREM Invalidation == Spec => []MutationsInvalidate
<1>1. Init => CacheInv
  BY InitInv
<1>2. CacheInv => MutationsInvalidate
  BY DEF CacheInv
<1> QED BY <1>1, <1>2, InvalidationStep, PTL DEF Spec

---------------------------------------------------------------------------
\* Optimistic lock.

\* Only the two versioned UPDATEs add to the history, on the row's present version.
LEMMA VersionStep == TypeOK /\ BuiltOnPast /\ [Next]_vars => BuiltOnPast'
<1> SUFFICES ASSUME TypeOK, BuiltOnPast, [Next]_vars PROVE BuiltOnPast'
  OBVIOUS
<1> USE DEF TypeOK, Row, Form, NoForm, BuiltOnPast, OneUpdatePerVersion
<1>1. ASSUME NEW p \in Requests, UpdateWrite(p) PROVE BuiltOnPast'
  <2> DEFINE new == <<p, req[p].form.version>>
  <2>1. CASE UNCHANGED <<row, built>>
    BY <2>1
  <2>2. CASE /\ row.form.version = req[p].form.version
             /\ row' = [row EXCEPT !.form.version = @ + 1]
             /\ built' = built \cup {new}
    <3>1. row'.form.version = row.form.version + 1
      BY <2>2
    <3>2. \A b \in built : b[2] \in Nat /\ b[2] # new[2]
      BY <2>2
    <3> QED BY <2>2, <3>1, <3>2
  <2> QED BY <1>1, <2>1, <2>2 DEF UpdateWrite
<1>5. ASSUME NEW p \in Requests, PasswordWrite(p) PROVE BuiltOnPast'
  <2> DEFINE new == <<p, req[p].form.version>>
  <2>1. CASE UNCHANGED <<row, built>>
    BY <2>1
  <2>2. CASE /\ row.form.version = req[p].form.version
             /\ row' = [row EXCEPT !.form.version = @ + 1]
             /\ built' = built \cup {new}
    <3>1. row'.form.version = row.form.version + 1
      BY <2>2
    <3>2. \A b \in built : b[2] \in Nat /\ b[2] # new[2]
      BY <2>2
    <3> QED BY <2>2, <3>1, <3>2
  <2> QED BY <1>5, <2>1, <2>2 DEF PasswordWrite
<1>2. CASE built' = built /\ row'.form.version >= row.form.version
  <2>1. \A b \in built : b[2] \in Nat
    OBVIOUS
  <2>2. row'.form.version \in Nat
    BY TypeStep
  <2> QED BY <1>2, <2>1, <2>2
<1>3. ASSUME NEW p \in Requests,
             \/ Create(p) \/ GetMiss(p) \/ LoadUser(p) \/ LoadAccounts(p) \/ Put(p)
             \/ UpdateRead(p) \/ Refresh(p) \/ Delete(p) \/ UpsertRead(p) \/ UpsertWrite(p)
             \/ PasswordRead(p) \/ AccountWrite(p) \/ Invalidate(p) \/ Abort(p)
      PROVE  built' = built /\ row'.form.version >= row.form.version
  <2>1. ASSUME Create(p) PROVE built' = built /\ row'.form.version >= row.form.version
    BY <2>1 DEF Create, NewForm
  <2>2. ASSUME Delete(p) PROVE built' = built /\ row'.form.version >= row.form.version
    BY <2>2 DEF Delete
  <2>3. ASSUME UpsertWrite(p) PROVE built' = built /\ row'.form.version >= row.form.version
    BY <2>3 DEF UpsertWrite
  <2>4. ASSUME AccountWrite(p) PROVE built' = built /\ row'.form.version >= row.form.version
    BY <2>4 DEF AccountWrite
  <2>5. ASSUME \/ GetMiss(p) \/ LoadUser(p) \/ LoadAccounts(p) \/ Put(p) \/ UpdateRead(p)
               \/ Refresh(p) \/ UpsertRead(p) \/ PasswordRead(p) \/ Invalidate(p) \/ Abort(p)
        PROVE  UNCHANGED <<row, built>>
    BY <2>5 DEF GetMiss, LoadUser, LoadAccounts, Put, UpdateRead, Refresh, UpsertRead,
                PasswordRead, Invalidate, Abort
  <2> QED BY <1>3, <2>1, <2>2, <2>3, <2>4, <2>5
<1>4. ASSUME Expire \/ UNCHANGED vars
      PROVE  built' = built /\ row'.form.version >= row.form.version
  BY <1>4 DEF Expire, vars
<1> QED BY <1>1, <1>2, <1>3, <1>4, <1>5 DEF Next

\* However many updates read one version, at most one of them is committed.
THEOREM VersionsCorrect == Spec => []OneUpdatePerVersion
<1>1. Init => TypeOK /\ BuiltOnPast
  BY InitInv DEF CacheInv
<1>2. BuiltOnPast => OneUpdatePerVersion
  BY DEF BuiltOnPast
<1> QED BY <1>1, <1>2, TypeStep, VersionStep, PTL DEF Spec
===========================================================================
