------------------------------- MODULE Records -----------------------------
(***************************************************************************)
(* Requests as units of work over the database: UserService.create, update *)
(* and delete, AuthService.register and change_password, AccountService.   *)
(* create_category and a client that reads GET /users page by page.  A unit*)
(* of work takes a connection of the pool with its first statement and     *)
(* returns it when it commits, rolls back or ends.                         *)
(*                                                                         *)
(* The database runs statements at READ COMMITTED: an INSERT under a key   *)
(* that another transaction has inserted or is deleting waits for its end, *)
(* as an UPDATE or DELETE of a row that is being deleted does.  The walks  *)
(* sort by a column without equal values, in either direction; what INSERT *)
(* and UPDATE write there puts a row anywhere.  A definition marked        *)
(* "Mutant" is a plausible bug in the definition after it; no              *)
(* specification uses it.                                                  *)
(***************************************************************************)
EXTENDS Naturals, FiniteSets

CONSTANTS Requests,   \* requests, each handled once; names of the rows they insert
          Old,        \* the row that table users begins with
          Emails,     \* emails and category names; the row Old has OldEmail
          OldEmail,
          PoolSize,   \* db_pool_size + db_max_overflow
          PerPage     \* per_page

ASSUME RecordsAssumption ==
    /\ Old \notin Requests /\ OldEmail \in Emails
    /\ PoolSize \in Nat \ {0} /\ PerPage \in Nat \ {0}

VARIABLES rows,      \* committed rows of users and categories
          gone,      \* history: rows that have been deleted
          inserted,  \* rows inserted by transactions that have not ended
          version,   \* version[x]: version_id of the user x
          place,     \* place[x]: place of the user x in the order of the walks
          moves,     \* history: how many updates and deletions of users there were
          conn,      \* requests that hold a connection
          req        \* req[r]: the request

vars == <<rows, gone, inserted, version, place, moves, conn, req>>

table == <<rows, gone, version, place, moves>>

\* The first statements of transactions, and all steps in one.
First == {"check", "insert1", "load", "reload", "refresh", "delete", "count"}
Inside == First \cup {"insert", "commit", "write", "remove", "select"}

Fresh == [op |-> "none", at |-> "new", email |-> OldEmail, target |-> Old, version |-> 0, answer |-> 0,
          page |-> 1, total |-> 0, got |-> {}, start |-> {}, since |-> 0, torn |-> FALSE]

Init ==
    /\ rows = {Old} /\ gone = {} /\ inserted = {} /\ moves = 0
    /\ version = [x \in Requests \cup {Old} |-> 0]
    /\ place = [x \in {Old} |-> 1]
    /\ conn = {}
    /\ req = [r \in Requests |-> Fresh]

At(r, step) == req[r].at = step
Go(r, step) == req' = [req EXCEPT ![r].at = step]
Answer(r, status) == req' = [req EXCEPT ![r].at = "answered", ![r].answer = status]

\* The unique indexes: email of users, name of categories.
Table(x) == IF x \in Requests /\ req[x].op = "category" THEN "categories" ELSE "users"
Email(x) == IF x = Old THEN OldEmail ELSE req[x].email
SameKey(x, y) == Table(x) = Table(y) /\ Email(x) = Email(y)
Users == {x \in rows : Table(x) = "users"}

\* Rows that a transaction which has not ended deletes: still read, but locked.
Deleting == {req[r].target : r \in {q \in Requests : At(q, "remove")}}

\* The users who have a password.
Registered == {x \in Users : x = Old \/ req[x].op = "register"}

---------------------------------------------------------------------------
\* The route's function; register hashes the password before the transaction.
Begin(r, op, at, email, target) ==
    req' = [req EXCEPT ![r].op = op, ![r].at = at, ![r].email = email, ![r].target = target]

Start(r) ==
    /\ At(r, "new")
    /\ \/ \E e \in Emails :
            \/ Begin(r, "create", "check", e, Old)
            \/ Begin(r, "register", "hash", e, Old)
            \/ Begin(r, "category", "insert1", e, Old)
       \/ \E x \in Users : Begin(r, "update", "reload", OldEmail, x) \/ Begin(r, "delete", "delete", OldEmail, x)
       \/ \E x \in Registered : Begin(r, "change", "load", OldEmail, x)
       \/ req' = [req EXCEPT ![r].op = "walk", ![r].at = "count", ![r].start = Users, ![r].since = moves]
    /\ UNCHANGED <<table, inserted, conn>>

\* The session takes a connection for the first statement of a transaction.
Acquire(r) ==
    /\ req[r].at \in First /\ r \notin conn
    /\ Cardinality(conn) < PoolSize
    /\ conn' = conn \cup {r}
    /\ UNCHANGED <<table, inserted, req>>

\* No connection within db_pool_timeout: an exception, 500.
PoolTimeout(r) ==
    /\ req[r].at \in First /\ r \notin conn
    /\ Cardinality(conn) = PoolSize
    /\ Answer(r, 500)
    /\ UNCHANGED <<table, inserted, conn>>

\* The end of a unit of work: its connection is returned, what it has inserted
\* is committed or gone.
End(r) == conn' = conn \ {r} /\ inserted' = inserted \ {r}

\* Mutant: __aexit__ does not close the session.
FailKeepsConnection(r) ==
    /\ r \in conn
    /\ inserted' = inserted \ {r} /\ Answer(r, 500)
    /\ UNCHANGED <<table, conn>>

\* Mutant: __aexit__ does not roll back.
FailKeepsInsert(r) ==
    /\ r \in conn
    /\ conn' = conn \ {r} /\ Answer(r, 500)
    /\ UNCHANGED <<table, inserted>>

\* A statement fails in any other way: __aexit__ rolls back, 500.
Fail(r) ==
    /\ r \in conn
    /\ End(r) /\ Answer(r, 500)
    /\ UNCHANGED table

---------------------------------------------------------------------------
\* argon2 in a thread, with no connection.
Hash(r) ==
    /\ \/ At(r, "hash") /\ Go(r, "check")
       \/ At(r, "rehash") /\ Go(r, "reload")
    /\ UNCHANGED <<table, inserted, conn>>

\* get_by_email: 409 before anything is written.
Check(r) ==
    /\ At(r, "check") /\ r \in conn
    /\ IF \E x \in rows : SameKey(x, r)
         THEN Answer(r, 409) /\ End(r)
         ELSE Go(r, "insert") /\ UNCHANGED <<inserted, conn>>
    /\ UNCHANGED table

\* Mutant: the migration lacks the unique index.
InsertUnindexed(r) ==
    /\ req[r].at \in {"insert", "insert1"} /\ r \in conn
    /\ inserted' = inserted \cup {r} /\ Go(r, "commit")
    /\ UNCHANGED <<table, conn>>

\* add: INSERT at the flush.  The index refuses a committed key with an
\* IntegrityError: create_category makes it a 409, the others do not catch it.
Insert(r) ==
    /\ req[r].at \in {"insert", "insert1"} /\ r \in conn
    /\ ~\E x \in inserted \cup (Deleting \cap rows) : SameKey(x, r)
    /\ IF \E x \in rows : SameKey(x, r)
         THEN Answer(r, IF req[r].op = "category" THEN 409 ELSE 500) /\ End(r)
         ELSE inserted' = inserted \cup {r} /\ Go(r, "commit") /\ UNCHANGED conn
    /\ UNCHANGED table

\* The orders of the users after x has got a value in the column, or is gone: the
\* others keep theirs.
Orders(users, x) ==
    {p \in [users -> 1..Cardinality(users)] :
        /\ \A y, z \in users : p[y] = p[z] => y = z
        /\ \A y, z \in users \ {x} : p[y] < p[z] <=> place[y] < place[z]}

Commit(r) ==
    /\ At(r, "commit") /\ r \in conn
    /\ End(r) /\ rows' = rows \cup {r}
    /\ place' \in IF Table(r) = "users" THEN Orders(Users \cup {r}, r) ELSE {place}
    /\ IF req[r].op = "create" THEN Go(r, "cache") ELSE Answer(r, 201)
    /\ UNCHANGED <<gone, version, moves>>

\* create puts the new user's form into Redis, update and delete take the old one
\* away, delete the sessions too; an error there is a 500.
Cache(r) ==
    /\ At(r, "cache")
    /\ Answer(r, IF req[r].op = "create" THEN 201 ELSE 200) \/ Answer(r, 500)
    /\ UNCHANGED <<table, inserted, conn>>

---------------------------------------------------------------------------
\* change_password: the hash is read in one unit of work and replaced in another;
\* in between the password is verified and the new one hashed.
Load(r) ==
    /\ At(r, "load") /\ r \in conn
    /\ End(r)
    /\ IF req[r].target \in rows THEN Go(r, "verify") ELSE Answer(r, 401)
    /\ UNCHANGED table

Verify(r) ==
    /\ At(r, "verify")
    /\ Go(r, "rehash") \/ Answer(r, 401)
    /\ UNCHANGED <<table, inserted, conn>>

\* Both change_password and update read the row that they change, if it is there.
Reload(r) ==
    /\ At(r, "reload") /\ r \in conn
    /\ IF req[r].target \in rows
         THEN /\ req' = [req EXCEPT ![r].at = "write", ![r].version = version[req[r].target]]
              /\ UNCHANGED <<inserted, conn>>
         ELSE Answer(r, IF req[r].op = "change" THEN 401 ELSE 404) /\ End(r)
    /\ UNCHANGED table

\* The UPDATE at the commit expects the version that was read, else StaleDataError:
\* update makes it a 409, change_password does not catch it.
Write(r) ==
    LET x == req[r].target IN
    /\ At(r, "write") /\ r \in conn /\ x \notin Deleting
    /\ End(r)
    /\ IF x \in rows /\ req[r].version = version[x]
         THEN /\ version' = [version EXCEPT ![x] = @ + 1]
              /\ place' \in Orders(Users, x)
              /\ moves' = moves + 1
              /\ IF req[r].op = "change" THEN Answer(r, 200) ELSE Go(r, "refresh")
         ELSE Answer(r, IF req[r].op = "change" THEN 500 ELSE 409) /\ UNCHANGED <<version, place, moves>>
    /\ UNCHANGED <<rows, gone>>

\* update reads the row once more, in a transaction of its own: an error when
\* it is gone, although the change is committed.
Refresh(r) ==
    /\ At(r, "refresh") /\ r \in conn
    /\ End(r)
    /\ IF req[r].target \in rows THEN Go(r, "cache") ELSE Answer(r, 500)
    /\ UNCHANGED <<table>>

\* delete_by_id: DELETE, then the commit.
Delete(r) ==
    /\ At(r, "delete") /\ r \in conn /\ req[r].target \notin Deleting
    /\ IF req[r].target \in rows
         THEN Go(r, "remove") /\ UNCHANGED <<inserted, conn>>
         ELSE Answer(r, 404) /\ End(r)
    /\ UNCHANGED table

Remove(r) ==
    /\ At(r, "remove") /\ r \in conn
    /\ End(r) /\ Go(r, "cache")
    /\ rows' = rows \ {req[r].target} /\ gone' = gone \cup {req[r].target}
    /\ place' \in Orders(Users \ {req[r].target}, req[r].target)
    /\ moves' = moves + 1
    /\ UNCHANGED version

---------------------------------------------------------------------------
\* An unknown operator or value in the query: 400 without a statement; an unknown
\* field to sort by: after the COUNT.
BadQuery(r) ==
    /\ req[r].page = 1
    /\ \/ At(r, "count") /\ r \notin conn
       \/ At(r, "select") /\ r \in conn
    /\ End(r) /\ Answer(r, 400)
    /\ UNCHANGED table

\* paginate, first SELECT count(*) ...
Count(r) ==
    /\ At(r, "count") /\ r \in conn
    /\ req' = [req EXCEPT ![r].at = "select", ![r].total = Cardinality(Users)]
    /\ UNCHANGED <<table, inserted, conn>>

\* ... then the page: ORDER BY, LIMIT, OFFSET.
Rank(x) == Cardinality({y \in Users : place[y] <= place[x]})

\* Mutant: pages are counted from 0.
PageFromZero(page) == {x \in Users : Rank(x) \in (page * PerPage + 1)..((page + 1) * PerPage)}

Page(page) == {x \in Users : Rank(x) \in ((page - 1) * PerPage + 1)..(page * PerPage)}

\* The client asks for the next page while there is one.
Select(r) ==
    /\ At(r, "select") /\ r \in conn
    /\ End(r)
    /\ LET done == req[r].page * PerPage >= req[r].total
       IN  req' = [req EXCEPT ![r].got = @ \cup Page(req[r].page),
                              ![r].torn = req[r].total # Cardinality(Users),
                              ![r].page = IF done THEN @ ELSE @ + 1,
                              ![r].at = IF done THEN "answered" ELSE "count",
                              ![r].answer = IF done THEN 200 ELSE 0]
    /\ UNCHANGED table

---------------------------------------------------------------------------
Step(r) ==
    \/ Acquire(r) \/ Hash(r) \/ Check(r) \/ Insert(r) \/ Commit(r) \/ Cache(r)
    \/ Load(r) \/ Verify(r) \/ Reload(r) \/ Write(r) \/ Refresh(r) \/ Delete(r) \/ Remove(r)
    \/ Count(r) \/ Select(r)

Next == \E r \in Requests : Start(r) \/ Step(r) \/ PoolTimeout(r) \/ Fail(r) \/ BadQuery(r)

Spec == Init /\ [][Next]_vars

\* The event loop resumes every task that can go on.  Nothing has to fail, but
\* nobody waits for a connection for ever.
FairSpec == Spec /\ \A r \in Requests : WF_vars(Step(r)) /\ WF_vars(PoolTimeout(r))

---------------------------------------------------------------------------
Inserts == {"create", "register", "category"}

\* Of any number of concurrent requests to create one user or category exactly
\* one is told that it did, and has; "already exists" is only said when it does,
\* or did until somebody deleted it.
OneWinnerPerEmail ==
    /\ \A x, y \in rows : SameKey(x, y) => x = y
    /\ \A r \in Requests : req[r].op \in Inserts =>
        /\ req[r].answer = 201 => r \in rows \cup gone
        /\ req[r].answer = 409 =>
             r \notin rows \cup gone /\ \E x \in rows \cup gone : SameKey(x, r)

\* No connection is held while a password is hashed, Redis is asked or after the
\* answer, however the request ended, and nothing it inserted is left behind.
ConnectionsReturned ==
    /\ Cardinality(conn) <= PoolSize
    /\ \A r \in Requests :
        /\ r \in conn => req[r].at \in Inside
        /\ r \in inserted => r \in conn /\ At(r, "commit")
        /\ At(r, "hash") \/ At(r, "rehash") => r \notin conn
    /\ rows \cap inserted = {}

\* A client that walks the pages in the order of a column without equal values gets
\* every row that was there when it began and still is, whatever is inserted,
\* but at most one for each deletion and update meanwhile: both move later rows to
\* pages it has read.  (Unless the last page's COUNT and SELECT saw different rows.)
WalkMissesFew ==
    \A r \in Requests :
        req[r].op = "walk" /\ req[r].answer = 200 /\ ~req[r].torn =>
            Cardinality((req[r].start \cap Users) \ req[r].got) <= moves - req[r].since

\* Every request is answered, whoever holds connections or keys it waits for.
EveryRequestAnswered ==
    \A r \in Requests : req[r].at # "new" ~> At(r, "answered")
===========================================================================
