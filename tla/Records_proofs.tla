--------------------------- MODULE Records_proofs --------------------------
(***************************************************************************)
(* Theorems about Records for any number of requests, emails, connections  *)
(* and rows per page.  The inductive invariant says where a request stands *)
(* with the pool and the unique index at each of its steps, and how many   *)
(* rows a walk can have missed so far.                                     *)
(***************************************************************************)
EXTENDS Records, FiniteSetTheorems, TLAPS

\* Requests are records with the fields of Fresh, whatever the fields hold.
Local(S) == [op : S, at : S, email : S, target : S, version : S, answer : S, page : S,
             total : S, got : S, start : S, since : S, torn : S]
Shape(l) == \E S : l \in Local(S)
Typed == req = [r \in Requests |-> req[r]] /\ \A r \in Requests : Shape(req[r])

\* The pool: a connection is held inside a unit of work only.
PoolKept ==
    /\ conn \subseteq Requests /\ IsFiniteSet(conn) /\ Cardinality(conn) <= PoolSize
    /\ \A r \in conn : req[r].at \in Inside

\* A row is inserted exactly while its transaction waits for its commit; what an
\* insertion has committed is there or has been deleted.
RowsKept ==
    /\ inserted = {r \in conn : At(r, "commit")}
    /\ rows \cup gone \subseteq Requests \cup {Old} /\ rows \cap gone = {} /\ Old \in rows \cup gone
    /\ \A r \in Requests :
        /\ At(r, "cache") /\ req[r].op = "create" => r \in rows \cup gone
        /\ r \in rows \cup gone => req[r].op \in Inserts /\ req[r].at \in {"cache", "answered"}
        /\ req[r].target \in rows \cup gone

\* Which requests come to which step.
Course(r) ==
    /\ req[r].at \in {"hash", "check", "insert", "insert1", "commit"} => req[r].op \in Inserts
    /\ req[r].at \in {"load", "verify", "rehash", "reload", "write", "refresh"} =>
         req[r].op \in {"change", "update"}
    /\ req[r].at \in {"delete", "remove"} => req[r].op = "delete"

\* The unique index, which uncommitted rows take part in.
Unique == \A x, y \in rows \cup inserted : SameKey(x, y) => x = y

AnswersKnown ==
    \A r \in Requests :
        /\ ~At(r, "answered") => req[r].answer = 0
        /\ req[r].op \in Inserts /\ req[r].answer = 201 => r \in rows \cup gone
        /\ req[r].op \in Inserts /\ req[r].answer = 409 =>
             r \notin rows \cup gone /\ \E x \in rows \cup gone : SameKey(x, r)

RecordsInv ==
    Typed /\ PoolKept /\ RowsKept /\ (\A r \in Requests : Course(r)) /\ Unique /\ AnswersKnown

USE RecordsAssumption

---------------------------------------------------------------------------
\* The ways a request moves.
Others(r) == \A q \in Requests : q # r => req'[q] = req[q]
Same(r) == Others(r) /\ req'[r].op = req[r].op /\ req'[r].email = req[r].email
           /\ req'[r].target = req[r].target

\* A request about which a step says nothing new to the walks.
Unmoved(r) ==
    /\ req'[r].op = req[r].op /\ req'[r].page = req[r].page /\ req'[r].since = req[r].since
    /\ req'[r].start = req[r].start /\ req'[r].got = req[r].got /\ req'[r].torn = req[r].torn

LEMMA Update ==
    ASSUME Typed, NEW r \in Requests, NEW l, Shape(l), req' = [req EXCEPT ![r] = l]
    PROVE  Typed' /\ Others(r) /\ req'[r] = l
BY DEF Typed, Others

LEMMA GoMoves ==
    ASSUME Typed, NEW r \in Requests, NEW step, Go(r, step)
    PROVE  Typed' /\ Same(r) /\ Unmoved(r) /\ req'[r].at = step /\ req'[r].answer = req[r].answer
<1> DEFINE l == [req[r] EXCEPT !.at = step]
<1>1. PICK S : req[r] \in Local(S)
    BY DEF Typed, Shape
<1>2. /\ l \in Local(S \cup {step}) /\ l.at = step /\ l.op = req[r].op /\ l.email = req[r].email
      /\ l.target = req[r].target /\ l.answer = req[r].answer /\ l.page = req[r].page
      /\ l.since = req[r].since /\ l.start = req[r].start /\ l.got = req[r].got /\ l.torn = req[r].torn
    BY <1>1 DEF Local
<1>3. req' = [req EXCEPT ![r] = l]
    BY DEF Go
<1> HIDE DEF l
<1>4. Typed' /\ Others(r) /\ req'[r] = l
    BY <1>2, <1>3, Update DEF Shape
<1> QED BY <1>2, <1>4 DEF Same, Unmoved

LEMMA AnswerMoves ==
    ASSUME Typed, NEW r \in Requests, NEW status, Answer(r, status)
    PROVE  Typed' /\ Same(r) /\ Unmoved(r) /\ req'[r].at = "answered" /\ req'[r].answer = status
<1> DEFINE l == [req[r] EXCEPT !.at = "answered", !.answer = status]
<1>1. PICK S : req[r] \in Local(S)
    BY DEF Typed, Shape
<1>2. /\ l \in Local(S \cup {"answered", status}) /\ l.at = "answered" /\ l.op = req[r].op
      /\ l.email = req[r].email /\ l.target = req[r].target /\ l.answer = status
      /\ l.page = req[r].page /\ l.since = req[r].since /\ l.start = req[r].start
      /\ l.got = req[r].got /\ l.torn = req[r].torn
    BY <1>1 DEF Local
<1>3. req' = [req EXCEPT ![r] = l]
    BY <1>1 DEF Answer, Typed
<1> HIDE DEF l
<1>4. Typed' /\ Others(r) /\ req'[r] = l
    BY <1>2, <1>3, Update DEF Shape
<1> QED BY <1>2, <1>4 DEF Same, Unmoved

\* COUNT and the page's SELECT write what nobody else reads.
LEMMA CountMoves ==
    ASSUME Typed, NEW r \in Requests, Count(r)
    PROVE  Typed' /\ Same(r) /\ Unmoved(r) /\ req'[r].at = "select" /\ req'[r].answer = req[r].answer
<1> DEFINE n == Cardinality(Users)
           l == [req[r] EXCEPT !.at = "select", !.total = n]
<1>1. PICK S : req[r] \in Local(S)
    BY DEF Typed, Shape
<1> HIDE DEF n
<1>2. /\ l \in Local(S \cup {"select", n}) /\ l.at = "select" /\ l.op = req[r].op
      /\ l.email = req[r].email /\ l.target = req[r].target /\ l.answer = req[r].answer
      /\ l.page = req[r].page /\ l.since = req[r].since /\ l.start = req[r].start
      /\ l.got = req[r].got /\ l.torn = req[r].torn
    BY <1>1 DEF Local
<1>3. req' = [req EXCEPT ![r] = l]
    BY <1>1 DEF Count, Typed, n
<1> HIDE DEF l
<1>4. Typed' /\ Others(r) /\ req'[r] = l
    BY <1>2, <1>3, Update DEF Shape
<1> QED BY <1>2, <1>4 DEF Same, Unmoved

LEMMA ReadMoves ==
    ASSUME Typed, NEW r \in Requests, NEW v,
           req' = [req EXCEPT ![r].at = "write", ![r].version = v]
    PROVE  Typed' /\ Same(r) /\ Unmoved(r) /\ req'[r].at = "write" /\ req'[r].answer = req[r].answer
<1> DEFINE l == [req[r] EXCEPT !.at = "write", !.version = v]
<1>1. PICK S : req[r] \in Local(S)
    BY DEF Typed, Shape
<1>2. /\ l \in Local(S \cup {"write", v}) /\ l.at = "write" /\ l.op = req[r].op
      /\ l.email = req[r].email /\ l.target = req[r].target /\ l.answer = req[r].answer
      /\ l.page = req[r].page /\ l.since = req[r].since /\ l.start = req[r].start
      /\ l.got = req[r].got /\ l.torn = req[r].torn
    BY <1>1 DEF Local
<1>3. req' = [req EXCEPT ![r] = l]
    BY <1>1 DEF Typed
<1> HIDE DEF l
<1>4. Typed' /\ Others(r) /\ req'[r] = l
    BY <1>2, <1>3, Update DEF Shape
<1> QED BY <1>2, <1>4 DEF Same, Unmoved

LEMMA BeginMoves ==
    ASSUME Typed, NEW r \in Requests, NEW op, NEW at, NEW e, NEW x, Begin(r, op, at, e, x)
    PROVE  Typed' /\ Others(r) /\ req'[r].at = at /\ req'[r].op = op /\ req'[r].target = x
           /\ req'[r].answer = req[r].answer
<1> DEFINE l == [req[r] EXCEPT !.op = op, !.at = at, !.email = e, !.target = x]
<1>1. PICK S : req[r] \in Local(S)
    BY DEF Typed, Shape
<1>2. l \in Local(S \cup {op, at, e, x}) /\ l.at = at /\ l.op = op /\ l.target = x
      /\ l.answer = req[r].answer
    BY <1>1 DEF Local
<1>3. req' = [req EXCEPT ![r] = l]
    BY <1>1 DEF Typed, Begin
<1> HIDE DEF l
<1>4. Typed' /\ Others(r) /\ req'[r] = l
    BY <1>2, <1>3, Update DEF Shape
<1> QED BY <1>2, <1>4

LEMMA WalkMoves ==
    ASSUME Typed, NEW r \in Requests, NEW users, NEW n,
           req' = [req EXCEPT ![r].op = "walk", ![r].at = "count", ![r].start = users, ![r].since = n]
    PROVE  /\ Typed' /\ Others(r) /\ req'[r].at = "count" /\ req'[r].op = "walk"
           /\ req'[r].start = users /\ req'[r].since = n /\ req'[r].target = req[r].target
           /\ req'[r].page = req[r].page /\ req'[r].answer = req[r].answer
<1> DEFINE l == [req[r] EXCEPT !.op = "walk", !.at = "count", !.start = users, !.since = n]
<1>1. PICK S : req[r] \in Local(S)
    BY DEF Typed, Shape
<1>2. /\ l \in Local(S \cup {"walk", "count", users, n}) /\ l.at = "count" /\ l.op = "walk"
      /\ l.start = users /\ l.since = n /\ l.target = req[r].target /\ l.page = req[r].page
      /\ l.answer = req[r].answer
    BY <1>1 DEF Local
<1>3. req' = [req EXCEPT ![r] = l]
    BY <1>1 DEF Typed
<1> HIDE DEF l
<1>4. Typed' /\ Others(r) /\ req'[r] = l
    BY <1>2, <1>3, Update DEF Shape
<1> QED BY <1>2, <1>4

\* A request begins in one of two ways.
LEMMA Starts ==
    ASSUME RecordsInv, NEW r \in Requests, Start(r)
    PROVE  /\ Typed' /\ Others(r) /\ req'[r].answer = req[r].answer /\ Course(r)'
           /\ req'[r].at \in {"check", "hash", "insert1", "reload", "load", "delete", "count"}
           /\ req'[r].target \in rows \cup gone
           /\ \/ req'[r].op # "walk"
              \/ /\ req'[r].op = "walk" /\ req'[r].at = "count" /\ req'[r].page = req[r].page
                 /\ req'[r].start = Users /\ req'[r].since = moves
<1>0. Typed /\ req[r].target \in rows \cup gone /\ Users \subseteq rows /\ Registered \subseteq rows
    BY DEF RecordsInv, RowsKept, Users, Registered
<1>1. CASE \E e \in Emails : \/ Begin(r, "create", "check", e, Old)
                             \/ Begin(r, "register", "hash", e, Old)
                             \/ Begin(r, "category", "insert1", e, Old)
  <2>1. PICK e \in Emails : \/ Begin(r, "create", "check", e, Old)
                            \/ Begin(r, "register", "hash", e, Old)
                            \/ Begin(r, "category", "insert1", e, Old)
      BY <1>1
  <2>2. PICK op \in Inserts, at \in {"check", "hash", "insert1"} : Begin(r, op, at, e, Old)
      BY <2>1 DEF Inserts
  <2>3. Typed' /\ Others(r) /\ req'[r].at = at /\ req'[r].op = op /\ req'[r].target = Old
        /\ req'[r].answer = req[r].answer
      BY <1>0, <2>2, BeginMoves
  <2>4. Old \in rows \cup gone
      BY DEF RecordsInv, RowsKept
  <2> QED BY <2>2, <2>3, <2>4 DEF Course, Inserts
<1>2. CASE \E x \in Users : Begin(r, "update", "reload", OldEmail, x)
                            \/ Begin(r, "delete", "delete", OldEmail, x)
  <2>1. PICK x \in Users : Begin(r, "update", "reload", OldEmail, x)
                           \/ Begin(r, "delete", "delete", OldEmail, x)
      BY <1>2
  <2>2. CASE Begin(r, "update", "reload", OldEmail, x)
      BY <1>0, <2>2, BeginMoves DEF Course
  <2>3. CASE Begin(r, "delete", "delete", OldEmail, x)
      BY <1>0, <2>3, BeginMoves DEF Course
  <2> QED BY <2>1, <2>2, <2>3
<1>3. CASE \E x \in Registered : Begin(r, "change", "load", OldEmail, x)
  <2>1. PICK x \in Registered : Begin(r, "change", "load", OldEmail, x)
      BY <1>3
  <2> QED BY <1>0, <2>1, BeginMoves DEF Course
<1>4. CASE req' = [req EXCEPT ![r].op = "walk", ![r].at = "count", ![r].start = Users,
                              ![r].since = moves]
  <2>1. PICK users, n : users = Users /\ n = moves
      OBVIOUS
  <2>2. req' = [req EXCEPT ![r].op = "walk", ![r].at = "count", ![r].start = users, ![r].since = n]
      BY <1>4, <2>1
  <2>3. /\ Typed' /\ Others(r) /\ req'[r].at = "count" /\ req'[r].op = "walk"
        /\ req'[r].start = users /\ req'[r].since = n /\ req'[r].target = req[r].target
        /\ req'[r].page = req[r].page /\ req'[r].answer = req[r].answer
      BY <1>0, <2>2, WalkMoves
  <2>4. Course(r)'
      BY <2>3 DEF Course
  <2> QED BY <1>0, <2>1, <2>3, <2>4
<1> QED BY <1>1, <1>2, <1>3, <1>4 DEF Start

\* Keys are stable once a request has begun.
LEMMA KeysStable ==
    ASSUME NEW r \in Requests, Same(r), NEW x \in Requests \cup {Old}, NEW y \in Requests \cup {Old}
    PROVE  SameKey(x, y)' <=> SameKey(x, y)
BY DEF Same, Others, SameKey, Table, Email

---------------------------------------------------------------------------
\* A step that neither takes nor returns a connection and touches no row.
LEMMA Quiet ==
    ASSUME RecordsInv, NEW r \in Requests, Typed', Same(r), UNCHANGED <<rows, gone, inserted, conn>>,
           req[r].at \notin {"answered", "commit"}, Course(r)',
           req'[r].at \notin {"commit", "cache"},
           r \in conn => req'[r].at \in Inside,
           r \in rows \cup gone => req'[r].at = "answered",
           req'[r].at # "answered" => req'[r].answer = 0,
           req[r].op \in Inserts => (req'[r].answer = 201 => r \in rows \cup gone) /\ req'[r].answer # 409
    PROVE  RecordsInv'
<1> USE DEF At
<1>1. PoolKept'
    BY DEF RecordsInv, PoolKept, Same, Others
<1>2. RowsKept'
    BY DEF RecordsInv, PoolKept, RowsKept, Same, Others
<1>3. \A x, y \in Requests \cup {Old} : SameKey(x, y)' <=> SameKey(x, y)
    BY KeysStable
<1>4. inserted \subseteq Requests /\ rows \cup gone \subseteq Requests \cup {Old}
    BY DEF RecordsInv, RowsKept, PoolKept
<1>5. Unique'
    BY <1>3, <1>4 DEF RecordsInv, Unique
<1>6. AnswersKnown'
    BY <1>3, <1>4 DEF RecordsInv, AnswersKnown, Same, Others
<1>7. \A q \in Requests : Course(q)'
    BY DEF RecordsInv, Course, Same, Others
<1> QED BY <1>1, <1>2, <1>5, <1>6, <1>7 DEF RecordsInv

\* A connection is returned.
LEMMA OneLess ==
    ASSUME RecordsInv, NEW r \in conn, conn' = conn \ {r}
    PROVE  IsFiniteSet(conn') /\ Cardinality(conn') <= PoolSize
<1>1. IsFiniteSet(conn) /\ Cardinality(conn) \in Nat /\ Cardinality(conn) <= PoolSize /\ PoolSize \in Nat
    BY FS_CardinalityType, RecordsAssumption DEF RecordsInv, PoolKept
<1>2. IsFiniteSet(conn \ {r}) /\ Cardinality(conn \ {r}) = Cardinality(conn) - 1
    BY <1>1, FS_RemoveElement
<1> QED BY <1>1, <1>2

\* The end of a unit of work that commits no row; it may delete one.
LEMMA Ends ==
    ASSUME RecordsInv, NEW r \in conn, Typed', Same(r), End(r),
           rows' \subseteq rows, rows' \cup gone' = rows \cup gone, rows' \cap gone' = {},
           Course(r)', req'[r].at # "commit",
           req'[r].at = "cache" => req[r].op # "create",
           req'[r].at # "answered" => req'[r].answer = 0,
           req[r].op \in Inserts =>
             req'[r].answer # 201 /\ (req'[r].answer = 409 => \E x \in rows \cup gone : SameKey(x, r))
    PROVE  RecordsInv'
<1> USE DEF At
<1>0. r \in Requests /\ r \notin rows \cup gone
    BY DEF RecordsInv, PoolKept, RowsKept, Inside, First
<1>a. conn' = conn \ {r} /\ inserted' = inserted \ {r}
    BY DEF End
<1>1. PoolKept'
    BY <1>a, <1>0, OneLess DEF RecordsInv, PoolKept, Same, Others
<1>2. RowsKept'
  <2>1. inserted' = {q \in conn' : At(q, "commit")'}
      BY <1>a, <1>0 DEF RecordsInv, PoolKept, RowsKept, Same, Others
  <2>2. \A q \in Requests :
          /\ req'[q].at = "cache" /\ req'[q].op = "create" => q \in rows' \cup gone'
          /\ q \in rows' \cup gone' => req'[q].op \in Inserts /\ req'[q].at \in {"cache", "answered"}
          /\ req'[q].target \in rows' \cup gone'
      BY <1>0 DEF RecordsInv, RowsKept, Same, Others
  <2> QED BY <2>1, <2>2 DEF RecordsInv, RowsKept
<1>3. \A x, y \in Requests \cup {Old} : SameKey(x, y)' <=> SameKey(x, y)
    BY <1>0, KeysStable
<1>4. inserted \subseteq Requests /\ rows \cup gone \subseteq Requests \cup {Old}
    BY DEF RecordsInv, RowsKept, PoolKept
<1>5. Unique'
    BY <1>3, <1>4, <1>a DEF RecordsInv, Unique
<1>6. AnswersKnown'
  <2>1. ASSUME NEW q \in Requests, q # r
        PROVE  /\ req'[q].at # "answered" => req'[q].answer = 0
               /\ req'[q].op \in Inserts /\ req'[q].answer = 201 => q \in rows' \cup gone'
               /\ req'[q].op \in Inserts /\ req'[q].answer = 409 =>
                    q \notin rows' \cup gone' /\ \E x \in rows' \cup gone' : SameKey(x, q)'
      BY <1>3, <1>4, <2>1 DEF RecordsInv, AnswersKnown, Same, Others
  <2>2. /\ req'[r].at # "answered" => req'[r].answer = 0
        /\ req'[r].op \in Inserts /\ req'[r].answer = 201 => r \in rows' \cup gone'
        /\ req'[r].op \in Inserts /\ req'[r].answer = 409 =>
             r \notin rows' \cup gone' /\ \E x \in rows' \cup gone' : SameKey(x, r)'
      BY <1>0, <1>3, <1>4 DEF Same
  <2> QED BY <2>1, <2>2 DEF AnswersKnown
<1>7. \A q \in Requests : Course(q)'
    BY <1>0 DEF RecordsInv, Course, Same, Others
<1> QED BY <1>1, <1>2, <1>5, <1>6, <1>7 DEF RecordsInv

---------------------------------------------------------------------------
\* A request begins; what it will insert is not there yet.
LEMMA StartStep == ASSUME RecordsInv, NEW r \in Requests, Start(r) PROVE RecordsInv'
<1> USE DEF At
<1>0. At(r, "new") /\ UNCHANGED <<rows, gone, inserted, conn>>
    BY DEF Start, table
<1>1. /\ Typed' /\ Others(r) /\ req'[r].answer = req[r].answer /\ Course(r)'
      /\ req'[r].at \in {"check", "hash", "insert1", "reload", "load", "delete", "count"}
      /\ req'[r].target \in rows \cup gone
    BY Starts
<1>2. r \notin rows \cup gone /\ r \notin conn /\ r \notin inserted /\ req[r].answer = 0
    BY <1>0 DEF RecordsInv, RowsKept, PoolKept, AnswersKnown, Inside, First
<1>3. PoolKept'
    BY <1>0, <1>1, <1>2 DEF RecordsInv, PoolKept, Others
<1>4. RowsKept'
    BY <1>0, <1>1, <1>2 DEF RecordsInv, PoolKept, RowsKept, Others
<1>5. \A x, y \in (Requests \cup {Old}) \ {r} : SameKey(x, y)' <=> SameKey(x, y)
    BY <1>1 DEF Others, SameKey, Table, Email
<1>6. inserted \subseteq Requests /\ rows \cup gone \subseteq Requests \cup {Old}
    BY DEF RecordsInv, RowsKept, PoolKept
<1>7. Unique'
    BY <1>0, <1>2, <1>5, <1>6 DEF RecordsInv, Unique
<1>8. AnswersKnown'
    BY <1>0, <1>1, <1>2, <1>5, <1>6 DEF RecordsInv, AnswersKnown, Others
<1>9. \A q \in Requests : Course(q)'
    BY <1>1 DEF RecordsInv, Course, Others
<1> QED BY <1>1, <1>3, <1>4, <1>7, <1>8, <1>9 DEF RecordsInv

LEMMA AcquireStep == ASSUME RecordsInv, NEW r \in Requests, Acquire(r) PROVE RecordsInv'
<1>1. /\ req[r].at \in First /\ Cardinality(conn) < PoolSize /\ r \notin conn
      /\ conn' = conn \cup {r} /\ UNCHANGED <<rows, gone, inserted, req>>
    BY DEF Acquire, table
<1>2. IsFiniteSet(conn') /\ Cardinality(conn') <= PoolSize
  <2>1. IsFiniteSet(conn) /\ Cardinality(conn) \in Nat /\ PoolSize \in Nat
      BY FS_CardinalityType, RecordsAssumption DEF RecordsInv, PoolKept
  <2>2. IsFiniteSet(conn \cup {r}) /\ Cardinality(conn \cup {r}) = Cardinality(conn) + 1
      BY <2>1, <1>1, FS_AddElement
  <2> QED BY <2>1, <2>2, <1>1
<1>3. PoolKept' /\ RowsKept'
    BY <1>1, <1>2 DEF RecordsInv, PoolKept, RowsKept, At, Inside, First
<1>4. \A x, y : SameKey(x, y)' <=> SameKey(x, y)
    BY <1>1 DEF SameKey, Table, Email
<1>5. Unique' /\ AnswersKnown' /\ Typed' /\ \A q \in Requests : Course(q)'
    BY <1>1, <1>4 DEF RecordsInv, Unique, AnswersKnown, Typed, Course, At
<1> QED BY <1>3, <1>5 DEF RecordsInv

\* INSERT: the index has seen no other row with the key, committed or not.
LEMMA InsertStep == ASSUME RecordsInv, NEW r \in Requests, Insert(r) PROVE RecordsInv'
<1> USE DEF At
<1>0. /\ req[r].at \in {"insert", "insert1"} /\ r \in conn /\ r \notin rows \cup gone
      /\ ~\E x \in inserted : SameKey(x, r)
      /\ UNCHANGED <<rows, gone>> /\ rows \cap gone = {} /\ Course(r) /\ Typed
    BY DEF Insert, RecordsInv, RowsKept, table
<1>1. CASE \E x \in rows : SameKey(x, r)
  <2>1. PICK status \in {409, 500} : Answer(r, status) /\ End(r)
      BY <1>1 DEF Insert
  <2>2. Typed' /\ Same(r) /\ req'[r].at = "answered" /\ req'[r].answer = status
      BY <1>0, <2>1, AnswerMoves
  <2> QED BY <2>1, <2>2, <1>0, <1>1, Ends DEF Course
<1>2. CASE ~\E x \in rows : SameKey(x, r)
  <2>1. inserted' = inserted \cup {r} /\ Go(r, "commit") /\ UNCHANGED <<rows, gone, conn>>
      BY <1>2, <1>0 DEF Insert
  <2>2. Typed' /\ Same(r) /\ req'[r].at = "commit" /\ req'[r].answer = req[r].answer
      BY <1>0, <2>1, GoMoves
  <2>3. PoolKept'
      BY <2>1, <2>2, <1>0 DEF RecordsInv, PoolKept, Same, Others, Inside
  <2>4. RowsKept'
      BY <2>1, <2>2, <1>0 DEF RecordsInv, PoolKept, RowsKept, Same, Others
  <2>5. \A x, y \in Requests \cup {Old} : SameKey(x, y)' <=> SameKey(x, y)
      BY <2>2, KeysStable
  <2>6. inserted \subseteq Requests /\ rows \cup gone \subseteq Requests \cup {Old}
      BY DEF RecordsInv, RowsKept, PoolKept
  <2>7. Unique'
    <3>1. \A x, y : SameKey(x, y) <=> SameKey(y, x)
        BY DEF SameKey
    <3> QED BY <2>1, <2>5, <2>6, <3>1, <1>0, <1>2 DEF RecordsInv, Unique
  <2>8. AnswersKnown'
      BY <2>1, <2>2, <2>5, <2>6, <1>0 DEF RecordsInv, AnswersKnown, Same, Others
  <2>9. \A q \in Requests : Course(q)'
      BY <2>2, <1>0 DEF RecordsInv, Course, Same, Others
  <2> QED BY <2>2, <2>3, <2>4, <2>7, <2>8, <2>9 DEF RecordsInv
<1> QED BY <1>1, <1>2

LEMMA CommitStep == ASSUME RecordsInv, NEW r \in Requests, Commit(r) PROVE RecordsInv'
<1> USE DEF At
<1>0. /\ At(r, "commit") /\ r \in conn /\ r \in inserted /\ req[r].op \in Inserts /\ Typed
      /\ req[r].answer = 0 /\ r \notin rows \cup gone
      /\ conn' = conn \ {r} /\ inserted' = inserted \ {r} /\ rows' = rows \cup {r} /\ gone' = gone
    BY DEF Commit, End, RecordsInv, RowsKept, AnswersKnown, Course
<1>1. /\ Typed' /\ Same(r)
      /\ \/ req'[r].at = "cache" /\ req'[r].answer = 0
         \/ req'[r].at = "answered" /\ req'[r].answer = 201
    BY <1>0, GoMoves, AnswerMoves DEF Commit
<1>2. PoolKept'
    BY <1>0, <1>1, OneLess DEF RecordsInv, PoolKept, Same, Others
<1>3. RowsKept'
    BY <1>0, <1>1 DEF RecordsInv, PoolKept, RowsKept, Same, Others
<1>4. \A x, y \in Requests \cup {Old} : SameKey(x, y)' <=> SameKey(x, y)
    BY <1>1, KeysStable
<1>5. inserted \subseteq Requests /\ rows \cup gone \subseteq Requests \cup {Old}
    BY DEF RecordsInv, RowsKept, PoolKept
<1>6. Unique'
    BY <1>0, <1>4, <1>5 DEF RecordsInv, Unique
<1>7. AnswersKnown'
    BY <1>0, <1>1, <1>4, <1>5 DEF RecordsInv, AnswersKnown, Same, Others
<1>8. \A q \in Requests : Course(q)'
    BY <1>0, <1>1 DEF RecordsInv, Course, Same, Others
<1> QED BY <1>1, <1>2, <1>3, <1>6, <1>7, <1>8 DEF RecordsInv

\* What the page's SELECT changes in its request.
LEMMA SelectMoves ==
    ASSUME Typed, NEW r \in Requests, Select(r)
    PROVE  \E done \in BOOLEAN :
             /\ done <=> req[r].page * PerPage >= req[r].total
             /\ Typed' /\ Same(r)
             /\ req'[r].start = req[r].start /\ req'[r].since = req[r].since
             /\ req'[r].got = req[r].got \cup Page(req[r].page)
             /\ req'[r].torn <=> req[r].total # Cardinality(Users)
             /\ req'[r].page = IF done THEN req[r].page ELSE req[r].page + 1
             /\ req'[r].at = IF done THEN "answered" ELSE "count"
             /\ req'[r].answer = IF done THEN 200 ELSE 0
<1>1. PICK S : req[r] \in Local(S)
    BY DEF Typed, Shape
<1> DEFINE done == req[r].page * PerPage >= req[r].total
           got == req[r].got \cup Page(req[r].page)
           torn == req[r].total # Cardinality(Users)
           page == IF done THEN req[r].page ELSE req[r].page + 1
           at == IF done THEN "answered" ELSE "count"
           answer == IF done THEN 200 ELSE 0
           l == [req[r] EXCEPT !.got = got, !.torn = torn, !.page = page, !.at = at,
                               !.answer = answer]
<1>3. req' = [req EXCEPT ![r].got = got, ![r].torn = torn, ![r].page = page, ![r].at = at,
                         ![r].answer = answer]
    BY DEF Select
<1> HIDE DEF done, got, torn, page, at, answer
<1>4. l \in Local(S \cup {got, torn, page, at, answer}) /\ l.at = at /\ l.answer = answer
      /\ l.op = req[r].op /\ l.email = req[r].email /\ l.target = req[r].target
      /\ l.start = req[r].start /\ l.since = req[r].since
      /\ l.got = got /\ l.torn = torn /\ l.page = page
    BY <1>1 DEF Local
<1>5. req' = [req EXCEPT ![r] = l]
    BY <1>1, <1>3 DEF Typed
<1> HIDE DEF l
<1>6. Typed' /\ Others(r) /\ req'[r] = l
    BY <1>4, <1>5, Update DEF Shape
<1>7. /\ Same(r) /\ req'[r].start = req[r].start /\ req'[r].since = req[r].since
      /\ req'[r].got = got /\ req'[r].torn = torn /\ req'[r].page = page /\ req'[r].at = at
      /\ req'[r].answer = answer
    BY <1>4, <1>6 DEF Same
<1>8. PICK d \in BOOLEAN : d <=> done
    OBVIOUS
<1>9. /\ d <=> req[r].page * PerPage >= req[r].total
      /\ page = IF d THEN req[r].page ELSE req[r].page + 1
      /\ at = IF d THEN "answered" ELSE "count"
      /\ answer = IF d THEN 200 ELSE 0
    BY <1>8 DEF done, page, at, answer
<1>10. /\ req'[r].page = IF d THEN req[r].page ELSE req[r].page + 1
       /\ req'[r].at = IF d THEN "answered" ELSE "count"
       /\ req'[r].answer = IF d THEN 200 ELSE 0
    BY <1>7, <1>9
<1>11. req'[r].got = req[r].got \cup Page(req[r].page) /\ (req'[r].torn <=> req[r].total # Cardinality(Users))
    BY <1>7 DEF got, torn
<1> QED BY <1>6, <1>7, <1>9, <1>10, <1>11, Zenon

---------------------------------------------------------------------------
LEMMA RecordsInit == Init => RecordsInv
<1> SUFFICES ASSUME Init PROVE RecordsInv
    OBVIOUS
<1>1. Fresh \in Local({"none", "new", OldEmail, Old, 0, 1, {}, FALSE})
    BY DEF Fresh, Local
<1>2. Typed
    BY <1>1 DEF Init, Typed, Shape
<1>3. PoolKept
    BY FS_EmptySet, RecordsAssumption DEF Init, PoolKept
<1>4. RowsKept /\ Unique /\ AnswersKnown /\ \A r \in Requests : Course(r)
    BY DEF Init, RowsKept, Unique, AnswersKnown, Course, At, Fresh
<1> QED BY <1>2, <1>3, <1>4 DEF RecordsInv

LEMMA RecordsStep == RecordsInv /\ [Next]_vars => RecordsInv'
<1> SUFFICES ASSUME RecordsInv, [Next]_vars PROVE RecordsInv'
    OBVIOUS
<1>t. Typed /\ rows \cap gone = {} /\ \A r \in Requests : (r \in conn => req[r].at \in Inside) /\ Course(r)
    BY DEF RecordsInv, PoolKept, RowsKept
<1>a. \A r \in Requests : ~At(r, "answered") => req[r].answer = 0
    BY DEF RecordsInv, AnswersKnown
<1>r. \A r \in Requests : r \in rows \cup gone => req[r].at \in {"cache", "answered"} /\ req[r].op \in Inserts
    BY DEF RecordsInv, RowsKept
<1> USE DEF At, table
<1>1. ASSUME NEW r \in Requests, PoolTimeout(r) PROVE RecordsInv'
  <2>1. /\ req[r].at \in First /\ r \notin conn /\ Answer(r, 500)
        /\ UNCHANGED <<rows, gone, inserted, conn>>
      BY <1>1 DEF PoolTimeout
  <2>2. Typed' /\ Same(r) /\ req'[r].at = "answered" /\ req'[r].answer = 500
      BY <1>t, <2>1, AnswerMoves
  <2> QED BY <2>1, <2>2, <1>r, Quiet DEF First, Course
<1>2. ASSUME NEW r \in Requests, NEW status, Answer(r, status), r \in conn, End(r), UNCHANGED <<rows, gone>>,
             req[r].op \in Inserts => status # 201 /\ (status = 409 => \E x \in rows : SameKey(x, r))
      PROVE  RecordsInv'
  <2>1. Typed' /\ Same(r) /\ req'[r].at = "answered" /\ req'[r].answer = status
      BY <1>t, <1>2, AnswerMoves
  <2>2. Course(r)'
      BY <2>1 DEF Course
  <2> QED BY <1>2, <1>t, <2>1, <2>2, Ends
<1>3. ASSUME NEW r \in Requests, NEW step, Go(r, step), r \in conn, End(r), UNCHANGED <<rows, gone>>,
             req[r].at \in {"load", "write", "refresh"}, step \in {"verify", "refresh", "cache"}
      PROVE  RecordsInv'
  <2>1. Typed' /\ Same(r) /\ req'[r].at = step /\ req'[r].answer = 0
      BY <1>t, <1>a, <1>3, GoMoves
  <2>2. Course(r)' /\ req[r].op \notin Inserts
      BY <2>1, <1>3, <1>t DEF Course, Same, Inserts
  <2> QED BY <1>3, <1>t, <2>1, <2>2, Ends DEF Inserts
<1>4. ASSUME NEW r \in Requests, Hash(r) PROVE RecordsInv'
  <2>1. UNCHANGED <<rows, gone, inserted, conn>>
      BY <1>4 DEF Hash
  <2>2. ASSUME NEW step, Go(r, step), step \in {"check", "reload"},
               step = "check" => req[r].at = "hash", step = "reload" => req[r].at = "rehash"
        PROVE  RecordsInv'
    <3>1. req[r].at \in {"hash", "rehash"} /\ req[r].answer = 0
        BY <2>2, <1>a
    <3>2. Typed' /\ Same(r) /\ req'[r].at = step /\ req'[r].answer = 0
        BY <1>t, <2>2, <3>1, GoMoves
    <3>3. Course(r)'
        BY <2>2, <3>2, <1>t DEF Course, Same
    <3> QED BY <2>1, <2>2, <3>1, <3>2, <3>3, <1>r, Quiet DEF Inside, First
  <2> QED BY <1>4, <2>2 DEF Hash
<1>5. ASSUME NEW r \in Requests, Check(r) PROVE RecordsInv'
  <2>1. CASE \E x \in rows : SameKey(x, r)
    <3>1. Answer(r, 409) /\ r \in conn /\ End(r) /\ UNCHANGED <<rows, gone>>
        BY <2>1, <1>5 DEF Check
    <3> QED BY <2>1, <3>1, <1>2
  <2>2. CASE ~\E x \in rows : SameKey(x, r)
    <3>1. req[r].at = "check" /\ Go(r, "insert") /\ UNCHANGED <<rows, gone, inserted, conn>>
        BY <2>2, <1>5 DEF Check
    <3>2. Typed' /\ Same(r) /\ req'[r].at = "insert" /\ req'[r].answer = 0
        BY <3>1, <1>t, <1>a, GoMoves
    <3>3. Course(r)'
        BY <3>1, <3>2, <1>t DEF Course, Same
    <3> QED BY <3>1, <3>2, <3>3, <1>r, Quiet DEF Inside, First
  <2> QED BY <2>1, <2>2
<1>6. ASSUME NEW r \in Requests, Cache(r) PROVE RecordsInv'
  <2>1. req[r].at = "cache" /\ r \notin conn /\ UNCHANGED <<rows, gone, inserted, conn>>
      BY <1>6, <1>t DEF Cache, Inside, First
  <2>2. PICK status : Answer(r, status) /\ status # 409 /\ (status = 201 => req[r].op = "create")
      BY <1>6 DEF Cache
  <2>3. Typed' /\ Same(r) /\ req'[r].at = "answered" /\ req'[r].answer = status
      BY <1>t, <2>2, AnswerMoves
  <2>4. req[r].op = "create" => r \in rows \cup gone
      BY <2>1 DEF RecordsInv, RowsKept
  <2>5. Course(r)'
      BY <2>3 DEF Course
  <2> QED BY <2>1, <2>2, <2>3, <2>4, <2>5, Quiet
<1>7. ASSUME NEW r \in Requests, Load(r) PROVE RecordsInv'
  <2>1. r \in conn /\ End(r) /\ UNCHANGED <<rows, gone>> /\ req[r].at = "load" /\ req[r].op \notin Inserts
      BY <1>7, <1>t DEF Load, Course, Inserts
  <2> QED BY <2>1, <1>2, <1>3, <1>7 DEF Load
<1>8. ASSUME NEW r \in Requests, Verify(r) PROVE RecordsInv'
  <2>1. /\ req[r].at = "verify" /\ r \notin conn /\ r \notin rows \cup gone /\ req[r].op \notin Inserts
        /\ UNCHANGED <<rows, gone, inserted, conn>>
      BY <1>8, <1>t, <1>r DEF Verify, Course, Inserts, Inside, First
  <2>2. CASE Go(r, "rehash")
    <3>1. Typed' /\ Same(r) /\ req'[r].at = "rehash" /\ req'[r].answer = 0
        BY <1>t, <1>a, <2>1, <2>2, GoMoves
    <3>2. Course(r)'
        BY <3>1, <2>1, <1>t DEF Course, Same
    <3> QED BY <2>1, <3>1, <3>2, Quiet
  <2>3. CASE Answer(r, 401)
    <3>1. Typed' /\ Same(r) /\ req'[r].at = "answered" /\ req'[r].answer = 401
        BY <1>t, <2>3, AnswerMoves
    <3>2. Course(r)'
        BY <3>1 DEF Course
    <3> QED BY <2>1, <3>1, <3>2, Quiet
  <2> QED BY <1>8, <2>2, <2>3 DEF Verify
<1>9. ASSUME NEW r \in Requests, Reload(r) PROVE RecordsInv'
  <2>0. req[r].at = "reload" /\ r \in conn /\ UNCHANGED <<rows, gone>> /\ req[r].op \notin Inserts
      BY <1>9, <1>t DEF Reload, Course, Inserts
  <2>1. CASE req[r].target \in rows
    <3>1. /\ req' = [req EXCEPT ![r].at = "write", ![r].version = version[req[r].target]]
          /\ UNCHANGED <<inserted, conn>>
        BY <1>9, <2>1 DEF Reload
    <3>2. Typed' /\ Same(r) /\ req'[r].at = "write" /\ req'[r].answer = 0
        BY <1>t, <1>a, <2>0, <3>1, ReadMoves
    <3>3. Course(r)'
        BY <3>2, <2>0, <1>t DEF Course, Same
    <3> QED BY <2>0, <3>1, <3>2, <3>3, <1>r, Quiet DEF Inside, First
  <2>2. CASE req[r].target \notin rows
    <3>1. PICK status \in {401, 404} : Answer(r, status) /\ End(r)
        BY <1>9, <2>2 DEF Reload
    <3> QED BY <2>0, <3>1, <1>2
  <2> QED BY <2>1, <2>2
<1>10. ASSUME NEW r \in Requests, Write(r) PROVE RecordsInv'
  <2>0. req[r].at = "write" /\ r \in conn /\ End(r) /\ UNCHANGED <<rows, gone>> /\ req[r].op \notin Inserts
      BY <1>10, <1>t DEF Write, Course, Inserts
  <2>1. CASE Go(r, "refresh")
      BY <2>0, <2>1, <1>3
  <2>2. CASE \E status \in {200, 409, 500} : Answer(r, status)
    <3>1. PICK status \in {200, 409, 500} : Answer(r, status)
        BY <2>2
    <3> QED BY <2>0, <3>1, <1>2
  <2> QED BY <1>10, <2>1, <2>2 DEF Write
<1>11. ASSUME NEW r \in Requests, Refresh(r) PROVE RecordsInv'
  <2>1. r \in conn /\ End(r) /\ UNCHANGED <<rows, gone>> /\ req[r].at = "refresh" /\ req[r].op \notin Inserts
      BY <1>11, <1>t DEF Refresh, Course, Inserts
  <2> QED BY <2>1, <1>2, <1>3, <1>11 DEF Refresh
<1>12. ASSUME NEW r \in Requests, Delete(r) PROVE RecordsInv'
  <2>0. req[r].at = "delete" /\ r \in conn /\ UNCHANGED <<rows, gone>> /\ req[r].op = "delete"
      BY <1>12, <1>t DEF Delete, Course
  <2>1. CASE Go(r, "remove") /\ UNCHANGED <<inserted, conn>>
    <3>1. Typed' /\ Same(r) /\ req'[r].at = "remove" /\ req'[r].answer = 0
        BY <1>t, <1>a, <2>0, <2>1, GoMoves
    <3>2. Course(r)'
        BY <3>1, <2>0 DEF Course, Same
    <3> QED BY <2>0, <2>1, <3>1, <3>2, <1>r, Quiet DEF Inside, First, Inserts
  <2>2. CASE Answer(r, 404) /\ End(r)
      BY <2>0, <2>2, <1>2 DEF Inserts
  <2> QED BY <1>12, <2>1, <2>2 DEF Delete
<1>13. ASSUME NEW r \in Requests, Remove(r) PROVE RecordsInv'
  <2>1. /\ req[r].at = "remove" /\ r \in conn /\ End(r) /\ Go(r, "cache") /\ req[r].op = "delete"
        /\ rows' = rows \ {req[r].target} /\ gone' = gone \cup {req[r].target}
      BY <1>13, <1>t DEF Remove, Course
  <2>2. req[r].target \in rows \cup gone
      BY DEF RecordsInv, RowsKept
  <2>3. rows' \subseteq rows /\ rows' \cup gone' = rows \cup gone /\ rows' \cap gone' = {}
      BY <2>1, <2>2, <1>t
  <2>4. Typed' /\ Same(r) /\ req'[r].at = "cache" /\ req'[r].answer = 0
      BY <1>t, <1>a, <2>1, GoMoves
  <2>5. Course(r)'
      BY <2>4 DEF Course
  <2> QED BY <2>1, <2>3, <2>4, <2>5, Ends DEF Inserts
<1>14. ASSUME NEW r \in Requests, BadQuery(r) PROVE RecordsInv'
  <2>1. /\ Answer(r, 400) /\ End(r) /\ UNCHANGED <<rows, gone>>
        /\ \/ req[r].at = "count" /\ r \notin conn
           \/ r \in conn
      BY <1>14 DEF BadQuery
  <2>2. CASE r \in conn
      BY <2>1, <2>2, <1>2
  <2>3. CASE req[r].at = "count" /\ r \notin conn
    <3>1. Typed' /\ Same(r) /\ req'[r].at = "answered" /\ req'[r].answer = 400
        BY <1>t, <2>1, AnswerMoves
    <3>2. r \notin inserted
        BY <2>3 DEF RecordsInv, RowsKept
    <3>3. UNCHANGED <<rows, gone, inserted, conn>> /\ Course(r)'
        BY <2>1, <2>3, <3>1, <3>2 DEF End, Course
    <3> QED BY <2>3, <3>1, <3>3, Quiet
  <2> QED BY <2>1, <2>2, <2>3
<1>15. ASSUME NEW r \in Requests, Count(r) PROVE RecordsInv'
  <2>1. req[r].at = "count" /\ UNCHANGED <<rows, gone, inserted, conn>> /\ r \notin rows \cup gone
      BY <1>15, <1>r DEF Count
  <2>2. Typed' /\ Same(r) /\ req'[r].at = "select" /\ req'[r].answer = 0
      BY <1>15, <1>t, <1>a, <2>1, CountMoves
  <2>3. Course(r)'
      BY <2>2 DEF Course
  <2> QED BY <2>1, <2>2, <2>3, Quiet DEF Inside, First
<1>16. ASSUME NEW r \in Requests, Select(r) PROVE RecordsInv'
  <2>1. r \in conn /\ End(r) /\ UNCHANGED <<rows, gone>>
      BY <1>16 DEF Select
  <2>2. PICK done \in BOOLEAN :
          /\ Typed' /\ Same(r)
          /\ req'[r].at = IF done THEN "answered" ELSE "count"
          /\ req'[r].answer = IF done THEN 200 ELSE 0
      BY <1>16, <1>t, SelectMoves, Zenon
  <2>3. Course(r)'
      BY <2>2 DEF Course
  <2> QED BY <2>1, <2>2, <2>3, <1>t, Ends
<1>17. CASE UNCHANGED vars
  <2>1. UNCHANGED <<rows, gone, inserted, conn, req>>
      BY <1>17 DEF vars
  <2>2. \A x, y : SameKey(x, y)' <=> SameKey(x, y)
      BY <2>1 DEF SameKey, Table, Email
  <2>3. Typed' /\ PoolKept' /\ RowsKept' /\ \A r \in Requests : Course(r)'
      BY <2>1 DEF RecordsInv, Typed, PoolKept, RowsKept, Course
  <2>4. Unique' /\ AnswersKnown'
      BY <2>1, <2>2 DEF RecordsInv, Unique, AnswersKnown
  <2> QED BY <2>3, <2>4 DEF RecordsInv
<1>18. ASSUME NEW r \in Requests, Fail(r) PROVE RecordsInv'
    BY <1>2, <1>18 DEF Fail
<1> QED BY <1>1, <1>4, <1>5, <1>6, <1>7, <1>8, <1>9, <1>10, <1>11, <1>12, <1>13, <1>14, <1>15,
           <1>16, <1>17, <1>18, StartStep, AcquireStep, InsertStep, CommitStep DEF Next, Step

\* For any number of requests and connections: no connection is held outside a
\* unit of work, nor is an uncommitted row (UnitOfWork.__aexit__).
THEOREM PoolCorrect == Spec => []ConnectionsReturned
<1>1. RecordsInv => ConnectionsReturned
    BY DEF RecordsInv, PoolKept, RowsKept, ConnectionsReturned, At, Inside, First
<1> QED BY <1>1, RecordsInit, RecordsStep, PTL DEF Spec

\* For any number of concurrent requests, deletions among them, the unique index
\* leaves one row per key, and every 201 and 409 of an insertion is true.
THEOREM UniqueCorrect == Spec => []OneWinnerPerEmail
<1>1. RecordsInv => OneWinnerPerEmail
    BY DEF RecordsInv, PoolKept, Unique, AnswersKnown, OneWinnerPerEmail, At, Inside, First
<1> QED BY <1>1, RecordsInit, RecordsStep, PTL DEF Spec
---------------------------------------------------------------------------
(* Places.  Below(U, p, x): the rows of U up to x in the order p;          *)
(* Before(U, p, S, k): the rows of S among the first k of them.            *)
Below(U, p, x) == {y \in U : p[y] <= p[x]}
Before(U, p, S, k) == {x \in S \cap U : Cardinality(Below(U, p, x)) <= k}

\* A finite set of rows with places of their own.
Order(U, p) ==
    /\ IsFiniteSet(U) /\ \A x \in U : p[x] \in Nat
    /\ \A x, y \in U : p[x] = p[y] => x = y

\* Each row has a rank of its own.
LEMMA Ranks ==
    ASSUME NEW U, NEW p, Order(U, p), NEW x \in U
    PROVE  /\ IsFiniteSet(Below(U, p, x)) /\ Cardinality(Below(U, p, x)) \in 1..Cardinality(U)
           /\ \A y \in U : Cardinality(Below(U, p, y)) = Cardinality(Below(U, p, x)) => y = x
<1>1. \A y \in U : Below(U, p, y) \subseteq U /\ y \in Below(U, p, y)
    BY DEF Below, Order
<1>2. \A y \in U : IsFiniteSet(Below(U, p, y)) /\ Cardinality(Below(U, p, y)) \in Nat
                   /\ Cardinality(Below(U, p, y)) <= Cardinality(U)
    BY <1>1, FS_Subset, FS_CardinalityType DEF Order
<1>3. Cardinality(Below(U, p, x)) # 0
    BY <1>1, <1>2, FS_EmptySet
<1>4. ASSUME NEW a \in U, NEW b \in U, p[a] <= p[b],
             Cardinality(Below(U, p, a)) = Cardinality(Below(U, p, b))
      PROVE  a = b
  <2>1. Below(U, p, a) \subseteq Below(U, p, b)
      BY <1>4 DEF Below, Order
  <2>2. Below(U, p, a) = Below(U, p, b)
      BY <1>2, <1>4, <2>1, FS_Subset
  <2>3. p[b] <= p[a]
      BY <1>1, <2>2 DEF Below
  <2> QED BY <1>4, <2>3 DEF Order
<1>5. \A y \in U : p[x] <= p[y] \/ p[y] <= p[x]
    BY DEF Order
<1>6. Cardinality(U) \in Nat
    BY FS_CardinalityType DEF Order
<1>7. Cardinality(Below(U, p, x)) \in 1..Cardinality(U)
    BY <1>2, <1>3, <1>6
<1> QED BY <1>2, <1>4, <1>5, <1>7

\* The rows of a step that gives one row t another place, a first or none: for
\* the others the rows before them are the same but for t.
Rearranged(U, p, V, q, t) ==
    /\ Order(U, p) /\ Order(V, q)
    /\ U \ {t} = V \ {t}
    /\ \A y, z \in U \ {t} : q[y] < q[z] <=> p[y] < p[z]

LEMMA Neighbours ==
    ASSUME NEW U, NEW p, NEW V, NEW q, NEW t, Rearranged(U, p, V, q, t), NEW x \in U \ {t}
    PROVE  /\ Below(U, p, x) \ {t} = Below(V, q, x) \ {t}
           /\ x \in V
           /\ Cardinality(Below(U, p, x)) \in Nat /\ Cardinality(Below(V, q, x)) \in Nat
           /\ t \notin Below(U, p, x) => Cardinality(Below(U, p, x)) <= Cardinality(Below(V, q, x))
           /\ Cardinality(Below(U, p, x)) <= Cardinality(Below(V, q, x)) + 1
<1>0. x \in V /\ Order(U, p) /\ Order(V, q)
    BY DEF Rearranged
<1>1. Below(U, p, x) \ {t} = Below(V, q, x) \ {t}
  <2>1. ASSUME NEW y, y # t PROVE y \in Below(U, p, x) <=> y \in Below(V, q, x)
    <3>1. y \in U <=> y \in V
        BY <2>1 DEF Rearranged
    <3>2. ASSUME y \in U PROVE p[y] <= p[x] <=> q[y] <= q[x]
      <4>1. q[x] < q[y] <=> p[x] < p[y]
          BY <2>1, <3>2 DEF Rearranged
      <4>2. y \in V /\ p[x] \in Nat /\ p[y] \in Nat /\ q[x] \in Nat /\ q[y] \in Nat
          BY <1>0, <3>1, <3>2 DEF Order
      <4> QED BY <4>1, <4>2
    <3> QED BY <3>1, <3>2 DEF Below
  <2> QED BY <2>1
<1> DEFINE A == Below(U, p, x)  B == Below(V, q, x)
<1>2. IsFiniteSet(A) /\ IsFiniteSet(B)
    BY <1>0, Ranks
<1> HIDE DEF A, B
<1>3. A \ {t} = B \ {t}
    BY <1>1 DEF A, B
<1>4. /\ Cardinality(A) \in Nat /\ Cardinality(B) \in Nat
      /\ Cardinality(A \ {t}) = IF t \in A THEN Cardinality(A) - 1 ELSE Cardinality(A)
      /\ Cardinality(B \ {t}) = IF t \in B THEN Cardinality(B) - 1 ELSE Cardinality(B)
    BY <1>2, FS_CardinalityType, FS_RemoveElement
<1>5. Cardinality(A \ {t}) = Cardinality(B \ {t})
    BY <1>3
<1>6. /\ t \notin A => Cardinality(A) <= Cardinality(B)
      /\ Cardinality(A) <= Cardinality(B) + 1
    BY <1>4, <1>5
<1> QED BY <1>0, <1>1, <1>4, <1>6 DEF A, B

\* A row that was not there moves no other row to an earlier page.
LEMMA NewcomersPushBack ==
    ASSUME NEW U, NEW p, NEW V, NEW q, NEW t, Rearranged(U, p, V, q, t), t \notin U,
           NEW S, t \notin S, NEW k \in Nat
    PROVE  Before(V, q, S, k) \subseteq Before(U, p, S, k)
<1> SUFFICES ASSUME NEW x \in Before(V, q, S, k) PROVE x \in Before(U, p, S, k)
    OBVIOUS
<1>1. x \in S /\ x \in V /\ Cardinality(Below(V, q, x)) <= k /\ x # t
    BY DEF Before
<1>2. x \in U \ {t}
    BY <1>1 DEF Rearranged
<1>3. Cardinality(Below(U, p, x)) <= Cardinality(Below(V, q, x))
      /\ Cardinality(Below(U, p, x)) \in Nat /\ Cardinality(Below(V, q, x)) \in Nat
  <2>1. t \notin Below(U, p, x)
      BY DEF Below
  <2> QED BY <1>2, <2>1, Neighbours
<1>4. Cardinality(Below(U, p, x)) <= k
    BY <1>1, <1>3
<1> QED BY <1>1, <1>2, <1>4 DEF Before

\* A row that is moved or taken away brings at most one row, which may be itself,
\* to the pages before.
LEMMA OneComesForward ==
    ASSUME NEW U, NEW p, NEW V, NEW q, NEW t, Rearranged(U, p, V, q, t), NEW S, NEW k \in Nat
    PROVE  \E z : Before(V, q, S, k) \subseteq Before(U, p, S, k) \cup {z}
<1> DEFINE News == Before(V, q, S, k) \ Before(U, p, S, k)
<1>0. Order(U, p) /\ Order(V, q)
    BY DEF Rearranged
<1>1. ASSUME NEW x \in News, x # t
      PROVE  x \in U /\ Cardinality(Below(U, p, x)) = k + 1 /\ t \in Below(U, p, x)
  <2>1. x \in S /\ x \in V /\ Cardinality(Below(V, q, x)) <= k
      BY DEF Before
  <2>2. x \in U \ {t}
      BY <1>1, <2>1 DEF Rearranged
  <2>3. ~(Cardinality(Below(U, p, x)) <= k)
      BY <2>1, <2>2 DEF Before
  <2>4. /\ Cardinality(Below(U, p, x)) \in Nat /\ Cardinality(Below(V, q, x)) \in Nat
        /\ t \notin Below(U, p, x) => Cardinality(Below(U, p, x)) <= Cardinality(Below(V, q, x))
        /\ Cardinality(Below(U, p, x)) <= Cardinality(Below(V, q, x)) + 1
      BY <2>2, Neighbours
  <2> QED BY <2>1, <2>2, <2>3, <2>4
<1>2. ASSUME t \in News, NEW x \in News PROVE x = t
  <2> SUFFICES ASSUME x # t PROVE FALSE
      OBVIOUS
  <2>1. x \in U /\ Cardinality(Below(U, p, x)) = k + 1 /\ t \in Below(U, p, x)
      BY <1>1
  <2>2. t \in U /\ p[t] <= p[x]
      BY <2>1 DEF Below
  <2>3. ~(Cardinality(Below(U, p, t)) <= k)
      BY <1>2, <2>2 DEF Before
  <2>4. Below(U, p, t) \subseteq Below(U, p, x)
      BY <1>0, <2>1, <2>2 DEF Below, Order
  <2>5. IsFiniteSet(Below(U, p, x)) /\ Cardinality(Below(U, p, t)) \in Nat
    <3>1. Cardinality(Below(U, p, t)) \in 1..Cardinality(U) /\ Cardinality(U) \in Nat
        BY <1>0, <2>2, Ranks, FS_CardinalityType DEF Order
    <3> QED BY <1>0, <2>1, <3>1, Ranks
  <2>6. Cardinality(Below(U, p, t)) <= Cardinality(Below(U, p, x))
      BY <2>4, <2>5, FS_Subset
  <2>7. Cardinality(Below(U, p, t)) = Cardinality(Below(U, p, x))
      BY <2>1, <2>3, <2>5, <2>6
  <2> QED BY <1>0, <2>1, <2>2, <2>7, Ranks
<1>3. ASSUME t \notin News, NEW x \in News, NEW y \in News PROVE x = y
  <2> HIDE DEF News
  <2>1. x # t /\ y # t
      BY <1>3
  <2>2. x \in U /\ y \in U /\ Cardinality(Below(U, p, x)) = Cardinality(Below(U, p, y))
      BY <1>1, <2>1
  <2> QED BY <1>0, <2>2, Ranks
<1> HIDE DEF News
<1>4. \E z : News \subseteq {z}
    BY <1>2, <1>3
<1> QED BY <1>4 DEF News

---------------------------------------------------------------------------
(* The walks over the pages.                                               *)

OrderKept == IsFiniteSet(rows) /\ moves \in Nat /\ Order(Users, place)

\* Of the rows that a walk has not got, those on the pages it has asked for are as
\* many as deletions and updates since it began; it ends with those at most,
\* when the last page was seen with the rows that were counted.
WalkOf(r) ==
    /\ req[r].at \in {"count", "select", "answered"}
    /\ req[r].page \in Nat \ {0}
    /\ req[r].since \in Nat
    /\ req[r].start \subseteq rows \cup gone
    /\ ~At(r, "answered") =>
         Cardinality(Before(Users, place, req[r].start \ req[r].got, (req[r].page - 1) * PerPage))
           <= moves - req[r].since
    /\ req[r].answer = 200 /\ ~req[r].torn =>
         Cardinality((req[r].start \ req[r].got) \cap Users) <= moves - req[r].since

WalksKept ==
    \A r \in Requests :
        /\ At(r, "new") => req[r].page = 1
        /\ req[r].op = "walk" => WalkOf(r)

WalkInv == OrderKept /\ WalksKept

\* What a step may do to the walks: no set of rows that have been there comes
\* forward by more rows than the step counts as moves.
Drift ==
    /\ OrderKept' /\ moves <= moves' /\ rows \cup gone \subseteq rows' \cup gone'
    /\ \A S \in SUBSET (rows \cup gone) :
        /\ S \cap Users' \subseteq S \cap Users
        /\ \A k \in Nat : \A n \in Nat :
             Cardinality(Before(Users, place, S, k)) <= moves - n =>
               Cardinality(Before(Users', place', S, k)) <= moves' - n

LEMMA UsersFinite ==
    ASSUME IsFiniteSet(rows)
    PROVE  IsFiniteSet(Users) /\ Cardinality(Users) \in Nat
<1>1. Users \subseteq rows
    BY DEF Users
<1> QED BY <1>1, FS_Subset, FS_CardinalityType

LEMMA BeforeFinite ==
    ASSUME NEW U, NEW p, IsFiniteSet(U), NEW S, NEW k
    PROVE  IsFiniteSet(Before(U, p, S, k)) /\ Cardinality(Before(U, p, S, k)) \in Nat
<1>1. Before(U, p, S, k) \subseteq U
    BY DEF Before
<1> QED BY <1>1, FS_Subset, FS_CardinalityType

\* The new order of a step rearranges the old one.
LEMMA OrdersRearrange ==
    ASSUME Order(Users, place), NEW users, IsFiniteSet(users), NEW t,
           users \ {t} = Users \ {t}, NEW p \in Orders(users, t)
    PROVE  Rearranged(Users, place, users, p, t)
<1>1. /\ p \in [users -> 1..Cardinality(users)]
      /\ \A y, z \in users : p[y] = p[z] => y = z
      /\ \A y, z \in users \ {t} : p[y] < p[z] <=> place[y] < place[z]
    BY DEF Orders
<1>2. Cardinality(users) \in Nat
    BY FS_CardinalityType
<1>3. \A y \in users : p[y] \in Nat
    BY <1>1, <1>2
<1>4. Order(users, p)
    BY <1>1, <1>3 DEF Order
<1> QED BY <1>1, <1>4 DEF Rearranged

\* Rows keep their table.
LEMMA UsersStay ==
    ASSUME RecordsInv, NEW r \in Requests, Others(r), req'[r].op = req[r].op \/ r \notin rows
    PROVE  \A x \in rows : Table(x)' = Table(x)
<1>1. rows \subseteq Requests \cup {Old} /\ Old \notin Requests
    BY RecordsAssumption DEF RecordsInv, RowsKept
<1> QED BY <1>1 DEF Table, Others

LEMMA NoDrift ==
    ASSUME RecordsInv, OrderKept, NEW r \in Requests, Others(r), req'[r].op = req[r].op \/ r \notin rows,
           UNCHANGED <<rows, gone, place, moves>>
    PROVE  Users' = Users /\ Drift
<1>1. Users' = Users
    BY UsersStay DEF Users
<1>2. OrderKept'
    BY <1>1 DEF OrderKept, Order
<1>3. moves <= moves'
    BY DEF OrderKept
<1> QED BY <1>1, <1>2, <1>3 DEF Drift

LEMMA CommitDrifts ==
    ASSUME RecordsInv, OrderKept, NEW r \in Requests, Commit(r), Same(r), r \notin rows \cup gone
    PROVE  Drift
<1>1. /\ rows' = rows \cup {r} /\ gone' = gone /\ moves' = moves
      /\ place' \in IF Table(r) = "users" THEN Orders(Users \cup {r}, r) ELSE {place}
    BY DEF Commit
<1>2. IsFiniteSet(rows') /\ moves \in Nat /\ Order(Users, place) /\ IsFiniteSet(Users)
    BY <1>1, FS_AddElement, UsersFinite DEF OrderKept
<1>3. \A x \in rows : Table(x)' = Table(x)
    BY UsersStay DEF Same
<1>4. Table(r)' = Table(r)
    BY DEF Table, Same
<1>5. CASE Table(r) = "users"
  <2>1. Users' = Users \cup {r} /\ r \notin Users
      BY <1>1, <1>3, <1>4, <1>5 DEF Users
  <2>2. place' \in Orders(Users \cup {r}, r)
      BY <1>1, <1>5
  <2> DEFINE V == Users \cup {r}
  <2>3. IsFiniteSet(V) /\ V \ {r} = Users \ {r}
      BY <1>2, FS_AddElement
  <2>4. PICK q : q = place'
      OBVIOUS
  <2>5. Rearranged(Users, place, V, q, r)
    <3> HIDE DEF V
    <3>1. q \in Orders(V, r)
        BY <2>2, <2>4 DEF V
    <3> QED BY <1>2, <2>3, <3>1, OrdersRearrange
  <2>6. \A S : r \notin S => \A k \in Nat : Before(V, q, S, k) \subseteq Before(Users, place, S, k)
    <3> HIDE DEF V
    <3> QED BY <2>1, <2>5, NewcomersPushBack
  <2>7. OrderKept'
    <3>1. Order(V, q)
        BY <2>5 DEF Rearranged
    <3> QED BY <1>1, <1>2, <2>1, <2>4, <3>1 DEF OrderKept, Order
  <2>8. ASSUME NEW S \in SUBSET (rows \cup gone)
        PROVE  /\ S \cap Users' \subseteq S \cap Users
               /\ \A k \in Nat : \A n \in Nat :
                    Cardinality(Before(Users, place, S, k)) <= moves - n =>
                      Cardinality(Before(Users', place', S, k)) <= moves' - n
    <3>1. r \notin S
        BY <2>8
    <3>2. ASSUME NEW k \in Nat, NEW n \in Nat, Cardinality(Before(Users, place, S, k)) <= moves - n
          PROVE  Cardinality(Before(Users', place', S, k)) <= moves' - n
      <4>1. Before(V, q, S, k) \subseteq Before(Users, place, S, k)
          BY <2>6, <3>1
      <4>2. /\ IsFiniteSet(Before(Users, place, S, k)) /\ Cardinality(Before(Users, place, S, k)) \in Nat
          BY <1>2, BeforeFinite
      <4>3. /\ Cardinality(Before(V, q, S, k)) <= Cardinality(Before(Users, place, S, k))
            /\ Cardinality(Before(V, q, S, k)) \in Nat
          BY <4>1, <4>2, FS_Subset, FS_CardinalityType
      <4>4. Cardinality(Before(V, q, S, k)) <= moves - n
          BY <1>2, <3>2, <4>2, <4>3
      <4> QED BY <1>1, <2>1, <2>4, <4>4
    <3>3. S \cap Users' \subseteq S \cap Users
        BY <2>1, <3>1
    <3> QED BY <3>2, <3>3
  <2>9. moves <= moves' /\ rows \cup gone \subseteq rows' \cup gone'
      BY <1>1, <1>2
  <2> QED BY <2>7, <2>8, <2>9 DEF Drift
<1>6. CASE Table(r) # "users"
  <2>1. Users' = Users /\ place' = place
      BY <1>1, <1>3, <1>4, <1>6 DEF Users
  <2>2. OrderKept'
      BY <1>1, <1>2, <2>1 DEF OrderKept, Order
  <2>3. moves <= moves' /\ rows \cup gone \subseteq rows' \cup gone'
      BY <1>1, <1>2
  <2> QED BY <1>1, <2>1, <2>2, <2>3 DEF Drift
<1> QED BY <1>5, <1>6

\* An update or a deletion of the user t.
LEMMA MoveDrifts ==
    ASSUME OrderKept, NEW t, NEW users, users \subseteq Users, users \ {t} = Users \ {t}, Users' = users,
           place' \in Orders(users, t), moves' = moves + 1,
           rows' \subseteq rows, rows' \cup gone' = rows \cup gone
    PROVE  Drift
<1>1. moves \in Nat /\ Order(Users, place) /\ IsFiniteSet(Users) /\ IsFiniteSet(users) /\ IsFiniteSet(rows')
    BY UsersFinite, FS_Subset DEF OrderKept
<1>2. PICK q : q = place'
    OBVIOUS
<1>3. Rearranged(Users, place, users, q, t)
    BY <1>1, <1>2, OrdersRearrange
<1>4. OrderKept'
  <2>1. Order(users, q)
      BY <1>3 DEF Rearranged
  <2> QED BY <1>1, <1>2, <2>1 DEF OrderKept, Order
<1>5. ASSUME NEW S, NEW k \in Nat, NEW n \in Nat, Cardinality(Before(Users, place, S, k)) <= moves - n
      PROVE  Cardinality(Before(Users', place', S, k)) <= moves' - n
  <2> DEFINE A == Before(Users, place, S, k)  B == Before(users, q, S, k)
  <2>1. IsFiniteSet(A) /\ Cardinality(A) \in Nat
      BY <1>1, BeforeFinite
  <2>2. PICK z : B \subseteq A \cup {z}
      BY <1>3, OneComesForward
  <2>3. Cardinality(A) <= moves - n
      BY <1>5
  <2>4. Before(Users', place', S, k) = B
      BY <1>2
  <2> HIDE DEF A, B
  <2>5. IsFiniteSet(A \cup {z}) /\ Cardinality(A \cup {z}) <= Cardinality(A) + 1
        /\ Cardinality(A \cup {z}) \in Nat
    <3>1. IsFiniteSet(A \cup {z})
          /\ Cardinality(A \cup {z}) = IF z \in A THEN Cardinality(A) ELSE Cardinality(A) + 1
        BY <2>1, FS_AddElement
    <3> QED BY <2>1, <3>1
  <2>6. Cardinality(B) <= Cardinality(A \cup {z}) /\ Cardinality(B) \in Nat
      BY <2>2, <2>5, FS_Subset, FS_CardinalityType
  <2>7. Cardinality(B) <= moves' - n
      BY <1>1, <2>1, <2>3, <2>5, <2>6
  <2> QED BY <2>4, <2>7, Zenon
<1>6. moves <= moves' /\ rows \cup gone \subseteq rows' \cup gone'
    BY <1>1
<1> QED BY <1>4, <1>5, <1>6 DEF Drift

\* A walk about which a step says nothing new.
LEMMA Unseen ==
    ASSUME OrderKept, Drift, NEW r \in Requests, Unmoved(r), WalkOf(r),
           ~At(r, "answered")' => ~At(r, "answered"),
           req'[r].at \in {"count", "select", "answered"},
           req'[r].answer = 200 => req[r].answer = 200
    PROVE  WalkOf(r)'
<1> DEFINE S == req[r].start \ req[r].got
           k == (req[r].page - 1) * PerPage
           n == req[r].since
<1>1. S \in SUBSET (rows \cup gone) /\ n \in Nat
    BY DEF WalkOf
<1>2. k \in Nat
  <2>1. req[r].page - 1 \in Nat /\ PerPage \in Nat
      BY DEF WalkOf
  <2> QED BY <2>1
<1>3. req'[r].start \ req'[r].got = S /\ (req'[r].page - 1) * PerPage = k /\ req'[r].since = n
    BY DEF Unmoved
<1>4. ~At(r, "answered") => Cardinality(Before(Users, place, S, k)) <= moves - n
    BY DEF WalkOf
<1>5. req[r].answer = 200 /\ ~req[r].torn => Cardinality(S \cap Users) <= moves - n
    BY DEF WalkOf
<1> HIDE DEF S, k, n
<1>6. ~At(r, "answered")' => Cardinality(Before(Users', place', S, k)) <= moves' - n
    BY <1>1, <1>2, <1>4 DEF Drift
<1>7. ASSUME req'[r].answer = 200, ~req'[r].torn
      PROVE  Cardinality(S \cap Users') <= moves' - n
  <2>1. Cardinality(S \cap Users) <= moves - n
      BY <1>5, <1>7 DEF Unmoved
  <2>2. S \cap Users' \subseteq S \cap Users
      BY <1>1 DEF Drift
  <2>3. IsFiniteSet(S \cap Users)
      BY FS_Subset, UsersFinite DEF OrderKept
  <2>4. /\ Cardinality(S \cap Users') <= Cardinality(S \cap Users)
        /\ Cardinality(S \cap Users') \in Nat /\ Cardinality(S \cap Users) \in Nat
      BY <2>2, <2>3, FS_Subset, FS_CardinalityType
  <2>5. moves \in Nat /\ moves' \in Nat /\ moves <= moves'
      BY DEF Drift, OrderKept
  <2> QED BY <1>1, <2>1, <2>4, <2>5
<1>8. req'[r].start \subseteq rows' \cup gone' /\ req'[r].page \in Nat \ {0} /\ req'[r].since \in Nat
    BY DEF WalkOf, Unmoved, Drift
<1>9. (~At(r, "answered") =>
         Cardinality(Before(Users, place, req[r].start \ req[r].got, (req[r].page - 1) * PerPage))
           <= moves - req[r].since)'
    BY <1>3, <1>6 DEF Before, Below
<1>10. (req[r].answer = 200 /\ ~req[r].torn =>
         Cardinality((req[r].start \ req[r].got) \cap Users) <= moves - req[r].since)'
    BY <1>3, <1>7
<1> QED BY <1>8, <1>9, <1>10 DEF WalkOf

LEMMA StepKeepsWalks ==
    ASSUME WalkInv, Drift, NEW r \in Requests, Others(r),
           (At(r, "new") => req[r].page = 1)', (req[r].op = "walk" => WalkOf(r))'
    PROVE  WalkInv'
<1>1. ASSUME NEW q \in Requests, q # r
      PROVE  (At(q, "new") => req[q].page = 1)' /\ (req[q].op = "walk" => WalkOf(q))'
  <2>1. req'[q] = req[q]
      BY <1>1 DEF Others
  <2>2. Unmoved(q) /\ (At(q, "answered")' <=> At(q, "answered")) /\ (At(q, "new")' <=> At(q, "new"))
        /\ (req'[q].op = "walk" => req[q].op = "walk") /\ (req'[q].answer = 200 => req[q].answer = 200)
      BY <2>1 DEF Unmoved, At
  <2>3. (At(q, "new") => req[q].page = 1)'
      BY <2>1 DEF At, WalkInv, WalksKept
  <2>4. ASSUME req'[q].op = "walk" PROVE WalkOf(q)'
    <3>1. WalkOf(q) /\ OrderKept
        BY <2>2, <2>4 DEF WalkInv, WalksKept
    <3>2. req'[q].at \in {"count", "select", "answered"}
        BY <2>1, <3>1 DEF WalkOf
    <3> QED BY <2>2, <3>1, <3>2, Unseen
  <2> QED BY <2>3, <2>4
<1>2. WalksKept'
  <2>1. \A q \in Requests : (At(q, "new") => req[q].page = 1)' /\ (req[q].op = "walk" => WalkOf(q))'
      BY <1>1
  <2> QED BY <2>1 DEF WalksKept
<1> QED BY <1>2 DEF WalkInv, Drift

\* A step that is no news for the walks.
LEMMA PassBy ==
    ASSUME WalkInv, Drift, NEW r \in Requests, Others(r), Unmoved(r),
           ~At(r, "answered"), ~At(r, "new")',
           req[r].op = "walk" => req'[r].at \in {"count", "select", "answered"},
           req[r].op = "walk" => req'[r].answer # 200
    PROVE  WalkInv'
<1>1. (At(r, "new") => req[r].page = 1)'
    OBVIOUS
<1>2. ASSUME req'[r].op = "walk" PROVE WalkOf(r)'
  <2>1. req[r].op = "walk"
      BY <1>2 DEF Unmoved
  <2>2. WalkOf(r) /\ OrderKept
      BY <2>1 DEF WalkInv, WalksKept
  <2> QED BY <2>1, <2>2, Unseen
<1> QED BY <1>1, <1>2, StepKeepsWalks

LEMMA StartKeepsWalks ==
    ASSUME RecordsInv, WalkInv, NEW r \in Requests, Start(r)
    PROVE  WalkInv'
<1>0. At(r, "new") /\ UNCHANGED <<rows, gone, place, moves>>
    BY DEF Start, table
<1>1. r \notin rows /\ req[r].page = 1 /\ req[r].answer = 0
    BY <1>0 DEF RecordsInv, RowsKept, AnswersKnown, WalkInv, WalksKept, At
<1>2. /\ Others(r) /\ req'[r].answer = req[r].answer
      /\ req'[r].at \in {"check", "hash", "insert1", "reload", "load", "delete", "count"}
      /\ \/ req'[r].op # "walk"
         \/ /\ req'[r].op = "walk" /\ req'[r].at = "count" /\ req'[r].page = req[r].page
            /\ req'[r].start = Users /\ req'[r].since = moves
    BY Starts
<1>3. Users' = Users /\ Drift
    BY <1>0, <1>1, <1>2, NoDrift DEF WalkInv
<1>4. ASSUME req'[r].op = "walk" PROVE WalkOf(r)'
  <2>1. /\ req'[r].at = "count" /\ req'[r].page = 1 /\ req'[r].start = Users /\ req'[r].since = moves
        /\ req'[r].answer = 0
      BY <1>1, <1>2, <1>4
  <2>2. OrderKept' /\ moves \in Nat
      BY <1>3 DEF Drift, WalkInv, OrderKept
  <2>3. \A x \in Users' : ~(Cardinality(Below(Users', place', x)) <= 0)
    <3>1. Order(Users, place)
        BY DEF WalkInv, OrderKept
    <3>2. \A x \in Users : Cardinality(Below(Users, place, x)) \in 1..Cardinality(Users)
        BY <3>1, Ranks
    <3> QED BY <1>0, <1>3, <3>2
  <2>4. (req'[r].page - 1) * PerPage = 0
      BY <2>1, RecordsAssumption
  <2>5. Before(Users', place', req'[r].start \ req'[r].got, 0) = {}
      BY <2>3 DEF Before
  <2>6. moves' - req'[r].since = 0
      BY <1>0, <2>1, <2>2
  <2>7. Cardinality(Before(Users', place', req'[r].start \ req'[r].got, 0)) <= moves' - req'[r].since
    <3>1. Cardinality({}) = 0
        BY FS_EmptySet
    <3>2. Cardinality({}) <= moves' - req'[r].since
        BY <2>6, <3>1
    <3> QED BY <2>5, <3>2
  <2>8. (Cardinality(Before(Users, place, req[r].start \ req[r].got, (req[r].page - 1) * PerPage))
           <= moves - req[r].since)'
      BY <2>4, <2>7 DEF Before, Below
  <2>9. req'[r].start \subseteq rows' \cup gone'
      BY <1>0, <2>1 DEF Users
  <2> QED BY <1>0, <2>1, <2>2, <2>8, <2>9 DEF WalkOf
<1>5. (At(r, "new") => req[r].page = 1)'
    BY <1>2 DEF At
<1> QED BY <1>2, <1>3, <1>4, <1>5, StepKeepsWalks

LEMMA SelectKeepsWalks ==
    ASSUME RecordsInv, WalkInv, NEW r \in Requests, Select(r)
    PROVE  WalkInv'
<1>t. Typed /\ OrderKept
    BY DEF RecordsInv, WalkInv
<1>1. At(r, "select") /\ UNCHANGED <<rows, gone, place, moves>>
    BY DEF Select, table
<1>2. PICK done \in BOOLEAN :
        /\ done <=> req[r].page * PerPage >= req[r].total
        /\ Typed' /\ Same(r)
        /\ req'[r].start = req[r].start /\ req'[r].since = req[r].since
        /\ req'[r].got = req[r].got \cup Page(req[r].page)
        /\ req'[r].torn <=> req[r].total # Cardinality(Users)
        /\ req'[r].page = IF done THEN req[r].page ELSE req[r].page + 1
        /\ req'[r].at = IF done THEN "answered" ELSE "count"
        /\ req'[r].answer = IF done THEN 200 ELSE 0
    BY <1>t, SelectMoves, Zenon
<1>3. Others(r) /\ req'[r].op = req[r].op
    BY <1>2 DEF Same
<1>4. Users' = Users /\ Drift
    BY <1>t, <1>1, <1>3, NoDrift
<1>5. ASSUME req[r].op = "walk" PROVE WalkOf(r)'
  <2>1. WalkOf(r) /\ ~At(r, "answered")
      BY <1>1, <1>5 DEF WalkInv, WalksKept, At
  <2> DEFINE S == req[r].start \ req[r].got
             T == req'[r].start \ req'[r].got
             k == (req[r].page - 1) * PerPage
             last == req[r].page * PerPage
             n == req[r].since
  <2>2. req[r].page \in Nat \ {0} /\ PerPage \in Nat \ {0} /\ n \in Nat /\ req[r].start \subseteq rows \cup gone
      BY <2>1, RecordsAssumption DEF WalkOf
  <2>3. k \in Nat /\ last \in Nat
    <3>1. req[r].page - 1 \in Nat
        BY <2>2
    <3> QED BY <2>2, <3>1
  <2>4. Cardinality(Before(Users, place, S, k)) <= moves - n
      BY <2>1 DEF WalkOf
  <2>5. T \subseteq S /\ \A x \in T : x \notin Page(req[r].page)
      BY <1>2
  <2>6. Page(req[r].page) = {x \in Users : Cardinality(Below(Users, place, x)) \in (k + 1)..last}
      BY DEF Page, Rank, Below
  <2> HIDE DEF S, T, k, last, n
  <2>7. Before(Users, place, T, last) \subseteq Before(Users, place, S, k)
    <3> SUFFICES ASSUME NEW x \in Before(Users, place, T, last) PROVE x \in Before(Users, place, S, k)
        OBVIOUS
    <3>1. x \in T /\ x \in Users /\ Cardinality(Below(Users, place, x)) <= last
        BY DEF Before
    <3>2. Cardinality(Below(Users, place, x)) \notin (k + 1)..last
        BY <2>5, <2>6, <3>1
    <3>3. Cardinality(Below(Users, place, x)) \in Nat
      <4>1. Cardinality(Below(Users, place, x)) \in 1..Cardinality(Users) /\ Cardinality(Users) \in Nat
          BY <1>t, <3>1, Ranks, UsersFinite DEF OrderKept
      <4> QED BY <4>1
    <3>4. Cardinality(Below(Users, place, x)) <= k
        BY <2>3, <3>1, <3>2, <3>3
    <3> QED BY <2>5, <3>1, <3>4 DEF Before
  <2>8. IsFiniteSet(Before(Users, place, S, k)) /\ Cardinality(Before(Users, place, S, k)) \in Nat
        /\ moves \in Nat
      BY <1>t, BeforeFinite, UsersFinite DEF OrderKept
  <2>9. Cardinality(Before(Users, place, T, last)) <= moves - n
    <3>1. Cardinality(Before(Users, place, T, last)) <= Cardinality(Before(Users, place, S, k))
          /\ Cardinality(Before(Users, place, T, last)) \in Nat
        BY <2>7, <2>8, FS_Subset, FS_CardinalityType
    <3> QED BY <2>2, <2>4, <2>8, <3>1 DEF n
  <2>10. ASSUME ~done
         PROVE  (Cardinality(Before(Users, place, req[r].start \ req[r].got, (req[r].page - 1) * PerPage))
                   <= moves - req[r].since)'
    <3>1. req'[r].page - 1 = req[r].page
        BY <1>2, <2>2, <2>10
    <3>2. (req'[r].page - 1) * PerPage = last
        BY <3>1 DEF last
    <3>3. req'[r].start \ req'[r].got = T /\ req'[r].since = n
        BY <1>2 DEF T, n
    <3>4. Cardinality(Before(Users', place', T, last)) <= moves' - n
        BY <1>1, <1>4, <2>9
    <3> QED BY <3>2, <3>3, <3>4 DEF Before, Below
  <2>11. ASSUME done, ~req'[r].torn
         PROVE  Cardinality(T \cap Users) <= moves - n
    <3>1. Cardinality(Users) <= last /\ Cardinality(Users) \in Nat
        BY <1>2, <1>t, <2>11, UsersFinite DEF last, OrderKept
    <3>2. T \cap Users \subseteq Before(Users, place, T, last)
      <4> SUFFICES ASSUME NEW x \in T, x \in Users PROVE Cardinality(Below(Users, place, x)) <= last
          BY DEF Before
      <4>1. Cardinality(Below(Users, place, x)) \in 1..Cardinality(Users)
          BY <1>t, Ranks DEF OrderKept
      <4> QED BY <2>3, <3>1, <4>1
    <3>3. T \cap Users = Before(Users, place, T, last)
        BY <3>2 DEF Before
    <3> QED BY <2>9, <3>3
  <2>12. (req[r].answer = 200 /\ ~req[r].torn =>
            Cardinality((req[r].start \ req[r].got) \cap Users) <= moves - req[r].since)'
    <3> SUFFICES ASSUME req'[r].answer = 200, ~req'[r].torn
                 PROVE  Cardinality((req'[r].start \ req'[r].got) \cap Users') <= moves' - req'[r].since
        OBVIOUS
    <3>1. done
        BY <1>2
    <3> QED BY <1>1, <1>2, <1>4, <2>11, <3>1 DEF T, n
  <2>13. /\ req'[r].at \in {"count", "select", "answered"} /\ req'[r].page \in Nat \ {0}
         /\ req'[r].since \in Nat /\ req'[r].start \subseteq rows' \cup gone'
      BY <1>1, <1>2, <2>2 DEF n
  <2>14. ~At(r, "answered")' => ~done
      BY <1>2 DEF At
  <2> QED BY <2>10, <2>12, <2>13, <2>14 DEF WalkOf
<1>6. (At(r, "new") => req[r].page = 1)'
    BY <1>2 DEF At
<1> QED BY <1>3, <1>4, <1>5, <1>6, StepKeepsWalks

LEMMA WalksInitially == Init => WalkInv
<1> SUFFICES ASSUME Init PROVE WalkInv
    OBVIOUS
<1>1. Users \subseteq {Old} /\ IsFiniteSet(rows) /\ moves = 0
    BY FS_Singleton DEF Init, Users
<1>2. Order(Users, place)
    BY <1>1, UsersFinite DEF Order, Init
<1>3. WalksKept
    BY DEF Init, WalksKept, At, Fresh
<1> QED BY <1>1, <1>2, <1>3 DEF WalkInv, OrderKept

\* Answers that are no 200 of a walk.
LEMMA AnswerKeepsWalks ==
    ASSUME RecordsInv, WalkInv, NEW r \in Requests, NEW status, Answer(r, status),
           req[r].at # "answered", Same(r) => Drift, req[r].op = "walk" => status # 200
    PROVE  WalkInv'
<1>1. Same(r) /\ Unmoved(r) /\ req'[r].at = "answered" /\ req'[r].answer = status
    BY AnswerMoves DEF RecordsInv
<1> QED BY <1>1, PassBy DEF Same, At

\* Going on; walks have steps of their own.
LEMMA GoKeepsWalks ==
    ASSUME RecordsInv, WalkInv, NEW r \in Requests, NEW step, Go(r, step), step # "new",
           req[r].at \notin {"count", "select", "answered"}, Same(r) => Drift
    PROVE  WalkInv'
<1>1. Same(r) /\ Unmoved(r) /\ req'[r].at = step
    BY GoMoves DEF RecordsInv
<1>2. req[r].op # "walk"
    BY DEF WalkInv, WalksKept, WalkOf
<1> QED BY <1>1, <1>2, PassBy DEF Same, At

LEMMA WalksStep == RecordsInv /\ WalkInv /\ [Next]_vars => WalkInv'
<1> SUFFICES ASSUME RecordsInv, WalkInv, [Next]_vars PROVE WalkInv'
    OBVIOUS
<1>t. Typed /\ OrderKept /\ \A r \in conn : r \in Requests /\ req[r].at \in Inside /\ r \notin rows \cup gone
    BY DEF RecordsInv, PoolKept, RowsKept, WalkInv, Inside, First
<1>w. \A r \in Requests : req[r].op = "walk" => req[r].at \in {"count", "select", "answered"}
    BY DEF WalkInv, WalksKept, WalkOf
<1>a. \A r \in Requests : req[r].at # "answered" => req[r].answer = 0
    BY DEF RecordsInv, AnswersKnown, At
<1>n. \A r \in Requests : UNCHANGED table /\ Same(r) => Drift
    BY <1>t, NoDrift DEF Same, table
<1> USE DEF At
<1>1. ASSUME NEW r \in Requests, Acquire(r) PROVE WalkInv'
  <2>1. req' = req /\ req[r].at \in First /\ UNCHANGED table
      BY <1>1 DEF Acquire
  <2>2. Same(r) /\ Unmoved(r)
      BY <2>1 DEF Same, Others, Unmoved
  <2> QED BY <2>1, <2>2, <1>a, <1>n, <1>w, PassBy DEF First, Same
<1>2. ASSUME NEW r \in Requests, NEW status, Answer(r, status), req[r].at # "answered",
             UNCHANGED table, req[r].op = "walk" => status # 200
      PROVE  WalkInv'
    BY <1>2, <1>n, AnswerKeepsWalks
<1>3. ASSUME NEW r \in Requests, NEW step, Go(r, step), step # "new", UNCHANGED table,
             req[r].at \notin {"count", "select", "answered"}
      PROVE  WalkInv'
    BY <1>3, <1>n, GoKeepsWalks
<1>4. ASSUME NEW r \in Requests, PoolTimeout(r) PROVE WalkInv'
  <2>1. Answer(r, 500) /\ req[r].at \in First /\ UNCHANGED table
      BY <1>4 DEF PoolTimeout
  <2> QED BY <2>1, <1>2 DEF First
<1>5. ASSUME NEW r \in Requests, Fail(r) PROVE WalkInv'
  <2>1. Answer(r, 500) /\ req[r].at \in Inside /\ UNCHANGED table
      BY <1>5, <1>t DEF Fail
  <2> QED BY <2>1, <1>2 DEF First, Inside
<1>6. ASSUME NEW r \in Requests, Hash(r) PROVE WalkInv'
  <2>1. PICK step \in {"check", "reload"} : Go(r, step)
      BY <1>6 DEF Hash
  <2>2. req[r].at \in {"hash", "rehash"} /\ UNCHANGED table
      BY <1>6 DEF Hash
  <2> QED BY <2>1, <2>2, <1>3
<1>7. ASSUME NEW r \in Requests, Check(r) PROVE WalkInv'
    BY <1>7, <1>w, <1>2, <1>3 DEF Check
<1>8. ASSUME NEW r \in Requests, Insert(r) PROVE WalkInv'
  <2>1. req[r].at \in {"insert", "insert1"} /\ UNCHANGED table
      BY <1>8 DEF Insert
  <2>2. CASE \E status \in {409, 500} : Answer(r, status)
    <3>1. PICK status \in {409, 500} : Answer(r, status)
        BY <2>2
    <3> QED BY <2>1, <3>1, <1>2
  <2>3. CASE Go(r, "commit")
      BY <2>1, <2>3, <1>3
  <2> QED BY <1>8, <2>2, <2>3 DEF Insert
<1>9. ASSUME NEW r \in Requests, Commit(r) PROVE WalkInv'
  <2>1. req[r].at = "commit" /\ r \notin rows \cup gone
      BY <1>t, <1>9 DEF Commit
  <2>2. Same(r) => Drift
      BY <1>t, <1>9, <2>1, CommitDrifts
  <2>3. CASE Go(r, "cache")
      BY <2>1, <2>2, <2>3, GoKeepsWalks
  <2>4. CASE Answer(r, 201)
      BY <2>1, <2>2, <2>4, AnswerKeepsWalks
  <2> QED BY <1>9, <2>3, <2>4 DEF Commit
<1>10. ASSUME NEW r \in Requests, Cache(r) PROVE WalkInv'
  <2>1. PICK status : Answer(r, status) /\ req[r].at = "cache" /\ UNCHANGED table
      BY <1>10 DEF Cache
  <2> QED BY <2>1, <1>w, <1>2
<1>11. ASSUME NEW r \in Requests, Load(r) PROVE WalkInv'
    BY <1>11, <1>w, <1>2, <1>3 DEF Load
<1>12. ASSUME NEW r \in Requests, Verify(r) PROVE WalkInv'
    BY <1>12, <1>w, <1>2, <1>3 DEF Verify
<1>13. ASSUME NEW r \in Requests, Reload(r) PROVE WalkInv'
  <2>0. req[r].at = "reload" /\ UNCHANGED table
      BY <1>13 DEF Reload
  <2>1. CASE \E v : req' = [req EXCEPT ![r].at = "write", ![r].version = v]
    <3>1. PICK v : req' = [req EXCEPT ![r].at = "write", ![r].version = v]
        BY <2>1
    <3>2. Same(r) /\ Unmoved(r) /\ req'[r].at = "write"
        BY <1>t, <3>1, ReadMoves
    <3> QED BY <2>0, <3>2, <1>n, <1>w, PassBy DEF Same
  <2>2. CASE \E status \in {401, 404} : Answer(r, status)
    <3>1. PICK status \in {401, 404} : Answer(r, status)
        BY <2>2
    <3> QED BY <2>0, <3>1, <1>2
  <2> QED BY <1>13, <2>1, <2>2 DEF Reload
<1>14. ASSUME NEW r \in Requests, Write(r) PROVE WalkInv'
  <2>0. req[r].at = "write" /\ req[r].op # "walk" /\ UNCHANGED <<rows, gone>>
      BY <1>14, <1>w DEF Write
  <2>1. Same(r) => Drift
    <3>1. CASE UNCHANGED <<version, place, moves>>
        BY <2>0, <3>1, <1>n DEF table
    <3>2. CASE place' \in Orders(Users, req[r].target) /\ moves' = moves + 1
      <4>1. Same(r) => Users' = Users
          BY <2>0, UsersStay DEF Users, Same
      <4> QED BY <2>0, <3>2, <4>1, <1>t, MoveDrifts
    <3> QED BY <1>14, <3>1, <3>2 DEF Write
  <2>2. CASE Go(r, "refresh")
      BY <2>0, <2>1, <2>2, GoKeepsWalks
  <2>3. CASE \E status \in {200, 409, 500} : Answer(r, status)
    <3>1. PICK status \in {200, 409, 500} : Answer(r, status)
        BY <2>3
    <3> QED BY <2>0, <2>1, <3>1, AnswerKeepsWalks
  <2> QED BY <1>14, <2>2, <2>3 DEF Write
<1>15. ASSUME NEW r \in Requests, Refresh(r) PROVE WalkInv'
    BY <1>15, <1>w, <1>2, <1>3 DEF Refresh
<1>16. ASSUME NEW r \in Requests, Delete(r) PROVE WalkInv'
    BY <1>16, <1>w, <1>2, <1>3 DEF Delete
<1>17. ASSUME NEW r \in Requests, Remove(r) PROVE WalkInv'
  <2>1. /\ req[r].at = "remove" /\ Go(r, "cache") /\ moves' = moves + 1
        /\ rows' = rows \ {req[r].target} /\ gone' = gone \cup {req[r].target}
        /\ place' \in Orders(Users \ {req[r].target}, req[r].target)
      BY <1>17 DEF Remove
  <2>2. req[r].target \in rows \cup gone
      BY DEF RecordsInv, RowsKept
  <2>3. ASSUME Same(r) PROVE Drift
    <3>1. Users' = Users \ {req[r].target}
        BY <2>1, <2>3, UsersStay DEF Users, Same
    <3>2. rows' \subseteq rows /\ rows' \cup gone' = rows \cup gone
        BY <2>1, <2>2
    <3> QED BY <2>1, <3>1, <3>2, <1>t, MoveDrifts
  <2> QED BY <2>1, <2>3, GoKeepsWalks
<1>18. ASSUME NEW r \in Requests, BadQuery(r) PROVE WalkInv'
    BY <1>18, <1>2 DEF BadQuery
<1>19. ASSUME NEW r \in Requests, Count(r) PROVE WalkInv'
  <2>1. req[r].at = "count" /\ UNCHANGED table
      BY <1>19 DEF Count
  <2>2. Same(r) /\ Unmoved(r) /\ req'[r].at = "select" /\ req'[r].answer = req[r].answer
      BY <1>t, <1>19, CountMoves
  <2> QED BY <2>1, <2>2, <1>a, <1>n, PassBy DEF Same
<1>20. CASE UNCHANGED vars
  <2>1. UNCHANGED <<rows, gone, place, moves, req>>
      BY <1>20 DEF vars
  <2>2. Users' = Users
      BY <2>1 DEF Users, Table
  <2>3. OrderKept'
      BY <1>t, <2>1, <2>2 DEF OrderKept, Order
  <2>4. \A r \in Requests : WalkOf(r)' <=> WalkOf(r)
      BY <2>1, <2>2 DEF WalkOf, Before, Below
  <2>5. WalksKept'
      BY <2>1, <2>4 DEF WalkInv, WalksKept
  <2> QED BY <2>3, <2>5 DEF WalkInv
<1> QED BY <1>1, <1>4, <1>5, <1>6, <1>7, <1>8, <1>9, <1>10, <1>11, <1>12, <1>13, <1>14, <1>15,
           <1>16, <1>17, <1>18, <1>19, <1>20, StartKeepsWalks, SelectKeepsWalks DEF Next, Step

\* For any number of requests, rows, insertions, updates and deletions and pages of
\* any size: a walk in an order without equal values misses at most one row for each
\* update and deletion since it began, unless the rows changed between the last
\* COUNT and its SELECT.
THEOREM WalkCorrect == Spec => []WalkMissesFew
<1>1. WalkInv => WalkMissesFew
  <2> SUFFICES ASSUME WalkInv, NEW r \in Requests,
                      req[r].op = "walk", req[r].answer = 200, ~req[r].torn
               PROVE  Cardinality((req[r].start \cap Users) \ req[r].got) <= moves - req[r].since
      BY DEF WalkMissesFew
  <2>1. Cardinality((req[r].start \ req[r].got) \cap Users) <= moves - req[r].since
      BY DEF WalkInv, WalksKept, WalkOf
  <2>2. (req[r].start \ req[r].got) \cap Users = (req[r].start \cap Users) \ req[r].got
      OBVIOUS
  <2> QED BY <2>1, <2>2
<1> QED BY <1>1, RecordsInit, RecordsStep, WalksInitially, WalksStep, PTL DEF Spec
===========================================================================
