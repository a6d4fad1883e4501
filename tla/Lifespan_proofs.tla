-------------------------- MODULE Lifespan_proofs --------------------------
(***************************************************************************)
(* Theorems about Broker and Lifespan for any number of processes, groups, *)
(* messages, stops, crashes, lost connections, rebalances and failed       *)
(* consumers, over each of the three brokers.                              *)
(***************************************************************************)
EXTENDS Lifespan, FiniteSetTheorems, TLAPS

BrokerTyped ==
    /\ backend \in Backends
    /\ subs = [q \in Web |-> subs[q]]
    /\ assigned \in [Groups -> SUBSET Web]
    /\ log \in Seq(Topics)
    /\ msg \in [Groups -> [Numbers -> Copy]]
    /\ running \in [Web -> SUBSET (Groups \X Numbers)]
    /\ breaks \in Nat /\ ends \in Nat

\* A delivered message is with one process, which works on it unless it has been
\* handled before.
Held(g, n) ==
    \E q \in Web : msg[g][n].by = {q} /\ (msg[g][n].handled \/ <<g, n>> \in running[q])

\* What the broker's copy of a message says: how often a handler began with it,
\* who has it, and that it is not done with before it is handled.
CopyKnown(g, n) ==
    /\ msg[g][n].starts <= 1 + breaks
    /\ msg[g][n].st = "waiting" => msg[g][n].starts <= breaks
    /\ \A q \in msg[g][n].by : msg[g][n].by = {q}
    /\ backend = "kafka" /\ msg[g][n].kept => g \in known
    /\ backend = "rabbitmq" /\ msg[g][n].st = "done" => msg[g][n].handled
    /\ backend # "memory" /\ msg[g][n].st = "out" => Held(g, n)
    /\ backend = "memory" /\ ends = 0 /\ msg[g][n].st = "done" =>
         msg[g][n].handled \/ \E q \in Web : <<g, n>> \in running[q]

CopiesKnown == \A g \in Groups, n \in Numbers : CopyKnown(g, n)

\* A kafka consumer handles one message after the other, its partition or not.
OneAtATime ==
    backend = "kafka" =>
        \A p \in Web, g \in Groups, m, n \in Numbers :
            <<g, m>> \in running[p] /\ <<g, n>> \in running[p] => m = n

KeptLost(g) == {n \in Lost(g) : msg[g][n].kept}
LostFew == \A g \in Groups : backend = "kafka" => Cardinality(KeptLost(g)) <= ends

BrokerInv == BrokerTyped /\ CopiesKnown /\ OneAtATime /\ LostFew

\* A process without a broker has no consumer and no handler, and what is open
\* is what lifespan() has yet to close.
Consuming == {"register", "storage", "serving", "disconnect"}
OpenAt(s) == CASE s = "down" -> {}
               [] s \in {"connect", "close_redis"} -> {"redis"}
               [] s = "close_client" -> {"redis", "client"}
               [] s = "close_storage" -> {"redis", "client", "storage"}
               [] OTHER -> Resources

Quiet(p) == /\ subs[p] = {} /\ running[p] = {}
            /\ \A g \in Groups, n \in Numbers : p \notin msg[g][n].by

OpenKnown ==
    /\ stage \in [Web -> Stages] /\ open \in [Web -> SUBSET Resources]
    /\ \A p \in Web : /\ open[p] \subseteq OpenAt(stage[p])
                      /\ "broker" \in open[p] <=> stage[p] \in Consuming
                      /\ stage[p] \notin Consuming => Quiet(p)

LifespanInv == BrokerInv /\ OpenKnown

USE BrokerAssumption, LifespanAssumption

---------------------------------------------------------------------------
\* The broker.

LEMMA LostFinite ==
    \A g : IsFiniteSet(KeptLost(g)) /\ Cardinality(KeptLost(g)) \in Nat
<1>1. IsFiniteSet(Numbers)
    BY FS_Interval DEF Numbers
<1>2. \A g : KeptLost(g) \subseteq Numbers
    BY DEF KeptLost, Lost
<1> QED BY <1>1, <1>2, FS_Subset, FS_CardinalityType

\* A step that loses nothing, or one message in a group when a process ends.
LEMMA LostStays ==
    ASSUME BrokerInv, UNCHANGED <<backend, ends>>,
           \A h \in Groups : backend = "kafka" => KeptLost(h)' \subseteq KeptLost(h)
    PROVE  LostFew'
<1> SUFFICES ASSUME NEW h \in Groups, backend = "kafka" PROVE Cardinality(KeptLost(h)') <= ends
    BY DEF LostFew
<1>1. Cardinality(KeptLost(h)') <= Cardinality(KeptLost(h)) /\ Cardinality(KeptLost(h)') \in Nat
    BY LostFinite, FS_Subset, FS_CardinalityType
<1>2. Cardinality(KeptLost(h)) <= ends /\ Cardinality(KeptLost(h)) \in Nat /\ ends \in Nat
    BY LostFinite DEF LostFew, BrokerInv, BrokerTyped
<1> QED BY <1>1, <1>2

LEMMA LostOne ==
    ASSUME BrokerInv, backend' = backend, ends' = ends + 1,
           \A h \in Groups : backend = "kafka" =>
              \E m : KeptLost(h)' \subseteq KeptLost(h) \cup {m}
    PROVE  LostFew'
<1> SUFFICES ASSUME NEW h \in Groups, backend = "kafka"
             PROVE  Cardinality(KeptLost(h)') <= ends + 1
    BY DEF LostFew
<1>1. PICK m : KeptLost(h)' \subseteq KeptLost(h) \cup {m}
    OBVIOUS
<1>2. /\ IsFiniteSet(KeptLost(h) \cup {m})
      /\ \/ Cardinality(KeptLost(h) \cup {m}) = Cardinality(KeptLost(h))
         \/ Cardinality(KeptLost(h) \cup {m}) = Cardinality(KeptLost(h)) + 1
    BY LostFinite, FS_AddElement
<1>3. /\ Cardinality(KeptLost(h)') <= Cardinality(KeptLost(h) \cup {m})
      /\ Cardinality(KeptLost(h)') \in Nat /\ Cardinality(KeptLost(h) \cup {m}) \in Nat
    BY <1>1, <1>2, FS_Subset, FS_CardinalityType
<1>4. Cardinality(KeptLost(h)) <= ends /\ Cardinality(KeptLost(h)) \in Nat /\ ends \in Nat
    BY LostFinite DEF LostFew, BrokerInv, BrokerTyped
<1> QED BY <1>2, <1>3, <1>4

\* A step that changes one copy and the handlers that work on it.
LEMMA OneCopy ==
    ASSUME BrokerInv, NEW g \in Groups, NEW n \in Numbers,
           UNCHANGED <<backend, known, breaks, ends>>, BrokerTyped',
           \A h \in Groups, m \in Numbers : h # g \/ m # n =>
              /\ msg'[h][m] = msg[h][m]
              /\ \A q \in Web : <<h, m>> \in running'[q] <=> <<h, m>> \in running[q],
           CopyKnown(g, n)', n \notin Lost(g)', OneAtATime'
    PROVE  BrokerInv'
<1>1. CopiesKnown'
  <2> SUFFICES ASSUME NEW h \in Groups, NEW m \in Numbers, h # g \/ m # n PROVE CopyKnown(h, m)'
      BY DEF CopiesKnown
  <2>1. CopyKnown(h, m)
      BY DEF BrokerInv, CopiesKnown
  <2>2. /\ msg'[h][m] = msg[h][m]
        /\ \A q \in Web : <<h, m>> \in running'[q] <=> <<h, m>> \in running[q]
      OBVIOUS
  <2> QED BY <2>1, <2>2 DEF CopyKnown, Held
<1>2. \A h \in Groups : KeptLost(h)' \subseteq KeptLost(h)
    BY DEF KeptLost, Lost
<1> QED BY <1>1, <1>2, LostStays DEF BrokerInv

\* A step that changes no copy and no handler.
LEMMA NoCopyMoves ==
    ASSUME BrokerInv, UNCHANGED <<backend, msg, running, breaks, ends>>,
           subs' = [q \in Web |-> subs'[q]], assigned' \in [Groups -> SUBSET Web],
           log' \in Seq(Topics), known \subseteq known'
    PROVE  BrokerInv'
<1>1. \A h \in Groups : KeptLost(h)' \subseteq KeptLost(h)
    BY DEF KeptLost, Lost
<1>2. CopiesKnown'
    BY DEF BrokerInv, CopiesKnown, CopyKnown, Held
<1>3. BrokerTyped' /\ OneAtATime'
    BY DEF BrokerInv, BrokerTyped, OneAtATime
<1> QED BY <1>1, <1>2, <1>3, LostStays DEF BrokerInv

LEMMA TakeStep ==
    ASSUME BrokerInv, NEW p \in Web, NEW g \in Groups, NEW n \in Numbers, Take(p, g, n)
    PROVE  BrokerInv'
<1> DEFINE c == msg'[g][n]
<1>1. /\ msg[g][n] \in Copy /\ CopyKnown(g, n) /\ msg[g][n].st = "waiting"
      /\ msg \in [Groups -> [Numbers -> Copy]] /\ running \in [Web -> SUBSET (Groups \X Numbers)]
      /\ breaks \in Nat
    BY DEF BrokerInv, BrokerTyped, CopiesKnown, Take
<1>2. /\ UNCHANGED <<backend, subs, assigned, known, log, breaks, ends>>
      /\ running' = [running EXCEPT ![p] = running[p] \cup {<<g, n>>}]
    BY DEF Take, Run
<1>s. msg[g][n].starts \in Nat /\ msg[g][n].starts + 1 \in Nat
    BY <1>1 DEF Copy
<1>3. PICK d \in Copy :
        /\ msg' = [msg EXCEPT ![g][n] = d]
        /\ d.starts = msg[g][n].starts + 1 /\ d.kept = msg[g][n].kept
        /\ \/ backend = "memory" /\ d.st = "done" /\ d.by = {}
           \/ backend # "memory" /\ d.st = "out" /\ d.by = {p}
  <2>1. CASE backend = "memory"
    <3> DEFINE d == Begun(msg[g][n], "done", {})
    <3>1. msg' = [msg EXCEPT ![g][n] = d]
        BY <2>1 DEF Take
    <3>2. d \in Copy /\ d.starts = msg[g][n].starts + 1 /\ d.kept = msg[g][n].kept
          /\ d.st = "done" /\ d.by = {}
        BY <1>1, <1>s DEF Copy, States, Begun
    <3> QED BY <3>1, <3>2, <2>1
  <2>2. CASE backend # "memory"
    <3> DEFINE d == Begun(msg[g][n], "out", {p})
    <3>1. msg' = [msg EXCEPT ![g][n] = d]
        BY <2>2 DEF Take
    <3>2. d \in Copy /\ d.starts = msg[g][n].starts + 1 /\ d.kept = msg[g][n].kept
          /\ d.st = "out" /\ d.by = {p}
        BY <1>1, <1>s DEF Copy, States, Begun
    <3> QED BY <3>1, <3>2, <2>2
  <2> QED BY <2>1, <2>2
<1>4. msg'[g][n] = d /\ <<g, n>> \in running'[p]
  <2>1. msg'[g][n] = d
      BY <1>1, <1>3
  <2>2. <<g, n>> \in running'[p]
      BY <1>1, <1>2
  <2> QED BY <2>1, <2>2
<1>5. \A h \in Groups, m \in Numbers : h # g \/ m # n =>
        /\ msg'[h][m] = msg[h][m]
        /\ \A q \in Web : <<h, m>> \in running'[q] <=> <<h, m>> \in running[q]
    BY <1>1, <1>2, <1>3
<1>6. BrokerTyped'
    BY <1>1, <1>2, <1>3 DEF BrokerInv, BrokerTyped
<1>7. msg[g][n].starts \in Nat /\ d.starts <= 1 + breaks
    BY <1>1, <1>3 DEF Copy, CopyKnown
<1>8. CopyKnown(g, n)'
    BY <1>1, <1>2, <1>3, <1>4, <1>7 DEF CopyKnown, Held
<1>9. n \notin Lost(g)'
    BY <1>4 DEF Lost
<1>10. OneAtATime'
  <2> SUFFICES ASSUME backend = "kafka", NEW q \in Web, NEW h \in Groups, NEW k \in Numbers,
                      NEW m \in Numbers, <<h, k>> \in running'[q], <<h, m>> \in running'[q]
               PROVE  k = m
      BY <1>2 DEF OneAtATime
  <2>1. \A j \in Numbers : <<g, j>> \notin running[p]
      BY DEF Take, MayTake, RunsNone
  <2>2. <<h, k>> \in running[q] \/ (q = p /\ h = g /\ k = n)
      BY <1>1, <1>2
  <2>3. <<h, m>> \in running[q] \/ (q = p /\ h = g /\ m = n)
      BY <1>1, <1>2
  <2> QED BY <2>1, <2>2, <2>3 DEF BrokerInv, OneAtATime
<1> QED BY <1>2, <1>5, <1>6, <1>8, <1>9, <1>10, OneCopy

LEMMA FinishStep ==
    ASSUME BrokerInv, NEW p \in Web, NEW g \in Groups, NEW n \in Numbers, Finish(p, g, n)
    PROVE  BrokerInv'
<1> DEFINE d == [msg[g][n] EXCEPT !.handled = TRUE]
<1>1. /\ msg[g][n] \in Copy /\ CopyKnown(g, n)
      /\ msg \in [Groups -> [Numbers -> Copy]] /\ running \in [Web -> SUBSET (Groups \X Numbers)]
    BY DEF BrokerInv, BrokerTyped, CopiesKnown
<1>2. /\ UNCHANGED <<backend, subs, assigned, known, log, breaks, ends>>
      /\ running' = [running EXCEPT ![p] = running[p] \ {<<g, n>>}]
      /\ msg' = [msg EXCEPT ![g][n] = d]
    BY DEF Finish
<1>3. d \in Copy /\ d.handled /\ d.st = msg[g][n].st /\ d.by = msg[g][n].by
      /\ d.kept = msg[g][n].kept /\ d.starts = msg[g][n].starts
    BY <1>1 DEF Copy
<1> HIDE DEF d
<1>4. msg'[g][n] = d
    BY <1>1, <1>2
<1>5. \A h \in Groups, m \in Numbers : h # g \/ m # n =>
        /\ msg'[h][m] = msg[h][m]
        /\ \A q \in Web : <<h, m>> \in running'[q] <=> <<h, m>> \in running[q]
    BY <1>1, <1>2
<1>6. BrokerTyped'
    BY <1>1, <1>2, <1>3 DEF BrokerInv, BrokerTyped
<1>8. CopyKnown(g, n)'
    BY <1>1, <1>2, <1>3, <1>4 DEF CopyKnown, Held
<1>9. n \notin Lost(g)'
    BY <1>3, <1>4 DEF Lost
<1>10. OneAtATime'
  <2>1. \A q \in Web : running'[q] \subseteq running[q]
      BY <1>1, <1>2
  <2> QED BY <2>1, <1>2 DEF BrokerInv, OneAtATime
<1> QED BY <1>2, <1>5, <1>6, <1>8, <1>9, <1>10, OneCopy

LEMMA AckStep ==
    ASSUME BrokerInv, NEW p \in Web, NEW g \in Groups, NEW n \in Numbers, Ack(p, g, n)
    PROVE  BrokerInv'
<1> DEFINE d == [msg[g][n] EXCEPT !.st = "done", !.by = {}]
<1>1. /\ msg[g][n] \in Copy /\ CopyKnown(g, n) /\ backend = "rabbitmq"
      /\ msg[g][n].st = "out" /\ msg[g][n].by = {p} /\ <<g, n>> \notin running[p]
      /\ msg \in [Groups -> [Numbers -> Copy]]
    BY DEF BrokerInv, BrokerTyped, CopiesKnown, Ack
<1>2. /\ UNCHANGED <<backend, subs, assigned, known, log, running, breaks, ends>>
      /\ msg' = [msg EXCEPT ![g][n] = d]
    BY DEF Ack
<1>3. d \in Copy /\ d.handled = msg[g][n].handled /\ d.st = "done" /\ d.by = {}
      /\ d.kept = msg[g][n].kept /\ d.starts = msg[g][n].starts
    BY <1>1 DEF Copy, States
<1> HIDE DEF d
<1>4. msg'[g][n] = d
    BY <1>1, <1>2
<1>5. \A h \in Groups, m \in Numbers : h # g \/ m # n => msg'[h][m] = msg[h][m]
    BY <1>1, <1>2
<1>6. BrokerTyped'
    BY <1>1, <1>2, <1>3 DEF BrokerInv, BrokerTyped
<1>7. msg[g][n].handled
  <2>1. Held(g, n)
      BY <1>1 DEF CopyKnown
  <2> QED BY <2>1, <1>1 DEF Held
<1>8. CopyKnown(g, n)'
    BY <1>1, <1>2, <1>3, <1>4, <1>7 DEF CopyKnown, Held
<1>9. n \notin Lost(g)'
    BY <1>3, <1>4, <1>7 DEF Lost
<1>10. OneAtATime'
    BY <1>1, <1>2 DEF OneAtATime
<1> QED BY <1>2, <1>5, <1>6, <1>8, <1>9, <1>10, OneCopy

\* Publish gives every group of the topic a fresh copy.
LEMMA PublishStep ==
    ASSUME BrokerInv, NEW topic \in Topics, NEW ps \in SUBSET Web,
           \A q \in ps : ps = {q}, Publish(topic, ps)
    PROVE  BrokerInv'
<1> DEFINE k == Len(log) + 1
<1>1. k \in Numbers /\ log' \in Seq(Topics)
    BY DEF Publish, BrokerInv, BrokerTyped, Numbers
<1>2. breaks \in Nat /\ UNCHANGED <<backend, subs, assigned, known, running, breaks, ends>>
    BY DEF Publish, BrokerInv, BrokerTyped
<1>3. ASSUME NEW g \in Groups
      PROVE  LET c == CopyFor(g, ps)
             IN  /\ c \in Copy /\ c.starts = 0 /\ c.st \in {"waiting", "missed"}
                 /\ c.kept /\ backend = "kafka" => g \in known
                 /\ c.by \in {{}, ps}
  <2> DEFINE c == CopyFor(g, ps)
  <2> HIDE DEF c
  <2>1. CASE c = [NoCopy EXCEPT !.st = "missed"]
    <3>1. c \in Copy /\ c.starts = 0 /\ c.st = "missed" /\ c.by = {} /\ ~c.kept
        BY <2>1 DEF Copy, States, NoCopy
    <3> QED BY <3>1 DEF c
  <2>2. CASE c = [NoCopy EXCEPT !.st = "waiting", !.by = ps, !.kept = TRUE] /\ backend = "memory"
    <3>1. c \in Copy /\ c.starts = 0 /\ c.st = "waiting" /\ c.by = ps
        BY <2>2 DEF Copy, States, NoCopy
    <3> QED BY <3>1, <2>2 DEF c
  <2>3. CASE c = [NoCopy EXCEPT !.st = "waiting", !.kept = g \in known]
    <3> DEFINE old == g \in known
    <3>1. old \in BOOLEAN
        OBVIOUS
    <3>2. c = [NoCopy EXCEPT !.st = "waiting", !.kept = old]
        BY <2>3
    <3> HIDE DEF old
    <3>3. c \in Copy /\ c.starts = 0 /\ c.st = "waiting" /\ c.by = {} /\ c.kept = old
        BY <3>1, <3>2 DEF Copy, States, NoCopy
    <3>4. c.kept => g \in known
        BY <3>3 DEF old
    <3> QED BY <3>3, <3>4 DEF c
  <2> QED BY <2>1, <2>2, <2>3 DEF CopyFor, c
<1>4. ASSUME NEW g \in Groups
      PROVE  /\ msg'[g] \in [Numbers -> Copy]
             /\ \A n \in Numbers : msg'[g][n] \in {msg[g][n], CopyFor(g, ps)}
  <2> HIDE DEF k
  <2>1. \/ msg'[g] = [msg[g] EXCEPT ![k] = CopyFor(g, ps)]
        \/ msg'[g] = msg[g]
      BY DEF Publish, k
  <2>2. msg[g] \in [Numbers -> Copy] /\ CopyFor(g, ps) \in Copy
      BY <1>3 DEF BrokerInv, BrokerTyped
  <2> QED BY <2>1, <2>2
<1>5. BrokerTyped'
  <2>1. msg' \in [Groups -> [Numbers -> Copy]]
      BY <1>4 DEF Publish
  <2> QED BY <2>1, <1>1, <1>2 DEF BrokerInv, BrokerTyped
<1>6. CopiesKnown'
  <2> SUFFICES ASSUME NEW g \in Groups, NEW n \in Numbers PROVE CopyKnown(g, n)'
      BY DEF CopiesKnown
  <2>1. CASE msg'[g][n] = msg[g][n]
    <3>1. CopyKnown(g, n)
        BY DEF BrokerInv, CopiesKnown
    <3> QED BY <3>1, <2>1, <1>2 DEF CopyKnown, Held
  <2>2. CASE msg'[g][n] = CopyFor(g, ps)
    <3> DEFINE c == CopyFor(g, ps)
    <3>1. /\ c.starts = 0 /\ c.st \in {"waiting", "missed"} /\ \A q \in c.by : c.by = {q}
          /\ c.kept /\ backend = "kafka" => g \in known
        BY <1>3
    <3>2. msg'[g][n] = c
        BY <2>2
    <3> HIDE DEF c
    <3> QED BY <3>1, <3>2, <1>2 DEF CopyKnown
  <2> QED BY <1>4, <2>1, <2>2
<1>7. \A h \in Groups : KeptLost(h)' \subseteq KeptLost(h)
  <2>1. \A h \in Groups, n \in Numbers : msg'[h][n].st = "done" => msg'[h][n] = msg[h][n]
      BY <1>3, <1>4
  <2> QED BY <2>1, <1>2 DEF KeptLost, Lost
<1>8. OneAtATime'
    BY <1>2 DEF BrokerInv, OneAtATime
<1> QED BY <1>2, <1>5, <1>6, <1>7, <1>8, LostStays DEF BrokerInv

LEMMA CommitStep ==
    ASSUME BrokerInv, NEW g \in Groups, Commit(g)
    PROVE  /\ BrokerInv'
           /\ \A h \in Groups, n \in Numbers : msg'[h][n].by \subseteq msg[h][n].by
<1>1. /\ backend = "kafka" /\ UNCHANGED <<backend, subs, assigned, log, running, breaks, ends>>
      /\ known' = known \cup {g}
      /\ msg \in [Groups -> [Numbers -> Copy]]
    BY DEF Commit, BrokerInv, BrokerTyped
<1>2. ASSUME NEW h \in Groups, NEW n \in Numbers
      PROVE  LET c == msg[h][n]
                 d == msg'[h][n]
             IN  /\ d \in Copy /\ d.starts = c.starts /\ d.kept = c.kept /\ d.handled = c.handled
                 /\ \/ d = c
                    \/ d.st = "done" /\ d.by = {} /\ c.st = "out"
  <2> DEFINE c == msg[h][n]
             d == msg'[h][n]
  <2>1. c \in Copy
      BY <1>1
  <2>2. \/ d = c
        \/ d = [c EXCEPT !.st = "done", !.by = {}] /\ c.st = "out"
      BY <1>1 DEF Commit
  <2> HIDE DEF c, d
  <2>3. CASE d = c
      BY <2>1, <2>3 DEF c, d
  <2>4. CASE d = [c EXCEPT !.st = "done", !.by = {}] /\ c.st = "out"
      BY <2>1, <2>4 DEF Copy, States, c, d
  <2> QED BY <2>2, <2>3, <2>4
<1>3. BrokerTyped'
  <2>1. msg' \in [Groups -> [Numbers -> Copy]]
      BY <1>1, <1>2 DEF Commit
  <2> QED BY <2>1, <1>1 DEF BrokerInv, BrokerTyped
<1>4. ASSUME NEW h \in Groups, NEW n \in Numbers
      PROVE  /\ CopyKnown(h, n)'
             /\ msg[h][n].st = "out" => msg[h][n].handled \/ \E q \in Web : <<h, n>> \in running[q]
  <2>1. CopyKnown(h, n)
      BY DEF BrokerInv, CopiesKnown
  <2>2. msg[h][n].st = "out" => Held(h, n)
      BY <2>1, <1>1 DEF CopyKnown
  <2>3. CASE msg'[h][n] = msg[h][n]
      BY <2>1, <2>2, <2>3, <1>1 DEF CopyKnown, Held
  <2>4. CASE msg'[h][n].st = "done" /\ msg'[h][n].by = {}
      BY <2>1, <2>2, <2>4, <1>1, <1>2 DEF CopyKnown, Held
  <2> QED BY <1>2, <2>3, <2>4
<1>5. \A h \in Groups : KeptLost(h)' \subseteq KeptLost(h)
    BY <1>1, <1>2, <1>4 DEF KeptLost, Lost
<1>6. OneAtATime'
    BY <1>1 DEF BrokerInv, OneAtATime
<1>7. BrokerInv'
    BY <1>1, <1>3, <1>4, <1>5, <1>6, LostStays DEF BrokerInv, CopiesKnown
<1> QED BY <1>2, <1>7

---------------------------------------------------------------------------
\* Deliveries taken back.  Either all of p's are and its handlers end, or those
\* of one group are and the handlers go on.
LEMMA BackStep ==
    ASSUME BrokerInv, NEW p \in Web, NEW gs \in SUBSET Groups, TakeBack(p, gs),
           subs' = [q \in Web |-> subs'[q]],
           \/ gs = Groups /\ running' = [running EXCEPT ![p] = {}]
           \/ UNCHANGED running,
           ends' \in {ends, ends + 1}, backend = "memory" => ends' = ends + 1
    PROVE  /\ BrokerTyped' /\ CopiesKnown' /\ OneAtATime'
           /\ \A h \in Groups : backend = "kafka" =>
                KeptLost(h)' \subseteq
                  KeptLost(h) \cup {n \in Numbers : /\ <<h, n>> \in running[p]
                                                    /\ <<h, n>> \notin running'[p]}
           /\ \A g \in Groups, n \in Numbers : msg'[g][n].by \subseteq msg[g][n].by
           /\ gs = Groups => \A g \in Groups, n \in Numbers : p \notin msg'[g][n].by
<1>1. /\ UNCHANGED <<backend, known, log>> /\ breaks' = breaks + 1
      /\ breaks \in Nat /\ ends \in Nat /\ ends' \in Nat
      /\ msg \in [Groups -> [Numbers -> Copy]] /\ running \in [Web -> SUBSET (Groups \X Numbers)]
      /\ assigned \in [Groups -> SUBSET Web]
    BY DEF TakeBack, BrokerInv, BrokerTyped
<1>2. ASSUME NEW g \in Groups, NEW n \in Numbers
      PROVE  LET c == msg[g][n]
                 d == msg'[g][n]
             IN  /\ d \in Copy /\ d.starts = c.starts /\ d.kept = c.kept /\ d.handled = c.handled
                 /\ \/ d = c /\ (p \notin c.by \/ g \notin gs)
                    \/ d.by = {} /\ d.st = "waiting" /\ backend # "memory"
                    \/ d.by = {} /\ d.st = "done" /\ backend = "kafka" /\ g \notin known
                    \/ d.by = {} /\ d.st = "done" /\ backend = "memory"
  <2> DEFINE c == msg[g][n]
             d == msg'[g][n]
  <2>1. c \in Copy
      BY <1>1
  <2>2. d = IF g \in gs THEN Back(p, g, c) ELSE c
      BY DEF TakeBack
  <2> HIDE DEF c, d
  <2>3. \/ d = c /\ (p \notin c.by \/ g \notin gs)
        \/ d = [c EXCEPT !.by = {}, !.st = "waiting"] /\ backend # "memory"
        \/ /\ d = [c EXCEPT !.by = {}, !.st = "done"]
           /\ backend = "memory" \/ (backend = "kafka" /\ g \notin known)
      BY <2>2 DEF Back
  <2>4. CASE d = c /\ (p \notin c.by \/ g \notin gs)
      BY <2>1, <2>4 DEF c, d
  <2>5. CASE d = [c EXCEPT !.by = {}, !.st = "waiting"] /\ backend # "memory"
      BY <2>1, <2>5 DEF Copy, States, c, d
  <2>6. CASE /\ d = [c EXCEPT !.by = {}, !.st = "done"]
             /\ backend = "memory" \/ (backend = "kafka" /\ g \notin known)
      BY <2>1, <2>6 DEF Copy, States, c, d
  <2> QED BY <2>3, <2>4, <2>5, <2>6
<1>3. \A q \in Web : running'[q] \subseteq running[q] /\ (q # p => running'[q] = running[q])
    BY <1>1
<1>4. BrokerTyped'
  <2>1. msg' \in [Groups -> [Numbers -> Copy]]
      BY <1>2 DEF TakeBack
  <2>2. assigned' \in [Groups -> SUBSET Web]
      BY <1>1 DEF TakeBack
  <2>3. running' \in [Web -> SUBSET (Groups \X Numbers)]
      BY <1>1
  <2>4. backend' \in Backends /\ log' \in Seq(Topics) /\ breaks' \in Nat
      BY <1>1 DEF BrokerInv, BrokerTyped
  <2> QED BY <2>1, <2>2, <2>3, <2>4, <1>1 DEF BrokerTyped
<1>5. ASSUME NEW g \in Groups, NEW n \in Numbers PROVE CopyKnown(g, n)'
  <2>1. CopyKnown(g, n)
      BY DEF BrokerInv, CopiesKnown
  <2>a. msg[g][n].starts \in Nat /\ msg'[g][n].starts = msg[g][n].starts
      BY <1>1, <1>2 DEF Copy
  <2>2. msg'[g][n].starts <= 1 + breaks' /\ msg'[g][n].starts <= breaks'
      BY <2>1, <2>a, <1>1 DEF CopyKnown
  <2>3. /\ \A q \in msg'[g][n].by : msg'[g][n].by = {q}
        /\ backend' = "kafka" /\ msg'[g][n].kept => g \in known'
      BY <2>1, <1>1, <1>2 DEF CopyKnown
  <2>4. backend' = "rabbitmq" /\ msg'[g][n].st = "done" => msg'[g][n].handled
      BY <2>1, <1>1, <1>2 DEF CopyKnown
  <2>5. ASSUME backend' # "memory", msg'[g][n].st = "out" PROVE Held(g, n)'
    <3>1. msg'[g][n] = msg[g][n] /\ (p \notin msg[g][n].by \/ g \notin gs)
        BY <2>5, <1>2
    <3>2. PICK q \in Web : msg[g][n].by = {q} /\ (msg[g][n].handled \/ <<g, n>> \in running[q])
        BY <2>1, <2>5, <3>1, <1>1 DEF CopyKnown, Held
    <3>3. q # p \/ UNCHANGED running
        BY <3>1, <3>2
    <3>4. running'[q] = running[q]
        BY <3>3, <1>3
    <3> QED BY <3>1, <3>2, <3>4 DEF Held
  <2>6. backend' = "memory" => ends' # 0
      BY <1>1
  <2> QED BY <2>2, <2>3, <2>4, <2>5, <2>6 DEF CopyKnown
<1>6. OneAtATime'
    BY <1>1, <1>3 DEF BrokerInv, OneAtATime
<1>7. ASSUME NEW h \in Groups, backend = "kafka", NEW n \in KeptLost(h)',
             <<h, n>> \notin running[p] \/ <<h, n>> \in running'[p]
      PROVE  n \in KeptLost(h)
  <2>1. /\ n \in Numbers /\ msg'[h][n].st = "done" /\ ~msg'[h][n].handled /\ msg'[h][n].kept
        /\ \A q \in Web : <<h, n>> \notin running'[q]
      BY <1>7 DEF KeptLost, Lost
  <2>2. \A q \in Web : <<h, n>> \notin running[q]
      BY <2>1, <1>3, <1>7
  <2>3. CopyKnown(h, n)
      BY <2>1 DEF BrokerInv, CopiesKnown
  <2>4. msg'[h][n] = msg[h][n]
      BY <2>1, <2>3, <1>2, <1>7 DEF CopyKnown
  <2> QED BY <2>1, <2>2, <2>4 DEF KeptLost, Lost
<1>8. \A h \in Groups : backend = "kafka" =>
        KeptLost(h)' \subseteq
          KeptLost(h) \cup {n \in Numbers : <<h, n>> \in running[p] /\ <<h, n>> \notin running'[p]}
    BY <1>7 DEF KeptLost, Lost
<1>9. \A g \in Groups, n \in Numbers : msg'[g][n].by \subseteq msg[g][n].by
    BY <1>2
<1>10. gs = Groups => \A g \in Groups, n \in Numbers : p \notin msg'[g][n].by
    BY <1>2
<1> QED BY <1>4, <1>5, <1>6, <1>8, <1>9, <1>10 DEF CopiesKnown

\* A process that ends loses, in a kafka group, at most the message that it works on.
LEMMA LeaveStep ==
    ASSUME BrokerInv, NEW p \in Web, Leave(p)
    PROVE  BrokerInv' /\ Quiet(p)' /\ \A q \in Web : Quiet(q) => Quiet(q)'
<1>1. /\ TakeBack(p, Groups) /\ ends' = ends + 1 /\ backend' = backend
      /\ subs' = [subs EXCEPT ![p] = {}] /\ running' = [running EXCEPT ![p] = {}]
    BY DEF Leave, TakeBack
<1>2. /\ subs' = [q \in Web |-> subs'[q]] /\ subs'[p] = {} /\ running'[p] = {}
      /\ \A q \in Web : subs'[q] \subseteq subs[q] /\ running'[q] \subseteq running[q]
  <2>1. subs = [q \in Web |-> subs[q]] /\ running \in [Web -> SUBSET (Groups \X Numbers)]
      BY DEF BrokerInv, BrokerTyped
  <2>2. subs' = [q \in Web |-> IF q = p THEN {} ELSE subs[q]]
      BY <2>1, <1>1
  <2> QED BY <2>1, <2>2, <1>1
<1>3. /\ BrokerTyped' /\ CopiesKnown' /\ OneAtATime'
      /\ \A h \in Groups : backend = "kafka" =>
           KeptLost(h)' \subseteq
             KeptLost(h) \cup {n \in Numbers : <<h, n>> \in running[p] /\ <<h, n>> \notin running'[p]}
      /\ \A g \in Groups, n \in Numbers : msg'[g][n].by \subseteq msg[g][n].by
      /\ \A g \in Groups, n \in Numbers : p \notin msg'[g][n].by
    BY <1>1, <1>2, BackStep
<1>4. ASSUME NEW h \in Groups, backend = "kafka"
      PROVE  \E m : KeptLost(h)' \subseteq KeptLost(h) \cup {m}
  <2> DEFINE W == {n \in Numbers : <<h, n>> \in running[p]}
  <2>0. \A m, n \in W : m = n
      BY <1>4 DEF BrokerInv, OneAtATime
  <2>1. CASE W # {}
    <3>1. PICK m \in W : TRUE
        BY <2>1
    <3>2. W = {m}
        BY <2>0, <3>1
    <3> QED BY <3>2, <1>3, <1>4
  <2>2. CASE W = {}
    <3>1. KeptLost(h)' \subseteq KeptLost(h) \cup {0}
        BY <2>2, <1>3, <1>4
    <3> QED BY <3>1
  <2> QED BY <2>1, <2>2
<1>5. LostFew'
    BY <1>1, <1>4, LostOne
<1>6. Quiet(p)' /\ \A q \in Web : Quiet(q) => Quiet(q)'
    BY <1>2, <1>3 DEF Quiet
<1> QED BY <1>3, <1>5, <1>6 DEF BrokerInv

\* A break loses nothing that was kept: the handlers of kafka go on.
LEMMA BreakStep ==
    ASSUME BrokerInv, NEW p \in Web,
           Drop(p) \/ \E g \in Groups : Rebalance(p, g) \/ Fail(p, g)
    PROVE  BrokerInv' /\ \A q \in Web : Quiet(q) => Quiet(q)'
<1>0. /\ subs = [q \in Web |-> subs[q]] /\ running \in [Web -> SUBSET (Groups \X Numbers)]
      /\ "kafka" # "rabbitmq" /\ "memory" # "kafka" /\ "memory" # "rabbitmq"
    BY DEF BrokerInv, BrokerTyped
<1>1. PICK gs \in SUBSET Groups :
        /\ TakeBack(p, gs)
        /\ \/ gs = Groups /\ running' = [running EXCEPT ![p] = {}] /\ backend = "rabbitmq"
           \/ UNCHANGED running /\ backend = "kafka"
        /\ UNCHANGED <<subs, ends>>
  <2>1. CASE Drop(p)
      BY <2>1 DEF Drop
  <2>2. ASSUME NEW g \in Groups, Rebalance(p, g) \/ Fail(p, g)
        PROVE  TakeBack(p, {g}) /\ UNCHANGED <<subs, running, ends>> /\ backend = "kafka"
      BY <2>2 DEF Rebalance, Fail
  <2> QED BY <2>1, <2>2
<1>2. subs' = [q \in Web |-> subs'[q]] /\ backend # "memory" /\ backend' = backend
    BY <1>0, <1>1 DEF TakeBack
<1>3. /\ BrokerTyped' /\ CopiesKnown' /\ OneAtATime'
      /\ \A h \in Groups : backend = "kafka" =>
           KeptLost(h)' \subseteq
             KeptLost(h) \cup {n \in Numbers : <<h, n>> \in running[p] /\ <<h, n>> \notin running'[p]}
      /\ \A h \in Groups, n \in Numbers : msg'[h][n].by \subseteq msg[h][n].by
    BY <1>1, <1>2, BackStep
<1>4. LostFew'
  <2>1. \A h \in Groups : backend = "kafka" => KeptLost(h)' \subseteq KeptLost(h)
      BY <1>0, <1>1, <1>3
  <2> QED BY <2>1, <1>1, <1>2, LostStays
<1>5. \A q \in Web : Quiet(q) => Quiet(q)'
  <2>1. \A q \in Web : running'[q] \subseteq running[q]
      BY <1>0, <1>1
  <2> QED BY <2>1, <1>1, <1>3 DEF Quiet
<1> QED BY <1>3, <1>4, <1>5 DEF BrokerInv

\* Memory's disconnect waits until nothing of p's is left to do.
LEMMA DisconnectStep ==
    ASSUME BrokerInv, NEW p \in Web, Disconnect(p)
    PROVE  BrokerInv' /\ Quiet(p)' /\ \A q \in Web : Quiet(q) => Quiet(q)'
<1>0. subs = [q \in Web |-> subs[q]] /\ assigned \in [Groups -> SUBSET Web] /\ log \in Seq(Topics)
    BY DEF BrokerInv, BrokerTyped
<1>1. CASE backend = "memory"
  <2>1. /\ Busy(p) = {}
        /\ UNCHANGED <<backend, assigned, known, log, msg, running, breaks, ends>>
        /\ subs' = [subs EXCEPT ![p] = {}]
      BY <1>1 DEF Disconnect
  <2>2. ASSUME NEW g \in Groups, NEW n \in Numbers, p \in msg[g][n].by PROVE FALSE
    <3>1. msg[g][n].by = {p}
        BY <2>2 DEF BrokerInv, CopiesKnown, CopyKnown
    <3>2. <<g, n>> \in Busy(p)
        BY <3>1 DEF Busy
    <3> QED BY <3>2, <2>1
  <2>3. subs' = [q \in Web |-> IF q = p THEN {} ELSE subs[q]]
      BY <2>1, <1>0
  <2>4. subs' = [q \in Web |-> subs'[q]]
      BY <2>3
  <2>5. BrokerInv'
      BY <2>1, <2>4, <1>0, NoCopyMoves
  <2>6. running[p] = {}
      BY <2>1 DEF Busy
  <2> QED BY <2>1, <2>2, <2>3, <2>5, <2>6 DEF Quiet
<1>2. CASE backend # "memory"
  <2>1. Leave(p)
      BY <1>2 DEF Disconnect
  <2> QED BY <2>1, LeaveStep
<1> QED BY <1>1, <1>2

---------------------------------------------------------------------------
\* What a step leaves of OpenKnown when only p moves, to stage s.
LEMMA OpenStep ==
    ASSUME LifespanInv, NEW p \in Web, NEW s \in Stages, NEW r \in SUBSET Resources,
           stage' = [stage EXCEPT ![p] = s], open' = [open EXCEPT ![p] = r],
           r \subseteq OpenAt(s), "broker" \in r <=> s \in Consuming,
           \A q \in Web : q # p /\ Quiet(q) => Quiet(q)',
           s \notin Consuming => Quiet(p)'
    PROVE  OpenKnown'
<1>1. /\ stage'[p] = s /\ open'[p] = r
      /\ \A q \in Web : q # p => stage'[q] = stage[q] /\ open'[q] = open[q]
      /\ stage' \in [Web -> Stages] /\ open' \in [Web -> SUBSET Resources]
    BY DEF LifespanInv, OpenKnown
<1>2. ASSUME NEW q \in Web
      PROVE  /\ open'[q] \subseteq OpenAt(stage'[q])
             /\ "broker" \in open'[q] <=> stage'[q] \in Consuming
             /\ stage'[q] \notin Consuming => Quiet(q)'
  <2>1. CASE q = p
    <3>1. s \notin Consuming => Quiet(q)'
        BY <2>1 DEF Quiet
    <3> QED BY <2>1, <3>1, <1>1
  <2>2. CASE q # p
    <3>1. stage'[q] = stage[q] /\ open'[q] = open[q] /\ (Quiet(q) => Quiet(q)')
        BY <2>2, <1>1
    <3> QED BY <3>1 DEF LifespanInv, OpenKnown
  <2> QED BY <2>1, <2>2
<1>3. \A t : OpenAt(t)' = OpenAt(t)
    BY DEF OpenAt
<1> QED BY <1>1, <1>2 DEF OpenKnown, OpenAt

\* ... when the broker sees nothing of it, and when no process moves.
LEMMA OpenMove ==
    ASSUME LifespanInv, NEW p \in Web, NEW s \in Stages, NEW r \in SUBSET Resources,
           stage' = [stage EXCEPT ![p] = s], open' = [open EXCEPT ![p] = r],
           r \subseteq OpenAt(s), "broker" \in r <=> s \in Consuming,
           s \notin Consuming => stage[p] \notin Consuming,
           UNCHANGED brokerVars
    PROVE  LifespanInv'
<1>1. \A q \in Web : Quiet(q) => Quiet(q)'
    BY DEF brokerVars, Quiet
<1>2. s \notin Consuming => Quiet(p)'
    BY <1>1 DEF LifespanInv, OpenKnown
<1>3. OpenKnown'
    BY <1>1, <1>2, OpenStep
<1>4. BrokerInv'
    BY NoCopyMoves DEF LifespanInv, BrokerInv, BrokerTyped, brokerVars
<1> QED BY <1>3, <1>4 DEF LifespanInv

LEMMA OpenStays ==
    ASSUME LifespanInv, UNCHANGED <<stage, open>>,
           \A q \in Web : stage[q] \notin Consuming /\ Quiet(q) => Quiet(q)'
    PROVE  OpenKnown'
BY DEF LifespanInv, OpenKnown, OpenAt

\* Only a process that takes a message, or publishes in memory, stops being quiet.
LEMMA Hands ==
    ASSUME BrokerInv, NEW p \in Web, NEW h \in Groups, NEW k \in Numbers,
           Take(p, h, k) \/ Finish(p, h, k) \/ Ack(p, h, k)
    PROVE  \A q \in Web : Quiet(q) /\ (q # p \/ ~Take(p, h, k)) => Quiet(q)'
<1>0. msg \in [Groups -> [Numbers -> Copy]] /\ running \in [Web -> SUBSET (Groups \X Numbers)]
    BY DEF BrokerInv, BrokerTyped
<1> SUFFICES ASSUME NEW q \in Web, Quiet(q), q # p \/ ~Take(p, h, k) PROVE Quiet(q)'
    OBVIOUS
<1>1. subs' = subs /\ running'[q] \subseteq running[q]
    BY <1>0 DEF Take, Run, Finish, Ack
<1>2. ASSUME NEW g \in Groups, NEW n \in Numbers, q \in msg'[g][n].by
      PROVE  q \in msg[g][n].by
  <2>1. CASE Take(p, h, k)
    <3>1. /\ Begun(msg[h][k], "done", {}).by \subseteq {p}
          /\ Begun(msg[h][k], "out", {p}).by \subseteq {p}
        BY <1>0 DEF Begun, Copy
    <3>2. PICK d : msg' = [msg EXCEPT ![h][k] = d] /\ d.by \subseteq {p}
        BY <3>1, <2>1 DEF Take
    <3>3. q # p
        BY <2>1
    <3> QED BY <3>2, <3>3, <1>0, <1>2
  <2>2. CASE Finish(p, h, k)
    <3>1. msg' = [msg EXCEPT ![h][k] = [msg[h][k] EXCEPT !.handled = TRUE]]
        BY <2>2 DEF Finish
    <3> QED BY <3>1, <1>0, <1>2 DEF Copy
  <2>3. CASE Ack(p, h, k)
    <3>1. msg' = [msg EXCEPT ![h][k] = [msg[h][k] EXCEPT !.st = "done", !.by = {}]]
        BY <2>3 DEF Ack
    <3> QED BY <3>1, <1>0, <1>2 DEF Copy
  <2> QED BY <2>1, <2>2, <2>3
<1> QED BY <1>1, <1>2 DEF Quiet

LEMMA PublishHands ==
    ASSUME BrokerInv, NEW topic \in Topics, NEW ps \in SUBSET Web, Publish(topic, ps)
    PROVE  \A q \in Web : Quiet(q) /\ q \notin ps => Quiet(q)'
<1>1. ASSUME NEW g \in Groups, NEW n \in Numbers
      PROVE  msg'[g][n].by \subseteq msg[g][n].by \cup ps
  <2>1. msg[g] \in [Numbers -> Copy]
      BY DEF BrokerInv, BrokerTyped
  <2>2. \/ msg'[g] = [msg[g] EXCEPT ![Len(log) + 1] = CopyFor(g, ps)]
        \/ msg'[g] = msg[g]
      BY DEF Publish
  <2>3. CopyFor(g, ps).by \subseteq ps
      BY DEF CopyFor, NoCopy
  <2> QED BY <2>1, <2>2, <2>3
<1>2. UNCHANGED <<subs, running>>
    BY DEF Publish
<1> QED BY <1>1, <1>2 DEF Quiet

LEMMA LifespanInit == Init => LifespanInv
<1> SUFFICES ASSUME Init PROVE LifespanInv
    OBVIOUS
<1> USE DEF Init, BrokerInit
<1>1. /\ NoCopy \in Copy /\ NoCopy.st = "none" /\ NoCopy.by = {} /\ NoCopy.starts = 0
      /\ ~NoCopy.kept
    BY DEF NoCopy, Copy, States
<1>2. BrokerTyped
    BY <1>1 DEF BrokerTyped
<1>3. CopiesKnown /\ OneAtATime
    BY <1>1 DEF CopiesKnown, CopyKnown, OneAtATime
<1>4. LostFew
  <2>1. \A g \in Groups : KeptLost(g) = {}
      BY <1>1 DEF KeptLost, Lost
  <2>2. Cardinality({}) = 0
      BY FS_EmptySet
  <2>3. \A g \in Groups : Cardinality(KeptLost(g)) = 0
      BY <2>1, <2>2
  <2> QED BY <2>3 DEF LostFew
<1>5. OpenKnown
    BY <1>1 DEF OpenKnown, OpenAt, Consuming, Stages, Resources, Quiet
<1> QED BY <1>2, <1>3, <1>4, <1>5 DEF LifespanInv, BrokerInv

LEMMA LifespanStutter == LifespanInv /\ UNCHANGED vars => LifespanInv'
<1> SUFFICES ASSUME LifespanInv, UNCHANGED vars PROVE LifespanInv'
    OBVIOUS
<1> USE DEF vars
<1>1. BrokerInv'
    BY NoCopyMoves DEF LifespanInv, BrokerInv, BrokerTyped
<1>2. OpenKnown'
    BY OpenStays DEF Quiet
<1> QED BY <1>1, <1>2 DEF LifespanInv

LEMMA LifespanStep == LifespanInv /\ Next => LifespanInv'
<1> SUFFICES ASSUME LifespanInv, Next PROVE LifespanInv'
    OBVIOUS
<1>0. /\ BrokerInv /\ subs = [q \in Web |-> subs[q]]
      /\ assigned \in [Groups -> SUBSET Web] /\ log \in Seq(Topics)
    BY DEF LifespanInv, BrokerInv, BrokerTyped
<1>p. \A q \in Web :
        /\ stage[q] \in Stages /\ open[q] \in SUBSET Resources
        /\ open[q] \subseteq OpenAt(stage[q])
        /\ "broker" \in open[q] <=> stage[q] \in Consuming
        /\ stage[q] \notin Consuming => Quiet(q)
    BY DEF LifespanInv, OpenKnown
<1>1. CASE RelayUserCreated
  <2>1. Publish("users.created", {}) /\ UNCHANGED <<stage, open, subs>>
      BY <1>1 DEF RelayUserCreated, Publish
  <2>2. BrokerInv'
      BY <2>1, <1>0, PublishStep DEF Topics
  <2>3. OpenKnown'
      BY <2>1, <1>0, PublishHands, OpenStays DEF Topics
  <2> QED BY <2>2, <2>3 DEF LifespanInv
<1>2. ASSUME NEW p \in Web, Start(p) PROVE LifespanInv'
  <2>1. CASE Ping(p)
    <3>1. UNCHANGED brokerVars /\ stage[p] = "down"
          /\ stage' = [stage EXCEPT ![p] = "connect"] /\ open' = [open EXCEPT ![p] = {"redis"}]
        BY <2>1 DEF Ping, At, Go
    <3>2. /\ {"redis"} \in SUBSET Resources /\ {"redis"} \subseteq OpenAt("connect")
          /\ "broker" \in {"redis"} <=> "connect" \in Consuming
        BY <3>1, <1>p DEF OpenAt, Consuming, Resources
    <3>3. "connect" \in Stages /\ ("connect" \notin Consuming => stage[p] \notin Consuming)
        BY <3>1 DEF Stages, Consuming
    <3> QED BY <3>1, <3>2, <3>3, OpenMove
  <2>2. CASE Connect(p)
    <3>1. UNCHANGED brokerVars /\ stage[p] = "connect"
          /\ stage' = [stage EXCEPT ![p] = "register"]
          /\ open' = [open EXCEPT ![p] = open[p] \cup {"broker"}]
        BY <2>2 DEF Connect, At, Go
    <3>2. /\ open[p] \cup {"broker"} \in SUBSET Resources /\ open[p] \cup {"broker"} \subseteq OpenAt("register")
          /\ "broker" \in open[p] \cup {"broker"} <=> "register" \in Consuming
        BY <3>1, <1>p DEF OpenAt, Consuming, Resources
    <3>3. "register" \in Stages /\ ("register" \notin Consuming => stage[p] \notin Consuming)
        BY <3>1 DEF Stages, Consuming
    <3> QED BY <3>1, <3>2, <3>3, OpenMove
  <2>3. CASE Register(p)
    <3> DEFINE g == Order[Cardinality(subs[p]) + 1]
    <3>0. Subscribe(p, g) /\ stage[p] = "register"
        BY <2>3 DEF Register, At
    <3>a. Go(p, "storage", open[p]) \/ Go(p, "register", open[p])
        BY <2>3 DEF Register
    <3> HIDE DEF g
    <3>1. PICK s \in {"register", "storage"} :
            stage' = [stage EXCEPT ![p] = s] /\ open' = [open EXCEPT ![p] = open[p]]
        BY <3>a DEF Go
    <3>2. subs' = [q \in Web |-> IF q = p THEN subs[p] \cup {g} ELSE subs[q]]
          /\ UNCHANGED <<backend, assigned, log, msg, running, breaks, ends>> /\ known \subseteq known'
        BY <3>0, <1>0 DEF Subscribe
    <3>3. subs' = [q \in Web |-> subs'[q]]
        BY <3>2
    <3>4. BrokerInv'
        BY <3>2, <3>3, <1>0, NoCopyMoves
    <3>5. s \in Stages /\ s \in Consuming /\ OpenAt(s) = Resources /\ "register" \in Consuming
        BY DEF OpenAt, Consuming, Stages
    <3>6. open[p] \in SUBSET Resources /\ "broker" \in open[p]
        BY <3>0, <3>5, <1>p
    <3>7. \A q \in Web : q # p => subs'[q] = subs[q]
        BY <3>2
    <3>8. \A q \in Web : q # p /\ Quiet(q) => Quiet(q)'
        BY <3>2, <3>7 DEF Quiet
    <3>9. OpenKnown'
        BY <3>1, <3>5, <3>6, <3>8, OpenStep
    <3> QED BY <3>4, <3>9 DEF LifespanInv
  <2>4. CASE ConnectStorage(p)
    <3>1. UNCHANGED brokerVars /\ stage[p] = "storage"
          /\ stage' = [stage EXCEPT ![p] = "serving"]
          /\ open' = [open EXCEPT ![p] = open[p] \cup {"storage"}]
        BY <2>4 DEF ConnectStorage, At, Go
    <3>2. /\ open[p] \cup {"storage"} \in SUBSET Resources /\ open[p] \cup {"storage"} \subseteq OpenAt("serving")
          /\ "broker" \in open[p] \cup {"storage"} <=> "serving" \in Consuming
        BY <3>1, <1>p DEF OpenAt, Consuming, Resources
    <3>3. "serving" \in Stages /\ ("serving" \notin Consuming => stage[p] \notin Consuming)
        BY <3>1 DEF Stages, Consuming
    <3> QED BY <3>1, <3>2, <3>3, OpenMove
  <2> QED BY <1>2, <2>1, <2>2, <2>3, <2>4 DEF Start
<1>3. ASSUME NEW p \in Web, QueueNotification(p) PROVE LifespanInv'
  <2>1. Publish("notifications.send", {p}) /\ stage[p] = "serving" /\ UNCHANGED <<stage, open, subs>>
      BY <1>3 DEF QueueNotification, Publish, At
  <2>2. BrokerInv'
      BY <2>1, <1>0, PublishStep DEF Topics
  <2>3. OpenKnown'
      BY <2>1, <1>0, PublishHands, OpenStays DEF Topics, Consuming
  <2> QED BY <2>2, <2>3 DEF LifespanInv
<1>4. ASSUME NEW p \in Web, Deliver(p) PROVE LifespanInv'
  <2>0. UNCHANGED <<stage, open>>
      BY <1>4 DEF Deliver
  <2>1. ASSUME NEW g \in Groups, Assign(p, g) PROVE LifespanInv'
    <3>1. /\ UNCHANGED <<backend, subs, known, log, msg, running, breaks, ends>>
          /\ assigned' \in [Groups -> SUBSET Web]
        BY <2>1, <1>0 DEF Assign
    <3>2. BrokerInv'
        BY <3>1, <1>0, NoCopyMoves
    <3>3. OpenKnown'
        BY <3>1, <2>0, OpenStays DEF Quiet
    <3> QED BY <3>2, <3>3 DEF LifespanInv
  <2>2. ASSUME NEW g \in Groups, Commit(g) PROVE LifespanInv'
    <3>1. /\ BrokerInv' /\ UNCHANGED <<subs, running>>
          /\ \A h \in Groups, n \in Numbers : msg'[h][n].by \subseteq msg[h][n].by
        BY <2>2, <1>0, CommitStep DEF Commit
    <3>2. \A q \in Web : Quiet(q) => Quiet(q)'
        BY <3>1 DEF Quiet
    <3>3. OpenKnown'
        BY <3>2, <2>0, OpenStays
    <3> QED BY <3>1, <3>3 DEF LifespanInv
  <2>3. ASSUME NEW g \in Groups, NEW n \in Numbers, Finish(p, g, n) \/ Ack(p, g, n)
        PROVE  LifespanInv'
    <3>1. BrokerInv'
        BY <2>3, <1>0, FinishStep, AckStep
    <3>2. ~Take(p, g, n)
      <4>1. running \in [Web -> SUBSET (Groups \X Numbers)]
          BY <1>0 DEF BrokerInv, BrokerTyped
      <4>2. Finish(p, g, n) => <<g, n>> \notin running'[p]
          BY <4>1 DEF Finish
      <4>3. Take(p, g, n) => <<g, n>> \in running'[p] /\ msg[g][n].st = "waiting"
          BY <4>1 DEF Take, Run
      <4>4. Ack(p, g, n) => msg[g][n].st = "out"
          BY DEF Ack
      <4> QED BY <2>3, <4>2, <4>3, <4>4
    <3>3. \A q \in Web : Quiet(q) => Quiet(q)'
        BY <2>3, <3>2, <1>0, Hands
    <3>4. OpenKnown'
        BY <2>0, <3>3, OpenStays
    <3> QED BY <3>1, <3>4 DEF LifespanInv
  <2> QED BY <1>4, <2>1, <2>2, <2>3 DEF Deliver
<1>5. ASSUME NEW p \in Web, NEW g \in Groups, NEW n \in Numbers, Handle(p, g, n)
      PROVE  LifespanInv'
  <2>1. Take(p, g, n) /\ UNCHANGED stage
        /\ open' = [open EXCEPT ![p] = open[p] \cup Needs(g)]
      BY <1>5 DEF Handle
  <2>2. BrokerInv'
      BY <2>1, <1>0, TakeStep
  <2>3. stage[p] \in Consuming
    <3>1. MayTake(p, g, n) /\ backend \in {"memory", "kafka", "rabbitmq"}
        BY <2>1, <1>0 DEF Take, BrokerInv, BrokerTyped, Backends
    <3>2. msg[g][n].by = {p} \/ g \in subs[p]
        BY <3>1 DEF MayTake
    <3> QED BY <3>2, <1>p DEF Quiet
  <2>4. Needs(g) \subseteq {"client", "redis"}
      BY DEF Needs
  <2>5. stage' = [stage EXCEPT ![p] = stage[p]]
      BY <2>1 DEF LifespanInv, OpenKnown
  <2>6. OpenKnown'
    <3>1. OpenAt(stage[p]) = Resources
        BY <2>3 DEF OpenAt, Consuming
    <3>2. open[p] \cup Needs(g) \in SUBSET Resources
          /\ ("broker" \in open[p] \cup Needs(g) <=> stage[p] \in Consuming)
      <4>1. Needs(g) \in SUBSET Resources /\ "broker" \notin Needs(g)
          BY <2>4 DEF Resources
      <4> QED BY <4>1, <1>p
    <3>3. \A q \in Web : q # p /\ Quiet(q) => Quiet(q)'
        BY <2>1, <1>0, Hands
    <3>4. stage[p] \in Stages
        BY <1>p
    <3> QED BY <3>1, <3>2, <3>3, <3>4, <2>1, <2>3, <2>5, OpenStep
  <2> QED BY <2>2, <2>6 DEF LifespanInv
<1>6. ASSUME NEW p \in Web, Stop(p) PROVE LifespanInv'
  <2>1. UNCHANGED brokerVars /\ stage[p] = "serving"
        /\ stage' = [stage EXCEPT ![p] = "disconnect"] /\ open' = [open EXCEPT ![p] = open[p]]
      BY <1>6 DEF Stop, At, Go
  <2>2. /\ open[p] \in SUBSET Resources /\ open[p] \subseteq OpenAt("disconnect")
        /\ "broker" \in open[p] <=> "disconnect" \in Consuming
      BY <2>1, <1>p DEF OpenAt, Consuming
  <2>3. "disconnect" \in Stages /\ "disconnect" \in Consuming
      BY DEF Stages, Consuming
  <2> QED BY <2>1, <2>2, <2>3, OpenMove
<1>7. ASSUME NEW p \in Web, Shutdown(p) PROVE LifespanInv'
  <2>1. CASE DisconnectBroker(p)
    <3>1. Disconnect(p) /\ stage[p] = "disconnect"
          /\ stage' = [stage EXCEPT ![p] = "close_storage"]
          /\ open' = [open EXCEPT ![p] = open[p] \ {"broker"}]
        BY <2>1 DEF DisconnectBroker, At, Go
    <3>2. BrokerInv' /\ Quiet(p)' /\ \A q \in Web : Quiet(q) => Quiet(q)'
        BY <3>1, <1>0, DisconnectStep
    <3>3. /\ open[p] \ {"broker"} \in SUBSET Resources
          /\ open[p] \ {"broker"} \subseteq OpenAt("close_storage")
          /\ "close_storage" \in Stages /\ "close_storage" \notin Consuming
      <4>1. OpenAt("close_storage") = {"redis", "client", "storage"}
          BY DEF OpenAt
      <4>2. "close_storage" \in Stages /\ "close_storage" \notin Consuming
          BY DEF Stages, Consuming
      <4> QED BY <4>1, <4>2, <1>p DEF Resources
    <3>a. "broker" \in open[p] \ {"broker"} <=> "close_storage" \in Consuming
        BY <3>3
    <3> DEFINE r == open[p] \ {"broker"}
    <3>c. /\ r \in SUBSET Resources /\ r \subseteq OpenAt("close_storage")
          /\ "broker" \in r <=> "close_storage" \in Consuming
          /\ open' = [open EXCEPT ![p] = r]
        BY <3>1, <3>3, <3>a
    <3>d. /\ "close_storage" \in Stages /\ stage' = [stage EXCEPT ![p] = "close_storage"]
        BY <3>1, <3>3
    <3> HIDE DEF r
    <3>4. OpenKnown'
        BY <3>2, <3>c, <3>d, OpenStep
    <3> QED BY <3>2, <3>4 DEF LifespanInv
  <2>2. CASE CloseStorage(p)
    <3>1. UNCHANGED brokerVars /\ stage[p] = "close_storage"
          /\ stage' = [stage EXCEPT ![p] = "close_client"]
          /\ open' = [open EXCEPT ![p] = open[p] \ {"storage"}]
        BY <2>2 DEF CloseStorage, At, Go
    <3>2. /\ open[p] \ {"storage"} \in SUBSET Resources /\ open[p] \ {"storage"} \subseteq OpenAt("close_client")
          /\ "broker" \in open[p] \ {"storage"} <=> "close_client" \in Consuming
        BY <3>1, <1>p DEF OpenAt, Consuming, Resources
    <3>3. "close_client" \in Stages /\ ("close_client" \notin Consuming => stage[p] \notin Consuming)
        BY <3>1 DEF Stages, Consuming
    <3> QED BY <3>1, <3>2, <3>3, OpenMove
  <2>3. CASE CloseClient(p)
    <3>1. UNCHANGED brokerVars /\ stage[p] = "close_client"
          /\ stage' = [stage EXCEPT ![p] = "close_redis"]
          /\ open' = [open EXCEPT ![p] = open[p] \ {"client"}]
        BY <2>3 DEF CloseClient, At, Go
    <3>2. /\ open[p] \ {"client"} \in SUBSET Resources /\ open[p] \ {"client"} \subseteq OpenAt("close_redis")
          /\ "broker" \in open[p] \ {"client"} <=> "close_redis" \in Consuming
        BY <3>1, <1>p DEF OpenAt, Consuming, Resources
    <3>3. "close_redis" \in Stages /\ ("close_redis" \notin Consuming => stage[p] \notin Consuming)
        BY <3>1 DEF Stages, Consuming
    <3> QED BY <3>1, <3>2, <3>3, OpenMove
  <2>4. CASE CloseRedis(p)
    <3>1. UNCHANGED brokerVars /\ stage[p] = "close_redis"
          /\ stage' = [stage EXCEPT ![p] = "down"]
          /\ open' = [open EXCEPT ![p] = open[p] \ {"redis"}]
        BY <2>4 DEF CloseRedis, At, Go
    <3>2. /\ open[p] \ {"redis"} \in SUBSET Resources /\ open[p] \ {"redis"} \subseteq OpenAt("down")
          /\ "broker" \in open[p] \ {"redis"} <=> "down" \in Consuming
        BY <3>1, <1>p DEF OpenAt, Consuming, Resources
    <3>3. "down" \in Stages /\ ("down" \notin Consuming => stage[p] \notin Consuming)
        BY <3>1 DEF Stages, Consuming
    <3> QED BY <3>1, <3>2, <3>3, OpenMove
  <2> QED BY <1>7, <2>1, <2>2, <2>3, <2>4 DEF Shutdown
<1>8. ASSUME NEW p \in Web, Crash(p) PROVE LifespanInv'
  <2>1. Leave(p) /\ stage' = [stage EXCEPT ![p] = "down"] /\ open' = [open EXCEPT ![p] = {}]
      BY <1>8 DEF Crash, Go
  <2>2. BrokerInv' /\ Quiet(p)' /\ \A q \in Web : Quiet(q) => Quiet(q)'
      BY <2>1, <1>0, LeaveStep
  <2>3. /\ "down" \in Stages /\ "down" \notin Consuming /\ OpenAt("down") = {}
        /\ {} \in SUBSET Resources
      BY DEF OpenAt, Consuming, Stages
  <2>4. OpenKnown'
      BY <2>1, <2>2, <2>3, OpenStep
  <2> QED BY <2>2, <2>4 DEF LifespanInv
<1>9. ASSUME NEW p \in Web, Break(p) PROVE LifespanInv'
  <2>1. UNCHANGED <<stage, open>>
      BY <1>9 DEF Break
  <2>2. BrokerInv' /\ \A q \in Web : Quiet(q) => Quiet(q)'
      BY <1>9, <1>0, BreakStep DEF Break
  <2>3. OpenKnown'
      BY <2>1, <2>2, OpenStays
  <2> QED BY <2>2, <2>3 DEF LifespanInv
<1> QED BY <1>1, <1>2, <1>3, <1>4, <1>5, <1>6, <1>7, <1>8, <1>9 DEF Next

LEMMA LifespanAlways == Spec => []LifespanInv
<1>1. LifespanInv /\ [Next]_vars => LifespanInv'
    BY LifespanStep, LifespanStutter
<1> QED BY LifespanInit, <1>1, PTL DEF Spec

---------------------------------------------------------------------------
\* Handlers begin with one message again only after a delivery of it was taken
\* back, over every broker, any number of replicas and any order of their ends,
\* lost connections, rebalances and failed consumers.
THEOREM RepeatsCorrect == Spec => []RepeatsNeedBreaks
<1>1. LifespanInv => RepeatsNeedBreaks
    BY DEF LifespanInv, BrokerInv, CopiesKnown, CopyKnown, RepeatsNeedBreaks
<1> QED BY <1>1, LifespanAlways, PTL

\* RabbitMQ loses no message; Kafka loses, of those of a group that has an offset,
\* at most one for every process that ended; the in-memory broker loses none
\* while no process crashed.
THEOREM LossesCorrect == Spec => []LossesAreInFlight
<1> SUFFICES ASSUME LifespanInv PROVE LossesAreInFlight
    BY LifespanAlways, PTL
<1>1. ASSUME NEW g \in Groups, backend = "rabbitmq" \/ (backend = "memory" /\ ends = 0)
      PROVE  Lost(g) = {}
  <2> SUFFICES ASSUME NEW n \in Lost(g) PROVE FALSE
      OBVIOUS
  <2>1. /\ n \in Numbers /\ msg[g][n].st = "done" /\ ~msg[g][n].handled
        /\ \A p \in Web : <<g, n>> \notin running[p]
      BY DEF Lost
  <2> QED BY <2>1, <1>1 DEF LifespanInv, BrokerInv, CopiesKnown, CopyKnown
<1>2. \A g \in Groups : backend = "kafka" =>
        Cardinality({n \in Lost(g) : msg[g][n].kept}) <= ends
    BY DEF LifespanInv, BrokerInv, LostFew, KeptLost
<1> QED BY <1>1, <1>2 DEF LossesAreInFlight

\* After the broker's disconnect nothing of the process runs that could open a
\* resource again: what is down is closed, whatever was being handled.
THEOREM ShutdownCorrect == Spec => []NothingLeftOpen
<1>1. LifespanInv => NothingLeftOpen
  <2> SUFFICES ASSUME LifespanInv, NEW p \in Web
               PROVE  /\ At(p, "down") => open[p] = {}
                      /\ "broker" \notin open[p] => Busy(p) = {}
      BY DEF NothingLeftOpen
  <2>1. At(p, "down") => open[p] = {}
      BY DEF LifespanInv, OpenKnown, At, OpenAt
  <2>2. ASSUME "broker" \notin open[p] PROVE Busy(p) = {}
    <3>1. Quiet(p)
        BY <2>2 DEF LifespanInv, OpenKnown
    <3> QED BY <3>1 DEF Busy, Quiet
  <2> QED BY <2>1, <2>2
<1> QED BY <1>1, LifespanAlways, PTL
============================================================================
