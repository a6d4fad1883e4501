---------------------------- MODULE Gateway_proofs -------------------------
(***************************************************************************)
(* Proofs about Gateway and RateLimiter, for every set of settings, every  *)
(* set of tiers and every limit and period: what a stretch of time admits, *)
(* and what the gate, the roles, the documents, the headers and the file   *)
(* answers promise of every request.                                       *)
(***************************************************************************)
EXTENDS Gateway, FiniteSetTheorems, TLAPS

---------------------------------------------------------------------------
(* The rate limiter.                                                       *)

\* Requests admitted at least a and less than b units of time ago.
Between(i, a, b) == {x \in admitted[i] : a <= x[1] /\ x[1] < b}

LimiterType ==
    /\ count \in [Identities -> [Tiers -> 0..MaxCount]]
    /\ ttl \in [Identities -> [Tiers -> Nat]]
    /\ age \in [Identities -> [Tiers -> Nat]]
    /\ admitted \in [Identities -> SUBSET (Nat \X Nat)]
    /\ \A i \in Identities : IsFiniteSet(admitted[i])

\* How long ago the window of a live counter began.
Begun(i, t) == Period[t] - ttl[i][t]

\* Between windows: the last one leaves less than a limit behind, for the request
\* that opened it has aged out.
Closed(i, t) ==
    /\ ttl[i][t] = 0
    /\ Since(i, 1) = {}
    /\ Cardinality(Since(i, Period[t])) < Limit[t]

\* In a window: what it has admitted is counted, one of it in the unit in which
\* the window began; the windows before have left less than a limit.
Open(i, t) ==
    /\ ttl[i][t] \in 1..Period[t]
    /\ Cardinality(Since(i, Begun(i, t))) < count[i][t]
    /\ Cardinality(Since(i, Begun(i, t))) < Limit[t]
    /\ Cardinality(Since(i, Begun(i, t) + 1)) <= count[i][t]
    /\ Cardinality(Since(i, Begun(i, t) + 1)) <= Limit[t]
    /\ Cardinality(Between(i, Begun(i, t) + 1, Period[t])) < Limit[t]

Windows ==
    \A i \in Identities, t \in Tiers : IF count[i][t] = 0 THEN Closed(i, t) ELSE Open(i, t)

\* The numbers of the requests of this unit of time.
Numbered ==
    \A i \in Identities : \A x \in Since(i, 1) : x[2] <= Cardinality(Since(i, 1))

\* The life a counter has left is what its age leaves of the window.
Dated ==
    \A i \in Identities, t \in Tiers : count[i][t] # 0 => age[i][t] + ttl[i][t] = Period[t]

LimiterInv == LimiterType /\ Windows /\ Numbered /\ Dated

\* The constants of a tier.
LEMMA Constants ==
    ASSUME NEW t \in Tiers
    PROVE  /\ Limit[t] \in Nat /\ Limit[t] >= 1 /\ Limit[t] < MaxCount
           /\ Period[t] \in Nat /\ Period[t] >= 1
           /\ MaxCount \in Nat
BY LimiterAssumption

\* The smaller of two numbers.
LEMMA MinOfTwo ==
    ASSUME NEW a \in Nat, NEW b \in Nat
    PROVE  Min({a, b}) = IF a <= b THEN a ELSE b
BY DEF Min

\* A set of admitted requests, one unit of time later, is no larger.
LEMMA Aging ==
    ASSUME NEW S \in SUBSET (Nat \X Nat), IsFiniteSet(S),
           NEW T, T \subseteq {<<x[1] + 1, x[2]>> : x \in S}
    PROVE  IsFiniteSet(T) /\ Cardinality(T) <= Cardinality(S)
<1> DEFINE f == [y \in T |-> <<y[1] - 1, y[2]>>]
<1>1. \A y \in T : \E x \in S : y = <<x[1] + 1, x[2]>>
    OBVIOUS
<1>2. \A x \in S : x[1] \in Nat /\ x[2] \in Nat /\ x = <<x[1], x[2]>>
    OBVIOUS
<1>3. \A y \in T : y[1] \in Int /\ y[2] \in Nat /\ y = <<y[1], y[2]>> /\ <<y[1] - 1, y[2]>> \in S
    <2> TAKE y \in T
    <2>1. PICK x \in S : y = <<x[1] + 1, x[2]>>
        BY <1>1
    <2>2. y[1] = x[1] + 1 /\ y[2] = x[2]
        BY <2>1
    <2>3. x[1] \in Nat /\ x[2] \in Nat /\ x = <<x[1], x[2]>>
        BY <1>2
    <2>4. y[1] - 1 = x[1]
        BY <2>2, <2>3
    <2> QED BY <2>1, <2>2, <2>3, <2>4
<1>4. f \in [T -> S]
    BY <1>3
<1>5. ASSUME NEW y \in T, NEW z \in T, f[y] = f[z] PROVE y = z
    <2>1. y[1] - 1 = z[1] - 1 /\ y[2] = z[2]
        BY <1>5
    <2> QED BY <2>1, <1>3
<1>6. f \in Injection(T, S)
    <2> HIDE DEF f
    <2> QED BY <1>4, <1>5 DEF Injection, IsInjective
<1> QED BY <1>6, FS_Injection

\* The parts of the history are finite and their sizes ordered by inclusion.
LEMMA Parts ==
    ASSUME LimiterType, NEW i \in Identities, NEW m \in Int, NEW n \in Int, m <= n
    PROVE  /\ IsFiniteSet(Since(i, n)) /\ Cardinality(Since(i, n)) \in Nat
           /\ IsFiniteSet(Since(i, m)) /\ Cardinality(Since(i, m)) \in Nat
           /\ IsFiniteSet(Between(i, m, n)) /\ Cardinality(Between(i, m, n)) \in Nat
           /\ Cardinality(Since(i, m)) <= Cardinality(Since(i, n))
           /\ Cardinality(Between(i, m, n)) <= Cardinality(Since(i, n))
           /\ Cardinality(Since(i, n)) <= Cardinality(Since(i, m)) + Cardinality(Between(i, m, n))
<1> DEFINE A == Since(i, n)  B == Since(i, m)  C == Between(i, m, n)
<1>1. admitted[i] \in SUBSET (Nat \X Nat) /\ IsFiniteSet(admitted[i])
    BY DEF LimiterType
<1>2. \A x \in admitted[i] : x[1] \in Nat
    BY <1>1
<1>3. A \subseteq admitted[i] /\ B \subseteq A /\ C \subseteq A /\ A = B \cup C
    BY <1>2 DEF Since, Between
<1>4. IsFiniteSet(A) /\ Cardinality(A) \in Nat
    BY <1>1, <1>3, FS_Subset, FS_CardinalityType
<1>5. IsFiniteSet(B) /\ Cardinality(B) \in Nat /\ Cardinality(B) <= Cardinality(A)
    BY <1>3, <1>4, FS_Subset, FS_CardinalityType
<1>6. IsFiniteSet(C) /\ Cardinality(C) \in Nat /\ Cardinality(C) <= Cardinality(A)
    BY <1>3, <1>4, FS_Subset, FS_CardinalityType
<1>7. IsFiniteSet(B \cap C) /\ Cardinality(B \cap C) \in Nat
    BY <1>5, FS_Intersection, FS_CardinalityType
<1>8. Cardinality(A) = Cardinality(B) + Cardinality(C) - Cardinality(B \cap C)
    BY <1>3, <1>5, <1>6, FS_Union
<1> HIDE DEF A, B, C
<1>9. Cardinality(A) <= Cardinality(B) + Cardinality(C)
    BY <1>4, <1>5, <1>6, <1>7, <1>8
<1> QED BY <1>4, <1>5, <1>6, <1>9 DEF A, B, C

LEMMA LimiterInitially == LimiterInit => LimiterInv
<1> SUFFICES ASSUME LimiterInit PROVE LimiterInv
    OBVIOUS
<1>1. \A i \in Identities : admitted[i] = {}
    BY DEF LimiterInit
<1>2. LimiterType
    <2>1. count \in [Identities -> [Tiers -> 0..MaxCount]]
        BY LimiterAssumption DEF LimiterInit
    <2> QED BY <1>1, <2>1, FS_EmptySet DEF LimiterType, LimiterInit
<1>3. \A i \in Identities, n \in Nat : Since(i, n) = {}
    BY <1>1 DEF Since
<1>4. Windows
    <2>1. \A i \in Identities, t \in Tiers : count[i][t] = 0 /\ ttl[i][t] = 0
        BY DEF LimiterInit
    <2>2. \A i \in Identities, t \in Tiers : Closed(i, t)
        BY <1>3, <2>1, Constants, FS_EmptySet DEF Closed
    <2> QED BY <2>1, <2>2 DEF Windows
<1>5. Numbered
    BY <1>3 DEF Numbered
<1>6. Dated
    BY DEF Dated, LimiterInit
<1> QED BY <1>2, <1>4, <1>5, <1>6 DEF LimiterInv

\* Every window ends a period after it began.
LEMMA WindowsClose == LimiterInv => WindowsEnd
<1> SUFFICES ASSUME LimiterInv, NEW i \in Identities, NEW t \in Tiers, count[i][t] > 0
             PROVE  age[i][t] < Period[t]
    BY DEF WindowsEnd
<1>1. count[i][t] # 0
    BY DEF LimiterInv, LimiterType
<1>2. age[i][t] + ttl[i][t] = Period[t] /\ ttl[i][t] \in 1..Period[t]
    BY <1>1 DEF LimiterInv, Dated, Windows, Open
<1>3. age[i][t] \in Nat /\ Period[t] \in Nat
    BY Constants DEF LimiterInv, LimiterType
<1> QED BY <1>2, <1>3

\* No stretch of a window's length admits twice the limit.
LEMMA NearTwice == LimiterInv => NearTwiceTheLimit
<1> SUFFICES ASSUME LimiterInv, NEW i \in Identities, NEW t \in Tiers
             PROVE  Cardinality(Since(i, Period[t])) < 2 * Limit[t]
    BY DEF NearTwiceTheLimit
<1>0. /\ Limit[t] \in Nat /\ Limit[t] >= 1
      /\ Period[t] \in Nat
    BY Constants
<1>t. LimiterType
    BY DEF LimiterInv
<1>1. CASE count[i][t] = 0
    <2>1. Cardinality(Since(i, Period[t])) < Limit[t]
        BY <1>1 DEF LimiterInv, Windows, Closed
    <2>2. Cardinality(Since(i, Period[t])) \in Nat
        BY <1>0, <1>t, Parts
    <2> QED BY <2>1, <2>2, <1>0
<1>2. CASE count[i][t] # 0
    <2> DEFINE m == Begun(i, t) + 1
    <2>1. Open(i, t)
        BY <1>2 DEF LimiterInv, Windows
    <2>2. m \in Int /\ m <= Period[t]
        BY <2>1, <1>0 DEF Open, Begun
    <2>3. Cardinality(Since(i, m)) <= Limit[t] /\ Cardinality(Between(i, m, Period[t])) < Limit[t]
        BY <2>1 DEF Open
    <2> HIDE DEF m
    <2>4. /\ Cardinality(Since(i, m)) \in Nat
          /\ Cardinality(Between(i, m, Period[t])) \in Nat
          /\ Cardinality(Since(i, Period[t])) \in Nat
          /\ Cardinality(Since(i, Period[t])) <= Cardinality(Since(i, m)) + Cardinality(Between(i, m, Period[t]))
        BY <2>2, <1>0, <1>t, Parts
    <2> QED BY <2>3, <2>4, <1>0
<1> QED BY <1>1, <1>2

\* What a request changes: its own counters and history.
LEMMA CheckChanges ==
    ASSUME LimiterType, NEW i \in Identities, Check(i)
    PROVE  /\ \A j \in Identities \ {i} :
                /\ count'[j] = count[j] /\ ttl'[j] = ttl[j]
                /\ age'[j] = age[j] /\ admitted'[j] = admitted[j]
           /\ \A t \in Tiers : count'[i][t] = IF count[i][t] < MaxCount THEN count[i][t] + 1 ELSE MaxCount
           /\ \A t \in Tiers : ttl'[i][t] = IF count[i][t] = 0 THEN Period[t] ELSE ttl[i][t]
           /\ \A t \in Tiers : age'[i][t] = IF count[i][t] = 0 THEN 0 ELSE age[i][t]
           /\ admitted'[i] = admitted[i] \cup Admitted(i)
           /\ count' \in [Identities -> [Tiers -> 0..MaxCount]]
           /\ ttl' \in [Identities -> [Tiers -> Nat]]
           /\ age' \in [Identities -> [Tiers -> Nat]]
<1>0. /\ count \in [Identities -> [Tiers -> 0..MaxCount]]
      /\ ttl \in [Identities -> [Tiers -> Nat]]
      /\ age \in [Identities -> [Tiers -> Nat]]
      /\ DOMAIN admitted = Identities
    BY DEF LimiterType
<1>1. \A t \in Tiers : Incremented(i)[t] = IF count[i][t] < MaxCount THEN count[i][t] + 1 ELSE MaxCount
    <2> TAKE t \in Tiers
    <2>1. count[i][t] \in 0..MaxCount /\ MaxCount \in Nat
        BY <1>0, Constants
    <2>3. count[i][t] + 1 \in Nat
        BY <2>1
    <2>2. Min({count[i][t] + 1, MaxCount}) = IF count[i][t] + 1 <= MaxCount THEN count[i][t] + 1 ELSE MaxCount
        BY <2>1, <2>3, MinOfTwo
    <2> QED BY <2>1, <2>2 DEF Incremented
<1>2. Incremented(i) \in [Tiers -> 0..MaxCount]
    <2>1. Incremented(i) = [t \in Tiers |-> Incremented(i)[t]]
        BY DEF Incremented
    <2>2. \A t \in Tiers : Incremented(i)[t] \in 0..MaxCount
        BY <1>0, <1>1, Constants
    <2> QED BY <2>1, <2>2
<1>3. count' = [count EXCEPT ![i] = Incremented(i)]
    BY DEF Check
<1>4. ttl' = [ttl EXCEPT ![i] = [t \in Tiers |-> IF count[i][t] = 0 THEN Period[t] ELSE ttl[i][t]]]
    BY <1>0 DEF Check
<1>5. [t \in Tiers |-> IF count[i][t] = 0 THEN Period[t] ELSE ttl[i][t]] \in [Tiers -> Nat]
    BY <1>0, Constants
<1>6. admitted' = [admitted EXCEPT ![i] = admitted[i] \cup Admitted(i)]
    BY <1>0 DEF Check, Recorded
<1>7. count' \in [Identities -> [Tiers -> 0..MaxCount]]
    BY <1>0, <1>2, <1>3
<1>8. ttl' \in [Identities -> [Tiers -> Nat]]
    BY <1>0, <1>4, <1>5
<1>9. \A t \in Tiers : count'[i][t] = IF count[i][t] < MaxCount THEN count[i][t] + 1 ELSE MaxCount
    BY <1>0, <1>1, <1>3
<1>10. \A t \in Tiers : ttl'[i][t] = IF count[i][t] = 0 THEN Period[t] ELSE ttl[i][t]
    BY <1>0, <1>4
<1>11. admitted'[i] = admitted[i] \cup Admitted(i)
    BY <1>0, <1>6
<1>12. \A j \in Identities \ {i} :
          /\ count'[j] = count[j] /\ ttl'[j] = ttl[j]
          /\ admitted'[j] = admitted[j]
    BY <1>0, <1>3, <1>4, <1>6
<1> DEFINE older == [t \in Tiers |-> IF count[i][t] = 0 THEN 0 ELSE age[i][t]]
<1>13. age' = [age EXCEPT ![i] = older] /\ older \in [Tiers -> Nat]
    BY <1>0 DEF Check, Recorded
<1>14. /\ age' \in [Identities -> [Tiers -> Nat]]
       /\ \A j \in Identities \ {i} : age'[j] = age[j]
    BY <1>0, <1>13
<1>15. \A t \in Tiers : age'[i][t] = IF count[i][t] = 0 THEN 0 ELSE age[i][t]
    BY <1>0, <1>13
<1> QED BY <1>7, <1>8, <1>9, <1>10, <1>11, <1>12, <1>14, <1>15

\* A request adds at most one to every stretch of time that reaches the present,
\* nothing when it is refused, and nothing to stretches that ended before.
LEMMA CheckAdmits ==
    ASSUME LimiterType, NEW i \in Identities, Check(i)
    PROVE  /\ LimiterType'
           /\ \A m, n \in Int : m >= 1 => Between(i, m, n)' = Between(i, m, n)
           /\ Since(i, 0)' = {}
           /\ \A n \in Int : n >= 1 => Since(i, n)' = Since(i, n) \cup Admitted(i)
           /\ \A n \in Int : Cardinality(Since(i, n)') <= Cardinality(Since(i, n)) + 1
           /\ ~Allowed(i) => \A n \in Int : Since(i, n)' = Since(i, n)
<1>1. /\ admitted'[i] = admitted[i] \cup Admitted(i)
      /\ \A j \in Identities \ {i} : admitted'[j] = admitted[j]
      /\ count' \in [Identities -> [Tiers -> 0..MaxCount]]
      /\ ttl' \in [Identities -> [Tiers -> Nat]]
      /\ age' \in [Identities -> [Tiers -> Nat]]
    BY CheckChanges
<1>2. /\ admitted \in [Identities -> SUBSET (Nat \X Nat)]
      /\ \A j \in Identities : IsFiniteSet(admitted[j])
    BY DEF LimiterType
<1> DEFINE k == Cardinality(Since(i, 1)) + 1
<1>3. k \in Nat
    BY Parts
<1> HIDE DEF k
<1>4. Admitted(i) = IF Allowed(i) THEN {<<0, k>>} ELSE {}
    BY DEF Admitted, k
<1>5. \A x \in Admitted(i) : x \in Nat \X Nat /\ x[1] = 0
    BY <1>3, <1>4
<1>6. \A x \in admitted[i] : x \in Nat \X Nat /\ x[1] \in Nat
    BY <1>2
<1>7. LimiterType'
    <2>0. IsFiniteSet(admitted[i] \cup {<<0, k>>})
        BY <1>2, FS_AddElement
    <2>1. IsFiniteSet(admitted[i] \cup Admitted(i))
        BY <1>2, <1>4, <2>0
    <2>2. \A j \in Identities : IsFiniteSet(admitted'[j])
        BY <1>1, <1>2, <2>1
    <2>3. admitted' = [j \in Identities |-> admitted'[j]]
        BY <1>2 DEF Check, Recorded
    <2>4. \A j \in Identities : admitted'[j] \in SUBSET (Nat \X Nat)
        BY <1>1, <1>2, <1>5
    <2>5. admitted' \in [Identities -> SUBSET (Nat \X Nat)]
        BY <2>3, <2>4
    <2> QED BY <1>1, <2>2, <2>5 DEF LimiterType
<1>8. \A m, n \in Int : m >= 1 => Between(i, m, n)' = Between(i, m, n)
    BY <1>1, <1>5, <1>6 DEF Between
<1>9. Since(i, 0)' = {} /\ Since(i, 0) = {}
    BY <1>1, <1>5, <1>6 DEF Since
<1>10. \A n \in Int : n >= 1 => Since(i, n)' = Since(i, n) \cup Admitted(i)
    BY <1>1, <1>5, <1>6 DEF Since
<1>11. \A n \in Int : n <= 0 => Since(i, n)' = Since(i, n)
    BY <1>1, <1>5, <1>6 DEF Since
<1>12. ASSUME NEW n \in Int PROVE Cardinality(Since(i, n)') <= Cardinality(Since(i, n)) + 1
    <2>1. IsFiniteSet(Since(i, n)) /\ Cardinality(Since(i, n)) \in Nat
        BY Parts
    <2>2. CASE n <= 0
        BY <2>1, <2>2, <1>11
    <2>3. CASE n >= 1 /\ Allowed(i)
        <3>1. Since(i, n)' = Since(i, n) \cup {<<0, k>>}
            BY <2>3, <1>4, <1>10
        <3>2. \/ Cardinality(Since(i, n) \cup {<<0, k>>}) = Cardinality(Since(i, n))
              \/ Cardinality(Since(i, n) \cup {<<0, k>>}) = Cardinality(Since(i, n)) + 1
            BY <2>1, FS_AddElement, Zenon
        <3> QED BY <2>1, <3>1, <3>2
    <2>4. CASE n >= 1 /\ ~Allowed(i)
        <3>1. Since(i, n)' = Since(i, n)
            BY <2>4, <1>4, <1>10
        <3> QED BY <3>1, <2>1
    <2> QED BY <2>2, <2>3, <2>4
<1>13. ~Allowed(i) => \A n \in Int : Since(i, n)' = Since(i, n)
    BY <1>4, <1>10, <1>11
<1> QED BY <1>7, <1>8, <1>9, <1>10, <1>12, <1>13

LEMMA CheckKeepsWindows ==
    ASSUME LimiterInv, NEW i \in Identities, Check(i)
    PROVE  Windows'
<1>t. LimiterType
    BY DEF LimiterInv
<1> SUFFICES ASSUME NEW j \in Identities, NEW t \in Tiers
             PROVE  (IF count[j][t] = 0 THEN Closed(j, t) ELSE Open(j, t))'
    BY DEF Windows
<1>0. IF count[j][t] = 0 THEN Closed(j, t) ELSE Open(j, t)
    BY DEF LimiterInv, Windows
<1>1. CASE j # i
    <2>1. count'[j] = count[j] /\ ttl'[j] = ttl[j] /\ admitted'[j] = admitted[j]
        BY <1>1, <1>t, CheckChanges
    <2> QED BY <1>0, <2>1 DEF Closed, Open, Begun, Since, Between
<1>2. CASE j = i
    <2> DEFINE c == count[i][t]  b == Begun(i, t)  P == Period[t]  L == Limit[t]
    <2>0. /\ L \in Nat /\ L >= 1 /\ L < MaxCount /\ MaxCount \in Nat
          /\ P \in Nat /\ P >= 1
        BY Constants
    <2>1. c \in Nat /\ c <= MaxCount
        BY <1>t, <2>0 DEF LimiterType
    <2>2. /\ count'[i][t] = IF c < MaxCount THEN c + 1 ELSE MaxCount
          /\ ttl'[i][t] = IF c = 0 THEN P ELSE ttl[i][t]
        BY <1>t, CheckChanges
    <2>3. count'[i][t] # 0
        BY <2>0, <2>1, <2>2
    <2>4. /\ \A m, n \in Int : m >= 1 => Between(i, m, n)' = Between(i, m, n)
          /\ Since(i, 0)' = {}
          /\ \A n \in Int : Cardinality(Since(i, n)') <= Cardinality(Since(i, n)) + 1
          /\ ~Allowed(i) => \A n \in Int : Since(i, n)' = Since(i, n)
          /\ \A n \in Int : Cardinality(Since(i, n)') \in Nat
        <3>1. LimiterType'
            BY <1>t, CheckAdmits
        <3>2. ASSUME NEW n \in Int PROVE Cardinality(Since(i, n)') \in Nat
            <4> DEFINE S == {x \in admitted'[i] : x[1] < n}
            <4>1. IsFiniteSet(admitted'[i])
                BY <3>1 DEF LimiterType
            <4>2. IsFiniteSet(S) /\ Cardinality(S) \in Nat
                BY <4>1, FS_Subset, FS_CardinalityType
            <4> QED BY <4>2 DEF Since
        <3> QED BY <1>t, <3>2, CheckAdmits
    <2>5. CASE c = 0
        <3>1. Since(i, 1) = {} /\ Cardinality(Since(i, P)) < L
            BY <1>0, <1>2, <2>5 DEF Closed
        <3>2. count'[i][t] = 1 /\ ttl'[i][t] = P /\ Begun(i, t)' = 0
            BY <2>0, <2>2, <2>5 DEF Begun
        <3>3. Cardinality(Since(i, 0)') = 0
            BY <2>4, FS_EmptySet
        <3>4. Cardinality(Since(i, 1)') <= 1
            <4>1. Cardinality(Since(i, 1)') <= Cardinality(Since(i, 1)) + 1
                BY <2>4
            <4>2. Cardinality(Since(i, 1)) = 0
                BY <3>1, FS_EmptySet, Zenon
            <4> QED BY <4>1, <4>2
        <3>5. Cardinality(Between(i, 1, P)') < L
            <4>1. Between(i, 1, P)' = Between(i, 1, P)
                BY <2>0, <2>4
            <4>2. /\ Cardinality(Between(i, 1, P)) \in Nat /\ Cardinality(Since(i, P)) \in Nat
                  /\ Cardinality(Between(i, 1, P)) <= Cardinality(Since(i, P))
                BY <1>t, <2>0, Parts
            <4> QED BY <2>0, <3>1, <4>1, <4>2
        <3>6. /\ Cardinality({x \in admitted'[i] : x[1] < 0}) = 0
              /\ Cardinality({x \in admitted'[i] : x[1] < 1}) <= 1
              /\ Cardinality({x \in admitted'[i] : 1 <= x[1] /\ x[1] < P}) < L
            BY <3>3, <3>4, <3>5 DEF Since, Between
        <3>7. Open(i, t)'
            <4>1. Period[t] - ttl'[i][t] = 0
                BY <3>2, <2>0
            <4>2. ttl'[i][t] \in 1..Period[t]
                BY <3>2, <2>0
            <4>5. Period[t] - ttl'[i][t] + 1 = 1
                BY <4>1
            <4>3. /\ Cardinality({x \in admitted'[i] : x[1] < Period[t] - ttl'[i][t]}) = 0
                  /\ Cardinality({x \in admitted'[i] : x[1] < Period[t] - ttl'[i][t] + 1}) <= 1
                  /\ Cardinality({x \in admitted'[i] : Period[t] - ttl'[i][t] + 1 <= x[1] /\ x[1] < Period[t]}) < Limit[t]
                BY <3>6, <4>1, <4>5, Zenon
            <4>4. Cardinality({x \in admitted'[i] : x[1] < Period[t] - ttl'[i][t] + 1}) <= Limit[t]
                <5>1. Cardinality({x \in admitted'[i] : x[1] < 1}) \in Nat
                    BY <2>4 DEF Since
                <5> QED BY <5>1, <3>6, <4>1, <2>0
            <4> QED BY <3>2, <4>2, <4>3, <4>4, <2>0 DEF Open, Since, Between, Begun
        <3> QED BY <1>2, <2>3, <3>7
    <2>6. CASE c # 0
        <3>1. /\ ttl[i][t] \in 1..P
              /\ Cardinality(Since(i, b)) < c /\ Cardinality(Since(i, b)) < L
              /\ Cardinality(Since(i, b + 1)) <= c /\ Cardinality(Since(i, b + 1)) <= L
              /\ Cardinality(Between(i, b + 1, P)) < L
            BY <1>0, <1>2, <2>6 DEF Open
        <3>2. PICK a \in Nat : a = b
            BY <2>0, <3>1 DEF Begun
        <3>3. ttl'[i][t] = ttl[i][t]
            BY <2>2, <2>6
        <3>4. Period[t] - ttl'[i][t] = a
            BY <3>2, <3>3 DEF Begun
        <3> DEFINE X == Cardinality(Since(i, a))  Y == Cardinality(Since(i, a + 1))
                   XX == Cardinality(Since(i, a)')  YY == Cardinality(Since(i, a + 1)')
        <3>5. X \in Nat /\ Y \in Nat
            BY <1>t, Parts
        <3>6. XX \in Nat /\ YY \in Nat /\ XX <= X + 1 /\ YY <= Y + 1
            BY <2>4
        <3>7. ~Allowed(i) => XX = X /\ YY = Y
            BY <2>4
        <3>8. Allowed(i) => c < L
            BY DEF Allowed
        <3>9. X < c /\ X < L /\ Y <= c /\ Y <= L
            BY <3>1, <3>2
        <3>10. Cardinality(Between(i, a + 1, P)') < L
            <4>1. Between(i, a + 1, P)' = Between(i, a + 1, P)
                BY <2>0, <2>4
            <4> QED BY <3>1, <3>2, <4>1
        <3>11. /\ XX < count'[i][t] /\ XX < L
               /\ YY <= count'[i][t] /\ YY <= L
            <4> HIDE DEF X, Y, XX, YY, c, b, P, L
            <4>1. CASE Allowed(i)
                BY <4>1, <2>0, <2>1, <2>2, <3>5, <3>6, <3>8, <3>9
            <4>2. CASE ~Allowed(i)
                BY <4>2, <2>0, <2>1, <2>2, <3>5, <3>7, <3>9
            <4> QED BY <4>1, <4>2
        <3>12. /\ Cardinality({x \in admitted'[i] : x[1] < a}) < count'[i][t]
               /\ Cardinality({x \in admitted'[i] : x[1] < a}) < L
               /\ Cardinality({x \in admitted'[i] : x[1] < a + 1}) <= count'[i][t]
               /\ Cardinality({x \in admitted'[i] : x[1] < a + 1}) <= L
               /\ Cardinality({x \in admitted'[i] : a + 1 <= x[1] /\ x[1] < P}) < L
            BY <3>10, <3>11 DEF Since, Between
        <3>13. ttl'[i][t] \in 1..Period[t]
            BY <3>1, <3>3
        <3>14. Open(i, t)'
            BY <3>4, <3>12, <3>13 DEF Open, Since, Between, Begun
        <3> QED BY <1>2, <2>3, <3>14
    <2> QED BY <2>5, <2>6
<1> QED BY <1>1, <1>2

\* One unit of time later a stretch of time holds what the stretch one unit
\* younger held, or less.
LEMMA ExpireAges ==
    ASSUME LimiterType, Expire
    PROVE  /\ LimiterType'
           /\ \A i \in Identities : Since(i, 1)' = {}
           /\ \A i \in Identities, n \in Int :
                Cardinality(Since(i, n)') <= Cardinality(Since(i, n - 1))
           /\ \A i \in Identities, m, n \in Int :
                Cardinality(Between(i, m, n)') <= Cardinality(Between(i, m - 1, n - 1))
<1>1. /\ admitted \in [Identities -> SUBSET (Nat \X Nat)]
      /\ \A i \in Identities : IsFiniteSet(admitted[i])
      /\ count \in [Identities -> [Tiers -> 0..MaxCount]]
      /\ ttl \in [Identities -> [Tiers -> Nat]]
      /\ age \in [Identities -> [Tiers -> Nat]]
    BY DEF LimiterType
<1> DEFINE Aged(i) == {<<x[1] + 1, x[2]>> : x \in {y \in admitted[i] : y[1] + 1 \in Ages}}
<1>2. admitted' = [i \in Identities |-> Aged(i)]
    BY DEF Expire
<1>3. \A i \in Identities : admitted'[i] = Aged(i)
    BY <1>2
<1>4. ASSUME NEW i \in Identities
      PROVE  \A z \in admitted'[i] : \E x \in admitted[i] :
                /\ z = <<x[1] + 1, x[2]>> /\ z[1] = x[1] + 1
                /\ x[1] \in Nat /\ x[2] \in Nat
    <2>1. \A x \in admitted[i] : x[1] \in Nat /\ x[2] \in Nat
        BY <1>1
    <2>2. \A z \in Aged(i) : \E x \in admitted[i] : z = <<x[1] + 1, x[2]>>
        OBVIOUS
    <2>3. \A z \in Aged(i) : \E x \in admitted[i] : z = <<x[1] + 1, x[2]>> /\ z[1] = x[1] + 1
        BY <2>2
    <2> QED BY <1>3, <2>1, <2>3
<1> HIDE DEF Aged
<1>5. ASSUME NEW i \in Identities PROVE admitted'[i] \in SUBSET (Nat \X Nat)
    BY <1>4
<1>6. ASSUME NEW i \in Identities PROVE IsFiniteSet(admitted'[i])
    <2>1. admitted'[i] \subseteq {<<x[1] + 1, x[2]>> : x \in admitted[i]}
        BY <1>4
    <2> QED BY <1>1, <2>1, Aging
<1>7. LimiterType'
    <2>1. admitted' \in [Identities -> SUBSET (Nat \X Nat)]
        BY <1>2, <1>3, <1>5
    <2>2. count' \in [Identities -> [Tiers -> 0..MaxCount]]
        <3>1. count' = [i \in Identities |-> [t \in Tiers |-> IF ttl[i][t] <= 1 THEN 0 ELSE count[i][t]]]
            BY DEF Expire
        <3>2. \A i \in Identities, t \in Tiers : (IF ttl[i][t] <= 1 THEN 0 ELSE count[i][t]) \in 0..MaxCount
            BY <1>1, LimiterAssumption
        <3> QED BY <3>1, <3>2
    <2>3. ttl' \in [Identities -> [Tiers -> Nat]]
        <3>1. ttl' = [i \in Identities |-> [t \in Tiers |-> IF ttl[i][t] = 0 THEN 0 ELSE ttl[i][t] - 1]]
            BY DEF Expire
        <3>2. \A i \in Identities, t \in Tiers : (IF ttl[i][t] = 0 THEN 0 ELSE ttl[i][t] - 1) \in Nat
            BY <1>1
        <3> QED BY <3>1, <3>2
    <2>4. age' \in [Identities -> [Tiers -> Nat]]
        <3>1. age' = [i \in Identities |-> [t \in Tiers |-> IF ttl[i][t] <= 1 THEN 0 ELSE age[i][t] + 1]]
            BY DEF Expire
        <3>2. \A i \in Identities, t \in Tiers : (IF ttl[i][t] <= 1 THEN 0 ELSE age[i][t] + 1) \in Nat
            BY <1>1
        <3> QED BY <3>1, <3>2
    <2> QED BY <1>6, <2>1, <2>2, <2>3, <2>4 DEF LimiterType
<1>8. \A i \in Identities : Since(i, 1)' = {}
    BY <1>4 DEF Since
<1>9. ASSUME NEW i \in Identities, NEW n \in Int
      PROVE  Cardinality(Since(i, n)') <= Cardinality(Since(i, n - 1))
    <2>1. Since(i, n - 1) \in SUBSET (Nat \X Nat)
        BY <1>1 DEF Since
    <2>2. IsFiniteSet(Since(i, n - 1))
        BY Parts
    <2>3. Since(i, n)' \subseteq {<<x[1] + 1, x[2]>> : x \in Since(i, n - 1)}
        BY <1>4 DEF Since
    <2> QED BY <2>1, <2>2, <2>3, Aging
<1>10. ASSUME NEW i \in Identities, NEW m \in Int, NEW n \in Int
      PROVE  Cardinality(Between(i, m, n)') <= Cardinality(Between(i, m - 1, n - 1))
    <2>1. Between(i, m - 1, n - 1) \in SUBSET (Nat \X Nat)
        BY <1>1 DEF Between
    <2>2. IsFiniteSet(Between(i, m - 1, n - 1))
        <3>1. Between(i, m - 1, n - 1) \subseteq admitted[i]
            BY DEF Between
        <3> QED BY <1>1, <3>1, FS_Subset
    <2>3. Between(i, m, n)' \subseteq {<<x[1] + 1, x[2]>> : x \in Between(i, m - 1, n - 1)}
        BY <1>4 DEF Between
    <2> QED BY <2>1, <2>2, <2>3, Aging
<1> QED BY <1>7, <1>8, <1>9, <1>10

LEMMA ExpireKeepsWindows ==
    ASSUME LimiterInv, Expire
    PROVE  Windows'
<1>t. LimiterType
    BY DEF LimiterInv
<1> SUFFICES ASSUME NEW i \in Identities, NEW t \in Tiers
             PROVE  (IF count[i][t] = 0 THEN Closed(i, t) ELSE Open(i, t))'
    BY DEF Windows
<1>0. IF count[i][t] = 0 THEN Closed(i, t) ELSE Open(i, t)
    BY DEF LimiterInv, Windows
<1> DEFINE P == Period[t]  L == Limit[t]
<1>1. /\ L \in Nat /\ L >= 1
      /\ P \in Nat /\ P >= 1
    BY Constants
<1>2. /\ count'[i][t] = IF ttl[i][t] <= 1 THEN 0 ELSE count[i][t]
      /\ ttl'[i][t] = IF ttl[i][t] = 0 THEN 0 ELSE ttl[i][t] - 1
    BY DEF Expire
<1>3. ttl[i][t] \in Nat
    BY <1>t DEF LimiterType
<1>4. /\ LimiterType'
      /\ Since(i, 1)' = {}
      /\ \A n \in Int : Cardinality(Since(i, n)') <= Cardinality(Since(i, n - 1))
      /\ \A m, n \in Int : Cardinality(Between(i, m, n)') <= Cardinality(Between(i, m - 1, n - 1))
    BY <1>t, ExpireAges
<1>5. \A n \in Int : Cardinality(Since(i, n)') \in Nat
    <2> TAKE n \in Int
    <2> DEFINE S == {x \in admitted'[i] : x[1] < n}
    <2>1. IsFiniteSet(admitted'[i])
        BY <1>4 DEF LimiterType
    <2>2. IsFiniteSet(S) /\ Cardinality(S) \in Nat
        BY <2>1, FS_Subset, FS_CardinalityType
    <2> QED BY <2>2 DEF Since
<1>6. \A m, n \in Int : Cardinality(Between(i, m, n)') \in Nat
    <2> TAKE m, n \in Int
    <2> DEFINE S == {x \in admitted'[i] : m <= x[1] /\ x[1] < n}
    <2>1. IsFiniteSet(admitted'[i])
        BY <1>4 DEF LimiterType
    <2>2. IsFiniteSet(S) /\ Cardinality(S) \in Nat
        BY <2>1, FS_Subset, FS_CardinalityType
    <2> QED BY <2>2 DEF Between
<1>7. ASSUME ttl[i][t] <= 1, Cardinality(Since(i, P - 1)) < L
      PROVE  (IF count[i][t] = 0 THEN Closed(i, t) ELSE Open(i, t))'
    <2>1. count'[i][t] = 0 /\ ttl'[i][t] = 0
        BY <1>2, <1>3, <1>7
    <2>2. Cardinality(Since(i, P)') < L
        <3>1. Cardinality(Since(i, P)') <= Cardinality(Since(i, P - 1))
            BY <1>1, <1>4
        <3>2. Cardinality(Since(i, P)') \in Nat /\ Cardinality(Since(i, P - 1)) \in Nat
            BY <1>1, <1>t, <1>5, Parts
        <3> QED BY <1>1, <1>7, <3>1, <3>2
    <2>3. Closed(i, t)'
        BY <1>4, <2>1, <2>2 DEF Closed, Since
    <2> QED BY <2>1, <2>3
<1>8. CASE count[i][t] = 0
    <2>1. ttl[i][t] = 0 /\ Cardinality(Since(i, P)) < L
        BY <1>0, <1>8 DEF Closed
    <2>2. Cardinality(Since(i, P - 1)) <= Cardinality(Since(i, P))
          /\ Cardinality(Since(i, P - 1)) \in Nat /\ Cardinality(Since(i, P)) \in Nat
        BY <1>1, <1>t, Parts
    <2> QED BY <1>1, <1>7, <2>1, <2>2
<1>9. CASE count[i][t] # 0
    <2>1. Open(i, t)
        BY <1>0, <1>9
    <2>2. CASE ttl[i][t] = 1
        <3>1. Begun(i, t) = P - 1
            BY <2>2 DEF Begun
        <3>2. Cardinality(Since(i, P - 1)) < L
            BY <2>1, <3>1 DEF Open
        <3> QED BY <1>7, <2>2, <3>2
    <2>3. CASE ttl[i][t] # 1
        <3>1. ttl[i][t] \in 2..P
            BY <1>1, <2>1, <2>3 DEF Open
        <3>2. PICK a \in Nat : a = Begun(i, t) /\ a + 2 <= P
            BY <1>1, <3>1 DEF Begun
        <3>3. count'[i][t] = count[i][t] /\ ttl'[i][t] = ttl[i][t] - 1 /\ count'[i][t] \in Nat
            BY <1>2, <1>t, <3>1, LimiterAssumption DEF LimiterType
        <3>4. ttl'[i][t] \in 1..P /\ P - ttl'[i][t] = a + 1 /\ P - ttl'[i][t] + 1 = a + 2
            BY <1>1, <3>1, <3>2, <3>3 DEF Begun
        <3>5. /\ Cardinality(Since(i, a)) < count[i][t] /\ Cardinality(Since(i, a)) < L
              /\ Cardinality(Since(i, a + 1)) <= count[i][t] /\ Cardinality(Since(i, a + 1)) <= L
              /\ Cardinality(Between(i, a + 1, P)) < L
            BY <2>1, <3>2 DEF Open
        <3>6. /\ Cardinality(Since(i, a + 1)') <= Cardinality(Since(i, a))
              /\ Cardinality(Since(i, a + 2)') <= Cardinality(Since(i, a + 1))
              /\ Cardinality(Between(i, a + 2, P)') <= Cardinality(Between(i, a + 1, P))
            <4>1. a + 1 - 1 = a /\ a + 2 - 1 = a + 1
                OBVIOUS
            <4>2. Cardinality(Since(i, a + 1)') <= Cardinality(Since(i, a + 1 - 1))
                BY <1>4
            <4>3. Cardinality(Since(i, a + 2)') <= Cardinality(Since(i, a + 2 - 1))
                BY <1>4
            <4>4. Cardinality(Between(i, a + 2, P)') <= Cardinality(Between(i, a + 2 - 1, P - 1))
                BY <1>1, <1>4
            <4>5. Between(i, a + 1, P - 1) \subseteq Between(i, a + 1, P)
                BY <1>1, <1>t DEF Between, LimiterType
            <4>6. Cardinality(Between(i, a + 1, P - 1)) <= Cardinality(Between(i, a + 1, P))
                <5>1. a + 1 \in Int /\ P \in Int /\ a + 1 <= P
                    BY <1>1, <3>2
                <5>2. IsFiniteSet(Between(i, a + 1, P))
                    BY <1>t, <5>1, Parts
                <5> QED BY <4>5, <5>2, FS_Subset
            <4>7. /\ Cardinality(Between(i, a + 2, P)') \in Nat
                  /\ Cardinality(Between(i, a + 1, P - 1)) \in Nat
                  /\ Cardinality(Between(i, a + 1, P)) \in Nat
                <5>1. /\ a + 1 \in Int /\ P \in Int /\ P - 1 \in Int
                      /\ a + 1 <= P /\ a + 1 <= P - 1 /\ a + 2 \in Int
                    BY <1>1, <3>2
                <5> QED BY <1>t, <1>6, <5>1, Parts
            <4> HIDE DEF P
            <4> QED BY <4>1, <4>2, <4>3, <4>4, <4>6, <4>7
        <3>7. /\ Cardinality(Since(i, a)) \in Nat /\ Cardinality(Since(i, a + 1)) \in Nat
              /\ Cardinality(Since(i, a + 1)') \in Nat /\ Cardinality(Since(i, a + 2)') \in Nat
            BY <1>t, <1>5, Parts
        <3>8. /\ Cardinality(Between(i, a + 2, P)') \in Nat
              /\ Cardinality(Between(i, a + 1, P)) \in Nat
            <4>1. a + 1 \in Int /\ P \in Int /\ a + 1 <= P /\ a + 2 \in Int
                BY <1>1, <3>2
            <4> QED BY <1>t, <1>6, <4>1, Parts
        <3>9. /\ Cardinality(Since(i, a + 1)') < count'[i][t] /\ Cardinality(Since(i, a + 1)') < L
              /\ Cardinality(Since(i, a + 2)') <= count'[i][t] /\ Cardinality(Since(i, a + 2)') <= L
              /\ Cardinality(Between(i, a + 2, P)') < L
            BY <1>1, <3>3, <3>5, <3>6, <3>7, <3>8
        <3>10. Open(i, t)'
            <4>1. /\ Cardinality({x \in admitted'[i] : x[1] < a + 1}) < count'[i][t]
                  /\ Cardinality({x \in admitted'[i] : x[1] < a + 1}) < L
                  /\ Cardinality({x \in admitted'[i] : x[1] < a + 2}) <= count'[i][t]
                  /\ Cardinality({x \in admitted'[i] : x[1] < a + 2}) <= L
                  /\ Cardinality({x \in admitted'[i] : a + 2 <= x[1] /\ x[1] < P}) < L
                BY <3>9 DEF Since, Between
            <4>2. /\ Cardinality({x \in admitted'[i] : x[1] < P - ttl'[i][t]}) < count'[i][t]
                  /\ Cardinality({x \in admitted'[i] : x[1] < P - ttl'[i][t]}) < L
                  /\ Cardinality({x \in admitted'[i] : x[1] < P - ttl'[i][t] + 1}) <= count'[i][t]
                  /\ Cardinality({x \in admitted'[i] : x[1] < P - ttl'[i][t] + 1}) <= L
                  /\ Cardinality({x \in admitted'[i] : P - ttl'[i][t] + 1 <= x[1] /\ x[1] < P}) < L
                BY <3>4, <4>1, Zenon
            <4> QED BY <3>4, <4>2, Zenon DEF Open, Since, Between, Begun
        <3>11. count'[i][t] # 0
            BY <1>9, <3>3
        <3> QED BY <3>10, <3>11
    <2> QED BY <2>2, <2>3
<1> QED BY <1>8, <1>9

\* The number of an admitted request is new in its unit of time.
LEMMA FreshNumber ==
    ASSUME LimiterType, Numbered, NEW i \in Identities
    PROVE  <<0, Cardinality(Since(i, 1)) + 1>> \notin admitted[i]
<1> DEFINE k == Cardinality(Since(i, 1)) + 1
<1>1. Cardinality(Since(i, 1)) \in Nat
    BY Parts
<1>2. SUFFICES ASSUME <<0, k>> \in admitted[i] PROVE FALSE
    OBVIOUS
<1>3. <<0, k>> \in Since(i, 1)
    BY <1>2 DEF Since
<1>4. <<0, k>>[2] <= Cardinality(Since(i, 1))
    BY <1>3 DEF Numbered
<1> QED BY <1>1, <1>4

LEMMA CheckKeepsNumbers ==
    ASSUME LimiterType, Numbered, NEW i \in Identities, Check(i)
    PROVE  Numbered'
<1> DEFINE k == Cardinality(Since(i, 1)) + 1
<1>0. IsFiniteSet(Since(i, 1)) /\ Cardinality(Since(i, 1)) \in Nat
    BY Parts
<1>1. Since(i, 1)' = Since(i, 1) \cup Admitted(i)
    BY CheckAdmits
<1>2. \A x \in Since(i, 1)' : x[2] <= Cardinality(Since(i, 1)')
    <2>1. CASE Allowed(i)
        <3>1. Since(i, 1)' = Since(i, 1) \cup {<<0, k>>}
            BY <1>1, <2>1 DEF Admitted
        <3>2. <<0, k>> \notin Since(i, 1)
            BY FreshNumber DEF Since
        <3>3. Cardinality(Since(i, 1)') = k
            BY <1>0, <3>1, <3>2, FS_AddElement
        <3>4. \A x \in Since(i, 1) : x[2] \in Nat /\ x[2] <= Cardinality(Since(i, 1))
            BY DEF Numbered, LimiterType, Since
        <3>5. \A x \in Since(i, 1) : x[2] <= k
            BY <1>0, <3>4
        <3>6. <<0, k>>[2] <= k
            BY <1>0
        <3> HIDE DEF k
        <3> QED BY <3>1, <3>3, <3>5, <3>6
    <2>2. CASE ~Allowed(i)
        <3>1. Since(i, 1)' = Since(i, 1)
            BY <1>1, <2>2 DEF Admitted
        <3> QED BY <3>1 DEF Numbered
    <2> QED BY <2>1, <2>2
<1>3. ASSUME NEW j \in Identities \ {i}
      PROVE  \A x \in Since(j, 1)' : x[2] <= Cardinality(Since(j, 1)')
    <2>1. Since(j, 1)' = Since(j, 1)
        BY CheckChanges DEF Since
    <2> QED BY <2>1 DEF Numbered
<1>4. \A j \in Identities : \A x \in Since(j, 1)' : x[2] <= Cardinality(Since(j, 1)')
    <2> TAKE j \in Identities
    <2>1. CASE j = i
        BY <1>2, <2>1
    <2>2. CASE j # i
        BY <1>3, <2>2
    <2> QED BY <2>1, <2>2
<1> QED BY <1>4 DEF Numbered, Since

LEMMA CheckKeepsDates ==
    ASSUME LimiterType, Dated, NEW i \in Identities, Check(i)
    PROVE  Dated'
<1> SUFFICES ASSUME NEW j \in Identities, NEW t \in Tiers, count'[j][t] # 0
             PROVE  age'[j][t] + ttl'[j][t] = Period[t]
    BY DEF Dated
<1>1. CASE j # i
    <2>1. count'[j] = count[j] /\ ttl'[j] = ttl[j] /\ age'[j] = age[j]
        BY <1>1, CheckChanges
    <2> QED BY <2>1 DEF Dated
<1>2. CASE j = i
    <2>1. /\ ttl'[i][t] = IF count[i][t] = 0 THEN Period[t] ELSE ttl[i][t]
          /\ age'[i][t] = IF count[i][t] = 0 THEN 0 ELSE age[i][t]
        BY CheckChanges
    <2>2. Period[t] \in Nat
        BY Constants
    <2> QED BY <1>2, <2>1, <2>2 DEF Dated
<1> QED BY <1>1, <1>2

LEMMA ExpireKeepsDates ==
    ASSUME LimiterType, Dated, Expire
    PROVE  Dated'
<1> SUFFICES ASSUME NEW i \in Identities, NEW t \in Tiers, count'[i][t] # 0
             PROVE  age'[i][t] + ttl'[i][t] = Period[t]
    BY DEF Dated
<1>1. /\ count'[i][t] = IF ttl[i][t] <= 1 THEN 0 ELSE count[i][t]
      /\ ttl'[i][t] = IF ttl[i][t] = 0 THEN 0 ELSE ttl[i][t] - 1
      /\ age'[i][t] = IF ttl[i][t] <= 1 THEN 0 ELSE age[i][t] + 1
    BY DEF Expire
<1>2. ttl[i][t] \in Nat /\ age[i][t] \in Nat
    BY DEF LimiterType
<1>3. ~(ttl[i][t] <= 1) /\ count[i][t] # 0
    BY <1>1
<1>4. age[i][t] + ttl[i][t] = Period[t]
    BY <1>3 DEF Dated
<1>5. age'[i][t] = age[i][t] + 1 /\ ttl'[i][t] = ttl[i][t] - 1
    BY <1>1, <1>2, <1>3
<1> QED BY <1>2, <1>4, <1>5

LEMMA CheckKeepsLimiter ==
    ASSUME LimiterInv, NEW i \in Identities, Check(i)
    PROVE  LimiterInv'
BY CheckKeepsWindows, CheckKeepsNumbers, CheckKeepsDates, CheckAdmits DEF LimiterInv

LEMMA ExpireKeepsLimiter ==
    ASSUME LimiterInv, Expire
    PROVE  LimiterInv'
<1>1. LimiterType' /\ \A i \in Identities : Since(i, 1)' = {}
    BY ExpireAges DEF LimiterInv
<1>2. Numbered'
    BY <1>1 DEF Numbered, Since
<1>3. Dated'
    BY ExpireKeepsDates DEF LimiterInv
<1> QED BY <1>1, <1>2, <1>3, ExpireKeepsWindows DEF LimiterInv

LEMMA IdleLimiter ==
    ASSUME LimiterInv, UNCHANGED limiterVars
    PROVE  LimiterInv'
BY DEF LimiterInv, LimiterType, Windows, Numbered, Dated, limiterVars, Closed, Open, Begun, Since,
       Between

\* The identity of a request is one of those the limiter counts.
LEMMA IdentityType == Identity \in Identities
BY GatewayAssumption DEF Identity, IdentityOf

---------------------------------------------------------------------------
(* The request.                                                            *)

Stations == {"context", "key", "limit", "cors", "app", "handler", "presign", "stream", "answered"}

Statuses == {0, 200, 201, 400, 401, 403, 404, 422, 429, 500, 503}
Bodies == {"none", "error", "success", "html", "bytes", "broken"}

RequestType ==
    [at : Stations, route : Routes, key : Keys, first : Firsts, token : Tokens, place : Transports,
     status : Statuses, body : Bodies,
     marks : SUBSET {"security", "context", "cors"}, seen : SUBSET BOOLEAN]

TypeOK ==
    /\ settings \in Settings /\ Validated(settings)
    /\ req \in RequestType \/ req = Idle
    /\ file \in BOOLEAN

\* What a client can send at all.
Sendable ==
    /\ req.key = "right" => settings.keySet
    /\ ~settings.gate => req.key = "none"
    /\ ~NeedsUser(req.route) \/ ~settings.jwt => req.token = "none"
    /\ req.token = "none" => req.place = "header"

Authenticated == NeedsUser(req.route) => Principal # "nobody"

PassedGate == ~settings.gate \/ Exempt(req.route) \/ (settings.keySet /\ req.key = "right")

\* Behind the gate the key was right, behind the router the route exists and the
\* principal may use it.
Passed ==
    /\ req.at \in {"limit", "cors", "app", "handler", "presign", "stream"} => PassedGate
    /\ InHandler => Registered(req.route) /\ Authenticated /\ RoleAllowed

\* Who says 401: the gate, the password of the documentation, the authentication,
\* or the login itself.
Refused ==
    Answered /\ req.status = 401 =>
        \/ settings.gate /\ ~Exempt(req.route) /\ req.key # "right"
        \/ Guarded(req.route)
        \/ NeedsUser(req.route) /\ Principal = "nobody"
        \/ req.route = "login" /\ "cors" \in req.marks

\* A 401 that the answering layer may say.
Rightful401(layer) ==
    \/ settings.gate /\ ~Exempt(req.route) /\ req.key # "right"
    \/ Guarded(req.route)
    \/ NeedsUser(req.route) /\ Principal = "nobody"
    \/ req.route = "login" /\ layer = "app"

Traced ==
    Answered => {"security", "context"} \subseteq req.marks \/ (req.status = 500 /\ req.marks = {})

\* What an answer says of the object, the request has seen.
TrueOfFile(status, body) ==
    req.route \in FileRoutes =>
        /\ req.route # "delete_file" /\ status \in {200, 201} => TRUE \in req.seen
        /\ req.route = "delete_file" /\ status = 200 => FALSE \in req.seen
        /\ settings.storage /\ status = 404 => FALSE \in req.seen
        /\ body = "broken" => req.route = "download"

\* The request has seen the object as it is now; where it is about to answer
\* something about it, it has seen it so.
Witnessed ==
    /\ ~Answered => file \in req.seen
    /\ At("presign") => req.route \in {"upload", "url"} /\ TRUE \in req.seen
    /\ At("stream") => req.route = "download" /\ TRUE \in req.seen
    /\ Answered => TrueOfFile(req.status, req.body)

RequestInv == req # Idle => Sendable /\ Passed /\ Refused /\ Traced /\ Witnessed

GatewayInv == LimiterInv /\ TypeOK /\ RequestInv

\* The layers from the outside in, and what they leave on an answer.
LEMMA Layers ==
    /\ Inner("security") = "context" /\ Inner("context") = "key"
    /\ Inner("key") = "limit" /\ Inner("limit") = "cors" /\ Inner("cors") = "app"
    /\ Marks("errors") = {}
    /\ Marks("key") = {"security", "context"} /\ Marks("limit") = {"security", "context"}
    /\ Marks("app") = {"security", "context", "cors"}
<1>1. DOMAIN Stack = 1..7
    BY DEF Stack
<1>2. /\ Stack[1] = "errors" /\ Stack[2] = "security" /\ Stack[3] = "context" /\ Stack[4] = "key"
      /\ Stack[5] = "limit" /\ Stack[6] = "cors" /\ Stack[7] = "app"
    BY DEF Stack
<1>3. \A d \in 1..7 : d = 1 \/ d = 2 \/ d = 3 \/ d = 4 \/ d = 5 \/ d = 6 \/ d = 7
    OBVIOUS
<1>4. \A d \in DOMAIN Stack, e \in DOMAIN Stack : Stack[d] = Stack[e] => d = e
    BY <1>1, <1>2, <1>3
<1>5. ASSUME NEW d \in 1..7 PROVE Depth(Stack[d]) = d
    BY <1>1, <1>4 DEF Depth
<1>6. /\ Depth("errors") = 1 /\ Depth("security") = 2 /\ Depth("context") = 3 /\ Depth("key") = 4
      /\ Depth("limit") = 5 /\ Depth("cors") = 6 /\ Depth("app") = 7
    <2>1. /\ Depth(Stack[1]) = 1 /\ Depth(Stack[2]) = 2 /\ Depth(Stack[3]) = 3 /\ Depth(Stack[4]) = 4
          /\ Depth(Stack[5]) = 5 /\ Depth(Stack[6]) = 6 /\ Depth(Stack[7]) = 7
        BY <1>5
    <2> QED BY <1>2, <2>1, Zenon
<1>7. /\ Inner("security") = "context" /\ Inner("context") = "key"
      /\ Inner("key") = "limit" /\ Inner("limit") = "cors" /\ Inner("cors") = "app"
    BY <1>2, <1>6 DEF Inner
<1>8. /\ Marks("errors") = {}
      /\ Marks("key") = {"security", "context"} /\ Marks("limit") = {"security", "context"}
      /\ Marks("app") = {"security", "context", "cors"}
    BY <1>6 DEF Marks
<1> QED BY <1>7, <1>8

\* What is only a function of the settings and of what the client has sent.
LEMMA SameRequest ==
    ASSUME req'.route = req.route, req'.key = req.key, req'.token = req.token,
           req'.place = req.place, settings' = settings
    PROVE  /\ Sendable' <=> Sendable
           /\ PassedGate' <=> PassedGate
           /\ Authenticated' <=> Authenticated
           /\ RoleAllowed' <=> RoleAllowed
           /\ \A route : Registered(route)' <=> Registered(route)
           /\ \A route : Guarded(route)' <=> Guarded(route)
           /\ Principal' = Principal
<1>1. Presented' = Presented
    BY DEF Presented
<1>2. Principal' = Principal
    BY <1>1 DEF Principal
<1>3. DocsVisible' = DocsVisible
    BY DEF DocsVisible
<1>4. \A route : Registered(route)' <=> Registered(route)
    BY <1>3 DEF Registered
<1>5. \A route : Guarded(route)' <=> Guarded(route)
    BY DEF Guarded
<1> QED BY <1>2, <1>4, <1>5 DEF Sendable, PassedGate, Authenticated, RoleAllowed

\* Going on changes nothing but the place where the request is.
LEMMA GoEffect ==
    ASSUME req \in RequestType, NEW step \in Stations, Go(step)
    PROVE  /\ req' \in RequestType /\ req'.at = step
           /\ req'.route = req.route /\ req'.key = req.key /\ req'.token = req.token
           /\ req'.place = req.place /\ req'.seen = req.seen
BY DEF RequestType, Go

LEMMA AnswerEffect ==
    ASSUME req \in RequestType, NEW status \in Statuses, NEW body \in Bodies,
           NEW layer \in {"errors", "key", "limit", "app"}, Answer(status, body, layer)
    PROVE  /\ req' \in RequestType /\ req'.at = "answered"
           /\ req'.status = status /\ req'.body = body /\ req'.marks = Marks(layer)
           /\ req'.route = req.route /\ req'.key = req.key /\ req'.token = req.token
           /\ req'.place = req.place /\ req'.seen = req.seen
<1>1. Marks(layer) \in SUBSET {"security", "context", "cors"}
    BY DEF Marks
<1>2. "answered" \in Stations
    BY DEF Stations
<1> QED BY <1>1, <1>2 DEF RequestType, Answer

\* An answer keeps the invariant of the request when it may say what it says.
LEMMA AnswerKeeps ==
    ASSUME req \in RequestType, Sendable, settings' = settings,
           NEW status \in Statuses, NEW body \in Bodies,
           NEW layer \in {"errors", "key", "limit", "app"}, Answer(status, body, layer),
           layer = "errors" => status = 500,
           status = 401 => Rightful401(layer),
           TrueOfFile(status, body)
    PROVE  req' \in RequestType /\ RequestInv'
<1>1. /\ req' \in RequestType /\ req'.at = "answered"
      /\ req'.status = status /\ req'.body = body /\ req'.marks = Marks(layer)
      /\ req'.route = req.route /\ req'.key = req.key /\ req'.token = req.token
      /\ req'.place = req.place /\ req'.seen = req.seen
    BY AnswerEffect
<1>2. /\ Sendable' <=> Sendable
      /\ \A route : Guarded(route)' <=> Guarded(route)
      /\ Principal' = Principal
    BY <1>1, SameRequest
<1>3. Sendable'
    BY <1>2
<1>4. Passed'
    BY <1>1 DEF Passed, InHandler
<1>5. Refused'
    BY <1>1, <1>2, Layers DEF Refused, Rightful401
<1>6. Traced'
    BY <1>1, Layers DEF Traced
<1>7. Witnessed'
    BY <1>1 DEF Witnessed, TrueOfFile, Answered, At
<1> QED BY <1>1, <1>3, <1>4, <1>5, <1>6, <1>7 DEF RequestInv

\* Going on keeps it when the next station may be reached.
LEMMA GoKeeps ==
    ASSUME req \in RequestType, Sendable, ~Answered, file \in req.seen,
           settings' = settings, file' = file,
           NEW step \in Stations \ {"answered"}, Go(step),
           step \in {"limit", "cors", "app", "handler", "presign", "stream"} => PassedGate,
           step \in {"handler", "presign", "stream"} =>
               Registered(req.route) /\ Authenticated /\ RoleAllowed,
           step = "presign" => req.route \in {"upload", "url"} /\ TRUE \in req.seen,
           step = "stream" => req.route = "download" /\ TRUE \in req.seen
    PROVE  req' \in RequestType /\ RequestInv'
<1>1. /\ req' \in RequestType /\ req'.at = step
      /\ req'.route = req.route /\ req'.key = req.key /\ req'.token = req.token
      /\ req'.place = req.place /\ req'.seen = req.seen
    BY GoEffect
<1>2. /\ Sendable' <=> Sendable
      /\ PassedGate' <=> PassedGate
      /\ Authenticated' <=> Authenticated
      /\ RoleAllowed' <=> RoleAllowed
      /\ \A route : Registered(route)' <=> Registered(route)
    BY <1>1, SameRequest
<1>3. Passed'
    BY <1>1, <1>2 DEF Passed, InHandler
<1>4. Refused' /\ Traced'
    BY <1>1 DEF Refused, Traced, Answered
<1>5. Witnessed'
    BY <1>1 DEF Witnessed, Answered, At
<1> QED BY <1>1, <1>2, <1>3, <1>4, <1>5 DEF RequestInv

\* A request that is somewhere in the process.
LEMMA Busy ==
    ASSUME TypeOK, RequestInv, req.at \in Stations
    PROVE  /\ req \in RequestType
           /\ Sendable /\ Passed /\ Witnessed
           /\ req.route \in Routes /\ req.key \in Keys
           /\ ~Answered => file \in req.seen
<1>1. req # Idle
    BY DEF Idle, Stations
<1>2. req \in RequestType
    BY <1>1 DEF TypeOK
<1>3. req.route \in Routes /\ req.key \in Keys
    BY <1>2 DEF RequestType
<1> QED BY <1>1, <1>2, <1>3 DEF RequestInv, Witnessed

\* Exceptions are answered outside everything.
LEMMA UnhandledKeeps ==
    ASSUME req \in RequestType, Sendable, settings' = settings, Unhandled
    PROVE  req' \in RequestType /\ RequestInv'
<1> DEFINE status == 500  body == "error"  layer == "errors"
<1>1. status \in Statuses /\ body \in Bodies /\ layer \in {"errors", "key", "limit", "app"}
    BY DEF Statuses, Bodies
<1>2. Answer(status, body, layer)
    BY DEF Unhandled, Error
<1>3. status # 401 /\ status \notin {200, 201} /\ status # 200 /\ status # 404 /\ body # "broken"
      /\ (layer = "errors" => status = 500)
    OBVIOUS
<1> HIDE DEF status, body, layer
<1>4. status = 401 => Rightful401(layer)
    BY <1>3
<1>5. TrueOfFile(status, body)
    BY <1>3 DEF TrueOfFile, body
<1>6. layer = "errors" => status = 500
    BY <1>3
<1> QED BY <1>1, <1>2, <1>4, <1>5, <1>6, AnswerKeeps

\* Controlled errors: what a 401 and a 404 stand for.
LEMMA ErrorKeeps ==
    ASSUME req \in RequestType, Sendable, settings' = settings,
           NEW status \in {400, 401, 403, 404, 422, 429}, NEW layer \in {"key", "limit", "app"},
           Error(status, layer),
           status = 401 => Rightful401(layer),
           status = 404 => TrueOfFile(404, "error")
    PROVE  req' \in RequestType /\ RequestInv'
<1> DEFINE body == "error"
<1>1. status \in Statuses /\ body \in Bodies /\ layer \in {"errors", "key", "limit", "app"}
    BY DEF Statuses, Bodies
<1>2. Answer(status, body, layer)
    BY DEF Error
<1>3. status \notin {200, 201} /\ status # 200 /\ body # "broken" /\ layer # "errors"
    OBVIOUS
<1> HIDE DEF body
<1>4. status = 401 => Rightful401(layer)
    BY <1>3
<1>5. TrueOfFile(status, body)
    BY <1>3 DEF TrueOfFile, body
<1>6. layer = "errors" => status = 500
    BY <1>3
<1> QED BY <1>1, <1>2, <1>4, <1>5, <1>6, AnswerKeeps

LEMMA SendKeeps ==
    ASSUME TypeOK, Send
    PROVE  req' \in RequestType /\ RequestInv'
<1>1. PICK route \in Routes, key \in Keys, first \in Firsts, token \in Tokens, place \in Transports :
        /\ key = "right" => settings.keySet
        /\ ~settings.gate => key = "none"
        /\ first # "same" => key = "right" /\ ~Exempt(route)
        /\ Cardinality(Counted \cup {IdentityOf(key, first)}) <= MaxCounted
        /\ ~NeedsUser(route) \/ ~settings.jwt => token = "none"
        /\ token = "none" => place = "header"
        /\ req' = [at |-> Inner("security"), route |-> route, key |-> key, first |-> first,
                   token |-> token, place |-> place, status |-> 0, body |-> "none", marks |-> {},
                   seen |-> {file}]
    BY DEF Send
<1>2. settings' = settings /\ file' = file /\ file \in BOOLEAN
    BY DEF Send, TypeOK
<1>3. /\ req'.at = "context" /\ req'.route = route /\ req'.key = key /\ req'.token = token
      /\ req'.place = place /\ req'.seen = {file}
    BY <1>1, Layers
<1>4. req' \in RequestType
    <2>1. 0 \in Statuses /\ "none" \in Bodies /\ "context" \in Stations
        BY DEF Statuses, Bodies, Stations
    <2>2. {file} \in SUBSET BOOLEAN
        BY <1>2
    <2> QED BY <1>1, <2>1, <2>2, Layers DEF RequestType
<1>5. Sendable'
    BY <1>1, <1>2, <1>3 DEF Sendable, NeedsUser
<1>6. Passed' /\ Refused' /\ Traced' /\ Witnessed'
    BY <1>2, <1>3 DEF Passed, InHandler, Refused, Traced, Witnessed, Answered, At
<1> QED BY <1>4, <1>5, <1>6 DEF RequestInv

LEMMA WrapKeeps ==
    ASSUME TypeOK, RequestInv, Wrap
    PROVE  req' \in RequestType /\ RequestInv'
<1>1. req.at \in {"context", "cors"} /\ settings' = settings /\ file' = file
    BY DEF Wrap, At
<1>2. /\ req \in RequestType /\ Sendable /\ Passed /\ ~Answered /\ file \in req.seen
    BY <1>1, Busy DEF Stations, Answered
<1>3. CASE req.at = "context" /\ Go(Inner(req.at))
    <2>1. Go("key")
        BY <1>1, <1>3, Layers
    <2> QED BY <1>1, <1>2, <2>1, GoKeeps DEF Stations
<1>4. CASE req.at = "cors" /\ Go(Inner(req.at))
    <2>1. Go("app") /\ PassedGate
        BY <1>1, <1>2, <1>4, Layers DEF Passed
    <2> QED BY <1>1, <1>2, <2>1, GoKeeps DEF Stations
<1>5. CASE Unhandled
    BY <1>1, <1>2, <1>5, UnhandledKeeps
<1> QED BY <1>1, <1>3, <1>4, <1>5 DEF Wrap

LEMMA KeyGateKeeps ==
    ASSUME TypeOK, RequestInv, KeyGate
    PROVE  req' \in RequestType /\ RequestInv'
<1>1. req.at = "key" /\ settings' = settings /\ file' = file
    BY DEF KeyGate, At
<1>2. /\ req \in RequestType /\ Sendable /\ ~Answered /\ file \in req.seen
    BY <1>1, Busy DEF Stations, Answered
<1>3. CASE PassedGate /\ Go(Inner("key"))
    <2>1. Go("limit")
        BY <1>3, Layers
    <2> QED BY <1>1, <1>2, <1>3, <2>1, GoKeeps DEF Stations
<1>4. CASE Unhandled
    BY <1>1, <1>2, <1>4, UnhandledKeeps
<1>5. CASE settings.gate /\ ~Exempt(req.route) /\ req.key # "right" /\ Error(401, "key")
    <2> DEFINE status == 401  layer == "key"
    <2>1. /\ status \in {400, 401, 403, 404, 422, 429} /\ layer \in {"key", "limit", "app"}
          /\ Error(status, layer) /\ (status = 401 <=> TRUE)
          /\ (status = 404 <=> FALSE) /\ (layer = "app" <=> FALSE)
        BY <1>5
    <2> HIDE DEF status, layer
    <2> QED BY <1>1, <1>2, <1>5, <2>1, ErrorKeeps DEF Rightful401
<1>6. \/ PassedGate /\ Go(Inner("key"))
      \/ Unhandled
      \/ settings.gate /\ ~Exempt(req.route) /\ req.key # "right" /\ Error(401, "key")
    BY DEF KeyGate, PassedGate
<1> QED BY <1>3, <1>4, <1>5, <1>6

LEMMA LimitedKeeps ==
    ASSUME TypeOK, RequestInv, Limited
    PROVE  req' \in RequestType /\ RequestInv'
<1>1. req.at = "limit" /\ settings' = settings /\ file' = file
    BY DEF Limited, At
<1>2. /\ req \in RequestType /\ Sendable /\ Passed /\ ~Answered /\ file \in req.seen
    BY <1>1, Busy DEF Stations, Answered
<1>3. CASE Go(Inner("limit"))
    <2>1. Go("cors") /\ PassedGate
        BY <1>1, <1>2, <1>3, Layers DEF Passed
    <2> QED BY <1>1, <1>2, <2>1, GoKeeps DEF Stations
<1>4. CASE Unhandled
    BY <1>1, <1>2, <1>4, UnhandledKeeps
<1>5. CASE Error(429, "limit")
    <2> DEFINE status == 429  layer == "limit"
    <2>1. /\ status \in {400, 401, 403, 404, 422, 429} /\ layer \in {"key", "limit", "app"}
          /\ Error(status, layer) /\ (status = 401 <=> FALSE)
          /\ (status = 404 <=> FALSE) /\ (layer = "app" <=> FALSE)
        BY <1>5
    <2> HIDE DEF status, layer
    <2> QED BY <1>1, <1>2, <2>1, ErrorKeeps DEF Rightful401
<1>6. Go(Inner("limit")) \/ Unhandled \/ Error(429, "limit")
    BY DEF Limited
<1> QED BY <1>3, <1>4, <1>5, <1>6

LEMMA DispatchKeeps ==
    ASSUME TypeOK, RequestInv, Dispatch
    PROVE  req' \in RequestType /\ RequestInv'
<1>1. req.at = "app" /\ settings' = settings /\ file' = file
    BY DEF Dispatch, At
<1>2. /\ req \in RequestType /\ Sendable /\ Passed /\ ~Answered /\ file \in req.seen
      /\ req.route \in Routes
    BY <1>1, Busy DEF Stations, Answered
<1>3. PassedGate
    BY <1>1, <1>2 DEF Passed
<1>4. CASE ~Registered(req.route) /\ Error(404, "app")
    <2> DEFINE status == 404  layer == "app"
    <2>1. /\ status \in {400, 401, 403, 404, 422, 429} /\ layer \in {"key", "limit", "app"}
          /\ Error(status, layer) /\ (status = 401 <=> FALSE)
          /\ (status = 404 <=> TRUE) /\ (layer = "app" <=> TRUE)
        BY <1>4
    <2>2. req.route \in FileRoutes => ~settings.storage
        BY <1>4 DEF Registered, FileRoutes
    <2>5. 404 \notin {200, 201} /\ 404 # 200 /\ "error" # "broken"
        OBVIOUS
    <2>3. status = 404 => TrueOfFile(404, "error")
        BY <2>2, <2>5, Zenon DEF TrueOfFile
    <2>4. status = 401 => Rightful401(layer)
        BY <2>1
    <2> HIDE DEF status, layer
    <2> QED BY <1>1, <1>2, <2>1, <2>3, <2>4, ErrorKeeps
<1>5. CASE NeedsUser(req.route) /\ Principal = "nobody" /\ Error(401, "app")
    <2> DEFINE status == 401  layer == "app"
    <2>1. /\ status \in {400, 401, 403, 404, 422, 429} /\ layer \in {"key", "limit", "app"}
          /\ Error(status, layer) /\ (status = 401 <=> TRUE)
          /\ (status = 404 <=> FALSE) /\ (layer = "app" <=> TRUE)
        BY <1>5
    <2> HIDE DEF status, layer
    <2> QED BY <1>1, <1>2, <1>5, <2>1, ErrorKeeps DEF Rightful401
<1>6. CASE Error(403, "app")
    <2> DEFINE status == 403  layer == "app"
    <2>1. /\ status \in {400, 401, 403, 404, 422, 429} /\ layer \in {"key", "limit", "app"}
          /\ Error(status, layer) /\ (status = 401 <=> FALSE)
          /\ (status = 404 <=> FALSE) /\ (layer = "app" <=> TRUE)
        BY <1>6
    <2> HIDE DEF status, layer
    <2> QED BY <1>1, <1>2, <2>1, ErrorKeeps DEF Rightful401
<1>7. CASE Registered(req.route) /\ Authenticated /\ RoleAllowed /\ Go("handler")
    BY <1>1, <1>2, <1>3, <1>7, GoKeeps DEF Stations
<1>8. CASE Error(422, "app")
    <2> DEFINE status == 422  layer == "app"
    <2>1. /\ status \in {400, 401, 403, 404, 422, 429} /\ layer \in {"key", "limit", "app"}
          /\ Error(status, layer) /\ (status = 401 <=> FALSE)
          /\ (status = 404 <=> FALSE) /\ (layer = "app" <=> TRUE)
        BY <1>8
    <2> HIDE DEF status, layer
    <2> QED BY <1>1, <1>2, <2>1, ErrorKeeps DEF Rightful401
<1>9. CASE Guarded(req.route) /\ Error(401, "app")
    <2> DEFINE status == 401  layer == "app"
    <2>1. /\ status \in {400, 401, 403, 404, 422, 429} /\ layer \in {"key", "limit", "app"}
          /\ Error(status, layer) /\ (status = 401 <=> TRUE)
          /\ (status = 404 <=> FALSE) /\ (layer = "app" <=> TRUE)
        BY <1>9
    <2> HIDE DEF status, layer
    <2> QED BY <1>1, <1>2, <1>9, <2>1, ErrorKeeps DEF Rightful401
<1>11. CASE Unhandled
    BY <1>1, <1>2, <1>11, UnhandledKeeps
<1>10. \/ ~Registered(req.route) /\ Error(404, "app")
       \/ NeedsUser(req.route) /\ Principal = "nobody" /\ Error(401, "app")
       \/ Error(403, "app")
       \/ Registered(req.route) /\ Authenticated /\ RoleAllowed /\ Go("handler")
       \/ Error(422, "app")
       \/ Guarded(req.route) /\ Error(401, "app")
       \/ Unhandled
    BY DEF Dispatch, Authenticated
<1> QED BY <1>4, <1>5, <1>6, <1>7, <1>8, <1>9, <1>10, <1>11

LEMMA HandleKeeps ==
    ASSUME TypeOK, RequestInv, Handle
    PROVE  req' \in RequestType /\ RequestInv'
<1>1. req.at = "handler" /\ settings' = settings /\ file' = file /\ req.route \notin FileRoutes
    BY DEF Handle, At
<1>2. /\ req \in RequestType /\ Sendable /\ ~Answered /\ file \in req.seen
      /\ req.route \in Routes
    BY <1>1, Busy DEF Stations, Answered
<1>3. Unhandled \/ \E status \in Statuses, body \in Bodies :
        (status = 401 => req.route = "login") /\ Answer(status, body, "app")
    <2>0. /\ {200, 400, 401, 404, 503} \subseteq Statuses
          /\ {"success", "html", "error"} \subseteq Bodies
        BY DEF Statuses, Bodies
    <2>1. CASE req.route = "live"
        BY <2>0, <2>1 DEF Handle
    <2>2. CASE req.route = "ready"
        BY <2>0, <2>2 DEF Handle
    <2>3. CASE req.route = "docs"
        BY <2>0, <2>3 DEF Handle
    <2>4. CASE req.route \notin {"live", "ready", "docs"}
        <3>1. Answer(200, "success", "app") \/ Answer(Refusal(req.route), "error", "app") \/ Unhandled
            BY <2>4 DEF Handle, Error
        <3>2. /\ Refusal(req.route) \in {400, 401, 404}
              /\ Refusal(req.route) = 401 => req.route = "login"
            BY DEF Refusal
        <3> QED BY <2>0, <3>1, <3>2
    <2> QED BY <2>1, <2>2, <2>3, <2>4
<1>4. CASE Unhandled
    BY <1>1, <1>2, <1>4, UnhandledKeeps
<1>5. ASSUME NEW status \in Statuses, NEW body \in Bodies,
             status = 401 => req.route = "login", Answer(status, body, "app")
      PROVE  req' \in RequestType /\ RequestInv'
    <2> DEFINE layer == "app"
    <2>1. status = 401 => Rightful401(layer)
        BY <1>5 DEF Rightful401
    <2>2. TrueOfFile(status, body)
        BY <1>1 DEF TrueOfFile
    <2>3. layer \in {"errors", "key", "limit", "app"} /\ layer # "errors" /\ Answer(status, body, layer)
        BY <1>5
    <2> HIDE DEF layer
    <2> QED BY <1>1, <1>2, <2>1, <2>2, <2>3, AnswerKeeps
<1> QED BY <1>3, <1>4, <1>5

LEMMA LookKeeps ==
    ASSUME TypeOK, RequestInv, Look
    PROVE  req' \in RequestType /\ RequestInv'
<1>1. req.at = "handler" /\ settings' = settings /\ file' = file /\ req.route \in {"url", "download"}
    BY DEF Look, At
<1>2. /\ req \in RequestType /\ Sendable /\ Passed /\ ~Answered /\ file \in req.seen
    BY <1>1, Busy DEF Stations, Answered
<1>3. PassedGate /\ Registered(req.route) /\ Authenticated /\ RoleAllowed
    BY <1>1, <1>2 DEF Passed, InHandler
<1>4. CASE Unhandled
    BY <1>1, <1>2, <1>4, UnhandledKeeps
<1>5. CASE ~file /\ Error(404, "app")
    <2> DEFINE status == 404  layer == "app"
    <2>1. status \in {400, 401, 403, 404, 422, 429} /\ layer \in {"key", "limit", "app"}
          /\ Error(status, layer) /\ (status = 401 <=> FALSE)
        BY <1>5
    <2>2. FALSE \in req.seen
        BY <1>2, <1>5 DEF TypeOK
    <2>3. req.route # "delete_file" /\ 404 \notin {200, 201} /\ 404 # 200 /\ "error" # "broken"
        BY <1>1
    <2>4. status = 404 => TrueOfFile(404, "error")
        BY <2>2, <2>3, Zenon DEF TrueOfFile
    <2> HIDE DEF status, layer
    <2> QED BY <1>1, <1>2, <2>1, <2>4, ErrorKeeps
<1>6. CASE file /\ Go(IF req.route = "url" THEN "presign" ELSE "stream")
    <2>1. TRUE \in req.seen
        BY <1>2, <1>6 DEF TypeOK
    <2>2. CASE req.route = "url"
        <3>1. Go("presign")
            BY <1>6, <2>2
        <3> QED BY <1>1, <1>2, <1>3, <2>1, <2>2, <3>1, GoKeeps DEF Stations
    <2>3. CASE req.route = "download"
        <3>1. Go("stream")
            BY <1>6, <2>3
        <3> QED BY <1>1, <1>2, <1>3, <2>1, <2>3, <3>1, GoKeeps DEF Stations
    <2> QED BY <1>1, <2>2, <2>3
<1> QED BY <1>4, <1>5, <1>6 DEF Look

LEMMA PresignKeeps ==
    ASSUME TypeOK, RequestInv, Presign
    PROVE  req' \in RequestType /\ RequestInv'
<1>1. req.at = "presign" /\ settings' = settings /\ file' = file
    BY DEF Presign, At
<1>2. /\ req \in RequestType /\ Sendable /\ Witnessed
    BY <1>1, Busy DEF Stations
<1>3. CASE Unhandled
    BY <1>1, <1>2, <1>3, UnhandledKeeps
<1>4. CASE Answer(IF req.route = "upload" THEN 201 ELSE 200, "success", "app")
    <2> DEFINE body == "success"  layer == "app"
    <2>1. PICK status \in {200, 201} : Answer(status, body, layer)
        BY <1>4
    <2>2. req.route \in {"upload", "url"} /\ TRUE \in req.seen
        BY <1>1, <1>2 DEF Witnessed, At
    <2>3. status \in Statuses /\ body \in Bodies /\ layer \in {"errors", "key", "limit", "app"}
          /\ (layer = "errors" => status = 500) /\ status # 401
        BY DEF Statuses, Bodies
    <2>4. req.route # "delete_file" /\ status # 404 /\ body # "broken"
        BY <2>2
    <2>5. TrueOfFile(status, body)
        BY <2>2, <2>4, Zenon DEF TrueOfFile
    <2> HIDE DEF body, layer
    <2> QED BY <1>1, <1>2, <2>1, <2>3, <2>5, AnswerKeeps
<1> QED BY <1>3, <1>4 DEF Presign

LEMMA StreamKeeps ==
    ASSUME TypeOK, RequestInv, Stream
    PROVE  req' \in RequestType /\ RequestInv'
<1>1. req.at = "stream" /\ settings' = settings /\ file' = file
    BY DEF Stream, At
<1>2. /\ req \in RequestType /\ Sendable /\ Witnessed
    BY <1>1, Busy DEF Stations
<1>3. req.route = "download" /\ TRUE \in req.seen
    BY <1>1, <1>2 DEF Witnessed, At
<1> DEFINE status == 200  layer == "app"
<1>4. PICK body \in {"bytes", "broken"} : Answer(status, body, layer)
    BY DEF Stream
<1>5. status \in Statuses /\ body \in Bodies /\ layer \in {"errors", "key", "limit", "app"}
      /\ (layer = "errors" => status = 500) /\ status # 401
    BY DEF Statuses, Bodies
<1>6. req.route # "delete_file" /\ status # 404
    BY <1>3
<1>7. TrueOfFile(status, body)
    BY <1>3, <1>6, Zenon DEF TrueOfFile
<1> HIDE DEF status, layer
<1> QED BY <1>1, <1>2, <1>4, <1>5, <1>7, AnswerKeeps

LEMMA PutKeeps ==
    ASSUME TypeOK, RequestInv, Put
    PROVE  req' \in RequestType /\ RequestInv' /\ file' \in BOOLEAN
<1>1. req.at = "handler" /\ settings' = settings /\ req.route = "upload"
    BY DEF Put, At
<1>2. /\ req \in RequestType /\ Sendable /\ Passed /\ ~Answered
    BY <1>1, Busy DEF Stations, Answered
<1>3. PassedGate /\ Registered(req.route) /\ Authenticated /\ RoleAllowed
    BY <1>1, <1>2 DEF Passed, InHandler
<1>4. CASE Unhandled /\ UNCHANGED file
    BY <1>1, <1>2, <1>4, UnhandledKeeps DEF TypeOK
<1>5. CASE file' = TRUE /\ req' = [req EXCEPT !.at = "presign", !.seen = {TRUE}]
    <2>1. /\ req' \in RequestType /\ req'.at = "presign" /\ req'.seen = {TRUE}
          /\ req'.route = req.route /\ req'.key = req.key /\ req'.token = req.token
          /\ req'.place = req.place
        BY <1>2, <1>5 DEF RequestType, Stations
    <2>2. /\ Sendable' <=> Sendable
          /\ PassedGate' <=> PassedGate
          /\ Authenticated' <=> Authenticated
          /\ RoleAllowed' <=> RoleAllowed
          /\ \A route : Registered(route)' <=> Registered(route)
        BY <1>1, <2>1, SameRequest
    <2>3. Passed'
        BY <1>3, <2>1, <2>2 DEF Passed, InHandler
    <2>4. Refused' /\ Traced'
        BY <2>1 DEF Refused, Traced, Answered
    <2>5. Witnessed'
        BY <1>1, <1>5, <2>1 DEF Witnessed, Answered, At
    <2> QED BY <1>2, <1>5, <2>1, <2>2, <2>3, <2>4, <2>5 DEF RequestInv
<1> QED BY <1>4, <1>5 DEF Put

LEMMA DeleteKeeps ==
    ASSUME TypeOK, RequestInv, Delete
    PROVE  req' \in RequestType /\ RequestInv' /\ file' \in BOOLEAN
<1>1. req.at = "handler" /\ settings' = settings /\ req.route = "delete_file"
    BY DEF Delete, At
<1>2. /\ req \in RequestType /\ Sendable
    BY <1>1, Busy DEF Stations
<1>3. CASE Unhandled /\ UNCHANGED file
    BY <1>1, <1>2, <1>3, UnhandledKeeps DEF TypeOK
<1>4. CASE /\ file' = FALSE
           /\ req' = [req EXCEPT !.at = "answered", !.status = 200, !.body = "success",
                                 !.marks = Marks("app"), !.seen = @ \cup {FALSE}]
    <2>0. /\ 200 \in Statuses /\ "success" \in Bodies /\ "answered" \in Stations
          /\ Marks("app") \in SUBSET {"security", "context", "cors"}
        BY Layers DEF Statuses, Bodies, Stations
    <2>1. /\ req' \in RequestType /\ req'.at = "answered" /\ req'.status = 200
          /\ req'.marks = Marks("app") /\ req'.seen = req.seen \cup {FALSE} /\ req'.body = "success"
          /\ req'.route = req.route /\ req'.key = req.key /\ req'.token = req.token
          /\ req'.place = req.place
        BY <1>2, <1>4, <2>0 DEF RequestType
    <2>2. Sendable' <=> Sendable
        BY <1>1, <2>1, SameRequest
    <2>3. Passed' /\ Refused' /\ Traced'
        BY <2>1, Layers DEF Passed, InHandler, Refused, Traced, Answered
    <2>4. Witnessed'
        BY <1>1, <2>1 DEF Witnessed, TrueOfFile, Answered, At
    <2> QED BY <1>2, <1>4, <2>1, <2>2, <2>3, <2>4 DEF RequestInv
<1> QED BY <1>3, <1>4 DEF Delete

LEMMA OthersDeleteKeeps ==
    ASSUME TypeOK, RequestInv, OthersDelete
    PROVE  (req' \in RequestType \/ req' = Idle) /\ RequestInv' /\ file' \in BOOLEAN
<1>1. settings' = settings /\ file' = FALSE
    BY DEF OthersDelete
<1>2. CASE req = Idle
    <2>1. req' = Idle
        BY <1>2 DEF OthersDelete
    <2> QED BY <1>1, <2>1 DEF RequestInv
<1>3. CASE req # Idle /\ Answered
    <2>1. req' = req
        BY <1>3 DEF OthersDelete
    <2>2. /\ Sendable' <=> Sendable
          /\ \A route : Guarded(route)' <=> Guarded(route)
          /\ Principal' = Principal
        BY <1>1, <2>1, SameRequest
    <2>3. Sendable /\ Refused /\ Traced /\ Witnessed
        BY <1>3 DEF RequestInv
    <2>4. Passed' /\ Traced'
        BY <1>3, <2>1, <2>3 DEF Passed, Traced, InHandler, Answered
    <2>5. Refused'
        BY <1>1, <2>1, <2>2, <2>3 DEF Refused, Answered
    <2>6. Witnessed'
        BY <1>1, <1>3, <2>1, <2>3 DEF Witnessed, TrueOfFile, Answered, At
    <2> QED BY <1>1, <2>1, <2>2, <2>3, <2>4, <2>5, <2>6 DEF RequestInv, TypeOK
<1>4. CASE req # Idle /\ ~Answered
    <2>1. req' = [req EXCEPT !.seen = @ \cup {FALSE}] /\ req \in RequestType
        BY <1>4 DEF OthersDelete, TypeOK
    <2>2. /\ req' \in RequestType /\ req'.at = req.at /\ req'.seen = req.seen \cup {FALSE}
          /\ req'.route = req.route /\ req'.key = req.key /\ req'.token = req.token
          /\ req'.place = req.place
        BY <2>1 DEF RequestType
    <2>3. /\ Sendable' <=> Sendable
          /\ PassedGate' <=> PassedGate
          /\ Authenticated' <=> Authenticated
          /\ RoleAllowed' <=> RoleAllowed
          /\ \A route : Registered(route)' <=> Registered(route)
        BY <1>1, <2>2, SameRequest
    <2>4. Sendable /\ Passed /\ Witnessed
        BY <1>4 DEF RequestInv
    <2>5. Passed'
        BY <2>2, <2>3, <2>4 DEF Passed, InHandler
    <2>6. Refused' /\ Traced'
        BY <1>4, <2>2 DEF Refused, Traced, Answered
    <2>7. Witnessed'
        BY <1>1, <1>4, <2>2, <2>4 DEF Witnessed, Answered, At
    <2> QED BY <1>1, <2>2, <2>3, <2>4, <2>5, <2>6, <2>7 DEF RequestInv
<1> QED BY <1>2, <1>3, <1>4

\* Nothing about the request depends on the counters.
LEMMA SameState ==
    ASSUME TypeOK, RequestInv, UNCHANGED <<settings, req, file>>
    PROVE  TypeOK' /\ RequestInv'
<1>1. settings' = settings /\ req' = req /\ file' = file
    OBVIOUS
<1>2. TypeOK'
    BY <1>1 DEF TypeOK, Validated
<1>3. ASSUME req # Idle PROVE RequestInv'
    <2>1. /\ Sendable' <=> Sendable
          /\ PassedGate' <=> PassedGate
          /\ Authenticated' <=> Authenticated
          /\ RoleAllowed' <=> RoleAllowed
          /\ \A route : Registered(route)' <=> Registered(route)
          /\ \A route : Guarded(route)' <=> Guarded(route)
          /\ Principal' = Principal
        BY <1>1, SameRequest
    <2>2. Sendable /\ Passed /\ Refused /\ Traced /\ Witnessed
        BY <1>3 DEF RequestInv
    <2>3. Passed'
        BY <1>1, <2>1, <2>2 DEF Passed, InHandler
    <2>4. Refused' /\ Traced'
        BY <1>1, <2>1, <2>2 DEF Refused, Traced, Answered
    <2>5. Witnessed'
        <3>1. \A status, body : TrueOfFile(status, body)' <=> TrueOfFile(status, body)
            BY <1>1 DEF TrueOfFile
        <3> QED BY <1>1, <2>2, <3>1 DEF Witnessed, Answered, At
    <2> QED BY <2>1, <2>2, <2>3, <2>4, <2>5 DEF RequestInv
<1>4. RequestInv'
    BY <1>1, <1>3 DEF RequestInv
<1> QED BY <1>2, <1>4

---------------------------------------------------------------------------
(* The two together.                                                       *)

LEMMA LimitedKeepsLimiter ==
    ASSUME TypeOK, RequestInv, LimiterInv, Limited
    PROVE  LimiterInv'
<1>1. UNCHANGED limiterVars \/ Check(Identity)
    BY DEF Limited
<1> QED BY <1>1, IdentityType, IdleLimiter, CheckKeepsLimiter

\* The steps in which the limiter has no part.
LEMMA RequestStep ==
    ASSUME TypeOK, RequestInv,
           Send \/ Wrap \/ KeyGate \/ Dispatch \/ Handle \/ Put \/ Look \/ Presign \/ Stream
             \/ Delete \/ Receive \/ OthersDelete
    PROVE  TypeOK' /\ RequestInv' /\ UNCHANGED limiterVars /\ settings' = settings
<1>1. UNCHANGED limiterVars /\ settings' = settings
    BY DEF Send, Wrap, KeyGate, Dispatch, Handle, Put, Look, Presign, Stream, Delete, Receive,
        OthersDelete
<1>2. settings' \in Settings /\ Validated(settings')
    BY <1>1 DEF TypeOK
<1>3. ASSUME Receive PROVE req' = Idle /\ RequestInv' /\ file' = file
    BY <1>3 DEF Receive, RequestInv
<1>4. ASSUME Send \/ Wrap \/ KeyGate \/ Dispatch \/ Handle \/ Look \/ Presign \/ Stream
      PROVE  file' = file
    BY <1>4 DEF Send, Wrap, KeyGate, Dispatch, Handle, Look, Presign, Stream
<1>5. RequestInv' /\ (req' \in RequestType \/ req' = Idle) /\ file' \in BOOLEAN
    <2>0. file \in BOOLEAN
        BY DEF TypeOK
    <2>1. CASE Send
        BY <1>4, <2>0, <2>1, SendKeeps
    <2>2. CASE Wrap
        BY <1>4, <2>0, <2>2, WrapKeeps
    <2>3. CASE KeyGate
        BY <1>4, <2>0, <2>3, KeyGateKeeps
    <2>4. CASE Dispatch
        BY <1>4, <2>0, <2>4, DispatchKeeps
    <2>5. CASE Handle
        BY <1>4, <2>0, <2>5, HandleKeeps
    <2>6. CASE Put
        BY <2>6, PutKeeps
    <2>7. CASE Look
        BY <1>4, <2>0, <2>7, LookKeeps
    <2>8. CASE Presign
        BY <1>4, <2>0, <2>8, PresignKeeps
    <2>9. CASE Stream
        BY <1>4, <2>0, <2>9, StreamKeeps
    <2>10. CASE Delete
        BY <2>10, DeleteKeeps
    <2>11. CASE Receive
        BY <1>3, <2>0, <2>11
    <2>12. CASE OthersDelete
        BY <2>12, OthersDeleteKeeps
    <2> QED BY <2>1, <2>2, <2>3, <2>4, <2>5, <2>6, <2>7, <2>8, <2>9, <2>10, <2>11, <2>12
<1>6. TypeOK'
    BY <1>1, <1>2, <1>5 DEF TypeOK, Validated
<1> QED BY <1>1, <1>5, <1>6

LEMMA GatewayInitially == Init => GatewayInv
<1> SUFFICES ASSUME Init PROVE GatewayInv
    OBVIOUS
<1>1. LimiterInv
    BY LimiterInitially DEF Init
<1>2. TypeOK
    BY GatewayAssumption DEF Init, TypeOK
<1>3. RequestInv
    BY DEF Init, RequestInv
<1> QED BY <1>1, <1>2, <1>3 DEF GatewayInv

LEMMA GatewayStep == GatewayInv /\ [Next]_vars => GatewayInv'
<1> SUFFICES ASSUME GatewayInv, [Next]_vars PROVE GatewayInv'
    OBVIOUS
<1>0. LimiterInv /\ TypeOK /\ RequestInv /\ LimiterType
    BY DEF GatewayInv, LimiterInv
<1>1. ASSUME Send \/ Wrap \/ KeyGate \/ Dispatch \/ Handle \/ Put \/ Look \/ Presign \/ Stream
               \/ Delete \/ Receive \/ OthersDelete
      PROVE  GatewayInv'
    <2>1. TypeOK' /\ RequestInv' /\ UNCHANGED limiterVars /\ settings' = settings
        BY <1>0, <1>1, RequestStep
    <2>2. LimiterInv'
        BY <1>0, <2>1, IdleLimiter
    <2> QED BY <2>1, <2>2 DEF GatewayInv
<1>2. ASSUME Limited PROVE GatewayInv'
    <2>1. req' \in RequestType /\ RequestInv'
        BY <1>0, <1>2, LimitedKeeps
    <2>2. TypeOK'
        BY <1>0, <1>2, <2>1 DEF TypeOK, Limited, Validated
    <2> QED BY <1>0, <1>2, <2>1, <2>2, LimitedKeepsLimiter DEF GatewayInv
<1>3. ASSUME Tick PROVE GatewayInv'
    <2>1. UNCHANGED <<settings, req, file>> /\ Expire
        BY <1>3 DEF Tick
    <2> QED BY <1>0, <1>3, <2>1, SameState, ExpireKeepsLimiter DEF GatewayInv
<1>4. ASSUME UNCHANGED vars PROVE GatewayInv'
    <2>1. UNCHANGED <<settings, req, file>> /\ UNCHANGED limiterVars
        BY <1>4 DEF vars, limiterVars
    <2> QED BY <1>0, <2>1, SameState, IdleLimiter DEF GatewayInv
<1> QED BY <1>1, <1>2, <1>3, <1>4 DEF Next, Process

\* In every reachable state counters, windows and history fit each other, and the
\* request has passed every stage before the one it is in.
THEOREM GatewayCorrect == Spec => []GatewayInv
BY GatewayInitially, GatewayStep, PTL DEF Spec

---------------------------------------------------------------------------
\* However the requests fall, and whatever the limits and the lengths of the
\* windows: no stretch of time as long as a window admits twice the limit.
THEOREM LimitHolds == Spec => []NearTwiceTheLimit
<1>1. GatewayInv => NearTwiceTheLimit
    BY NearTwice DEF GatewayInv
<1> QED BY <1>1, GatewayCorrect, PTL

\* No tier counts, or refuses, for longer than its period after the request that
\* opened the window, whatever is asked meanwhile.
THEOREM WindowsCorrect == Spec => []WindowsEnd
<1>1. GatewayInv => WindowsEnd
    BY WindowsClose DEF GatewayInv
<1> QED BY <1>1, GatewayCorrect, PTL

\* The history misses no admission, so that the limit is about all of them: each
\* adds exactly one request to it, and only time takes it away, once it is older
\* than every window.
HistoryKept ==
    \A i \in Identities :
        /\ Check(i) /\ Allowed(i) => Cardinality(admitted'[i]) = Cardinality(admitted[i]) + 1
        /\ \A x \in admitted[i] :
            \/ x \in admitted'[i]
            \/ Expire /\ <<x[1] + 1, x[2]>> \in admitted'[i]
            \/ Expire /\ \A t \in Tiers : x[1] + 1 >= Period[t]

THEOREM HistoryComplete == Spec => [][HistoryKept]_vars
<1>1. ASSUME GatewayInv, NEW i \in Identities, Check(i), Allowed(i)
      PROVE  Cardinality(admitted'[i]) = Cardinality(admitted[i]) + 1
    <2> DEFINE x == <<0, Cardinality(Since(i, 1)) + 1>>
    <2>0. LimiterType /\ Numbered
        BY <1>1 DEF GatewayInv, LimiterInv
    <2>1. x \notin admitted[i]
        BY <2>0, FreshNumber
    <2>2. admitted'[i] = admitted[i] \cup {x}
        BY <1>1, <2>0, CheckChanges DEF Admitted
    <2>3. IsFiniteSet(admitted[i])
        BY <2>0 DEF LimiterType
    <2> HIDE DEF x
    <2>4. Cardinality(admitted[i] \cup {x}) = Cardinality(admitted[i]) + 1
        BY <2>1, <2>3, FS_AddElement
    <2> QED BY <2>2, <2>4
<1>2. ASSUME GatewayInv, Expire, NEW i \in Identities, NEW x \in admitted[i]
      PROVE  <<x[1] + 1, x[2]>> \in admitted'[i] \/ \A t \in Tiers : x[1] + 1 >= Period[t]
    <2>1. x[1] \in Nat
        BY <1>2 DEF GatewayInv, LimiterInv, LimiterType
    <2>2. admitted'[i] = {<<y[1] + 1, y[2]>> : y \in {z \in admitted[i] : z[1] + 1 \in Ages}}
        BY <1>2 DEF Expire
    <2>3. ASSUME NEW t \in Tiers, x[1] + 1 < Period[t] PROVE x[1] + 1 \in Ages
        <3>1. x[1] + 1 \in 0..(Period[t] - 1)
            BY <2>1, <2>3, Constants
        <3> QED BY <3>1 DEF Ages
    <2>4. \A t \in Tiers : Period[t] \in Nat
        BY Constants
    <2> QED BY <2>1, <2>2, <2>3, <2>4
<1>3. ASSUME GatewayInv, [Next]_vars, ~Expire, NEW i \in Identities
      PROVE  admitted[i] \subseteq admitted'[i]
    <2>0. TypeOK /\ RequestInv /\ LimiterType
        BY <1>3 DEF GatewayInv, LimiterInv
    <2>1. ASSUME NEW j \in Identities, Check(j) PROVE admitted[i] \subseteq admitted'[i]
        BY <2>0, <2>1, CheckChanges
    <2>2. ASSUME Limited PROVE admitted[i] \subseteq admitted'[i]
        <3>1. Identity \in Identities
            BY IdentityType
        <3>2. UNCHANGED limiterVars \/ Check(Identity)
            BY <2>2 DEF Limited
        <3> QED BY <2>1, <3>1, <3>2 DEF limiterVars
    <2>3. CASE Send \/ Wrap \/ KeyGate \/ Dispatch \/ Handle \/ Put \/ Look \/ Presign \/ Stream
                 \/ Delete \/ Receive \/ OthersDelete
        BY <2>0, <2>3, RequestStep DEF limiterVars
    <2>4. CASE UNCHANGED vars
        BY <2>4 DEF vars, limiterVars
    <2> QED BY <1>3, <2>2, <2>3, <2>4 DEF Next, Process, Tick
<1>4. GatewayInv /\ [Next]_vars => HistoryKept
    <2> SUFFICES ASSUME GatewayInv, [Next]_vars, NEW i \in Identities
                 PROVE  /\ Check(i) /\ Allowed(i) => Cardinality(admitted'[i]) = Cardinality(admitted[i]) + 1
                        /\ \A x \in admitted[i] :
                            \/ x \in admitted'[i]
                            \/ Expire /\ <<x[1] + 1, x[2]>> \in admitted'[i]
                            \/ Expire /\ \A t \in Tiers : x[1] + 1 >= Period[t]
        BY DEF HistoryKept
    <2>1. Check(i) /\ Allowed(i) => Cardinality(admitted'[i]) = Cardinality(admitted[i]) + 1
        BY <1>1
    <2>2. CASE Expire
        BY <1>2, <2>1, <2>2
    <2>3. CASE ~Expire
        BY <1>3, <2>1, <2>3
    <2> QED BY <2>2, <2>3
<1> QED BY <1>4, GatewayCorrect, PTL DEF Spec

\* For every accepted set of settings: the handlers that ask for a user (GET and
\* DELETE of one) are reached with a valid access token or the trusted key, the
\* deletion by an administrator where there are roles, and with the gate on
\* nothing that is not exempt gets as far as the limiter without that key.
THEOREM AccessCorrect == Spec => []AccessIsEarned
<1>1. GatewayInv => AccessIsEarned
    <2> SUFFICES ASSUME GatewayInv PROVE AccessIsEarned
        OBVIOUS
    <2>0. TypeOK /\ RequestInv
        BY DEF GatewayInv
    <2>1. ASSUME req # Idle, InHandler, NeedsUser(req.route)
          PROVE  \/ settings.jwt /\ Presented \in {"user", "admin", "closed"}
                 \/ settings.gate /\ req.key = "right"
        <3>1. Principal # "nobody" /\ PassedGate
            BY <2>0, <2>1 DEF RequestInv, Passed, InHandler, Authenticated
        <3>2. settings.jwt \/ settings.gate
            BY <2>0 DEF TypeOK, Validated
        <3>3. CASE settings.jwt
            BY <3>1, <3>3 DEF Principal
        <3>4. CASE ~settings.jwt
            BY <2>1, <3>1, <3>2, <3>4 DEF PassedGate, Exempt, NeedsUser
        <3> QED BY <3>3, <3>4
    <2>2. ASSUME req # Idle, InHandler, req.route = "delete_user", settings.jwt
          PROVE  Presented = "admin"
        <3>1. Principal = "admin"
            BY <2>0, <2>2 DEF RequestInv, Passed, RoleAllowed
        <3> QED BY <2>2, <3>1 DEF Principal
    <2>3. ASSUME req # Idle, settings.gate, ~Exempt(req.route), At("limit") \/ InHandler
          PROVE  req.key = "right"
        <3>1. PassedGate
            BY <2>0, <2>3 DEF RequestInv, Passed, InHandler, At
        <3> QED BY <2>3, <3>1 DEF PassedGate
    <2> QED BY <2>1, <2>2, <2>3 DEF AccessIsEarned
<1> QED BY <1>1, GatewayCorrect, PTL

\* Every answer carries the request's id and the security headers, but a 500 for
\* an exception that nobody handles, which carries neither.
THEOREM TraceCorrect == Spec => []TracedUnlessUnhandled
<1>1. GatewayInv => TracedUnlessUnhandled
    BY DEF GatewayInv, RequestInv, Traced, TracedUnlessUnhandled
<1> QED BY <1>1, GatewayCorrect, PTL

\* What an answer says about a file was so at some moment of the request, however
\* many replicas delete files meanwhile.
THEOREM FilesCorrect == Spec => []FileAnswersHeld
<1>1. GatewayInv => FileAnswersHeld
    BY DEF GatewayInv, RequestInv, Witnessed, TrueOfFile, FileAnswersHeld
<1> QED BY <1>1, GatewayCorrect, PTL

\* What a client can show, by what it has sent.
LEMMA Showing ==
    ASSUME TypeOK, req \in RequestType
    PROVE  /\ "ApiKeyAuth" \in Supplied <=> req.key = "right"
           /\ "HTTPBearer" \in Supplied <=>
                req.place = "header" /\ req.token \in {"user", "admin", "closed"}
BY DEF Supplied

\* The document, resolved: the token where a user is needed and JWT is on, the
\* key where the gate is on and the route is not a probe, and both together.
LEMMA Resolved ==
    ASSUME TypeOK, req \in RequestType, req.route \in Routes \ {"docs", "docs_like", "unknown"}
    PROVE  Documented <=>
             /\ NeedsUser(req.route) /\ settings.jwt => "HTTPBearer" \in Supplied
             /\ settings.gate /\ ~Exempt(req.route) => "ApiKeyAuth" \in Supplied
<1> DEFINE r == req.route
<1>1. Exempt(r) <=> r \in {"live", "ready"}
    BY DEF Exempt
<1>2. NeedsUser(r) => ~Exempt(r)
    BY DEF NeedsUser, Exempt
<1>3. StripJwt(Declared(r)) = IF NeedsUser(r) /\ settings.jwt THEN {{"HTTPBearer"}} ELSE {}
    <2>1. CASE ~NeedsUser(r)
        BY <2>1 DEF StripJwt, Declared
    <2>2. CASE NeedsUser(r) /\ settings.jwt
        BY <2>2 DEF StripJwt, Declared
    <2>3. CASE NeedsUser(r) /\ ~settings.jwt
        <3>1. Declared(r) = {{"HTTPBearer"}}
            BY <2>3 DEF Declared
        <3>2. {a \ {"HTTPBearer"} : a \in {{"HTTPBearer"}}} \ {{}} = {}
            OBVIOUS
        <3> QED BY <2>3, <3>1, <3>2 DEF StripJwt
    <2> QED BY <2>1, <2>2, <2>3
<1> DEFINE tok == NeedsUser(r) /\ settings.jwt  key == settings.gate /\ ~Exempt(r)
<1>4. CASE ~tok /\ ~key
    <2>1. Schema(r) = {}
        BY <1>1, <1>3, <1>4 DEF Schema, ApplyGate
    <2> QED BY <1>4, <2>1 DEF Documented
<1>5. CASE tok /\ ~key
    <2>1. Schema(r) = {{"HTTPBearer"}}
        BY <1>1, <1>2, <1>3, <1>5 DEF Schema, ApplyGate
    <2>2. \A a : a \in {{"HTTPBearer"}} <=> a = {"HTTPBearer"}
        OBVIOUS
    <2>3. Documented <=> {"HTTPBearer"} \subseteq Supplied
        BY <2>1, <2>2, Zenon DEF Documented
    <2> QED BY <1>5, <2>3
<1>6. CASE ~tok /\ key
    <2>1. Schema(r) = {{"ApiKeyAuth"}}
        BY <1>1, <1>3, <1>6 DEF Schema, ApplyGate
    <2>2. \A a : a \in {{"ApiKeyAuth"}} <=> a = {"ApiKeyAuth"}
        OBVIOUS
    <2>3. Documented <=> {"ApiKeyAuth"} \subseteq Supplied
        BY <2>1, <2>2, Zenon DEF Documented
    <2> QED BY <1>6, <2>3
<1>7. CASE tok /\ key
    <2>1. {a \cup {"ApiKeyAuth"} : a \in {{"HTTPBearer"}}} = {{"HTTPBearer", "ApiKeyAuth"}}
        OBVIOUS
    <2>2. {{"HTTPBearer"}} # {}
        OBVIOUS
    <2>3. Schema(r) = {{"HTTPBearer", "ApiKeyAuth"}}
        BY <1>1, <1>3, <1>7, <2>1, <2>2 DEF Schema, ApplyGate
    <2>4. \A a : a \in {{"HTTPBearer", "ApiKeyAuth"}} <=> a = {"HTTPBearer", "ApiKeyAuth"}
        OBVIOUS
    <2>5. Documented <=> {"HTTPBearer", "ApiKeyAuth"} \subseteq Supplied
        BY <2>3, <2>4, Zenon DEF Documented
    <2> QED BY <1>7, <2>5
<1> QED BY <1>4, <1>5, <1>6, <1>7

\* What the OpenAPI document requires is what is enforced, for every accepted
\* combination of JWT and API key and every route.
THEOREM SchemaCorrect == Spec => []SchemaIsEnforced
<1>1. GatewayInv => SchemaIsEnforced
    <2> SUFFICES ASSUME GatewayInv, req # Idle, settings.transport = "header",
                        req.route \in Routes \ {"docs", "docs_like", "unknown"}
                 PROVE  /\ InHandler => Documented
                        /\ Answered /\ req.status = 401 =>
                             \/ ~Documented
                             \/ req.route = "login" /\ "cors" \in req.marks
                             \/ settings.checkSession /\ req.token = "closed"
        BY DEF SchemaIsEnforced
    <2>0. TypeOK /\ req \in RequestType /\ Passed /\ Refused
        BY DEF GatewayInv, RequestInv, TypeOK
    <2>1. Documented <=>
            /\ NeedsUser(req.route) /\ settings.jwt => "HTTPBearer" \in Supplied
            /\ settings.gate /\ ~Exempt(req.route) => "ApiKeyAuth" \in Supplied
        BY <2>0, Resolved
    <2>2. /\ "ApiKeyAuth" \in Supplied <=> req.key = "right"
          /\ "HTTPBearer" \in Supplied <=>
                req.place = "header" /\ req.token \in {"user", "admin", "closed"}
        BY <2>0, Showing
    <2>3. /\ settings.jwt /\ Principal # "nobody" => "HTTPBearer" \in Supplied
          /\ Principal = "nobody" /\ "HTTPBearer" \in Supplied =>
               settings.checkSession /\ req.token = "closed"
        BY <2>2 DEF Principal, Presented
    <2>4. ASSUME InHandler PROVE Documented
        <3>1. PassedGate /\ Authenticated
            BY <2>0, <2>4 DEF Passed, InHandler
        <3> QED BY <2>1, <2>2, <2>3, <3>1 DEF PassedGate, Authenticated
    <2>5. ASSUME Answered, req.status = 401
          PROVE  \/ ~Documented
                 \/ req.route = "login" /\ "cors" \in req.marks
                 \/ settings.checkSession /\ req.token = "closed"
        <3>1. ~Guarded(req.route)
            BY DEF Guarded
        <3>2. CASE settings.gate /\ ~Exempt(req.route) /\ req.key # "right"
            BY <2>1, <2>2, <3>2
        <3>3. CASE NeedsUser(req.route) /\ Principal = "nobody"
            <4>1. settings.jwt
                BY <3>3 DEF Principal
            <4> QED BY <2>1, <2>3, <3>3, <4>1
        <3> QED BY <2>0, <2>5, <3>1, <3>2, <3>3 DEF Refused
    <2> QED BY <2>4, <2>5
<1> QED BY <1>1, GatewayCorrect, PTL
===========================================================================
