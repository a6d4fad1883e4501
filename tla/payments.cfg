CONSTANTS
    a1 = a1
    k1 = k1
    k2 = k2
    k3 = k3
    Keys = {k1, k2, k3}
    Accounts = {a1}
    Op <- MCOp
    Attempts = {p1, p2, p3}
    NoAttempt = NoAttempt
    NoKey = NoKey
    MaxBalance = 5
    Expiring = {k3}
    Faults = {"save_lost", "release_lost", "crash"}
SPECIFICATION FairSpec
INVARIANTS TypeOK BalanceIsSumOfTransactions ExecutedAtMostOnce AnswerIsTruthful StoredMeansExecuted
PROPERTIES ImplementsLedger MarkerResolves
CHECK_DEADLOCK FALSE
