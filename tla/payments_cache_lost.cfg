CONSTANTS
    a1 = a1
    k1 = k1
    k2 = k2
    k3 = k3
    Keys = {k1, k2, k3}
    Accounts = {a1}
    Op <- MCOp
    Attempts = {p1, p2}
    NoAttempt = NoAttempt
    NoKey = NoKey
    MaxBalance = 5
    Expiring = {}
    Faults = {"cache_lost"}
SPECIFICATION Spec
INVARIANT ExecutedAtMostOnce
CHECK_DEADLOCK FALSE
