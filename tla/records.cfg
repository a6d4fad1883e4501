CONSTANTS
    Requests = {r1, r2, r3}
    Old = old
    Emails = {e0, e1}
    OldEmail = e0
    PoolSize = 2
    PerPage = 1
SPECIFICATION FairSpec
INVARIANTS OneWinnerPerEmail ConnectionsReturned WalkMissesFew
PROPERTIES EveryRequestAnswered
CHECK_DEADLOCK FALSE
