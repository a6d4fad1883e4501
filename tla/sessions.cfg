CONSTANTS
    Users = {u1, u2}
    Sids = {s1, s2}
    Requests = {p1, p2}
    NoUser = NoUser
    NoSid = NoSid
    ValidateSession = FALSE
    KeysExpire = TRUE
    MaxCalls = 3
SPECIFICATION FairSpec
INVARIANTS TypeOK RecordsAgree ValidTokenDelivered
PROPERTIES ImplementsLifecycle OnlyOwnerCloses CondemnedSessionDies
CHECK_DEADLOCK FALSE
