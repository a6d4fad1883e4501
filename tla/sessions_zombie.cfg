CONSTANTS
    Users = {u1}
    Sids = {s1}
    Requests = {p1, p2}
    NoUser = NoUser
    NoSid = NoSid
    ValidateSession = TRUE
    KeysExpire = FALSE
    MaxCalls = 4
SPECIFICATION Spec
INVARIANT ClosedSessionDeniesAccess
CHECK_DEADLOCK FALSE
