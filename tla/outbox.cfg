CONSTANTS
    e1 = e1
    e2 = e2
    e3 = e3
    Workers = {w1, w2}
    NoWorker = NoWorker
    Overruns = FALSE
    RedisErrors = TRUE
    MaxFaults = 3
    Events = {e1, e2, e3}
    Stamp <- MCStamp
    Poison = {e1}
    BatchSize = 2
SPECIFICATION FairSpec
INVARIANTS SingleInstance RepeatsNeedFaults
PROPERTIES ImplementsDelivery EventsArePublished LockComesBack
CHECK_DEADLOCK FALSE
