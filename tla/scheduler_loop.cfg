CONSTANTS
    e1 = e1
    e2 = e2
    e3 = e3
    Workers = {w1}
    NoWorker = NoWorker
    Overruns = FALSE
    RedisErrors = TRUE
    MaxFaults = 1
    Events = {e1, e2, e3}
    Stamp <- MCStamp
    Poison = {}
    BatchSize = 2
SPECIFICATION Spec
INVARIANT LoopSurvives
CHECK_DEADLOCK FALSE
