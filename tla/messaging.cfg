CONSTANTS
    Web = {w1, w2}
    Groups = {"notifications"}
    MaxMessages = 2
    MaxBreaks = 2
    MaxStops = 1
    MaxEvents = 1
SPECIFICATION FairSpec
INVARIANTS RepeatsNeedBreaks LossesAreInFlight NothingLeftOpen
PROPERTIES EveryGroupHandles
CHECK_DEADLOCK FALSE
