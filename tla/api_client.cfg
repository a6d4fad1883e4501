CONSTANTS
    Calls = {c1, c2}
    Attempts = 2
    MaxExpiries = 2
SPECIFICATION FairSpec
INVARIANTS ReplayUsesNewerToken OneLoginPerDrop SentAtMostOnce AnswersMatchEffects
PROPERTIES EveryCallEnds
CHECK_DEADLOCK FALSE
