CONSTANTS
    Calls = {c1, c2}
    Attempts = 1
    MaxExpiries = 1
SPECIFICATION Spec
INVARIANTS RefusedIsReplayed
CHECK_DEADLOCK FALSE
