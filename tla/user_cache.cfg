CONSTANTS
    Requests = {p1, p2, p3}
    MaxCalls = 5
SPECIFICATION Spec
SYMMETRY Symmetry
INVARIANTS MutationsInvalidate OneUpdatePerVersion
CHECK_DEADLOCK FALSE
