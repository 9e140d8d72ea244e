CONSTANTS
    c1 = c1
    c2 = c2
    Callers <- MCCallers
    Interval = 3
    Burst = 1
    Grain = 2
    Requests = 2
    MaxTime = 9
SYMMETRY Symmetry
CHECK_DEADLOCK FALSE
SPECIFICATION Spec
INVARIANTS
    RateBound
    ServedInTime
PROPERTY RefusesOnlyExcess
