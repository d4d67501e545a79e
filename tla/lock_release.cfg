\* A release takes the locks of other callers away.
SPECIFICATION Spec
CONSTANTS
    a = a
    b = b
    c = c
    r = r
    Caller = {a, b, c}
    Remote = {c}
    Resource = {r}
    MaxRequests = 3
    MaxStops = 0
SYMMETRY LockSymmetry
INVARIANTS
    SingleHolder
CHECK_DEADLOCK FALSE
