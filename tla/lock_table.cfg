\* A local caller and a remote one, one resource; callers may stop asking.
SPECIFICATION FairSpec
CONSTANTS
    a = a
    c = c
    r = r
    Caller = {a, c}
    Remote = {c}
    Resource = {r}
    MaxRequests = 4
    MaxStops = 1
INVARIANTS
    TypeOK
    LockInv
    ServedIsTheLoop
PROPERTIES
    TableComesToRest
CHECK_DEADLOCK FALSE
