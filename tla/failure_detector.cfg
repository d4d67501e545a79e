\* Two nodes of the cluster and an address outside it, the limit that BaseNode sets.
SPECIFICATION FairSpec
CONSTANTS
    a = a
    b = b
    x = x
    Address = {a, b, x}
    Cluster = {a, b}
    MaxMissed = 3
    MaxBeats = 2
    MaxUnregisters = 1
    MaxStops = 1
INVARIANTS
    TypeOK
    SetsAgree
PROPERTIES
    NoFalseAlarm
    SuspectedFirst
    SilentAreFailed
CHECK_DEADLOCK FALSE
