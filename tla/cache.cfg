SPECIFICATION FairSpec
CONSTANTS
    n1 = n1
    n2 = n2
    n3 = n3
    k = k
    l = l
    Node = {n1, n2, n3}
    Key = {k, l}
    MaxSize = 1
    SelfSends = FALSE
    MaxCalls = 2
    MaxFaults = 1
    MaxCrashes = 1
    MaxExpiries = 1
INVARIANTS
    TypeOK
    CoherentWhenQuiet
PROPERTIES
    ComesToRest
CHECK_DEADLOCK FALSE
