\* Two nodes that may both win once one has crashed, two callers that ask either.
SPECIFICATION FairSpec
CONSTANTS
    a = a
    b = b
    n1 = n1
    n2 = n2
    Nil = Nil
    Caller = {a, b}
    Node = {n1, n2}
    MaxTerm = 1
    MaxRequests = 2
    MaxCrashes = 1
INVARIANTS
    TypeOK
    ServersHaveWon
    BeliefsAreBacked
    OneWinnerExcludes
PROPERTIES
    TablesComeToRest
CHECK_DEADLOCK FALSE
