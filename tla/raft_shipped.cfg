\* The repository alone: answers to vote requests are dropped.
SPECIFICATION FairSpec
CONSTANTS
    n1 = n1
    n2 = n2
    n3 = n3
    x = x
    y = y
    Nil = Nil
    Node = {n1, n2, n3}
    Command = {x, y}
    OwnAddress = "matched"
    Posted = {}
    MaxTerm = 1
    MaxElections = 3
    MaxLog = 0
    MaxStops = 0
    MaxRestarts = 0
PROPERTIES
    ElectionCompletes
CHECK_DEADLOCK FALSE
