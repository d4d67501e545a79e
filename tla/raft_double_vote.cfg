\* A crash forgets a vote that was counted.
SPECIFICATION CrashSpec
CONSTANTS
    n1 = n1
    n2 = n2
    n3 = n3
    x = x
    y = y
    Nil = Nil
    Node = {n1, n2, n3}
    Command = {x, y}
    OwnAddress = "absent"
    Posted = {"vote_response"}
    MaxTerm = 1
    MaxElections = 3
    MaxLog = 0
    MaxStops = 0
    MaxRestarts = 1
SYMMETRY NodeSymmetry
INVARIANTS
    ElectionSafety
CHECK_DEADLOCK FALSE
