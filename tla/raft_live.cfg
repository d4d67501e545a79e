\* Two nodes that stop and start, replicate and append; answers are delivered.
SPECIFICATION FairSpec
CONSTANTS
    n1 = n1
    n2 = n2
    x = x
    Nil = Nil
    Node = {n1, n2}
    Command = {x}
    OwnAddress = "absent"
    Posted = {"vote_response", "append_entries"}
    MaxTerm = 2
    MaxElections = 4
    MaxLog = 1
    MaxStops = 2
    MaxRestarts = 0
INVARIANTS
    TypeOK
    ElectionInv
PROPERTIES
    ElectionCompletes
    LeaderIsKnown
CHECK_DEADLOCK FALSE
