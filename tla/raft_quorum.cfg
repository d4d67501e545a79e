\* Peers-only lists: two votes of three are a majority.
SPECIFICATION Spec
CONSTANTS
    n1 = n1
    n2 = n2
    n3 = n3
    x = x
    Nil = Nil
    Node = {n1, n2, n3}
    Command = {x}
    OwnAddress = "absent"
    Posted = {"vote_response"}
    MaxTerm = 2
    MaxElections = 3
    MaxLog = 0
    MaxStops = 0
    MaxRestarts = 0
SYMMETRY NodeSymmetry
INVARIANTS
    ElectionSafety
    MajorityWins
PROPERTIES
    NobodyElseDeposes
    RefinesLeadership
CHECK_DEADLOCK FALSE
