\* Two votes of three elect, and replicate_command asks nobody.
SPECIFICATION Spec
CONSTANTS
    n1 = n1
    n2 = n2
    n3 = n3
    x = x
    Nil = Nil
    Node = {n1, n2, n3}
    Command = {x}
    OwnAddress = "absent"
    Posted = {"vote_response"}
    MaxTerm = 2
    MaxElections = 2
    MaxLog = 1
    MaxStops = 0
    MaxRestarts = 0
SYMMETRY NodeSymmetry
INVARIANTS
    LogsAgree
CHECK_DEADLOCK FALSE
