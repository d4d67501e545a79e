\* Two rings of up to three nodes, every hash function on five positions.
SPECIFICATION Spec
CONSTANTS
    p = p
    q = q
    a = a
    b = b
    c = c
    k = k
    none = none
    Process = {p, q}
    Node = {a, b, c}
    Key = {k}
    NoNode = none
    VirtualNodes = 1
    MaxPosition = 4
INVARIANTS
    TypeOK
    RoutesAgree
PROPERTIES
    MovesAreMinimal
