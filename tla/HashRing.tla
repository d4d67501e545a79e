------------------------------ MODULE HashRing ------------------------------
(***************************************************************************)
(* The ConsistentHash of src/nodes/queue_node.py, one ring per process.    *)
(* The queue's start() builds a ring from the configured list of nodes; no *)
(* other code calls add_node(), remove_node() or get_node().               *)
(*                                                                         *)
(* MD5 is any function: the initial states choose one, collisions          *)
(* included, and it never changes.                                         *)
(***************************************************************************)
EXTENDS Naturals, FiniteSets

CONSTANTS
    Process,      \* the processes, each with a ring of its own
    Node,         \* node addresses
    Key,          \* the keys whose node is asked for
    NoNode,       \* the answer None
    VirtualNodes, \* virtual_nodes
    MaxPosition   \* the largest hash value

ASSUME NoNodeAssumption == NoNode \notin Node
ASSUME RingAssumption == VirtualNodes \in Nat \ {0} /\ MaxPosition \in Nat

VARIABLES
    pointHash,  \* the hash of each virtual node
    keyHash,    \* the hash of each key
    ring,       \* ring of each process: a node for some positions
    members     \* history: the nodes added to the ring and not removed since

vars == <<pointHash, keyHash, ring, members>>
-----------------------------------------------------------------------------
Position == 0 .. MaxPosition
Points(n) == {pointHash[n][i] : i \in 0 .. VirtualNodes - 1}
PointsOf(S) == UNION {Points(n) : n \in S}

\* Mutant: a new node takes every position from its point on.
AddedFrom(r, n) ==
    [h \in DOMAIN r \cup Points(n) |-> IF \E g \in Points(n) : g <= h THEN n ELSE r[h]]

\* A later node takes a position over from an earlier one with the same hash.
Added(r, n) == [h \in DOMAIN r \cup Points(n) |-> IF h \in Points(n) THEN n ELSE r[h]]

\* Mutant: a removed node keeps its last point.
AllButLast(r, n) ==
    [h \in {g \in DOMAIN r : r[g] # n \/ \A f \in DOMAIN r : r[f] = n => f <= g} |-> r[h]]

Without(r, n) == [h \in {g \in DOMAIN r : r[g] # n} |-> r[h]]

Least(S) == CHOOSE h \in S : \A g \in S : h <= g

\* Mutant: the node is found by a remainder, as without consistent hashing.
ByRemainder(S, x) == CHOOSE h \in S : Cardinality({g \in S : g < h}) = x % Cardinality(S)

\* The first position from x on, or the first of all.
Nearest(S, x) ==
    LET after == {h \in S : x <= h} IN Least(IF after # {} THEN after ELSE S)

GetNode(r, k) == IF DOMAIN r = {} THEN NoNode ELSE r[Nearest(DOMAIN r, keyHash[k])]
-----------------------------------------------------------------------------
Init ==
    /\ pointHash \in [Node -> [0 .. VirtualNodes - 1 -> Position]]
    /\ keyHash \in [Key -> Position]
    /\ ring = [p \in Process |-> [h \in {} |-> NoNode]]
    /\ members = [p \in Process |-> {}]

\* A ring is built from a list of nodes in some order: a position that several of
\* them hash to has the last of them.
Build(p, S) ==
    /\ \E r \in [PointsOf(S) -> S] :
          /\ \A h \in PointsOf(S) : h \in Points(r[h])
          /\ ring' = [ring EXCEPT ![p] = r]
    /\ members' = [members EXCEPT ![p] = S]
    /\ UNCHANGED <<pointHash, keyHash>>

AddNode(p, n) ==
    /\ ring' = [ring EXCEPT ![p] = Added(@, n)]
    /\ members' = [members EXCEPT ![p] = @ \cup {n}]
    /\ UNCHANGED <<pointHash, keyHash>>

RemoveNode(p, n) ==
    /\ ring' = [ring EXCEPT ![p] = Without(@, n)]
    /\ members' = [members EXCEPT ![p] = @ \ {n}]
    /\ UNCHANGED <<pointHash, keyHash>>

Next ==
    \E p \in Process :
        \/ \E S \in SUBSET Node : Build(p, S)
        \/ \E n \in Node : AddNode(p, n) \/ RemoveNode(p, n)

Spec == Init /\ [][Next]_vars
-----------------------------------------------------------------------------
\* Every position of a ring is a point of the node that it names, and that node is
\* a member, collisions or not.
TypeOK ==
    /\ pointHash \in [Node -> [0 .. VirtualNodes - 1 -> Position]]
    /\ keyHash \in [Key -> Position]
    /\ members \in [Process -> SUBSET Node]
    /\ \A p \in Process :
          /\ ring[p] = [h \in DOMAIN ring[p] |-> ring[p][h]]
          /\ DOMAIN ring[p] \subseteq Position
          /\ \A h \in DOMAIN ring[p] : ring[p][h] \in members[p] /\ h \in Points(ring[p][h])

NoCollision == \A m, n \in Node : m # n => Points(m) \cap Points(n) = {}

\* Without collisions two processes that know the same nodes send a key to the same
\* one of them, in whatever order they learnt of them, and only an empty ring has no
\* answer.
RoutesAgree ==
    NoCollision =>
        \A p, q \in Process, k \in Key :
            /\ members[p] = members[q] => GetNode(ring[p], k) = GetNode(ring[q], k)
            /\ members[p] # {} => GetNode(ring[p], k) \in members[p]

\* "Consistent hashing minimize data movement" (architecture.md:286): a key moves to a
\* node that is added or away from one that is removed, and never between two others.
MovesAreMinimal ==
    [][\A p \in Process, n \in Node, k \in Key :
          /\ AddNode(p, n) => GetNode(ring'[p], k) \in {GetNode(ring[p], k), n}
          /\ RemoveNode(p, n) => GetNode(ring[p], k) \in {GetNode(ring'[p], k), n}]_vars
=============================================================================
