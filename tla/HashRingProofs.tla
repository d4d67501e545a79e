--------------------------- MODULE HashRingProofs ---------------------------
(***************************************************************************)
(* Proofs about the hash ring, for every hash function, any nodes, any     *)
(* number of virtual nodes and any order of additions and removals: keys   *)
(* move only to an added node or away from a removed one, and two rings    *)
(* with the same members answer alike if nothing collides.                 *)
(***************************************************************************)
EXTENDS HashRing, FiniteSetTheorems, WellFoundedInduction, TLAPS

\* Every set of positions has a least one: a smaller position has a smaller interval
\* below it, and finite sets cannot shrink for ever.
LEMMA LeastIsLeast ==
    ASSUME NEW S \in SUBSET Nat, S # {}
    PROVE  Least(S) \in S /\ \A g \in S : Least(S) <= g
<1> DEFINE below == {0 .. h : h \in S}
<1>1. below \subseteq FiniteSubsetsOf(Nat) /\ below # {}
  <2>1. ASSUME NEW h \in S
        PROVE  0 .. h \in FiniteSubsetsOf(Nat)
    <3>1. h \in Int /\ 0 .. h \subseteq Nat
      OBVIOUS
    <3>2. IsFiniteSet(0 .. h)
      BY <3>1, FS_Interval
    <3> QED BY <3>1, <3>2 DEF FiniteSubsetsOf
  <2> QED BY <2>1
<1>2. PICK b \in below : \A c \in below : <<c, b>> \notin StrictSubsetOrdering(Nat)
  <2> HIDE DEF below
  <2> QED BY <1>1, FS_StrictSubsetOrderingWellFounded, WFMin
<1>3. PICK h \in S : b = 0 .. h
  OBVIOUS
<1>4. ASSUME NEW g \in S, g < h
      PROVE  FALSE
  <2>1. 0 .. g \subseteq 0 .. h /\ h \in 0 .. h /\ h \notin 0 .. g /\ 0 .. h \subseteq Nat
    BY <1>4
  <2>2. <<0 .. g, 0 .. h>> \in StrictSubsetOrdering(Nat)
    <3>1. 0 .. g \subseteq Nat /\ 0 .. g # 0 .. h
      BY <2>1
    <3> QED BY <2>1, <3>1 DEF StrictSubsetOrdering
  <2> QED BY <1>2, <1>3, <2>2
<1>5. \A g \in S : h <= g
  BY <1>4
<1> QED BY <1>5 DEF Least

\* The position that answers a key is the first one from its hash on, or else the first.
LEMMA NearestIsFirst ==
    ASSUME NEW S \in SUBSET Nat, S # {}, NEW x \in Nat
    PROVE  /\ Nearest(S, x) \in S
           /\ (\E h \in S : x <= h) =>
                 x <= Nearest(S, x) /\ \A g \in S : x <= g => Nearest(S, x) <= g
           /\ (~\E h \in S : x <= h) => \A g \in S : Nearest(S, x) <= g
<1> DEFINE after == {h \in S : x <= h}
<1>1. CASE after # {}
  <2>1. after \in SUBSET Nat /\ Nearest(S, x) = Least(after)
    BY <1>1 DEF Nearest
  <2>2. Least(after) \in after /\ \A g \in after : Least(after) <= g
    BY <1>1, <2>1, LeastIsLeast
  <2> QED BY <1>1, <2>1, <2>2
<1>2. CASE after = {}
  <2>1. Nearest(S, x) = Least(S)
    BY <1>2 DEF Nearest
  <2> QED BY <1>2, <2>1, LeastIsLeast
<1> QED BY <1>1, <1>2

\* A position that answers a key among many answers it among fewer.
LEMMA NearestAmongFewer ==
    ASSUME NEW T \in SUBSET Nat, NEW S \in SUBSET T, NEW x \in Nat, T # {}, Nearest(T, x) \in S
    PROVE  Nearest(S, x) = Nearest(T, x)
<1> DEFINE m == Nearest(T, x)
           l == Nearest(S, x)
<1>1. m \in S /\ S # {} /\ m \in Nat
  OBVIOUS
<1>2. l \in S /\ l \in Nat
  BY <1>1, NearestIsFirst
<1>3. CASE \E h \in T : x <= h
  <2>1. x <= m /\ \A g \in T : x <= g => m <= g
    BY <1>1, <1>3, NearestIsFirst
  <2>2. x <= l /\ \A g \in S : x <= g => l <= g
    BY <1>1, <2>1, NearestIsFirst
  <2>3. m <= l /\ l <= m
    BY <1>1, <1>2, <2>1, <2>2
  <2> QED BY <1>1, <1>2, <2>3
<1>4. CASE ~\E h \in T : x <= h
  <2>1. \A g \in T : m <= g
    BY <1>1, <1>4, NearestIsFirst
  <2>2. \A g \in S : l <= g
    BY <1>1, <1>4, NearestIsFirst
  <2>3. m <= l /\ l <= m
    BY <1>1, <1>2, <2>1, <2>2
  <2> QED BY <1>1, <1>2, <2>3
<1> QED BY <1>3, <1>4
-----------------------------------------------------------------------------
LEMMA PointsArePositions ==
    ASSUME TypeOK, NEW n \in Node
    PROVE  Points(n) \subseteq Position /\ Points(n) # {}
<1>1. 0 \in 0 .. VirtualNodes - 1
  BY RingAssumption
<1>2. pointHash[n] \in [0 .. VirtualNodes - 1 -> Position]
  BY DEF TypeOK
<1>3. pointHash[n][0] \in Points(n)
  BY <1>1 DEF Points
<1>4. \A i \in 0 .. VirtualNodes - 1 : pointHash[n][i] \in Position
  BY <1>2
<1>5. Points(n) \subseteq Position
  BY <1>4 DEF Points
<1> QED BY <1>3, <1>5 DEF Points

\* What the operations do to one ring.
RingOf(r, S) ==
    /\ r = [h \in DOMAIN r |-> r[h]]
    /\ DOMAIN r \subseteq Position
    /\ \A h \in DOMAIN r : r[h] \in S /\ h \in Points(r[h])

Full(r, S) == NoCollision => DOMAIN r = PointsOf(S)

LEMMA AddedRing ==
    ASSUME TypeOK, NEW r, NEW S \in SUBSET Node, NEW n \in Node, RingOf(r, S)
    PROVE  RingOf(Added(r, n), S \cup {n}) /\ (Full(r, S) => Full(Added(r, n), S \cup {n}))
<1>1. /\ DOMAIN Added(r, n) = DOMAIN r \cup Points(n)
      /\ \A h \in DOMAIN r \cup Points(n) : Added(r, n)[h] = IF h \in Points(n) THEN n ELSE r[h]
      /\ Added(r, n) = [h \in DOMAIN Added(r, n) |-> Added(r, n)[h]]
  BY DEF Added
<1>2. RingOf(Added(r, n), S \cup {n})
  BY <1>1, PointsArePositions DEF RingOf
<1>3. PointsOf(S \cup {n}) = PointsOf(S) \cup Points(n)
  BY DEF PointsOf
<1> QED BY <1>1, <1>2, <1>3 DEF Full

LEMMA WithoutRing ==
    ASSUME TypeOK, NEW r, NEW S \in SUBSET Node, NEW n \in Node, RingOf(r, S)
    PROVE  RingOf(Without(r, n), S \ {n}) /\ (Full(r, S) => Full(Without(r, n), S \ {n}))
<1>1. /\ DOMAIN Without(r, n) = {h \in DOMAIN r : r[h] # n}
      /\ \A h \in DOMAIN Without(r, n) : Without(r, n)[h] = r[h]
      /\ Without(r, n) = [h \in DOMAIN Without(r, n) |-> Without(r, n)[h]]
  BY DEF Without
<1>2. RingOf(Without(r, n), S \ {n})
  BY <1>1 DEF RingOf
<1>3. ASSUME Full(r, S), NoCollision
      PROVE  DOMAIN Without(r, n) = PointsOf(S \ {n})
  <2>1. DOMAIN r = PointsOf(S)
    BY <1>3 DEF Full
  <2>2. \A m \in S, h \in DOMAIN r : h \in Points(m) => r[h] = m
    BY <1>3 DEF RingOf, NoCollision
  <2>3. \A h : h \in PointsOf(S) <=> \E m \in S : h \in Points(m)
    BY DEF PointsOf
  <2>4. \A h : h \in PointsOf(S \ {n}) <=> \E m \in S \ {n} : h \in Points(m)
    BY DEF PointsOf
  <2>5. \A h \in DOMAIN r : r[h] \in S /\ h \in Points(r[h])
    BY DEF RingOf
  <2>6. ASSUME NEW h \in DOMAIN Without(r, n)
        PROVE  h \in PointsOf(S \ {n})
    BY <1>1, <2>4, <2>5
  <2>7. ASSUME NEW h \in PointsOf(S \ {n})
        PROVE  h \in DOMAIN Without(r, n)
    BY <1>1, <2>1, <2>2, <2>3, <2>4
  <2> QED BY <2>6, <2>7
<1> QED BY <1>2, <1>3 DEF Full

LEMMA BuiltRing ==
    ASSUME TypeOK, NEW S \in SUBSET Node, NEW r \in [PointsOf(S) -> S], \A h \in PointsOf(S) : h \in Points(r[h])
    PROVE  RingOf(r, S) /\ Full(r, S)
<1>1. PointsOf(S) \subseteq Position
  BY PointsArePositions DEF PointsOf
<1> QED BY <1>1 DEF RingOf, Full
-----------------------------------------------------------------------------
RingInv ==
    /\ TypeOK
    /\ ring = [p \in Process |-> ring[p]]
    /\ \A p \in Process : Full(ring[p], members[p])

LEMMA InitRing == Init => RingInv
<1> SUFFICES ASSUME Init PROVE RingInv
  OBVIOUS
<1>1. \A p \in Process : ring[p] = [h \in {} |-> NoNode] /\ DOMAIN ring[p] = {} /\ members[p] = {}
  BY DEF Init
<1>2. TypeOK
  BY <1>1 DEF Init, TypeOK
<1>3. \A p \in Process : Full(ring[p], members[p])
  BY <1>1 DEF Full, PointsOf
<1> QED BY <1>2, <1>3 DEF Init, RingInv

\* A step that gives one process a new ring and new members.
LEMMA OneRingChanges ==
    ASSUME RingInv, NEW p \in Process, NEW r, NEW S \in SUBSET Node, RingOf(r, S), Full(r, S),
           ring' = [ring EXCEPT ![p] = r], members' = [members EXCEPT ![p] = S],
           UNCHANGED <<pointHash, keyHash>>
    PROVE  RingInv'
<1>1. \A n : Points(n)' = Points(n)
  BY DEF Points
<1>2. /\ ring'[p] = r /\ members'[p] = S
      /\ \A q \in Process \ {p} : ring'[q] = ring[q] /\ members'[q] = members[q]
      /\ ring' = [q \in Process |-> ring'[q]] /\ members' \in [Process -> SUBSET Node]
  BY DEF RingInv, TypeOK
<1>3. TypeOK'
  <2>1. ASSUME NEW q \in Process
        PROVE  RingOf(ring[q], members[q])'
    <3>1. CASE q = p
      BY <1>1, <1>2, <3>1 DEF RingOf, Position
    <3>2. CASE q # p
      <4>1. RingOf(ring[q], members[q])
        BY DEF RingInv, TypeOK, RingOf
      <4> QED BY <1>1, <1>2, <3>2, <4>1 DEF RingOf, Position
    <3> QED BY <3>1, <3>2
  <2>2. /\ pointHash' \in [Node -> [0 .. VirtualNodes - 1 -> Position]]
        /\ keyHash' \in [Key -> Position]
    BY DEF RingInv, TypeOK
  <2> QED BY <1>2, <2>1, <2>2 DEF TypeOK, RingOf, Position
<1>4. NoCollision' = NoCollision /\ \A q \in Process : PointsOf(members[q])' = PointsOf(members'[q])
  BY <1>1 DEF NoCollision, PointsOf
<1>5. \A q \in Process : Full(ring[q], members[q])'
  BY <1>2, <1>4 DEF RingInv, Full
<1> QED BY <1>2, <1>3, <1>5 DEF RingInv

LEMMA MembersRing ==
    ASSUME RingInv, NEW p \in Process
    PROVE  RingOf(ring[p], members[p]) /\ Full(ring[p], members[p]) /\ members[p] \in SUBSET Node
BY DEF RingInv, TypeOK, RingOf

LEMMA NextRing == RingInv /\ [Next]_vars => RingInv'
<1> SUFFICES ASSUME RingInv, [Next]_vars PROVE RingInv'
  OBVIOUS
<1>1. ASSUME NEW p \in Process, NEW S \in SUBSET Node, Build(p, S)
      PROVE  RingInv'
  <2>1. PICK r \in [PointsOf(S) -> S] :
           (\A h \in PointsOf(S) : h \in Points(r[h])) /\ ring' = [ring EXCEPT ![p] = r]
    BY <1>1 DEF Build
  <2>2. RingOf(r, S) /\ Full(r, S)
    BY <2>1, BuiltRing DEF RingInv
  <2> QED BY <1>1, <2>1, <2>2, OneRingChanges DEF Build
<1>2. ASSUME NEW p \in Process, NEW n \in Node, AddNode(p, n)
      PROVE  RingInv'
  <2>1. RingOf(Added(ring[p], n), members[p] \cup {n}) /\ Full(Added(ring[p], n), members[p] \cup {n})
    BY MembersRing, AddedRing DEF RingInv
  <2>2. members[p] \cup {n} \in SUBSET Node
    BY MembersRing
  <2> QED BY <1>2, <2>1, <2>2, OneRingChanges DEF AddNode
<1>3. ASSUME NEW p \in Process, NEW n \in Node, RemoveNode(p, n)
      PROVE  RingInv'
  <2>1. RingOf(Without(ring[p], n), members[p] \ {n}) /\ Full(Without(ring[p], n), members[p] \ {n})
    BY MembersRing, WithoutRing DEF RingInv
  <2>2. members[p] \ {n} \in SUBSET Node
    BY MembersRing
  <2> QED BY <1>3, <2>1, <2>2, OneRingChanges DEF RemoveNode
<1>4. CASE UNCHANGED vars
  <2>1. \A n : Points(n)' = Points(n)
    BY <1>4 DEF vars, Points
  <2>2. NoCollision' = NoCollision /\ \A p \in Process : PointsOf(members[p])' = PointsOf(members[p])
    BY <1>4, <2>1 DEF vars, NoCollision, PointsOf
  <2>3. TypeOK'
    BY <1>4, <2>1 DEF vars, RingInv, TypeOK
  <2> QED BY <1>4, <2>2, <2>3 DEF vars, RingInv, Full
<1> QED BY <1>1, <1>2, <1>3, <1>4 DEF Next

LEMMA RingInvariant == Spec => []RingInv
BY InitRing, NextRing, PTL DEF Spec

\* Every position of a ring names a member that hashes to it.
THEOREM RingTypeCorrect == Spec => []TypeOK
<1>1. RingInv => TypeOK
  BY DEF RingInv
<1> QED BY RingInvariant, <1>1, PTL
-----------------------------------------------------------------------------
LEMMA KeyHashed == TypeOK => \A k \in Key : keyHash[k] \in Nat
BY DEF TypeOK, Position

\* Without collisions the ring is a function of its members.
LEMMA RoutesFollowMembers == RingInv => RoutesAgree
<1> SUFFICES ASSUME RingInv, NoCollision, NEW p \in Process, NEW q \in Process, NEW k \in Key
             PROVE  /\ members[p] = members[q] => GetNode(ring[p], k) = GetNode(ring[q], k)
                    /\ members[p] # {} => GetNode(ring[p], k) \in members[p]
  BY DEF RoutesAgree
<1>1. ASSUME members[p] = members[q]
      PROVE  ring[p] = ring[q]
  <2>1. DOMAIN ring[p] = DOMAIN ring[q]
    BY <1>1, MembersRing DEF Full
  <2>2. ASSUME NEW h \in DOMAIN ring[p]
        PROVE  ring[p][h] = ring[q][h]
    <3>1. ring[p][h] \in Node /\ h \in Points(ring[p][h])
      BY MembersRing DEF RingOf
    <3>2. ring[q][h] \in Node /\ h \in Points(ring[q][h])
      BY <2>1, MembersRing DEF RingOf
    <3> QED BY <3>1, <3>2 DEF NoCollision
  <2>3. ring[p] = [h \in DOMAIN ring[p] |-> ring[p][h]] /\ ring[q] = [h \in DOMAIN ring[q] |-> ring[q][h]]
    BY MembersRing DEF RingOf
  <2> QED BY <2>1, <2>2, <2>3
<1>2. ASSUME members[p] # {}
      PROVE  GetNode(ring[p], k) \in members[p]
  <2>1. PICK n \in members[p] : n \in Node
    BY <1>2, MembersRing
  <2>2. DOMAIN ring[p] = PointsOf(members[p]) /\ Points(n) # {}
    BY <2>1, MembersRing, PointsArePositions DEF Full, RingInv
  <2>3. DOMAIN ring[p] # {} /\ DOMAIN ring[p] \in SUBSET Nat
    <3>1. Points(n) \subseteq DOMAIN ring[p]
      BY <2>1, <2>2 DEF PointsOf
    <3>2. DOMAIN ring[p] \subseteq Position
      BY MembersRing DEF RingOf
    <3> QED BY <2>2, <3>1, <3>2 DEF Position
  <2>4. Nearest(DOMAIN ring[p], keyHash[k]) \in DOMAIN ring[p]
    BY <2>3, KeyHashed, NearestIsFirst DEF RingInv
  <2> QED BY <2>3, <2>4, MembersRing DEF GetNode, RingOf
<1> QED BY <1>1, <1>2

\* Two rings with the same members send every key to the same one of them, if no two
\* nodes have virtual nodes that hash alike.
THEOREM RoutesAlwaysAgree == Spec => []RoutesAgree
BY RingInvariant, RoutesFollowMembers, PTL

LEMMA AddMovesToNode ==
    ASSUME RingInv, NEW p \in Process, NEW n \in Node, NEW k \in Key, AddNode(p, n)
    PROVE  GetNode(ring[p], k)' \in {GetNode(ring[p], k), n}
<1> DEFINE r == ring[p]
           x == keyHash[k]
           T == DOMAIN r \cup Points(n)
<1>1. ring'[p] = Added(r, n) /\ keyHash' = keyHash
  BY DEF AddNode, RingInv
<1>2. /\ DOMAIN Added(r, n) = T
      /\ \A h \in T : Added(r, n)[h] = IF h \in Points(n) THEN n ELSE r[h]
  BY DEF Added
<1>3. T \in SUBSET Nat /\ T # {} /\ x \in Nat
  BY MembersRing, PointsArePositions, KeyHashed DEF RingInv, RingOf, Position
<1>4. GetNode(ring[p], k)' = Added(r, n)[Nearest(T, x)]
  BY <1>1, <1>2, <1>3 DEF GetNode
<1>5. Nearest(T, x) \in T
  BY <1>3, NearestIsFirst
<1>6. CASE Nearest(T, x) \in Points(n)
  BY <1>2, <1>4, <1>5, <1>6
<1>7. CASE Nearest(T, x) \notin Points(n)
  <2>1. Nearest(T, x) \in DOMAIN r /\ Nearest(DOMAIN r, x) = Nearest(T, x)
    BY <1>3, <1>5, <1>7, NearestAmongFewer
  <2>2. GetNode(r, k) = r[Nearest(T, x)]
    BY <2>1 DEF GetNode
  <2> QED BY <1>2, <1>4, <1>5, <1>7, <2>2
<1> QED BY <1>6, <1>7

LEMMA RemoveMovesFromNode ==
    ASSUME RingInv, NEW p \in Process, NEW n \in Node, NEW k \in Key, RemoveNode(p, n)
    PROVE  GetNode(ring[p], k) \in {GetNode(ring[p], k)', n}
<1> DEFINE r == ring[p]
           x == keyHash[k]
           S == {h \in DOMAIN r : r[h] # n}
<1>1. ring'[p] = Without(r, n) /\ keyHash' = keyHash
  BY DEF RemoveNode, RingInv
<1>2. DOMAIN Without(r, n) = S /\ \A h \in S : Without(r, n)[h] = r[h]
  BY DEF Without
<1>3. DOMAIN r \in SUBSET Nat /\ x \in Nat
  BY MembersRing, KeyHashed DEF RingInv, RingOf, Position
<1>4. CASE DOMAIN r = {}
  BY <1>1, <1>2, <1>4 DEF GetNode
<1>5. CASE DOMAIN r # {}
  <2>1. GetNode(r, k) = r[Nearest(DOMAIN r, x)] /\ Nearest(DOMAIN r, x) \in DOMAIN r
    BY <1>3, <1>5, NearestIsFirst DEF GetNode
  <2>2. CASE r[Nearest(DOMAIN r, x)] = n
    BY <2>1, <2>2
  <2>3. CASE r[Nearest(DOMAIN r, x)] # n
    <3>1. Nearest(DOMAIN r, x) \in S /\ Nearest(S, x) = Nearest(DOMAIN r, x)
      BY <1>3, <1>5, <2>1, <2>3, NearestAmongFewer
    <3>2. GetNode(ring[p], k)' = Without(r, n)[Nearest(S, x)]
      BY <1>1, <1>2, <3>1 DEF GetNode
    <3> QED BY <1>2, <2>1, <3>1, <3>2
  <2> QED BY <2>2, <2>3
<1> QED BY <1>4, <1>5

\* A key moves to an added node or away from a removed one, and never between two others.
THEOREM MovesAlwaysMinimal == Spec => MovesAreMinimal
<1>1. ASSUME RingInv, [Next]_vars
      PROVE  [\A p \in Process, n \in Node, k \in Key :
                /\ AddNode(p, n) => GetNode(ring'[p], k) \in {GetNode(ring[p], k), n}
                /\ RemoveNode(p, n) => GetNode(ring[p], k) \in {GetNode(ring'[p], k), n}]_vars
  <2> SUFFICES ASSUME NEW p \in Process, NEW n \in Node, NEW k \in Key
               PROVE  /\ AddNode(p, n) => GetNode(ring'[p], k) \in {GetNode(ring[p], k), n}
                      /\ RemoveNode(p, n) => GetNode(ring[p], k) \in {GetNode(ring'[p], k), n}
    OBVIOUS
  <2>1. ASSUME AddNode(p, n) \/ RemoveNode(p, n)
        PROVE  GetNode(ring'[p], k) = GetNode(ring[p], k)'
    BY <2>1 DEF AddNode, RemoveNode, GetNode
  <2> QED BY <2>1, <1>1, AddMovesToNode, RemoveMovesFromNode
<1> QED BY RingInvariant, <1>1, PTL DEF Spec, MovesAreMinimal
=============================================================================
