------------------------- MODULE LockClusterProofs -------------------------
(***************************************************************************)
(* For every set of nodes and callers, and however the elections go: only  *)
(* winners of an election hold tables that are not empty, callers that     *)
(* hold locks have them in one of these, and as long as there is one       *)
(* winner they exclude each other.  Calls travel by hints, so the hints,   *)
(* the messages and the answers in flight carry the invariant.             *)
(***************************************************************************)
EXTENDS LockCluster, LockTableProofs

USE NilAssumption, ClusterBoundAssumption

Message == LockRequest \cup LockRelease \cup LockAnswer

\* Hints and leaders are of nodes that have won, and calls are sent to such nodes only.
ChannelsReachWinners ==
    /\ \A n \in Node : leads[n] # 0 => HasWon(n)
    /\ \A n \in Node : hint[n] # Nil => HasWon(hint[n])
    /\ \A m \in net : m.kind \in {"request", "release"} => HasWon(m.to)
    /\ \A m \in net : m.kind = "answer" /\ m.granted => HasWon(m.from)
    /\ \A b \in believed : HasWon(b.server)

\* An answer on its way says of a lock what its caller will believe.
AnswersAreBacked ==
    \A m \in net : m.kind = "answer" /\ m.granted /\ m.entry.id \notin ended =>
        Grant(m.entry) \in locks[m.from]

TablesExclude == \A n \in Node : Compatible(locks[n])

\* The inductive invariant.
ClusterInv ==
    /\ ChannelsReachWinners
    /\ ServersHaveWon
    /\ AnswersAreBacked /\ BeliefsAreBacked
    /\ TablesExclude
-----------------------------------------------------------------------------
LEMMA ServedType ==
    ASSUME NEW q \in SUBSET Request
    PROVE  /\ Served({}, q) \in SUBSET q /\ Served({}, q) \in SUBSET Request
           /\ Grants(Served({}, q)) \in SUBSET Lock
           /\ Grants({}) = {}
<1>1. Served({}, q) \in SUBSET q
  BY ServedFromFree
<1>2. QED
  BY <1>1, GrantsType DEF Grants

LEMMA MessageKinds ==
    ASSUME NEW m \in Message
    PROVE  /\ m.kind \in {"request", "release", "answer"}
           /\ m.kind = "request" => m.to \in Node /\ m.entry \in Request
           /\ m.kind = "release" => m.to \in Node
           /\ m.kind = "answer" => m.from \in Node /\ m.entry \in Request /\ m.granted \in BOOLEAN
BY DEF Message, LockRequest, LockRelease, LockAnswer

\* What Freed and Cleanup make of one table.
LEMMA FreedType ==
    ASSUME TypeOK, NEW n \in Node, Freed(n)
    PROVE  /\ locks' \in [Node -> SUBSET Lock] /\ queue' \in [Node -> SUBSET Request]
           /\ ended' \in SUBSET Nat
<1> DEFINE S == IF locks[n] = {} THEN {} ELSE Served({}, queue[n])
<1>1. /\ locks' = [locks EXCEPT ![n] = Grants(S)]
      /\ queue' = [queue EXCEPT ![n] = queue[n] \ S]
      /\ ended' = ended \cup {l.id : l \in locks[n]}
  BY DEF Freed
<1>2. queue[n] \in SUBSET Request /\ locks[n] \in SUBSET Lock
  BY DEF TypeOK
<1>3. Grants(S) \in SUBSET Lock
  BY <1>2, ServedType
<1>4. {l.id : l \in locks[n]} \in SUBSET Nat
  BY <1>2 DEF Lock
<1> HIDE DEF S
<1>5. QED
  BY <1>1, <1>2, <1>3, <1>4 DEF TypeOK

LEMMA CrashType ==
    ASSUME TypeOK, NEW n \in Node, Crash(n)
    PROVE  TypeOK'
<1>1. /\ locks' \in [Node -> SUBSET Lock] /\ queue' \in [Node -> SUBSET Request]
      /\ leads' \in [Node -> Nat] /\ hint' \in [Node -> Node \cup {Nil}]
  BY DEF TypeOK, Crash
<1>2. ended' \in SUBSET Nat
  <2>1. {l.id : l \in locks[n]} \in SUBSET Nat
    BY DEF TypeOK, Lock
  <2>2. QED
    BY <2>1 DEF TypeOK, Crash
<1>3. crashes' \in 0 .. MaxCrashes
  BY DEF TypeOK, Crash
<1>4. QED
  BY <1>1, <1>2, <1>3 DEF TypeOK, Crash, callers

LEMMA InitClusterTypeOK == Init => TypeOK
<1> SUFFICES ASSUME Init
             PROVE  TypeOK
  OBVIOUS
<1>1. won \in SUBSET Victory /\ leads \in [Node -> Nat] /\ hint \in [Node -> Node \cup {Nil}]
  BY DEF Init, L!Init
<1>2. locks \in [Node -> SUBSET Lock] /\ queue \in [Node -> SUBSET Request]
  BY DEF Init
<1>3. asked \in [Caller -> Nat \cup {Nil}]
  BY DEF Init
<1>4. QED
  BY <1>1, <1>2, <1>3 DEF Init, TypeOK

LEMMA EntryType ==
    ASSUME TypeOK, NEW c \in Caller, NEW t \in LockType
    PROVE  Entry(c, t) \in Request /\ Entry(c, t).type = t /\ Entry(c, t).id = requests
BY DEF TypeOK, Entry, Request

LEMMA GrantedType ==
    ASSUME TypeOK, NEW n \in Node, NEW e \in Request, Granted(n, e) \/ Refused(n)
    PROVE  locks' \in [Node -> SUBSET Lock]
<1>1. locks[n] \in SUBSET Lock /\ Valid(locks[n]) \in SUBSET Lock /\ Grant(e) \in Lock
  <2>1. locks[n] \in SUBSET Lock
    BY DEF TypeOK
  <2>2. QED
    BY <2>1, ValidType, GrantType
<1>2. CASE Granted(n, e)
  BY <1>1, <1>2 DEF Granted, TypeOK
<1>3. CASE Refused(n)
  BY <1>1, <1>3 DEF Refused, TypeOK
<1>4. QED
  BY <1>2, <1>3

LEMMA StepClusterTypeOK == TypeOK /\ [Next]_vars => TypeOK'
<1> SUFFICES ASSUME TypeOK, [Next]_vars
             PROVE  TypeOK'
  OBVIOUS
<1> USE DEF TypeOK, leadership, tables, callers
<1>1. ASSUME NEW n \in Node, Win(n)
      PROVE  TypeOK'
  <2>1. PICK t \in 1 .. MaxTerm : won' = won \cup {[term |-> t, node |-> n]}
    BY <1>1 DEF Win
  <2>2. [term |-> t, node |-> n] \in Victory
    BY DEF Victory
  <2>3. won' \in SUBSET Victory
    BY <2>1, <2>2
  <2>4. QED
    BY <1>1, <2>3 DEF Win
<1>2. ASSUME NEW n \in Node, Lead(n)
      PROVE  TypeOK'
  <2>1. PICK w \in won : leads' = [leads EXCEPT ![n] = w.term] /\ won' = won
    BY <1>2 DEF Lead, L!Lead
  <2>2. leads' \in [Node -> Nat]
    BY <2>1 DEF Victory
  <2>3. hint' \in [Node -> Node \cup {Nil}]
    BY <1>2 DEF Lead
  <2>4. QED
    BY <1>2, <2>1, <2>2, <2>3 DEF Lead
<1>3. ASSUME NEW n \in Node, Resign(n)
      PROVE  TypeOK'
  <2>1. leads' \in [Node -> Nat]
    BY <1>3 DEF Resign, L!Resign
  <2>2. QED
    BY <1>3, <2>1 DEF Resign
<1>4. ASSUME NEW n \in Node, Hear(n)
      PROVE  TypeOK'
  <2>1. PICK w \in won : hint' = [hint EXCEPT ![n] = w.node]
    BY <1>4 DEF Hear
  <2>2. hint' \in [Node -> Node \cup {Nil}]
    BY <2>1 DEF Victory
  <2>3. leads' \in [Node -> Nat]
    BY <1>4 DEF Hear
  <2>4. QED
    BY <1>4, <2>2, <2>3 DEF Hear
<1>5. ASSUME NEW c \in Caller, NEW n \in Node, NEW t \in LockType, AcquireLocal(c, n, t)
      PROVE  TypeOK'
  <2>1. Entry(c, t) \in Request
    BY EntryType
  <2>2. locks' \in [Node -> SUBSET Lock]
    BY <1>5, <2>1, GrantedType DEF AcquireLocal
  <2>3. queue' \in [Node -> SUBSET Request]
    <3>1. queue' = queue \/ queue' = [queue EXCEPT ![n] = queue[n] \cup {Entry(c, t)}]
      BY <1>5 DEF AcquireLocal
    <3>2. QED
      BY <2>1, <3>1
  <2>4. believed' \in SUBSET [entry : Request, server : Node]
    <3>1. Belief(Entry(c, t), n) \in [entry : Request, server : Node]
      BY <2>1 DEF Belief
    <3>2. QED
      BY <1>5, <3>1 DEF AcquireLocal
  <2>5. requests' \in Nat
    BY <1>5 DEF AcquireLocal, AcquireCall
  <2>6. QED
    BY <1>5, <2>2, <2>3, <2>4, <2>5 DEF AcquireLocal
<1>6. ASSUME NEW c \in Caller, NEW n \in Node, NEW t \in LockType, AcquireForward(c, n, t)
      PROVE  TypeOK'
  <2>1. Entry(c, t) \in Request
    BY EntryType
  <2>2. PICK s \in Node : net' = net \cup {[kind |-> "request", to |-> s, entry |-> Entry(c, t)]}
    BY <1>6 DEF AcquireForward
  <2>3. [kind |-> "request", to |-> s, entry |-> Entry(c, t)] \in LockRequest
    BY <2>1 DEF LockRequest
  <2>4. net' \in SUBSET (LockRequest \cup LockRelease \cup LockAnswer)
    BY <2>2, <2>3
  <2>5. asked' \in [Caller -> Nat \cup {Nil}]
    BY <1>6 DEF AcquireForward
  <2>6. requests' \in Nat
    BY <1>6 DEF AcquireForward, AcquireCall
  <2>7. QED
    BY <1>6, <2>4, <2>5, <2>6 DEF AcquireForward
<1>7. ASSUME NEW s \in Node, HandleLockRequest(s)
      PROVE  TypeOK'
  <2>1. PICK m \in net : HandleLockRequest(s)!(m)
    BY <1>7 DEF HandleLockRequest
  <2>2. m \in Message /\ m.entry \in Request
    BY <2>1, MessageKinds DEF Message
  <2>3. locks' \in [Node -> SUBSET Lock]
    <3>1. Granted(s, m.entry) \/ Refused(s)
      BY <2>1
    <3>2. QED
      BY <2>2, <3>1, GrantedType
  <2>4. [kind |-> "answer", from |-> s, entry |-> m.entry,
         granted |-> CanGrant(locks[s], m.entry.type)] \in LockAnswer
    <3>1. CanGrant(locks[s], m.entry.type) \in BOOLEAN
      BY DEF CanGrant
    <3>2. QED
      BY <2>2, <3>1 DEF LockAnswer
  <2>5. net' \in SUBSET (LockRequest \cup LockRelease \cup LockAnswer)
    BY <2>1, <2>4
  <2>6. QED
    BY <2>1, <2>3, <2>5
<1>8. ASSUME NEW c \in Caller, Answered(c)
      PROVE  TypeOK'
  <2>1. PICK m \in net : Answered(c)!(m)
    BY <1>8 DEF Answered
  <2>2. m.entry \in Request /\ m.from \in Node
    BY <2>1, MessageKinds DEF Message
  <2>3. Belief(m.entry, m.from) \in [entry : Request, server : Node]
    BY <2>2 DEF Belief
  <2>4. believed' \in SUBSET [entry : Request, server : Node]
    BY <2>1, <2>3
  <2>5. asked' \in [Caller -> Nat \cup {Nil}]
    BY <2>1
  <2>6. net' \in SUBSET (LockRequest \cup LockRelease \cup LockAnswer)
    BY <2>1
  <2>7. QED
    BY <2>1, <2>4, <2>5, <2>6
<1>9. ASSUME NEW c \in Caller, AskFails(c)
      PROVE  TypeOK'
  <2>1. asked' \in [Caller -> Nat \cup {Nil}]
    BY <1>9 DEF AskFails
  <2>2. net' \subseteq net
    BY <1>9 DEF AskFails
  <2>3. QED
    BY <1>9, <2>1, <2>2 DEF AskFails
<1>10. ASSUME NEW c \in Caller, NEW n \in Node, ReleaseLocal(c, n)
       PROVE  TypeOK'
  <2>1. believed' \subseteq believed
    BY <1>10 DEF ReleaseLocal, ReleaseCall
  <2>2. QED
    BY <1>10, <2>1, FreedType DEF ReleaseLocal, ReleaseCall
<1>11. ASSUME NEW c \in Caller, NEW n \in Node, ReleaseForward(c, n)
       PROVE  TypeOK'
  <2>1. PICK s \in Node : net' = net \cup {[kind |-> "release", to |-> s]}
    BY <1>11 DEF ReleaseForward
  <2>2. [kind |-> "release", to |-> s] \in LockRelease
    BY DEF LockRelease
  <2>3. net' \in SUBSET (LockRequest \cup LockRelease \cup LockAnswer)
    BY <2>1, <2>2
  <2>4. believed' \subseteq believed
    BY <1>11 DEF ReleaseForward, ReleaseCall
  <2>5. QED
    BY <1>11, <2>3, <2>4 DEF ReleaseForward, ReleaseCall
<1>12. ASSUME NEW s \in Node, HandleLockRelease(s)
       PROVE  TypeOK'
  <2>1. net' \subseteq net /\ Freed(s)
    BY <1>12 DEF HandleLockRelease
  <2>2. QED
    BY <1>12, <2>1, FreedType DEF HandleLockRelease
<1>13. ASSUME NEW n \in Node, NEW i \in 0 .. MaxRequests, Expire(n, i)
       PROVE  TypeOK'
  <2>1. Lapse(locks[n], i) \in SUBSET Lock
    <3>1. locks[n] \in SUBSET Lock
      OBVIOUS
    <3>2. QED
      BY <3>1, LapseKeeps
  <2>2. locks' \in [Node -> SUBSET Lock]
    BY <1>13, <2>1 DEF Expire
  <2>3. ended' \in SUBSET Nat
    BY <1>13 DEF Expire
  <2>4. QED
    BY <1>13, <2>2, <2>3 DEF Expire
<1>14. ASSUME NEW n \in Node, Cleanup(n)
       PROVE  TypeOK'
  <2> DEFINE S == IF locks[n] # {} /\ Valid(locks[n]) = {} THEN Served({}, queue[n]) ELSE {}
  <2>1. /\ locks' = [locks EXCEPT ![n] = Valid(locks[n]) \cup Grants(S)]
        /\ queue' = [queue EXCEPT ![n] = queue[n] \ S]
    BY <1>14 DEF Cleanup
  <2>2. locks[n] \in SUBSET Lock /\ queue[n] \in SUBSET Request
    OBVIOUS
  <2>3. Valid(locks[n]) \cup Grants(S) \in SUBSET Lock
    BY <2>2, ServedType, ValidType
  <2> HIDE DEF S
  <2>4. locks' \in [Node -> SUBSET Lock] /\ queue' \in [Node -> SUBSET Request]
    BY <2>1, <2>2, <2>3
  <2>5. QED
    BY <1>14, <2>4 DEF Cleanup
<1>15. UNCHANGED vars => TypeOK'
  BY DEF vars
<1>16. ASSUME NEW n \in Node, Crash(n)
       PROVE  TypeOK'
  BY <1>16, CrashType
<1>17. QED
  BY <1>1, <1>2, <1>3, <1>4, <1>5, <1>6, <1>7, <1>8, <1>9, <1>10, <1>11, <1>12, <1>13, <1>14,
     <1>15, <1>16 DEF Next

\* The variables of the cluster keep their types.
THEOREM ClusterTypeCorrect == Spec => []TypeOK
BY InitClusterTypeOK, StepClusterTypeOK, PTL DEF Spec
-----------------------------------------------------------------------------
\* A step at the table of n: the other tables stay, the new one excludes, and a lock goes
\* only when it is ended.
TableKept(n) ==
    /\ \A k \in Node \ {n} : locks'[k] = locks[k] /\ queue'[k] = queue[k]
    /\ Compatible(locks'[n])
    /\ \A e \in Request : e.id \notin ended' /\ Grant(e) \in locks[n] => Grant(e) \in locks'[n]
    /\ ended \subseteq ended'

LEMMA NotExpired ==
    ASSUME NEW ls \in SUBSET Lock, NEW e \in Request, Grant(e) \in ls
    PROVE  Grant(e) \in Valid(ls)
BY DEF Grant, Valid

LEMMA GrantedKeeps ==
    ASSUME TypeOK, NEW n \in Node, NEW e \in Request, CanGrant(locks[n], e.type),
           Granted(n, e), queue' = queue, ended' = ended
    PROVE  TableKept(n) /\ Grant(e) \in locks'[n]
<1>1. locks[n] \in SUBSET Lock
  BY DEF TypeOK
<1>2. /\ locks'[n] = Valid(locks[n]) \cup {Grant(e)}
      /\ \A k \in Node \ {n} : locks'[k] = locks[k] /\ queue'[k] = queue[k]
  BY DEF TypeOK, Granted
<1>3. Compatible(locks'[n])
  BY <1>1, <1>2, GrantCompatible
<1>4. QED
  BY <1>1, <1>2, <1>3, NotExpired DEF TableKept

LEMMA RefusedKeeps ==
    ASSUME TypeOK, TablesExclude, NEW n \in Node, Refused(n), ended' = ended,
           \A k \in Node \ {n} : queue'[k] = queue[k]
    PROVE  TableKept(n)
<1>1. locks[n] \in SUBSET Lock /\ Valid(locks[n]) \subseteq locks[n] /\ Compatible(locks[n])
  <2>1. locks[n] \in SUBSET Lock
    BY DEF TypeOK
  <2>2. QED
    BY <2>1, ValidType DEF TablesExclude
<1>2. locks'[n] = Valid(locks[n]) /\ \A k \in Node \ {n} : locks'[k] = locks[k]
  BY DEF TypeOK, Refused
<1>3. Compatible(locks'[n])
  BY <1>1, <1>2 DEF Compatible
<1>4. QED
  BY <1>1, <1>2, <1>3, NotExpired DEF TableKept

LEMMA FreedKeeps ==
    ASSUME TypeOK, NEW n \in Node, Freed(n)
    PROVE  TableKept(n) /\ (locks'[n] # {} \/ queue'[n] # {} => locks[n] # {} \/ queue[n] # {})
<1> DEFINE S == IF locks[n] = {} THEN {} ELSE Served({}, queue[n])
<1>1. /\ locks' = [locks EXCEPT ![n] = Grants(S)]
      /\ queue' = [queue EXCEPT ![n] = queue[n] \ S]
      /\ ended' = ended \cup {l.id : l \in locks[n]}
  BY DEF Freed
<1>2. locks[n] \in SUBSET Lock /\ queue[n] \in SUBSET Request
  BY DEF TypeOK
<1>3. Compatible(Grants(S)) /\ S \subseteq queue[n] /\ (S = {} => Grants(S) = {})
  <2>1. Compatible(Grants({})) /\ Grants({}) = {}
    BY DEF Grants, Compatible
  <2>2. Compatible(Grants(Served({}, queue[n]))) /\ Served({}, queue[n]) \subseteq queue[n]
    BY <1>2, ServedCompatible, ServedType
  <2>3. QED
    BY <2>1, <2>2
<1> HIDE DEF S
<1>4. /\ \A k \in Node \ {n} : locks'[k] = locks[k] /\ queue'[k] = queue[k]
      /\ locks'[n] = Grants(S) /\ queue'[n] = queue[n] \ S
  BY <1>1 DEF TypeOK
<1>5. \A e \in Request : Grant(e) \in locks[n] => e.id \in ended'
  BY <1>1, GrantType
<1>6. QED
  BY <1>1, <1>3, <1>4, <1>5 DEF TableKept

\* A crash ends the locks it loses.
LEMMA CrashKeeps ==
    ASSUME TypeOK, NEW n \in Node, Crash(n)
    PROVE  TableKept(n) /\ locks'[n] = {} /\ queue'[n] = {}
<1>1. /\ locks'[n] = {} /\ queue'[n] = {} /\ ended' = ended \cup {l.id : l \in locks[n]}
      /\ \A k \in Node \ {n} : locks'[k] = locks[k] /\ queue'[k] = queue[k]
  BY DEF Crash, TypeOK
<1>2. \A e \in Request : Grant(e) \in locks[n] => e.id \in ended'
  BY <1>1, GrantType
<1>3. QED
  BY <1>1, <1>2 DEF TableKept, Compatible

LEMMA ExpireKeeps ==
    ASSUME TypeOK, TablesExclude, NEW n \in Node, NEW i \in 0 .. MaxRequests, Expire(n, i)
    PROVE  TableKept(n) /\ (locks'[n] # {} => locks[n] # {}) /\ queue' = queue
<1>1. locks[n] \in SUBSET Lock /\ Compatible(locks[n])
  BY DEF TypeOK, TablesExclude
<1>2. /\ locks'[n] = Lapse(locks[n], i) /\ queue' = queue /\ ended' = ended \cup {i}
      /\ \A k \in Node \ {n} : locks'[k] = locks[k]
  BY DEF Expire, TypeOK
<1>3. /\ Compatible(locks'[n]) /\ (locks'[n] # {} => locks[n] # {})
      /\ \A l \in locks[n] : l.id # i => l \in locks'[n]
  BY <1>1, <1>2, LapseKeeps
<1>4. \A e \in Request : e.id \notin ended' /\ Grant(e) \in locks[n] => Grant(e) \in locks'[n]
  BY <1>2, <1>3, GrantType
<1>5. QED
  BY <1>2, <1>3, <1>4 DEF TableKept

LEMMA CleanupKeeps ==
    ASSUME TypeOK, TablesExclude, NEW n \in Node, Cleanup(n)
    PROVE  TableKept(n) /\ (locks'[n] # {} \/ queue'[n] # {} => locks[n] # {} \/ queue[n] # {})
<1> DEFINE S == IF locks[n] # {} /\ Valid(locks[n]) = {} THEN Served({}, queue[n]) ELSE {}
<1>1. /\ locks' = [locks EXCEPT ![n] = Valid(locks[n]) \cup Grants(S)]
      /\ queue' = [queue EXCEPT ![n] = queue[n] \ S] /\ ended' = ended
  BY DEF Cleanup
<1>2. locks[n] \in SUBSET Lock /\ queue[n] \in SUBSET Request /\ Compatible(locks[n])
  BY DEF TypeOK, TablesExclude
<1>3. Compatible(Valid(locks[n]) \cup Grants(S))
  <2>1. CASE locks[n] # {} /\ Valid(locks[n]) = {}
    <3>1. Valid(locks[n]) \cup Grants(S) = Grants(Served({}, queue[n]))
      BY <2>1
    <3>2. QED
      BY <1>2, <3>1, ServedCompatible
  <2>2. CASE ~(locks[n] # {} /\ Valid(locks[n]) = {})
    <3>1. Valid(locks[n]) \cup Grants(S) = Valid(locks[n]) /\ Valid(locks[n]) \subseteq locks[n]
      BY <1>2, <2>2, ValidType DEF Grants
    <3>2. QED
      BY <1>2, <3>1 DEF Compatible
  <2>3. QED
    BY <2>1, <2>2
<1>4. S \subseteq queue[n]
  BY <1>2, ServedType
<1> HIDE DEF S
<1>5. /\ \A k \in Node \ {n} : locks'[k] = locks[k] /\ queue'[k] = queue[k]
      /\ locks'[n] = Valid(locks[n]) \cup Grants(S) /\ queue'[n] = queue[n] \ S
  BY <1>1 DEF TypeOK
<1>6. \A e \in Request : Grant(e) \in locks[n] => Grant(e) \in locks'[n]
  BY <1>2, <1>5, NotExpired
<1>7. Valid(locks[n]) \subseteq locks[n] /\ (S = {} => Grants(S) = {})
  BY <1>2, ValidType DEF Grants
<1>8. QED
  BY <1>1, <1>3, <1>4, <1>5, <1>6, <1>7 DEF TableKept

\* What every step does for the locks of all tables.
TablesKept ==
    /\ ended \subseteq ended'
    /\ \A n \in Node :
          /\ Compatible(locks'[n])
          /\ \A e \in Request : e.id \notin ended' /\ Grant(e) \in locks[n] => Grant(e) \in locks'[n]

LEMMA OneTable ==
    ASSUME TablesExclude, NEW n \in Node, TableKept(n)
    PROVE  TablesKept
BY DEF TablesExclude, TableKept, TablesKept

LEMMA NoTable ==
    ASSUME TablesExclude, UNCHANGED <<locks, ended>>
    PROVE  TablesKept
BY DEF TablesExclude, TablesKept

LEMMA StepTables ==
    ASSUME TypeOK, TablesExclude, [Next]_vars
    PROVE  TablesKept
<1> USE DEF leadership, tables, callers
<1>1. ASSUME NEW n \in Node, Win(n) \/ Lead(n) \/ Resign(n) \/ Hear(n)
      PROVE  TablesKept
  BY <1>1, NoTable DEF Win, Lead, Resign, Hear
<1>2. ASSUME NEW c \in Caller, NEW n \in Node, NEW t \in LockType, AcquireLocal(c, n, t)
      PROVE  TablesKept
  <2>1. Entry(c, t) \in Request /\ Entry(c, t).type = t
    BY EntryType
  <2>2. ended' = ended /\ \A k \in Node \ {n} : queue'[k] = queue[k]
    BY <1>2 DEF AcquireLocal, TypeOK
  <2>3. CASE CanGrant(locks[n], t)
    BY <1>2, <2>1, <2>2, <2>3, GrantedKeeps, OneTable DEF AcquireLocal
  <2>4. CASE ~CanGrant(locks[n], t)
    BY <1>2, <2>2, <2>4, RefusedKeeps, OneTable DEF AcquireLocal
  <2>5. QED
    BY <2>3, <2>4
<1>3. ASSUME NEW s \in Node, HandleLockRequest(s)
      PROVE  TablesKept
  <2>1. PICK m \in net : HandleLockRequest(s)!(m)
    BY <1>3 DEF HandleLockRequest
  <2>2. m.entry \in Request
    BY <2>1, MessageKinds DEF Message, TypeOK
  <2>3. CASE CanGrant(locks[s], m.entry.type)
    BY <2>1, <2>2, <2>3, GrantedKeeps, OneTable
  <2>4. CASE ~CanGrant(locks[s], m.entry.type)
    BY <2>1, <2>4, RefusedKeeps, OneTable
  <2>5. QED
    BY <2>3, <2>4
<1>4. ASSUME NEW c \in Caller, NEW n \in Node, NEW t \in LockType,
             AcquireForward(c, n, t)
      PROVE  TablesKept
  BY <1>4, NoTable DEF AcquireForward
<1>5. ASSUME NEW n \in Node, Freed(n)
      PROVE  TablesKept
  BY <1>5, FreedKeeps, OneTable
<1>6. ASSUME NEW n \in Node, NEW i \in 0 .. MaxRequests, Expire(n, i)
      PROVE  TablesKept
  BY <1>6, ExpireKeeps, OneTable
<1>7. ASSUME NEW n \in Node, Cleanup(n)
      PROVE  TablesKept
  BY <1>7, CleanupKeeps, OneTable
<1>8. UNCHANGED vars => TablesKept
  BY NoTable DEF vars
<1>9. ASSUME NEW c \in Caller, NEW n \in Node, ReleaseForward(c, n)
      PROVE  TablesKept
  BY <1>9, NoTable DEF ReleaseForward
<1>10. ASSUME NEW c \in Caller, Answered(c) \/ AskFails(c)
       PROVE  TablesKept
  BY <1>10, NoTable DEF Answered, AskFails
<1>11. ASSUME NEW n \in Node, Crash(n)
       PROVE  TablesKept
  BY <1>11, CrashKeeps, OneTable
<1>12. QED
  BY <1>1, <1>2, <1>3, <1>4, <1>5, <1>6, <1>7, <1>8, <1>9, <1>10, <1>11
     DEF Next, ReleaseLocal, HandleLockRelease

\* Answers and beliefs of a step come from the table it changed, or from an answer.
LEMMA StepBacked ==
    ASSUME TypeOK, ClusterInv, [Next]_vars
    PROVE  AnswersAreBacked' /\ BeliefsAreBacked'
<1> USE DEF leadership, tables, callers
<1> DEFINE Backed(e, n) == e.id \notin ended' => Grant(e) \in locks'[n]
<1>1. TablesKept
  BY StepTables DEF ClusterInv
<1>2. ASSUME NEW m \in net, m.kind = "answer", m.granted
      PROVE  Backed(m.entry, m.from)
  <2>1. m.entry \in Request /\ m.from \in Node
    BY <1>2, MessageKinds DEF Message, TypeOK
  <2>2. m.entry.id \notin ended => Grant(m.entry) \in locks[m.from]
    BY <1>2 DEF ClusterInv, AnswersAreBacked
  <2>3. QED
    BY <1>1, <2>1, <2>2 DEF TablesKept
<1>3. ASSUME NEW b \in believed
      PROVE  Backed(b.entry, b.server)
  <2>1. b.entry \in Request /\ b.server \in Node
    BY DEF TypeOK
  <2>2. b.entry.id \notin ended => Grant(b.entry) \in locks[b.server]
    BY DEF ClusterInv, BeliefsAreBacked
  <2>3. QED
    BY <1>1, <2>1, <2>2 DEF TablesKept
<1> DEFINE AnswersGood == \A m \in net' : m.kind = "answer" /\ m.granted => Backed(m.entry, m.from)
           BeliefsGood == \A b \in believed' : Backed(b.entry, b.server)
<1>4. SUFFICES AnswersGood /\ BeliefsGood
  BY DEF AnswersAreBacked, BeliefsAreBacked
<1> HIDE DEF Backed
<1>5. ASSUME net' \subseteq net, believed' \subseteq believed
      PROVE  AnswersGood /\ BeliefsGood
  BY <1>2, <1>3, <1>5
<1>6. ASSUME NEW c \in Caller, NEW n \in Node, NEW t \in LockType, AcquireLocal(c, n, t)
      PROVE  AnswersGood /\ BeliefsGood
  <2>1. AnswersGood
    BY <1>2, <1>6 DEF AcquireLocal
  <2>2. CASE CanGrant(locks[n], t)
    <3>1. Grant(Entry(c, t)) \in locks'[n]
      BY <1>6, <2>2, EntryType, GrantedKeeps DEF AcquireLocal
    <3>2. Backed(Entry(c, t), n)
      BY <3>1 DEF Backed
    <3>3. believed' = believed \cup {Belief(Entry(c, t), n)}
      BY <1>6, <2>2 DEF AcquireLocal
    <3>4. Belief(Entry(c, t), n).entry = Entry(c, t) /\ Belief(Entry(c, t), n).server = n
      BY DEF Belief
    <3>5. QED
      BY <1>3, <2>1, <3>2, <3>3, <3>4
  <2>3. CASE ~CanGrant(locks[n], t)
    BY <1>3, <1>6, <2>1, <2>3 DEF AcquireLocal
  <2>4. QED
    BY <2>2, <2>3
<1>7. ASSUME NEW c \in Caller, NEW n \in Node, NEW t \in LockType, AcquireForward(c, n, t)
      PROVE  AnswersGood /\ BeliefsGood
  <2>1. PICK s \in Node : net' = net \cup {[kind |-> "request", to |-> s, entry |-> Entry(c, t)]}
    BY <1>7 DEF AcquireForward
  <2>2. \A m \in net' : m.kind = "answer" => m \in net
    BY <2>1
  <2>3. QED
    BY <1>2, <1>3, <1>7, <2>2 DEF AcquireForward
<1>8. ASSUME NEW s \in Node, HandleLockRequest(s)
      PROVE  AnswersGood /\ BeliefsGood
  <2>1. PICK m \in net : HandleLockRequest(s)!(m)
    BY <1>8 DEF HandleLockRequest
  <2>2. m.entry \in Request
    BY <2>1, MessageKinds DEF Message, TypeOK
  <2> DEFINE a == [kind |-> "answer", from |-> s, entry |-> m.entry,
                   granted |-> CanGrant(locks[s], m.entry.type)]
  <2>3. \A k \in net' : k \in net \/ k = a
    BY <2>1
  <2>4. a.granted => Backed(a.entry, a.from)
    <3>1. a.granted => Grant(m.entry) \in locks'[s]
      BY <2>1, <2>2, GrantedKeeps
    <3>2. QED
      BY <3>1 DEF Backed
  <2> HIDE DEF a
  <2>5. QED
    BY <1>2, <1>3, <2>1, <2>3, <2>4
<1>9. ASSUME NEW c \in Caller, Answered(c)
      PROVE  AnswersGood /\ BeliefsGood
  <2>1. PICK m \in net : Answered(c)!(m)
    BY <1>9 DEF Answered
  <2>2. Belief(m.entry, m.from).entry = m.entry /\ Belief(m.entry, m.from).server = m.from
    BY DEF Belief
  <2>3. m.granted => Backed(m.entry, m.from)
    BY <1>2, <2>1
  <2>4. net' \subseteq net
    BY <2>1
  <2>5. \A b \in believed' : b \in believed \/ (m.granted /\ b = Belief(m.entry, m.from))
    BY <2>1
  <2>6. QED
    BY <1>2, <1>3, <2>2, <2>3, <2>4, <2>5
<1>10. ASSUME NEW c \in Caller, NEW n \in Node, ReleaseForward(c, n)
       PROVE  AnswersGood /\ BeliefsGood
  <2>1. PICK s \in Node : net' = net \cup {[kind |-> "release", to |-> s]}
    BY <1>10 DEF ReleaseForward
  <2>2. \A m \in net' : m.kind = "answer" => m \in net
    BY <2>1
  <2>3. believed' \subseteq believed
    BY <1>10 DEF ReleaseForward, ReleaseCall
  <2>4. QED
    BY <1>2, <1>3, <2>2, <2>3
<1>11. ASSUME NEW n \in Node,
              \/ Win(n) \/ Lead(n) \/ Resign(n) \/ Hear(n)
              \/ HandleLockRelease(n) \/ Cleanup(n) \/ Crash(n)
       PROVE  AnswersGood /\ BeliefsGood
  BY <1>5, <1>11 DEF Win, Lead, Resign, Hear, HandleLockRelease, Cleanup, Crash
<1>12. ASSUME NEW n \in Node, NEW i \in 0 .. MaxRequests, Expire(n, i)
       PROVE  AnswersGood /\ BeliefsGood
  BY <1>5, <1>12 DEF Expire
<1>13. ASSUME NEW c \in Caller, NEW n \in Node, ReleaseLocal(c, n)
       PROVE  AnswersGood /\ BeliefsGood
  BY <1>5, <1>13 DEF ReleaseLocal, ReleaseCall
<1>14. ASSUME NEW c \in Caller, AskFails(c)
       PROVE  AnswersGood /\ BeliefsGood
  BY <1>5, <1>14 DEF AskFails
<1>15. UNCHANGED vars => AnswersGood /\ BeliefsGood
  BY <1>5 DEF vars
<1>16. QED
  BY <1>6, <1>7, <1>8, <1>9, <1>10, <1>11, <1>12, <1>13, <1>14, <1>15 DEF Next
-----------------------------------------------------------------------------
LEMMA WonGrows ==
    ASSUME [Next]_vars
    PROVE  won \subseteq won' /\ \A n \in Node : HasWon(n) => HasWon(n)'
<1> USE DEF leadership
<1>1. won \subseteq won'
  <2>1. ASSUME NEW n \in Node, Win(n) \/ Lead(n) \/ Resign(n) \/ Hear(n)
        PROVE  won \subseteq won'
    BY <2>1 DEF Win, Lead, L!Lead, Resign, Hear
  <2>2. CASE \E n \in Node : Win(n) \/ Lead(n) \/ Resign(n) \/ Hear(n)
    BY <2>1, <2>2
  <2>3. CASE UNCHANGED won
    BY <2>3
  <2>4. QED
    BY <2>2, <2>3 DEF Next, vars, HandleLockRequest, HandleLockRelease, Cleanup, Crash, Expire,
       AcquireLocal, AcquireForward, ReleaseLocal, ReleaseForward, ReleaseCall, Answered, AskFails
<1>2. QED
  BY <1>1 DEF HasWon

LEMMA StepServers ==
    ASSUME TypeOK, ClusterInv, [Next]_vars
    PROVE  ServersHaveWon'
<1> USE DEF leadership, tables, callers
<1> DEFINE InUse(n) == locks[n] # {} \/ queue[n] # {}
<1> SUFFICES ASSUME NEW k \in Node, locks'[k] # {} \/ queue'[k] # {}, ~InUse(k)
             PROVE  HasWon(k)
  BY WonGrows DEF ClusterInv, ServersHaveWon
<1>1. ASSUME NEW n \in Node, Win(n) \/ Lead(n) \/ Resign(n) \/ Hear(n)
      PROVE  FALSE
  BY <1>1 DEF Win, Lead, Resign, Hear
<1>2. ASSUME NEW c \in Caller, NEW n \in Node, NEW t \in LockType, AcquireLocal(c, n, t)
      PROVE  HasWon(k)
  <2>1. leads[n] # 0
    BY <1>2 DEF AcquireLocal, ServesItself
  <2>2. k = n
    BY <1>2 DEF AcquireLocal, Granted, Refused, TypeOK
  <2>3. QED
    BY <2>1, <2>2 DEF ClusterInv, ChannelsReachWinners
<1>3. ASSUME NEW s \in Node, HandleLockRequest(s)
      PROVE  HasWon(k)
  <2>1. PICK m \in net : HandleLockRequest(s)!(m)
    BY <1>3 DEF HandleLockRequest
  <2>2. k = s
    BY <2>1 DEF Granted, Refused, TypeOK
  <2>3. QED
    BY <2>1, <2>2 DEF ClusterInv, ChannelsReachWinners
<1>4. ASSUME NEW n \in Node, Freed(n)
      PROVE  FALSE
  BY <1>4, FreedKeeps DEF TableKept
<1>5. ASSUME NEW n \in Node, Cleanup(n)
      PROVE  FALSE
  BY <1>5, CleanupKeeps DEF ClusterInv, TableKept
<1>6. ASSUME NEW n \in Node, NEW i \in 0 .. MaxRequests, Expire(n, i)
      PROVE  FALSE
  BY <1>6, ExpireKeeps DEF ClusterInv, TableKept
<1>7. ASSUME UNCHANGED tables
      PROVE  FALSE
  BY <1>7
<1>8. ASSUME NEW n \in Node, Crash(n)
      PROVE  FALSE
  BY <1>8, CrashKeeps DEF TableKept
<1>9. QED
  BY <1>1, <1>2, <1>3, <1>4, <1>5, <1>6, <1>7, <1>8 DEF Next, vars, ReleaseLocal, HandleLockRelease,
     AcquireForward, ReleaseForward, Answered, AskFails

\* A hint is set to a winner, a call goes where a hint points.
LEMMA StepChannels ==
    ASSUME TypeOK, ClusterInv, [Next]_vars
    PROVE  ChannelsReachWinners'
<1> USE DEF leadership, tables, callers
<1> DEFINE W == {w.node : w \in won'}
           LeadersGood == \A n \in Node : leads'[n] # 0 => n \in W
           HintsGood == \A n \in Node : hint'[n] # Nil => hint'[n] \in W
           CallsGood == \A m \in net' : m.kind \in {"request", "release"} => m.to \in W
           AnswersGood == \A m \in net' : m.kind = "answer" /\ m.granted => m.from \in W
           BeliefsGood == \A b \in believed' : b.server \in W
<1>1. won \subseteq won'
  BY WonGrows
<1>2. /\ \A x : HasWon(x) => x \in W
      /\ \A w \in won : w.node \in W
  BY <1>1 DEF HasWon
<1>3. /\ \A n \in Node : leads[n] # 0 => n \in W
      /\ \A n \in Node : hint[n] # Nil => hint[n] \in W
      /\ \A m \in net : m.kind \in {"request", "release"} => m.to \in W
      /\ \A m \in net : m.kind = "answer" /\ m.granted => m.from \in W
      /\ \A b \in believed : b.server \in W
  BY <1>2 DEF ClusterInv, ChannelsReachWinners
<1> SUFFICES LeadersGood /\ HintsGood /\ CallsGood /\ AnswersGood /\ BeliefsGood
  BY DEF ChannelsReachWinners, HasWon
<1> HIDE DEF W
<1>4. ASSUME UNCHANGED <<leads, hint>>, net' \subseteq net, believed' \subseteq believed
      PROVE  LeadersGood /\ HintsGood /\ CallsGood /\ AnswersGood /\ BeliefsGood
  BY <1>3, <1>4
<1>5. ASSUME NEW n \in Node, Lead(n)
      PROVE  LeadersGood /\ HintsGood /\ CallsGood /\ AnswersGood /\ BeliefsGood
  <2>1. n \in W
    BY <1>2, <1>5 DEF Lead, L!Lead
  <2>2. \A k \in Node : (leads'[k] = leads[k] /\ hint'[k] = hint[k]) \/ (k = n /\ hint'[k] = n)
    BY <1>5 DEF Lead, L!Lead, TypeOK
  <2>3. QED
    BY <1>3, <1>5, <2>1, <2>2 DEF Lead
<1>6. ASSUME NEW n \in Node, Resign(n)
      PROVE  LeadersGood /\ HintsGood /\ CallsGood /\ AnswersGood /\ BeliefsGood
  <2>1. \A k \in Node : leads'[k] = leads[k] \/ leads'[k] = 0
    BY <1>6 DEF Resign, L!Resign, TypeOK
  <2>2. QED
    BY <1>3, <1>6, <2>1 DEF Resign
<1>7. ASSUME NEW n \in Node, Hear(n)
      PROVE  LeadersGood /\ HintsGood /\ CallsGood /\ AnswersGood /\ BeliefsGood
  <2>1. PICK w \in won : hint' = [hint EXCEPT ![n] = w.node]
    BY <1>7 DEF Hear
  <2>2. w.node \in W
    BY <1>2
  <2>3. \A k \in Node : hint'[k] = hint[k] \/ hint'[k] = w.node
    BY <2>1 DEF TypeOK
  <2>4. \A k \in Node : leads'[k] = leads[k] \/ leads'[k] = 0
    BY <1>7 DEF Hear, TypeOK
  <2>5. QED
    BY <1>3, <1>7, <2>2, <2>3, <2>4 DEF Hear
<1>8. ASSUME NEW c \in Caller, NEW n \in Node, NEW t \in LockType, AcquireLocal(c, n, t)
      PROVE  LeadersGood /\ HintsGood /\ CallsGood /\ AnswersGood /\ BeliefsGood
  <2>1. n \in W
    BY <1>3, <1>8 DEF AcquireLocal, ServesItself
  <2>2. \A b \in believed' : b \in believed \/ b = Belief(Entry(c, t), n)
    BY <1>8 DEF AcquireLocal
  <2>3. Belief(Entry(c, t), n).server = n
    BY DEF Belief
  <2>4. QED
    BY <1>3, <1>8, <2>1, <2>2, <2>3 DEF AcquireLocal
<1>9. ASSUME NEW c \in Caller, NEW n \in Node, NEW t \in LockType, AcquireForward(c, n, t)
      PROVE  LeadersGood /\ HintsGood /\ CallsGood /\ AnswersGood /\ BeliefsGood
  <2>1. PICK s \in Node :
            /\ ForwardsTo(n, s)
            /\ net' = net \cup {[kind |-> "request", to |-> s, entry |-> Entry(c, t)]}
    BY <1>9 DEF AcquireForward
  <2>2. s \in W
    BY <1>3, <2>1 DEF ForwardsTo
  <2>3. QED
    BY <1>3, <1>9, <2>1, <2>2 DEF AcquireForward
<1>10. ASSUME NEW c \in Caller, NEW n \in Node, ReleaseForward(c, n)
       PROVE  LeadersGood /\ HintsGood /\ CallsGood /\ AnswersGood /\ BeliefsGood
  <2>1. PICK s \in Node : ForwardsTo(n, s) /\ net' = net \cup {[kind |-> "release", to |-> s]}
    BY <1>10 DEF ReleaseForward
  <2>2. s \in W
    BY <1>3, <2>1 DEF ForwardsTo
  <2>3. believed' \subseteq believed
    BY <1>10 DEF ReleaseForward, ReleaseCall
  <2>4. QED
    BY <1>3, <1>10, <2>1, <2>2, <2>3 DEF ReleaseForward, ReleaseCall
<1>11. ASSUME NEW s \in Node, HandleLockRequest(s)
       PROVE  LeadersGood /\ HintsGood /\ CallsGood /\ AnswersGood /\ BeliefsGood
  <2>1. PICK m \in net : HandleLockRequest(s)!(m)
    BY <1>11 DEF HandleLockRequest
  <2>2. s \in W
    BY <1>3, <2>1
  <2>3. \A k \in net' : k \in net \/ (k.kind = "answer" /\ k.from = s)
    BY <2>1
  <2>4. UNCHANGED <<leads, hint, believed>>
    BY <2>1
  <2>5. QED
    BY <1>3, <2>2, <2>3, <2>4
<1>12. ASSUME NEW c \in Caller, Answered(c)
       PROVE  LeadersGood /\ HintsGood /\ CallsGood /\ AnswersGood /\ BeliefsGood
  <2>1. PICK m \in net : Answered(c)!(m)
    BY <1>12 DEF Answered
  <2>2. m.granted => m.from \in W
    BY <1>3, <2>1
  <2>3. \A b \in believed' : b \in believed \/ (m.granted /\ b.server = m.from)
    BY <2>1 DEF Belief
  <2>4. UNCHANGED <<leads, hint>> /\ net' \subseteq net
    BY <2>1
  <2>5. QED
    BY <1>3, <2>2, <2>3, <2>4
<1>13. ASSUME NEW n \in Node, Win(n) \/ HandleLockRelease(n) \/ Cleanup(n)
       PROVE  LeadersGood /\ HintsGood /\ CallsGood /\ AnswersGood /\ BeliefsGood
  BY <1>4, <1>13 DEF Win, HandleLockRelease, Cleanup
<1>14. ASSUME NEW n \in Node, NEW i \in 0 .. MaxRequests, Expire(n, i)
       PROVE  LeadersGood /\ HintsGood /\ CallsGood /\ AnswersGood /\ BeliefsGood
  BY <1>4, <1>14 DEF Expire
<1>15. ASSUME NEW c \in Caller, NEW n \in Node, ReleaseLocal(c, n)
       PROVE  LeadersGood /\ HintsGood /\ CallsGood /\ AnswersGood /\ BeliefsGood
  BY <1>4, <1>15 DEF ReleaseLocal, ReleaseCall
<1>16. ASSUME NEW c \in Caller, AskFails(c)
       PROVE  LeadersGood /\ HintsGood /\ CallsGood /\ AnswersGood /\ BeliefsGood
  BY <1>4, <1>16 DEF AskFails
<1>17. ASSUME NEW n \in Node, Crash(n)
       PROVE  LeadersGood /\ HintsGood /\ CallsGood /\ AnswersGood /\ BeliefsGood
  <2>1. \A k \in Node : leads'[k] \in {leads[k], 0} /\ hint'[k] \in {hint[k], Nil}
    BY <1>17 DEF Crash, TypeOK
  <2>2. QED
    BY <1>3, <1>17, <2>1 DEF Crash
<1>18. UNCHANGED vars => LeadersGood /\ HintsGood /\ CallsGood /\ AnswersGood /\ BeliefsGood
  BY <1>4 DEF vars
<1>19. QED
  BY <1>5, <1>6, <1>7, <1>8, <1>9, <1>10, <1>11, <1>12, <1>13, <1>14, <1>15, <1>16, <1>17,
     <1>18 DEF Next

LEMMA InitClusterInv == Init => ClusterInv
BY DEF Init, L!Init, ClusterInv, ChannelsReachWinners, ServersHaveWon, AnswersAreBacked,
   BeliefsAreBacked, TablesExclude, Compatible

LEMMA StepClusterInv == TypeOK /\ ClusterInv /\ [Next]_vars => ClusterInv'
<1> SUFFICES ASSUME TypeOK, ClusterInv, [Next]_vars
             PROVE  ClusterInv'
  OBVIOUS
<1>1. TablesExclude'
  BY StepTables DEF ClusterInv, TablesKept, TablesExclude
<1>2. QED
  BY <1>1, StepChannels, StepServers, StepBacked DEF ClusterInv

LEMMA ClusterSafe == Spec => [](TypeOK /\ ClusterInv)
<1>1. TypeOK /\ ClusterInv /\ [Next]_vars => TypeOK' /\ ClusterInv'
  BY StepClusterTypeOK, StepClusterInv
<1>2. QED
  BY <1>1, InitClusterTypeOK, InitClusterInv, PTL DEF Spec

\* Locks and waiting requests are only on nodes that have won an election.
THEOREM ServersAlwaysHaveWon == Spec => []ServersHaveWon
<1>1. ClusterInv => ServersHaveWon
  BY DEF ClusterInv
<1>2. QED
  BY <1>1, ClusterSafe, PTL

\* What a caller was told stands in a table until a release, the end of its time or a
\* crash of the server.
THEOREM BeliefsAlwaysBacked == Spec => []BeliefsAreBacked
<1>1. ClusterInv => BeliefsAreBacked
  BY DEF ClusterInv
<1>2. QED
  BY <1>1, ClusterSafe, PTL

\* With one winner the callers' locks that no crash lost are all in its table, which
\* excludes.
THEOREM OneWinnerAlwaysExcludes == Spec => []OneWinnerExcludes
<1>1. ASSUME TypeOK, ClusterInv
      PROVE  OneWinnerExcludes
  <2> SUFFICES ASSUME \A v, w \in won : v.node = w.node, NEW a \in believed, NEW b \in believed,
                      a # b, a.entry.id \notin ended, b.entry.id \notin ended
               PROVE  a.entry.type = "shared" /\ b.entry.type = "shared"
    BY DEF OneWinnerExcludes
  <2>1. /\ a.entry \in Request /\ b.entry \in Request
        /\ a = [entry |-> a.entry, server |-> a.server] /\ a.server \in Node
        /\ b = [entry |-> b.entry, server |-> b.server] /\ b.server \in Node
    BY <1>1 DEF TypeOK
  <2>2. a.server = b.server
    BY <1>1 DEF ClusterInv, ChannelsReachWinners, HasWon
  <2>3. Grant(a.entry) \in locks[a.server] /\ Grant(b.entry) \in locks[a.server]
    BY <1>1, <2>2 DEF ClusterInv, BeliefsAreBacked
  <2>4. Compatible(locks[a.server])
    BY <1>1, <2>1 DEF ClusterInv, TablesExclude
  <2>5. Grant(a.entry) # Grant(b.entry)
    <3>1. a.entry # b.entry
      BY <2>1, <2>2
    <3>2. ASSUME Grant(a.entry) = Grant(b.entry)
          PROVE  a.entry = b.entry
      <4>1. /\ a.entry.id = b.entry.id /\ a.entry.owner = b.entry.owner
            /\ a.entry.type = b.entry.type
        BY <3>2 DEF Grant
      <4>2. QED
        BY <2>1, <4>1 DEF Request
    <3>3. QED
      BY <3>1, <3>2
  <2>6. Grant(a.entry).type = a.entry.type /\ Grant(b.entry).type = b.entry.type
    BY <2>1, GrantType
  <2>7. QED
    BY <2>3, <2>4, <2>5, <2>6 DEF Compatible
<1>2. QED
  BY <1>1, ClusterSafe, PTL
-----------------------------------------------------------------------------
\* What Leadership promises follows from its steps, for any nodes and terms: the
\* strengthening of its OneLeaderPerTerm that the steps preserve.
WonOnce == \A v, w \in won : v.term = w.term => v = w
LeadersHaveWon ==
    \A n \in Node : leads[n] # 0 => \E w \in won : w.node = n /\ w.term = leads[n]
LeadershipInv == leads = [n \in Node |-> leads[n]] /\ WonOnce /\ LeadersHaveWon

LEMMA LeadershipInit == L!Init => LeadershipInv
BY DEF L!Init, LeadershipInv, WonOnce, LeadersHaveWon

\* A leader that resigns leaves the claims of the others as they were.
LEMMA ResignKeepsInv ==
    ASSUME LeadershipInv, won \subseteq won', WonOnce',
           leads' = leads \/ \E n \in Node : L!Resign(n)
    PROVE  LeadershipInv'
<1>1. leads' = [n \in Node |-> leads'[n]]
  BY DEF LeadershipInv, L!Resign
<1>2. \A n \in Node : leads'[n] # 0 => leads'[n] = leads[n]
  BY DEF LeadershipInv, L!Resign
<1>3. QED
  BY <1>1, <1>2 DEF LeadershipInv, LeadersHaveWon

LEMMA LeadershipStep == LeadershipInv /\ [L!Next]_<<won, leads>> => LeadershipInv'
<1> SUFFICES ASSUME LeadershipInv, [L!Next]_<<won, leads>>
             PROVE  LeadershipInv'
  OBVIOUS
<1>1. ASSUME NEW n \in Node, L!Lead(n)
      PROVE  LeadershipInv'
  <2>1. PICK w \in won : w.node = n /\ leads' = [leads EXCEPT ![n] = w.term]
    BY <1>1 DEF L!Lead
  <2>2. leads' = [k \in Node |-> leads'[k]] /\ leads'[n] = w.term
    BY <2>1 DEF LeadershipInv
  <2>3. \A k \in Node \ {n} : leads'[k] = leads[k]
    BY <2>1 DEF LeadershipInv
  <2>4. won' = won
    BY <1>1 DEF L!Lead
  <2>5. WonOnce'
    BY <2>4 DEF LeadershipInv, WonOnce
  <2>6. LeadersHaveWon'
    BY <2>1, <2>2, <2>3, <2>4 DEF LeadershipInv, LeadersHaveWon
  <2>7. QED
    BY <2>2, <2>5, <2>6 DEF LeadershipInv
<1>2. ASSUME NEW n \in Node, L!Resign(n), UNCHANGED won
      PROVE  LeadershipInv'
  <2>1. WonOnce'
    BY <1>2 DEF LeadershipInv, WonOnce
  <2>2. QED
    BY <1>2, <2>1, ResignKeepsInv
<1>3. ASSUME L!Win, UNCHANGED leads \/ \E n \in Node : L!Resign(n)
      PROVE  LeadershipInv'
  <2>1. PICK w : (\A v \in won : v.term # w.term) /\ won' = won \cup {w}
    BY <1>3 DEF L!Win
  <2>2. WonOnce'
    BY <2>1 DEF LeadershipInv, WonOnce
  <2>3. QED
    BY <1>3, <2>1, <2>2, ResignKeepsInv
<1>4. CASE UNCHANGED <<won, leads>>
  <2>1. WonOnce'
    BY <1>4 DEF LeadershipInv, WonOnce
  <2>2. QED
    BY <1>4, <2>1, ResignKeepsInv
<1>5. QED
  BY <1>1, <1>2, <1>3, <1>4 DEF L!Next

\* Leadership: two nodes never lead in one term.  RefinesLeadership carries this over
\* to the elections of raft.py, ClusterIsLed to a cluster of lock managers without crashes.
THEOREM OneLeader == L!Spec => []L!OneLeaderPerTerm
<1>1. LeadershipInv => L!OneLeaderPerTerm
  BY DEF LeadershipInv, WonOnce, LeadersHaveWon, L!OneLeaderPerTerm
<1>2. QED
  BY LeadershipInit, LeadershipStep, <1>1, PTL DEF L!Spec

\* As long as no node crashes, the elections of the cluster are steps of Leadership, and
\* nothing else touches them.
THEOREM ClusterIsLed == ASSUME MaxCrashes = 0 PROVE Spec => L!Spec
<1>1. Init => L!Init
  BY DEF Init
<1>2. TypeOK /\ [Next]_vars => [L!Next]_<<won, leads>>
  <2> SUFFICES ASSUME TypeOK, [Next]_vars
               PROVE  [L!Next]_<<won, leads>>
    OBVIOUS
  <2>1. crashes = 0
    BY DEF TypeOK
  <2>2. ASSUME NEW n \in Node, Win(n)
        PROVE  L!Next
    <3>1. PICK t \in 1 .. MaxTerm :
             (\A w \in won : w.term # t) /\ won' = won \cup {[term |-> t, node |-> n]}
      BY <2>1, <2>2 DEF Win, MayBeWon
    <3>2. L!Win
      BY <3>1 DEF L!Win
    <3>3. QED
      BY <2>2, <3>2 DEF L!Next, Win
  <2>3. ASSUME NEW n \in Node, Lead(n)
        PROVE  L!Next
    BY <2>3 DEF Lead, L!Next
  <2>4. ASSUME NEW n \in Node, Resign(n) \/ Hear(n)
        PROVE  L!Next
    BY <2>4 DEF Resign, Hear, L!Resign, L!Next
  <2>5. ASSUME NEW n \in Node, Crash(n)
        PROVE  FALSE
    BY <2>1, <2>5 DEF Crash
  <2>6. ASSUME ~(\E n \in Node : Win(n) \/ Lead(n) \/ Resign(n) \/ Hear(n) \/ Crash(n))
        PROVE  UNCHANGED <<won, leads>>
    BY <2>6 DEF Next, AcquireLocal, AcquireForward, HandleLockRequest, Answered, AskFails,
       ReleaseCall, ReleaseLocal, ReleaseForward, HandleLockRelease, Expire, Cleanup, vars, leadership
  <2>7. QED
    BY <2>2, <2>3, <2>4, <2>5, <2>6
<1>3. QED
  BY <1>1, <1>2, ClusterTypeCorrect, PTL DEF Spec, L!Spec
=============================================================================
