---------------------------- MODULE LockCluster ----------------------------
(***************************************************************************)
(* The lock managers of a whole cluster (src/nodes/lock_manager.py over    *)
(* raft.py and message_passing.py), for one resource.  Every node has a    *)
(* table of its own, which nobody replicates.  A caller asks any node: a   *)
(* leader serves it, another node forwards the call to the node its leader *)
(* hint names, and that node serves it whether it leads or not.            *)
(*                                                                         *)
(* Of the elections only what Leadership promises is used, and that a hint *)
(* names a winner (HintNamesAWinner of Raft).  A request posted may arrive *)
(* at any later time, also after its caller was told None.                 *)
(*                                                                         *)
(* Tables are in memory only: a node that crashes comes back with an empty *)
(* one, and with no memory of its votes, so that Leadership no longer says *)
(* who wins after a crash.                                                 *)
(***************************************************************************)
EXTENDS LockTable, FiniteSets

CONSTANTS
    Node,         \* the nodes of the cluster
    Nil,          \* Python's None
    MaxTerm,      \* bound on the terms won
    MaxRequests,  \* bound on the acquire calls
    MaxCrashes    \* bound on the crashes of nodes

ASSUME NilAssumption == Nil \notin Node /\ Nil \notin Nat
ASSUME ClusterBoundAssumption == MaxTerm \in Nat /\ MaxRequests \in Nat /\ MaxCrashes \in Nat

VARIABLES
    won, leads,   \* of Leadership: the victories so far, the term each node leads in
    hint,         \* current_leader of each node
    locks, queue, \* locks and wait_queue of each node
    net,          \* LOCK_REQUESTs, LOCK_RELEASEs and answers in flight
    asked,        \* the forwarded request each caller awaits the answer of
    believed,     \* history: requests answered True that their caller has not released
    ended,        \* history: locks that a release call met, whose time is over, or that a
                  \* crash of their server lost
    requests,     \* how many acquire calls there were
    crashes       \* how many crashes there were

leadership == <<won, leads, hint>>
tables == <<locks, queue>>
callers == <<asked, believed, requests>>
vars == <<leadership, tables, net, callers, ended, crashes>>

L == INSTANCE Leadership

LockRequest == [kind : {"request"}, to : Node, entry : Request]
LockRelease == [kind : {"release"}, to : Node]
LockAnswer == [kind : {"answer"}, from : Node, entry : Request, granted : BOOLEAN]

Init ==
    /\ L!Init
    /\ hint = [n \in Node |-> Nil]
    /\ locks = [n \in Node |-> {}] /\ queue = [n \in Node |-> {}]
    /\ net = {}
    /\ asked = [c \in Caller |-> Nil]
    /\ believed = {} /\ ended = {}
    /\ requests = 0 /\ crashes = 0
-----------------------------------------------------------------------------
HasWon(n) == \E w \in won : w.node = n

\* A term is won once, until a crash makes a node forget the votes it gave.
MayBeWon(t) == crashes > 0 \/ \A w \in won : w.term # t

Win(n) ==
    /\ \E t \in 1 .. MaxTerm :
          /\ MayBeWon(t)
          /\ won' = won \cup {[term |-> t, node |-> n]}
    /\ UNCHANGED <<leads, hint, tables, net, callers, ended, crashes>>

Lead(n) ==
    /\ L!Lead(n)
    /\ hint' = [hint EXCEPT ![n] = n]
    /\ UNCHANGED <<tables, net, callers, ended, crashes>>

\* A vote request of a newer term is handled.
Resign(n) ==
    /\ L!Resign(n)
    /\ UNCHANGED <<won, hint, tables, net, callers, ended, crashes>>

\* A heartbeat sent in a term that was won, not older than that of n.
Hear(n) ==
    /\ \E w \in won : w.term >= leads[n] /\ hint' = [hint EXCEPT ![n] = w.node]
    /\ leads' = [leads EXCEPT ![n] = 0]
    /\ UNCHANGED <<won, tables, net, callers, ended, crashes>>
-----------------------------------------------------------------------------
\* Mutant: a node that knows no leader serves the call.
ServesUnlessTold(n) == leads[n] # 0 \/ hint[n] = Nil

\* acquire_lock and release_lock look at is_leader() once, when they are called.
ServesItself(n) == leads[n] # 0
ForwardsTo(n, s) == ~ServesItself(n) /\ hint[n] = s /\ s # Nil

\* Mutant: lock_type stays the string it is sent as.
UnparsedEntry(c, t) == [id |-> requests, owner |-> c, type |-> <<t>>]

Entry(c, t) == [id |-> requests, owner |-> c, type |-> t]
Belief(e, n) == [entry |-> e, server |-> n]

\* A caller makes one call at a time.
AcquireCall(c) ==
    /\ requests < MaxRequests
    /\ asked[c] = Nil
    /\ requests' = requests + 1

\* Mutant: the new lock replaces the list.
GrantedAlone(n, e) == locks' = [locks EXCEPT ![n] = {Grant(e)}]

\* What _can_grant_lock and a grant leave in the table of n.
Granted(n, e) == locks' = [locks EXCEPT ![n] = Valid(@) \cup {Grant(e)}]
Refused(n) == locks' = [locks EXCEPT ![n] = Valid(@)]

AcquireLocal(c, n, t) ==
    /\ AcquireCall(c)
    /\ ServesItself(n)
    /\ \/ /\ CanGrant(locks[n], t)
          /\ Granted(n, Entry(c, t))
          /\ believed' = believed \cup {Belief(Entry(c, t), n)}
          /\ UNCHANGED queue
       \/ /\ ~CanGrant(locks[n], t)
          /\ Refused(n)
          /\ queue' \in {queue, [queue EXCEPT ![n] = @ \cup {Entry(c, t)}]}
          /\ UNCHANGED believed
    /\ UNCHANGED <<leadership, net, asked, ended, crashes>>

AcquireForward(c, n, t) ==
    /\ AcquireCall(c)
    /\ \E s \in Node :
          /\ ForwardsTo(n, s)
          /\ net' = net \cup {[kind |-> "request", to |-> s, entry |-> Entry(c, t)]}
    /\ asked' = [asked EXCEPT ![c] = requests]
    /\ UNCHANGED <<leadership, tables, believed, ended, crashes>>

\* Whether s leads is not looked at.  An answer nobody waits for any more is dropped.
HandleLockRequest(s) ==
    \E m \in net :
        /\ m.kind = "request" /\ m.to = s
        /\ LET e == m.entry
               granted == CanGrant(locks[s], e.type)
               answer == [kind |-> "answer", from |-> s, entry |-> e, granted |-> granted]
           IN /\ IF granted THEN Granted(s, e) ELSE Refused(s)
              /\ net' = (net \ {m}) \cup (IF asked[e.owner] = e.id THEN {answer} ELSE {})
        /\ UNCHANGED <<leadership, queue, callers, ended, crashes>>

Answered(c) ==
    \E m \in net :
        /\ m.kind = "answer" /\ m.entry.owner = c
        /\ net' = net \ {m}
        /\ asked' = [asked EXCEPT ![c] = Nil]
        /\ believed' = IF m.granted THEN believed \cup {Belief(m.entry, m.from)} ELSE believed
        /\ UNCHANGED <<leadership, tables, requests, ended, crashes>>

\* The connection fails or the session's timeout is over: the caller is answered
\* None, and what it sent may still arrive.
AskFails(c) ==
    /\ asked[c] # Nil
    /\ asked' = [asked EXCEPT ![c] = Nil]
    /\ net' = {m \in net : ~(m.kind = "answer" /\ m.entry.owner = c)}
    /\ UNCHANGED <<leadership, tables, believed, requests, ended, crashes>>
-----------------------------------------------------------------------------
\* Every lock of the table goes, whoever released.
Freed(n) ==
    LET served == IF locks[n] = {} THEN {} ELSE Served({}, queue[n]) IN
    /\ locks' = [locks EXCEPT ![n] = Grants(served)]
    /\ queue' = [queue EXCEPT ![n] = @ \ served]
    /\ ended' = ended \cup {l.id : l \in locks[n]}

\* The caller counts on nothing any more, whatever the answer.
ReleaseCall(c) ==
    /\ asked[c] = Nil
    /\ believed' = {b \in believed : b.entry.owner # c}
    /\ UNCHANGED <<leadership, asked, requests>>

ReleaseLocal(c, n) ==
    /\ ReleaseCall(c)
    /\ ServesItself(n)
    /\ Freed(n)
    /\ UNCHANGED <<net, crashes>>

ReleaseForward(c, n) ==
    /\ ReleaseCall(c)
    /\ \E s \in Node :
          /\ ForwardsTo(n, s)
          /\ net' = net \cup {[kind |-> "release", to |-> s]}
    /\ UNCHANGED <<tables, ended, crashes>>

HandleLockRelease(s) ==
    \E m \in net :
        /\ m.kind = "release" /\ m.to = s
        /\ Freed(s)
        /\ net' = net \ {m}
        /\ UNCHANGED <<leadership, callers, crashes>>

\* Time passes expires_at of lock i.
Expire(n, i) ==
    /\ \E l \in locks[n] : l.id = i /\ ~l.expired
    /\ locks' = [locks EXCEPT ![n] = Lapse(@, i)]
    /\ ended' = ended \cup {i}
    /\ UNCHANGED <<leadership, queue, net, callers, crashes>>

\* Mutant: only a leader cleans its table.
CleansAsLeader(n) == leads[n] # 0

\* The cleanup task of every node runs.
Cleans(n) == TRUE

\* One pass of the cleanup task of n.
Cleanup(n) ==
    LET served == IF locks[n] # {} /\ Valid(locks[n]) = {} THEN Served({}, queue[n]) ELSE {} IN
    /\ Cleans(n)
    /\ locks' = [locks EXCEPT ![n] = Valid(@) \cup Grants(served)]
    /\ queue' = [queue EXCEPT ![n] = @ \ served]
    /\ UNCHANGED <<leadership, net, callers, ended, crashes>>
-----------------------------------------------------------------------------
\* The process of n ends and is started again.  Nothing of its table, its term and its
\* leader is kept; what it had sent, and what others sent to it, may still arrive.
Crash(n) ==
    /\ crashes < MaxCrashes
    /\ crashes' = crashes + 1
    /\ locks' = [locks EXCEPT ![n] = {}]
    /\ queue' = [queue EXCEPT ![n] = {}]
    /\ ended' = ended \cup {l.id : l \in locks[n]}
    /\ leads' = [leads EXCEPT ![n] = 0]
    /\ hint' = [hint EXCEPT ![n] = Nil]
    /\ UNCHANGED <<won, net, callers>>
-----------------------------------------------------------------------------
Next ==
    \/ \E n \in Node :
          \/ Win(n) \/ Lead(n) \/ Resign(n) \/ Hear(n)
          \/ HandleLockRequest(n) \/ HandleLockRelease(n)
          \/ Cleanup(n) \/ Crash(n)
          \/ \E i \in 0 .. MaxRequests : Expire(n, i)
    \/ \E c \in Caller, n \in Node :
          \/ \E t \in LockType : AcquireLocal(c, n, t) \/ AcquireForward(c, n, t)
          \/ ReleaseLocal(c, n) \/ ReleaseForward(c, n)
    \/ \E c \in Caller : Answered(c) \/ AskFails(c)

Spec == Init /\ [][Next]_vars

\* Timeouts are finite and the cleanup tasks run.  Nobody needs to lead, to call, or
\* to be answered.
FairSpec ==
    /\ Spec
    /\ \A n \in Node :
          /\ WF_vars(Cleanup(n))
          /\ \A i \in 0 .. MaxRequests : WF_vars(Expire(n, i))
-----------------------------------------------------------------------------
Victory == [term : Nat, node : Node]

TypeOK ==
    /\ won \in SUBSET Victory /\ leads \in [Node -> Nat]
    /\ hint \in [Node -> Node \cup {Nil}]
    /\ locks \in [Node -> SUBSET Lock] /\ queue \in [Node -> SUBSET Request]
    /\ net \in SUBSET (LockRequest \cup LockRelease \cup LockAnswer)
    /\ asked \in [Caller -> Nat \cup {Nil}]
    /\ believed \in SUBSET [entry : Request, server : Node]
    /\ ended \in SUBSET Nat
    /\ requests \in Nat /\ crashes \in 0 .. MaxCrashes

\* Only nodes that have won an election ever hold a lock or a waiting request, although
\* the handlers never ask: calls reach them by the hint of some node.
ServersHaveWon == \A n \in Node : locks[n] # {} \/ queue[n] # {} => HasWon(n)

\* Who was told that it holds a lock has it in the table of the node that served it,
\* until a release call reaches that table, the time is over or the server crashes.
BeliefsAreBacked ==
    \A b \in believed : b.entry.id \notin ended => Grant(b.entry) \in locks[b.server]

\* As long as one node alone has won elections, callers that hold locks which no release,
\* expiry or crash of their server has ended share them as the lock types allow, also
\* across resignations, lost answers and crashes.  A lock that a crash lost is not counted:
\* its caller still believes in it when the restarted node grants it to another one.
OneWinnerExcludes ==
    (\A v, w \in won : v.node = w.node) =>
        \A a, b \in believed :
            a # b /\ {a.entry.id, b.entry.id} \cap ended = {}
                => a.entry.type = "shared" /\ b.entry.type = "shared"

\* Every lock goes and every waiter is served or lost without a release, also the locks
\* of callers that were answered None, on nodes that lead no more or were restarted.
TablesComeToRest == <>[](\A n \in Node : locks[n] = {} /\ queue[n] = {})
=============================================================================
