---------------------------- MODULE LockManager ----------------------------
(***************************************************************************)
(* The DistributedLockManager of a leader (src/nodes/lock_manager.py): the *)
(* calls of local callers, the lock requests and releases forwarded by     *)
(* other nodes, expiry, the cleanup task and the deadlock detector.        *)
(*                                                                         *)
(* No handler awaits anything that suspends (replicate_command and         *)
(* _process_wait_queue return without yielding), so each is one action.    *)
(* Every Lock and every queue entry names self.node_id as its holder,      *)
(* whoever asked: who did (owner) is a history field that no action reads. *)
(* held_resources and waiting_resources therefore have one key.            *)
(***************************************************************************)
EXTENDS LockTable, FiniteSets

CONSTANTS
    Resource,     \* resource ids
    Remote,       \* the callers whose requests another node forwarded
    MaxRequests,  \* bound on the acquire calls
    MaxStops      \* bound on component stops

ASSUME RemoteAssumption == Remote \subseteq Caller
ASSUME LockBoundAssumption == MaxRequests \in Nat /\ MaxStops \in Nat

VARIABLES
    locks,      \* locks: resource -> set of Lock
    queue,      \* wait_queue: resource -> set of Request
    held,       \* held_resources[node_id]
    waiting,    \* waiting_resources[node_id]
    running,    \* running, and with it the cleanup and detector tasks
    alarm,      \* did the last pass of the detector report a deadlock?
    believed,   \* history: requests answered True, not released by their
                \* owner since, whose time is not over
    requests,   \* how many acquire calls there were
    stops

vars == <<locks, queue, held, waiting, running, alarm, believed, requests, stops>>

Init ==
    /\ locks = [r \in Resource |-> {}]
    /\ queue = [r \in Resource |-> {}]
    /\ held = {} /\ waiting = {}
    /\ running = TRUE
    /\ alarm = FALSE
    /\ believed = [r \in Resource |-> {}]
    /\ requests = 0 /\ stops = 0
-----------------------------------------------------------------------------
\* Both kinds of acquire call count here; _can_grant_lock has dropped what expired.
AcquireCall(r) ==
    /\ requests < MaxRequests
    /\ requests' = requests + 1
    /\ UNCHANGED <<running, alarm, stops>>

\* Mutant: lock_type of a forwarded request stays the string it arrived as.
UnparsedRequest(c, t) ==
    [id |-> requests, owner |-> c, type |-> IF c \in Remote THEN <<t>> ELSE t]

NewRequest(c, t) == [id |-> requests, owner |-> c, type |-> t]

AcquireGranted(c, r, t) ==
    /\ AcquireCall(r)
    /\ CanGrant(locks[r], t)
    /\ locks' = [locks EXCEPT ![r] = Valid(@) \cup {Grant(NewRequest(c, t))}]
    /\ held' = held \cup {r}
    /\ believed' = [believed EXCEPT ![r] = @ \cup {NewRequest(c, t)}]
    /\ UNCHANGED <<queue, waiting>>

\* A local caller that waits is told False and stays in the queue.
AcquireQueued(c, r, t) ==
    /\ AcquireCall(r)
    /\ c \notin Remote
    /\ ~CanGrant(locks[r], t)
    /\ locks' = [locks EXCEPT ![r] = Valid(@)]
    /\ queue' = [queue EXCEPT ![r] = @ \cup {NewRequest(c, t)}]
    /\ waiting' = waiting \cup {r}
    /\ UNCHANGED <<held, believed>>

\* A forwarded request never waits; a local one need not.
AcquireDenied(r, t) ==
    /\ AcquireCall(r)
    /\ ~CanGrant(locks[r], t)
    /\ locks' = [locks EXCEPT ![r] = Valid(@)]
    /\ UNCHANGED <<queue, held, waiting, believed>>

\* Every lock of the resource has this node as holder, so all of them go.
Release(c, r) ==
    /\ LET served == IF locks[r] = {} THEN {} ELSE Served({}, queue[r]) IN
       /\ locks' = [locks EXCEPT ![r] = Grants(served)]
       /\ queue' = [queue EXCEPT ![r] = @ \ served]
       /\ held' = IF served # {} THEN held \cup {r}
                  ELSE IF locks[r] # {} THEN held \ {r} ELSE held
       /\ waiting' = IF served # {} THEN waiting \ {r} ELSE waiting
    /\ believed' = [believed EXCEPT ![r] = {e \in @ : e.owner # c}]
    /\ UNCHANGED <<running, alarm, requests, stops>>

\* Time passes expires_at of the locks granted to request number i.
Expire(r, i) ==
    /\ \E e \in locks[r] \cup believed[r] : e.id = i /\ (e \in locks[r] => ~e.expired)
    /\ locks' = [locks EXCEPT ![r] = Lapse(@, i)]
    /\ believed' = [believed EXCEPT ![r] = {e \in @ : e.id # i}]
    /\ UNCHANGED <<queue, held, waiting, running, alarm, requests, stops>>

\* One pass of the cleanup loop over every resource.
Cleanup ==
    LET drained == {r \in Resource : locks[r] # {} /\ Valid(locks[r]) = {}}
        served == [r \in Resource |-> IF r \in drained THEN Served({}, queue[r]) ELSE {}]
        granted == {r \in Resource : served[r] # {}}
    IN
    /\ running
    /\ locks' = [r \in Resource |-> Valid(locks[r]) \cup Grants(served[r])]
    /\ queue' = [r \in Resource |-> queue[r] \ served[r]]
    /\ held' = (held \ {r \in Resource : locks[r] # Valid(locks[r])}) \cup granted
    /\ waiting' = waiting \ granted
    /\ UNCHANGED <<running, alarm, believed, requests, stops>>

\* The wait-for graph has one node, which waits for itself as soon as a
\* resource recorded as waited for has a lock.
DetectDeadlocks ==
    /\ running
    /\ alarm' = (\E r \in waiting : locks[r] # {})
    /\ UNCHANGED <<locks, queue, held, waiting, running, believed, requests, stops>>

Stop ==
    /\ running /\ stops < MaxStops
    /\ running' = FALSE
    /\ stops' = stops + 1
    /\ UNCHANGED <<locks, queue, held, waiting, alarm, believed, requests>>

Start ==
    /\ ~running
    /\ running' = TRUE
    /\ UNCHANGED <<locks, queue, held, waiting, alarm, believed, requests, stops>>
-----------------------------------------------------------------------------
Next ==
    \/ \E r \in Resource, t \in LockType :
          \/ \E c \in Caller : AcquireGranted(c, r, t) \/ AcquireQueued(c, r, t)
          \/ AcquireDenied(r, t)
    \/ \E r \in Resource : \E c \in Caller : Release(c, r)
    \/ \E r \in Resource : \E i \in 0 .. MaxRequests : Expire(r, i)
    \/ Cleanup
    \/ DetectDeadlocks
    \/ Stop
    \/ Start

Spec == Init /\ [][Next]_vars

\* Every timeout is finite and both loops keep running until stop(); a stopped
\* component is started again.  Callers owe nothing.
FairSpec ==
    /\ Spec
    /\ WF_vars(Cleanup) /\ WF_vars(DetectDeadlocks) /\ WF_vars(Start)
    /\ \A r \in Resource : \A i \in 0 .. MaxRequests : WF_vars(Expire(r, i))
-----------------------------------------------------------------------------
TypeOK ==
    /\ locks \in [Resource -> SUBSET Lock]
    /\ queue \in [Resource -> SUBSET Request]
    /\ held \in SUBSET Resource /\ waiting \in SUBSET Resource
    /\ running \in BOOLEAN /\ alarm \in BOOLEAN
    /\ believed \in [Resource -> SUBSET Request]
    /\ requests \in Nat /\ stops \in Nat

\* The table never holds a writer beside another lock, expired ones included:
\* every path that grants drops the expired locks first.
TableExclusion == \A r \in Resource : Compatible(locks[r])

\* Nobody waits for a resource that has no lock: the cleanup task drops the entry
\* of a free resource and never looks at it again, so such a waiter would starve.
NobodyWaitsForFree == \A r \in Resource : queue[r] # {} => locks[r] # {}

\* A request is either in the table or in the queue, once.
RequestsAreOnce ==
    \A r \in Resource :
        /\ \A x \in locks[r] \cup queue[r] : x.id < requests
        /\ \A l \in locks[r], e \in queue[r] : l.id # e.id
        /\ \A l, m \in locks[r] : l.id = m.id => l = m
        /\ \A e, f \in queue[r] : e.id = f.id => e = f

\* What the sets of held and waited-for resources say is so.  They may say less:
\* one expiry clears held for every holder, one service waiting for every waiter.
BooksAreFounded ==
    /\ \A r \in held : locks[r] # {}
    /\ \A r \in waiting : queue[r] # {}

\* On every table that comes up and every wait queue, whether the resource was freed
\* or not, the loop of _process_wait_queue grants what Served says and leaves the valid
\* locks beside the new ones.
ServedIsTheLoop ==
    \A r \in Resource : \A ls \in {{}, locks[r]} :
        LET result == ServeAll(ls, queue[r], requests) IN
        queue[r] # {} =>
            /\ result.granted = Served(ls, queue[r])
            /\ result.table = Valid(ls) \cup Grants(Served(ls, queue[r]))

\* The inductive invariant of the lock table.
LockInv == TableExclusion /\ NobodyWaitsForFree /\ RequestsAreOnce /\ BooksAreFounded

\* When callers stop asking, every waiter is served without any release, also the
\* ones that were told False, every lock expires, and the books and the alarm clear.
TableComesToRest ==
    <>[](/\ \A r \in Resource : queue[r] = {} /\ locks[r] = {}
         /\ held = {} /\ waiting = {} /\ ~alarm)

\* "Exclusive (write) locks - single holder" (lock_manager.py:46): whoever was told that it holds a
\* lock shares it only as the lock types allow.
SingleHolder ==
    \A r \in Resource : \A e, f \in believed[r] :
        e.owner # f.owner => e.type = "shared" /\ f.type = "shared"
=============================================================================
