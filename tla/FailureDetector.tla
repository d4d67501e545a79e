--------------------------- MODULE FailureDetector ---------------------------
(***************************************************************************)
(* The FailureDetector of a node (src/communication/failure_detector.py),  *)
(* as BaseNode starts and stops it (src/nodes/base_node.py).               *)
(*                                                                         *)
(* A pass of the detection loop takes the time and a copy of the list of   *)
(* nodes, and then checks one node after another.  It yields only while a  *)
(* failure callback is suspended: calls of the detector happen between     *)
(* passes or then.  A node that is unregistered while the pass still has   *)
(* to check it leaves its NodeStatus behind in the copy (detached).        *)
(*                                                                         *)
(* Time is whether more than failure_timeout has passed since the last     *)
(* heartbeat.  missed_heartbeats is counted up to its limit only.          *)
(***************************************************************************)
EXTENDS Naturals

CONSTANTS
    Address,         \* addresses that may beat
    Cluster,         \* the ones in the configured cluster list
    MaxMissed,       \* max_missed_heartbeats
    MaxBeats,        \* bound on heartbeats
    MaxUnregisters,  \* bound on calls of unregister_node()
    MaxStops         \* bound on stops

ASSUME ClusterAssumption == Cluster \subseteq Address
ASSUME MissedAssumption == MaxMissed \in Nat \ {0}
ASSUME DetectorBoundAssumption == {MaxBeats, MaxUnregisters, MaxStops} \subseteq Nat

VARIABLES
    nodes,       \* nodes: the status of each registered address
    suspected,   \* suspected_nodes
    failed,      \* failed_nodes
    running,     \* running, and with it the detector task
    todo,        \* addresses that the current pass has still to check
    overdue,     \* those of them whose heartbeat was late when the pass began
    detached,    \* the status in the copy of the pass, where it is no longer in nodes
    calling,     \* is a failure callback suspended?
    beaten,      \* history: addresses that beat since the last pass began
    ghosted,     \* history: addresses unregistered while a pass had to check them
    beats, unregisters, stops

pass == <<todo, overdue, detached, calling>>
bounds == <<beats, unregisters, stops>>
vars == <<nodes, suspected, failed, running, pass, beaten, ghosted, bounds>>
-----------------------------------------------------------------------------
NodeState == {"alive", "suspected", "failed", "recovering"}
Status == [state : NodeState \cup {"unregistered"}, missed : 0 .. MaxMissed, late : BOOLEAN]

NoStatus == [state |-> "unregistered", missed |-> 0, late |-> FALSE]
NewStatus == [state |-> "alive", missed |-> 0, late |-> FALSE]
Registered(a) == nodes[a].state # "unregistered"

\* Calls run when the detector task has yielded.
Yielded == todo = {} \/ calling

Init ==
    /\ nodes = [a \in Address |-> NoStatus]
    /\ suspected = {} /\ failed = {}
    /\ running = FALSE
    /\ todo = {} /\ overdue = {} /\ calling = FALSE
    /\ detached = [a \in Address |-> NoStatus]
    /\ beaten = {} /\ ghosted = {}
    /\ beats = 0 /\ unregisters = 0 /\ stops = 0
-----------------------------------------------------------------------------
\* start() of the node starts the detector and registers the cluster.
Start ==
    /\ ~running
    /\ running' = TRUE
    /\ nodes' = [a \in Address |->
           IF a \in Cluster /\ ~Registered(a) THEN NewStatus ELSE nodes[a]]
    /\ UNCHANGED <<suspected, failed, pass, beaten, ghosted, bounds>>

\* Mutant: stop() lets the pass go on.
StillToDo == todo

Abandoned == {}

\* The task is cancelled where it has yielded; a pass ends there.
Stop ==
    /\ running /\ Yielded
    /\ stops < MaxStops
    /\ running' = FALSE
    /\ stops' = stops + 1
    /\ todo' = Abandoned /\ overdue' = {} /\ calling' = FALSE
    /\ detached' = [a \in Address |-> NoStatus]
    /\ UNCHANGED <<nodes, suspected, failed, beaten, ghosted, beats, unregisters>>

\* Mutants: a recovering node is still listed as failed; the pass decides on
\* lateness when it begins.
StillListed(set, a) == set
KeptOverdue(a) == overdue

Unlisted(set, a) == set \ {a}
StillOverdue(a) == overdue \ {a}

\* A beat registers an unknown address.
Heartbeat(a) ==
    LET old == IF Registered(a) THEN nodes[a] ELSE NewStatus
        down == old.state \in {"failed", "suspected"}
    IN
    /\ Yielded
    /\ beats < MaxBeats
    /\ nodes' = [nodes EXCEPT ![a] =
           [state |-> IF down THEN "recovering" ELSE "alive", missed |-> 0, late |-> FALSE]]
    /\ suspected' = IF down THEN Unlisted(suspected, a) ELSE suspected
    /\ failed' = IF down THEN Unlisted(failed, a) ELSE failed
    /\ overdue' = StillOverdue(a)
    /\ beaten' = beaten \cup {a}
    /\ beats' = beats + 1
    /\ UNCHANGED <<running, todo, detached, calling, ghosted, unregisters, stops>>

\* Does the copy of the pass hold the status that nodes has?
Copied(a) == a \in todo /\ detached[a] = NoStatus

Unregister(a) ==
    /\ Yielded
    /\ unregisters < MaxUnregisters
    /\ Registered(a)
    /\ nodes' = [nodes EXCEPT ![a] = NoStatus]
    /\ suspected' = suspected \ {a}
    /\ failed' = failed \ {a}
    /\ detached' = IF Copied(a)
                   THEN [detached EXCEPT ![a] = [nodes[a] EXCEPT !.late = a \in overdue]]
                   ELSE detached
    /\ overdue' = overdue \ {a}
    /\ ghosted' = IF a \in todo THEN ghosted \cup {a} ELSE ghosted
    /\ unregisters' = unregisters + 1
    /\ UNCHANGED <<running, todo, calling, beaten, beats, stops>>

\* More than failure_timeout has passed since the last heartbeat.
TimeOut(a) ==
    /\ Registered(a) /\ ~nodes[a].late
    /\ nodes' = [nodes EXCEPT ![a].late = TRUE]
    /\ UNCHANGED <<suspected, failed, running, pass, beaten, ghosted, bounds>>

PassBegin ==
    /\ running /\ todo = {} /\ ~calling
    /\ todo' = {a \in Address : Registered(a)}
    /\ overdue' = {a \in Address : nodes[a].late}
    /\ beaten' = {}
    /\ UNCHANGED <<nodes, suspected, failed, running, detached, calling, ghosted, bounds>>

\* Mutants: the limit is never reached; a node is suspected no earlier than it fails.
MissedOneLess(s) == IF s.missed + 1 < MaxMissed THEN s.missed + 1 ELSE s.missed
AtTheLimit == MaxMissed

\* Is the heartbeat still late, by the time at which the pass began?
Overdue(a) == IF detached[a] = NoStatus THEN a \in overdue ELSE detached[a].late

MissedOneMore(s) == IF s.missed < MaxMissed THEN s.missed + 1 ELSE s.missed
HalfTheLimit == MaxMissed \div 2

Suspect(s) == MissedOneMore(s) >= HalfTheLimit /\ s.state = "alive"
Fail(s) == MissedOneMore(s) >= MaxMissed /\ s.state # "failed"

Judged(s) ==
    [state |-> IF Fail(s) THEN "failed" ELSE IF Suspect(s) THEN "suspected" ELSE s.state,
     missed |-> MissedOneMore(s), late |-> s.late]

\* One node of the pass that is in time.
CheckInTime(a) ==
    /\ a \in todo /\ ~calling
    /\ ~Overdue(a)
    /\ todo' = todo \ {a}
    /\ detached' = [detached EXCEPT ![a] = NoStatus]
    /\ UNCHANGED <<nodes, suspected, failed, running, overdue, calling, beaten, ghosted, bounds>>

\* One that is late.  A node that fails may suspend the pass in a callback.
CheckLate(a) ==
    LET s == IF detached[a] = NoStatus THEN nodes[a] ELSE detached[a] IN
    /\ a \in todo /\ ~calling
    /\ Overdue(a)
    /\ nodes' = IF detached[a] = NoStatus THEN [nodes EXCEPT ![a] = Judged(s)] ELSE nodes
    /\ suspected' = IF Fail(s) THEN suspected \ {a}
                    ELSE IF Suspect(s) THEN suspected \cup {a} ELSE suspected
    /\ failed' = IF Fail(s) THEN failed \cup {a} ELSE failed
    /\ calling' \in IF Fail(s) THEN BOOLEAN ELSE {FALSE}
    /\ todo' = todo \ {a}
    /\ detached' = [detached EXCEPT ![a] = NoStatus]
    /\ UNCHANGED <<running, overdue, beaten, ghosted, bounds>>

\* The callbacks have returned or raised.
CallbackEnds ==
    /\ calling
    /\ calling' = FALSE
    /\ UNCHANGED <<nodes, suspected, failed, running, todo, overdue, detached, beaten, ghosted, bounds>>
-----------------------------------------------------------------------------
PassStep ==
    \/ PassBegin
    \/ \E a \in Address : CheckInTime(a) \/ CheckLate(a)
    \/ CallbackEnds

Next ==
    \/ Start
    \/ Stop
    \/ \E a \in Address : Heartbeat(a) \/ Unregister(a) \/ TimeOut(a)
    \/ PassStep

Spec == Init /\ [][Next]_vars

\* The loop goes on until stop(), callbacks return, time passes, and a node that
\* was stopped is started again.
FairSpec ==
    /\ Spec
    /\ WF_vars(PassStep) /\ WF_vars(Start)
    /\ \A a \in Address : WF_vars(TimeOut(a))
-----------------------------------------------------------------------------
\* A pass is under way only while the detector runs, and keeps old statuses only of
\* nodes that it has still to check.
TypeOK ==
    /\ nodes \in [Address -> Status] /\ detached \in [Address -> Status]
    /\ suspected \subseteq Address /\ failed \subseteq Address
    /\ running \in BOOLEAN /\ calling \in BOOLEAN
    /\ todo \subseteq Address /\ overdue \subseteq Address
    /\ beaten \subseteq Address /\ ghosted \subseteq Address
    /\ beats \in Nat /\ unregisters \in Nat /\ stops \in Nat
    /\ ~running => todo = {} /\ ~calling
    /\ \A a \in Address : detached[a] # NoStatus => a \in todo

\* is_suspected() and is_failed(), which ask the sets, agree with is_alive(), which
\* asks the status, unless the node was unregistered behind the back of a pass.
SetsAgree ==
    \A a \in Address \ ghosted :
        /\ a \in suspected <=> nodes[a].state = "suspected"
        /\ a \in failed <=> nodes[a].state = "failed"

\* A pass neither suspects nor declares failed a node that has beaten while it was
\* suspended, though it took the time before.
NoFalseAlarm ==
    [][\A a \in ((suspected' \cup failed') \ (suspected \cup failed)) \ ghosted : a \notin beaten]_vars

\* A node that is alive is suspected before it fails, if the limit is two or more:
\* one pass never takes it from alive to failed.
SuspectedFirst ==
    [][MaxMissed >= 2 => \A a \in Address : nodes[a].state = "alive" => nodes'[a].state # "failed"]_vars

\* When the nodes fall silent, every registered one is declared failed, whatever
\* callbacks, stops and unregistered nodes came in between.
SilentAreFailed == <>[](\A a \in Address : Registered(a) => a \in failed)
=============================================================================
