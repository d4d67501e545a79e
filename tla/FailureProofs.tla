---------------------------- MODULE FailureProofs ----------------------------
(***************************************************************************)
(* Proofs about the failure detector, for any addresses, any limit of      *)
(* missed heartbeats and any number of calls.  The invariant adds to the   *)
(* agreement of sets and statuses what a pass relies on: who is in its     *)
(* copy is registered or was unregistered behind its back, who has beaten  *)
(* is not late, and who is alive has missed less than half the limit.      *)
(***************************************************************************)
EXTENDS FailureDetector, TLAPS

CopyFounded ==
    \A a \in Address :
        /\ detached[a] # NoStatus => a \in ghosted
        /\ a \in todo /\ detached[a] = NoStatus => Registered(a)

BeatenInTime == beaten \cap overdue = {}

AliveMissedFew ==
    \A a \in Address : nodes[a].state = "alive" => nodes[a].missed = 0 \/ nodes[a].missed < HalfTheLimit

DetectorInv == TypeOK /\ SetsAgree /\ CopyFounded /\ BeatenInTime /\ AliveMissedFew
-----------------------------------------------------------------------------
LEMMA Statuses ==
    /\ NoStatus \in Status /\ NewStatus \in Status
    /\ NewStatus.state = "alive" /\ NewStatus.missed = 0
    /\ NoStatus.state = "unregistered"
BY MissedAssumption DEF NoStatus, NewStatus, Status, NodeState

\* What a late heartbeat does to a status.
LEMMA JudgedStatus ==
    ASSUME NEW s \in Status, s.state # "unregistered"
    PROVE  /\ Judged(s) \in Status
           /\ Judged(s).state # "unregistered"
           /\ Fail(s) => Judged(s).state = "failed"
           /\ ~Fail(s) /\ Suspect(s) => s.state = "alive" /\ Judged(s).state = "suspected"
           /\ ~Fail(s) /\ ~Suspect(s) => Judged(s).state = s.state
           /\ Judged(s).state = "alive" => Judged(s).missed < HalfTheLimit
<1>1. MissedOneMore(s) \in 0 .. MaxMissed
  BY MissedAssumption DEF MissedOneMore, Status
<1>2. Judged(s) = [state |-> IF Fail(s) THEN "failed" ELSE IF Suspect(s) THEN "suspected" ELSE s.state,
                   missed |-> MissedOneMore(s), late |-> s.late]
  BY DEF Judged
<1>3. Judged(s) \in Status
  BY <1>1, <1>2 DEF Status, NodeState
<1>4. Judged(s).state = "alive" => ~Suspect(s) /\ s.state = "alive"
  BY <1>2 DEF Fail
<1>5. HalfTheLimit \in Nat
  BY MissedAssumption DEF HalfTheLimit
<1>6. Judged(s).state = "alive" => Judged(s).missed < HalfTheLimit
  BY <1>1, <1>2, <1>4, <1>5 DEF Suspect
<1> QED BY <1>2, <1>3, <1>6 DEF Suspect

LEMMA HalfIsLess == MaxMissed >= 2 => HalfTheLimit \in Nat /\ HalfTheLimit < MaxMissed
BY MissedAssumption DEF HalfTheLimit

LEMMA InitDetector == Init => DetectorInv
<1> SUFFICES ASSUME Init PROVE DetectorInv
  OBVIOUS
<1>1. TypeOK
  BY Statuses DEF Init, TypeOK
<1>2. \A a \in Address : nodes[a].state = "unregistered"
  BY Statuses DEF Init
<1>3. SetsAgree /\ CopyFounded /\ BeatenInTime /\ AliveMissedFew
  BY <1>2 DEF Init, SetsAgree, CopyFounded, BeatenInTime, AliveMissedFew
<1> QED BY <1>1, <1>3 DEF DetectorInv

LEMMA StartKeeps == DetectorInv /\ Start => DetectorInv'
<1> SUFFICES ASSUME DetectorInv, Start PROVE DetectorInv'
  OBVIOUS
<1>1. \A a \in Address : nodes'[a] = nodes[a] \/ (~Registered(a) /\ nodes'[a] = NewStatus)
  BY DEF Start
<1>2. TypeOK'
  BY Statuses, <1>1 DEF Start, DetectorInv, TypeOK, pass, bounds
<1>3. SetsAgree'
  BY Statuses, <1>1 DEF Start, DetectorInv, SetsAgree, Registered
<1>4. CopyFounded'
  BY Statuses, <1>1 DEF Start, DetectorInv, CopyFounded, Registered, pass
<1>5. BeatenInTime' /\ AliveMissedFew'
  BY Statuses, <1>1 DEF Start, DetectorInv, BeatenInTime, AliveMissedFew, pass, HalfTheLimit
<1> QED BY <1>2, <1>3, <1>4, <1>5 DEF DetectorInv

LEMMA StopKeeps == DetectorInv /\ Stop => DetectorInv'
<1> SUFFICES ASSUME DetectorInv, Stop PROVE DetectorInv'
  OBVIOUS
<1>1. TypeOK'
  <2>1. detached' \in [Address -> Status] /\ \A a \in Address : detached'[a] = NoStatus
    BY Statuses DEF Stop
  <2>2. stops' \in Nat
    BY DEF Stop, DetectorInv, TypeOK
  <2> QED BY <2>1, <2>2 DEF Stop, Abandoned, DetectorInv, TypeOK
<1>2. SetsAgree' /\ BeatenInTime' /\ AliveMissedFew'
  BY DEF Stop, DetectorInv, SetsAgree, BeatenInTime, AliveMissedFew, HalfTheLimit
<1>3. CopyFounded'
  BY DEF Stop, Abandoned, DetectorInv, CopyFounded
<1> QED BY <1>1, <1>2, <1>3 DEF DetectorInv

LEMMA HeartbeatKeeps ==
    ASSUME DetectorInv, NEW a \in Address, Heartbeat(a)
    PROVE  DetectorInv'
<1> DEFINE old == IF Registered(a) THEN nodes[a] ELSE NewStatus
           down == old.state \in {"failed", "suspected"}
           new == [state |-> IF down THEN "recovering" ELSE "alive", missed |-> 0, late |-> FALSE]
<1>1. new \in Status /\ new.state \in {"recovering", "alive"} /\ new.missed = 0
  BY MissedAssumption DEF Status, NodeState
<1>2. /\ nodes' = [nodes EXCEPT ![a] = new]
      /\ suspected' = IF down THEN suspected \ {a} ELSE suspected
      /\ failed' = IF down THEN failed \ {a} ELSE failed
      /\ overdue' = overdue \ {a} /\ beaten' = beaten \cup {a} /\ beats' = beats + 1
      /\ UNCHANGED <<running, todo, detached, calling, ghosted, unregisters, stops>>
  BY DEF Heartbeat, Unlisted, StillOverdue
<1>3. ~down => nodes[a].state \notin {"failed", "suspected"}
  BY DEF Registered
<1> HIDE DEF new, down
<1>4. nodes \in [Address -> Status]
  BY DEF DetectorInv, TypeOK
<1>5. nodes'[a] = new /\ \A b \in Address \ {a} : nodes'[b] = nodes[b]
  BY <1>2, <1>4
<1>6. TypeOK'
  BY <1>1, <1>2, <1>4 DEF DetectorInv, TypeOK
<1>7. SetsAgree'
  BY <1>1, <1>2, <1>3, <1>5 DEF DetectorInv, SetsAgree
<1>8. CopyFounded'
  BY <1>1, <1>2, <1>5 DEF DetectorInv, CopyFounded, Registered
<1>9. BeatenInTime' /\ AliveMissedFew'
  BY <1>1, <1>2, <1>5 DEF DetectorInv, BeatenInTime, AliveMissedFew, HalfTheLimit
<1> QED BY <1>6, <1>7, <1>8, <1>9 DEF DetectorInv

LEMMA UnregisterKeeps ==
    ASSUME DetectorInv, NEW a \in Address, Unregister(a)
    PROVE  DetectorInv'
<1> DEFINE old == [nodes[a] EXCEPT !.late = a \in overdue]
<1>1. nodes \in [Address -> Status] /\ detached \in [Address -> Status]
  BY DEF DetectorInv, TypeOK
<1>2. old \in Status /\ old.state # "unregistered" /\ old # NoStatus
  <2>1. old = [state |-> nodes[a].state, missed |-> nodes[a].missed, late |-> a \in overdue]
    BY <1>1 DEF Status
  <2>2. (a \in overdue) \in BOOLEAN
    OBVIOUS
  <2> QED BY <2>1, <2>2, <1>1, Statuses DEF Unregister, Registered, Status
<1>3. /\ nodes' = [nodes EXCEPT ![a] = NoStatus]
      /\ suspected' = suspected \ {a} /\ failed' = failed \ {a} /\ overdue' = overdue \ {a}
      /\ detached' = IF Copied(a) THEN [detached EXCEPT ![a] = old] ELSE detached
      /\ ghosted' = IF a \in todo THEN ghosted \cup {a} ELSE ghosted
      /\ unregisters' = unregisters + 1
      /\ UNCHANGED <<running, todo, calling, beaten, beats, stops>>
  BY DEF Unregister
<1> HIDE DEF old
<1>4. nodes'[a] = NoStatus /\ \A b \in Address \ {a} : nodes'[b] = nodes[b] /\ detached'[b] = detached[b]
  BY <1>1, <1>3
<1>5. detached'[a] = IF Copied(a) THEN old ELSE detached[a]
  BY <1>1, <1>3
<1>6. TypeOK'
  BY <1>1, <1>2, <1>3, <1>5, Statuses DEF DetectorInv, TypeOK, Copied
<1>7. SetsAgree'
  BY <1>3, <1>4, Statuses DEF DetectorInv, SetsAgree
<1>8. CopyFounded'
  BY <1>2, <1>3, <1>4, <1>5 DEF DetectorInv, CopyFounded, Registered, Copied
<1>9. BeatenInTime' /\ AliveMissedFew'
  BY <1>3, <1>4, Statuses DEF DetectorInv, BeatenInTime, AliveMissedFew, HalfTheLimit
<1> QED BY <1>6, <1>7, <1>8, <1>9 DEF DetectorInv

LEMMA TimeOutKeeps ==
    ASSUME DetectorInv, NEW a \in Address, TimeOut(a)
    PROVE  DetectorInv'
<1>1. nodes \in [Address -> Status]
  BY DEF DetectorInv, TypeOK
<1>2. nodes' \in [Address -> Status] /\ \A b \in Address : nodes'[b].state = nodes[b].state /\ nodes'[b].missed = nodes[b].missed
  BY <1>1 DEF TimeOut, Status
<1>3. UNCHANGED <<suspected, failed, running, todo, overdue, detached, calling, beaten, ghosted, bounds>>
  BY DEF TimeOut, pass
<1>4. TypeOK'
  BY <1>2, <1>3 DEF DetectorInv, TypeOK, bounds
<1>5. SetsAgree' /\ CopyFounded' /\ BeatenInTime' /\ AliveMissedFew'
  BY <1>2, <1>3 DEF DetectorInv, SetsAgree, CopyFounded, BeatenInTime, AliveMissedFew, Registered, HalfTheLimit
<1> QED BY <1>4, <1>5 DEF DetectorInv

LEMMA PassBeginKeeps == DetectorInv /\ PassBegin => DetectorInv'
<1> SUFFICES ASSUME DetectorInv, PassBegin PROVE DetectorInv'
  OBVIOUS
<1>1. TypeOK'
  BY DEF PassBegin, DetectorInv, TypeOK, bounds
<1>2. SetsAgree' /\ BeatenInTime' /\ AliveMissedFew'
  BY DEF PassBegin, DetectorInv, SetsAgree, BeatenInTime, AliveMissedFew, HalfTheLimit
<1>3. CopyFounded'
  BY DEF PassBegin, DetectorInv, CopyFounded, Registered
<1> QED BY <1>1, <1>2, <1>3 DEF DetectorInv

LEMMA CheckInTimeKeeps ==
    ASSUME DetectorInv, NEW a \in Address, CheckInTime(a)
    PROVE  DetectorInv'
<1>1. TypeOK'
  BY Statuses DEF CheckInTime, DetectorInv, TypeOK, bounds
<1>2. SetsAgree' /\ BeatenInTime' /\ AliveMissedFew'
  BY DEF CheckInTime, DetectorInv, SetsAgree, BeatenInTime, AliveMissedFew, HalfTheLimit
<1>3. CopyFounded'
  BY DEF CheckInTime, DetectorInv, CopyFounded, Registered, TypeOK
<1> QED BY <1>1, <1>2, <1>3 DEF DetectorInv

LEMMA CheckLateKeeps ==
    ASSUME DetectorInv, NEW a \in Address, CheckLate(a)
    PROVE  DetectorInv'
<1>1. nodes \in [Address -> Status] /\ detached \in [Address -> Status]
  BY DEF DetectorInv, TypeOK
<1>2. /\ a \in todo /\ ~calling /\ todo' = todo \ {a}
      /\ detached' = [detached EXCEPT ![a] = NoStatus]
      /\ calling' \in BOOLEAN
      /\ UNCHANGED <<running, overdue, beaten, ghosted, bounds>>
  BY DEF CheckLate
<1>3. CASE detached[a] = NoStatus
  <2> DEFINE s == nodes[a]
  <2>1. s \in Status /\ s.state # "unregistered"
    BY <1>1, <1>2, <1>3 DEF DetectorInv, CopyFounded, Registered
  <2>2. /\ nodes' = [nodes EXCEPT ![a] = Judged(s)]
        /\ suspected' = IF Fail(s) THEN suspected \ {a}
                        ELSE IF Suspect(s) THEN suspected \cup {a} ELSE suspected
        /\ failed' = IF Fail(s) THEN failed \cup {a} ELSE failed
    BY <1>3 DEF CheckLate
  <2>3. nodes'[a] = Judged(s) /\ \A b \in Address \ {a} : nodes'[b] = nodes[b]
    BY <1>1, <2>2
  <2>4. TypeOK'
    BY <1>1, <1>2, <2>1, <2>2, JudgedStatus, Statuses DEF DetectorInv, TypeOK, bounds
  <2>5. SetsAgree'
    <3>1. ASSUME NEW b \in Address \ ghosted', b # a
          PROVE  (b \in suspected' <=> nodes'[b].state = "suspected") /\ (b \in failed' <=> nodes'[b].state = "failed")
      BY <3>1, <1>2, <2>2, <2>3 DEF DetectorInv, SetsAgree
    <3>2. a \notin ghosted' => /\ a \in suspected' <=> nodes'[a].state = "suspected"
                               /\ a \in failed' <=> nodes'[a].state = "failed"
      <4>1. a \notin ghosted => /\ a \in suspected <=> s.state = "suspected"
                                /\ a \in failed <=> s.state = "failed"
        BY DEF DetectorInv, SetsAgree
      <4>2. CASE Fail(s)
        BY <4>1, <4>2, <1>2, <2>1, <2>2, <2>3, JudgedStatus
      <4>3. CASE ~Fail(s) /\ Suspect(s)
        BY <4>1, <4>3, <1>2, <2>1, <2>2, <2>3, JudgedStatus
      <4>4. CASE ~Fail(s) /\ ~Suspect(s)
        BY <4>1, <4>4, <1>2, <2>1, <2>2, <2>3, JudgedStatus
      <4> QED BY <4>2, <4>3, <4>4
    <3> QED BY <3>1, <3>2 DEF SetsAgree
  <2>6. CopyFounded'
    BY <1>1, <1>2, <2>3 DEF DetectorInv, CopyFounded, Registered
  <2>7. BeatenInTime' /\ AliveMissedFew'
    BY <1>2, <2>1, <2>3, JudgedStatus DEF DetectorInv, BeatenInTime, AliveMissedFew, HalfTheLimit
  <2> QED BY <2>4, <2>5, <2>6, <2>7 DEF DetectorInv
<1>4. CASE detached[a] # NoStatus
  <2>1. a \in ghosted
    BY <1>4 DEF DetectorInv, CopyFounded
  <2>2. /\ nodes' = nodes
        /\ \A b \in Address \ {a} : (b \in suspected' <=> b \in suspected) /\ (b \in failed' <=> b \in failed)
        /\ suspected' \subseteq suspected \cup {a} /\ failed' \subseteq failed \cup {a}
    BY <1>4 DEF CheckLate
  <2>3. TypeOK'
    BY <1>1, <1>2, <2>2, Statuses DEF DetectorInv, TypeOK, bounds
  <2>4. SetsAgree'
    BY <1>2, <2>1, <2>2 DEF DetectorInv, SetsAgree
  <2>5. CopyFounded' /\ BeatenInTime' /\ AliveMissedFew'
    BY <1>1, <1>2, <2>2 DEF DetectorInv, CopyFounded, Registered, BeatenInTime, AliveMissedFew, HalfTheLimit
  <2> QED BY <2>3, <2>4, <2>5 DEF DetectorInv
<1> QED BY <1>3, <1>4

LEMMA CallbackEndsKeeps == DetectorInv /\ CallbackEnds => DetectorInv'
<1> SUFFICES ASSUME DetectorInv, CallbackEnds PROVE DetectorInv'
  OBVIOUS
<1>1. TypeOK'
  BY DEF CallbackEnds, bounds, DetectorInv, TypeOK
<1>2. SetsAgree' /\ CopyFounded' /\ BeatenInTime' /\ AliveMissedFew'
  BY DEF CallbackEnds, DetectorInv, SetsAgree, CopyFounded, BeatenInTime, AliveMissedFew, Registered, HalfTheLimit
<1> QED BY <1>1, <1>2 DEF DetectorInv

LEMMA NextDetector == DetectorInv /\ [Next]_vars => DetectorInv'
<1> SUFFICES ASSUME DetectorInv, [Next]_vars PROVE DetectorInv'
  OBVIOUS
<1>1. CASE UNCHANGED vars
  BY <1>1 DEF vars, pass, bounds, DetectorInv, TypeOK, SetsAgree, CopyFounded, BeatenInTime, AliveMissedFew,
              Registered, HalfTheLimit
<1> QED BY <1>1, StartKeeps, StopKeeps, HeartbeatKeeps, UnregisterKeeps, TimeOutKeeps, PassBeginKeeps,
           CheckInTimeKeeps, CheckLateKeeps, CallbackEndsKeeps DEF Next, PassStep
-----------------------------------------------------------------------------
LEMMA DetectorInvariant == Spec => []DetectorInv
BY InitDetector, NextDetector, PTL DEF Spec

\* Every variable keeps its type, and a pass is under way only while the detector runs.
THEOREM DetectorTypeCorrect == Spec => []TypeOK
<1>1. DetectorInv => TypeOK
  BY DEF DetectorInv
<1> QED BY DetectorInvariant, <1>1, PTL

\* The sets of suspected and failed nodes agree with the statuses, except for nodes
\* that were unregistered while a pass still had to check them.
THEOREM SetsAlwaysAgree == Spec => []SetsAgree
<1>1. DetectorInv => SetsAgree
  BY DEF DetectorInv
<1> QED BY DetectorInvariant, <1>1, PTL

\* Only a late heartbeat makes a node suspected or failed.
LEMMA WhoIsListed ==
    ASSUME DetectorInv, [Next]_vars,
           NEW a \in ((suspected' \cup failed') \ (suspected \cup failed)) \ ghosted
    PROVE  a \notin beaten
<1>1. CASE \E b \in Address : CheckLate(b)
  <2>1. PICK b \in Address : CheckLate(b)
    BY <1>1
  <2>2. suspected' \cup failed' \subseteq suspected \cup failed \cup {b}
    BY <2>1 DEF CheckLate
  <2>3. a = b /\ a \in Address
    BY <2>2
  <2>4. detached[b] = NoStatus
    BY <2>3 DEF DetectorInv, CopyFounded
  <2> QED BY <2>1, <2>3, <2>4 DEF CheckLate, Overdue, DetectorInv, BeatenInTime
<1>2. CASE ~\E b \in Address : CheckLate(b)
  <2>1. suspected' \cup failed' \subseteq suspected \cup failed
    BY <1>2 DEF Next, PassStep, Start, Stop, Heartbeat, Unlisted, Unregister, TimeOut, PassBegin, CheckInTime,
                CallbackEnds, vars
  <2> QED BY <2>1
<1> QED BY <1>1, <1>2

\* A node that beat while the pass was suspended is neither suspected nor declared failed by it.
THEOREM NoAlarmAfterBeat == Spec => NoFalseAlarm
<1>1. DetectorInv /\ [Next]_vars =>
        [\A a \in ((suspected' \cup failed') \ (suspected \cup failed)) \ ghosted : a \notin beaten]_vars
  BY WhoIsListed
<1> QED BY DetectorInvariant, <1>1, PTL DEF Spec, NoFalseAlarm

LEMMA AliveIsNotFailed ==
    ASSUME DetectorInv, [Next]_vars, MaxMissed >= 2, NEW a \in Address, nodes[a].state = "alive"
    PROVE  nodes'[a].state # "failed"
<1>1. nodes \in [Address -> Status]
  BY DEF DetectorInv, TypeOK
<1>2. ASSUME NEW b \in Address, CheckLate(b)
      PROVE  nodes'[a].state # "failed"
  <2>1. CASE a = b /\ detached[b] = NoStatus
    <3>1. nodes'[a] = Judged(nodes[a])
      BY <1>1, <1>2, <2>1 DEF CheckLate
    <3>2. nodes[a].missed \in Nat /\ (nodes[a].missed = 0 \/ nodes[a].missed < HalfTheLimit)
      BY <1>1 DEF DetectorInv, AliveMissedFew, Status
    <3>3. ~Fail(nodes[a])
      BY <3>2, HalfIsLess, MissedAssumption DEF Fail, MissedOneMore
    <3>4. Judged(nodes[a]).state \in {"suspected", "alive"}
      BY <1>1, <3>3, JudgedStatus
    <3> QED BY <3>1, <3>4
  <2>2. CASE ~(a = b /\ detached[b] = NoStatus)
    <3>1. nodes'[a] = nodes[a]
      BY <1>1, <1>2, <2>2 DEF CheckLate
    <3> QED BY <3>1
  <2> QED BY <2>1, <2>2
<1>3. ASSUME NEW b \in Address, Heartbeat(b)
      PROVE  nodes'[a].state # "failed"
  BY <1>1, <1>3 DEF Heartbeat
<1>4. ASSUME NEW b \in Address, Unregister(b) \/ TimeOut(b) \/ CheckInTime(b)
      PROVE  nodes'[a].state # "failed"
  BY <1>1, <1>4, Statuses DEF Unregister, TimeOut, CheckInTime, Status
<1>5. CASE Start \/ Stop \/ PassBegin \/ CallbackEnds \/ UNCHANGED vars
  BY <1>5, Statuses DEF Start, Stop, PassBegin, CallbackEnds, vars
<1> QED BY <1>2, <1>3, <1>4, <1>5 DEF Next, PassStep

\* With a limit of two or more, no pass takes a node from alive to failed.
THEOREM SuspicionComesFirst == Spec => SuspectedFirst
<1>1. DetectorInv /\ [Next]_vars =>
        [MaxMissed >= 2 => \A a \in Address : nodes[a].state = "alive" => nodes'[a].state # "failed"]_vars
  BY AliveIsNotFailed
<1> QED BY DetectorInvariant, <1>1, PTL DEF Spec, SuspectedFirst
=============================================================================
