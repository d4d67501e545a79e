-------------------------------- MODULE Raft --------------------------------
(***************************************************************************)
(* RaftNode (src/consensus/raft.py) on every node of a cluster, with the   *)
(* part of MessagePassing (src/communication/message_passing.py) it runs   *)
(* over: elections, votes, heartbeats, append-entries, replicate_command,  *)
(* stop/start of the component and crash/restart of the process.           *)
(*                                                                         *)
(* A handler of raft.py awaits nothing that suspends, so each is one       *)
(* action; the interleaving is that of requests in flight between nodes.   *)
(* Time is abstracted: an election timeout may elapse at any moment, a     *)
(* request may take any time, and a lost request is one never handled.     *)
(***************************************************************************)
EXTENDS Integers, Sequences, FiniteSets

CONSTANTS
    Node,         \* the processes of the cluster
    Command,      \* what replicate_command is given
    Nil,          \* Python's None
    OwnAddress,   \* how a node's own address appears in CLUSTER_NODES (below)
    Posted,       \* message kinds that reach the endpoint from outside src/ (below)
    MaxTerm,      \* bound on the terms an election starts
    MaxElections, \* bound on the elections started, counted by the votes for oneself
    MaxLog,       \* bound on the length of a log
    MaxStops,     \* bound on component stops
    MaxRestarts   \* bound on process crashes

(***************************************************************************)
(* OwnAddress: broadcast_message leaves out the target that equals         *)
(* "node_host:node_port".                                                  *)
(*   "matched"    the node is listed under exactly that name;              *)
(*   "unmatched"  it is listed under another name, as in docker-compose.yml*)
(*                (node1:5001 against 0.0.0.0:5001) and by config.py's     *)
(*                defaults: the node broadcasts to itself too;             *)
(*   "absent"     the list holds the peers only, as in .env.example.       *)
(*                                                                         *)
(* Posted: send_message(wait_response=False) drops the body of the HTTP    *)
(* response, and no code under src/ posts a VOTE_RESPONSE or an            *)
(* APPEND_ENTRIES, though raft.py registers handlers for both.  {} is the  *)
(* repository as it is; a kind in Posted is delivered by other software    *)
(* (the integrated_node of Dockerfile.node is not in the repository).      *)
(***************************************************************************)
ASSUME NodeAssumption == IsFiniteSet(Node) /\ Nil \notin Node
ASSUME OwnAddressAssumption == OwnAddress \in {"matched", "unmatched", "absent"}
ASSUME PostedAssumption == Posted \subseteq {"vote_response", "append_entries"}
ASSUME BoundAssumption ==
    {MaxTerm, MaxElections, MaxLog, MaxStops, MaxRestarts} \subseteq Nat

VARIABLES
    currentTerm,    \* current_term, in memory only
    votedFor,       \* voted_for
    state,          \* "follower", "candidate" or "leader"
    votesReceived,  \* votes_received
    log,            \* log, a sequence of [term, command]
    commitIndex,    \* commit_index
    currentLeader,  \* current_leader: the node it names, or Nil
    running,        \* running, and with it the election timer task
    heartbeatTask,  \* is there a heartbeat task that was not cancelled?
    msgs,           \* requests posted and not yet handled
    votes,          \* history: every vote ever granted
    stops, restarts \* how often Stop and Restart have happened

serverVars == <<currentTerm, votedFor, state, votesReceived>>
logVars    == <<log, commitIndex>>
taskVars   == <<running, heartbeatTask>>
faultVars  == <<stops, restarts>>
vars == <<serverVars, logVars, currentLeader, taskVars, msgs, votes, faultVars>>
-----------------------------------------------------------------------------
ClusterLen == Cardinality(Node) - (IF OwnAddress = "absent" THEN 1 ELSE 0)

\* Mutants: all of the nodes; half of them.
Unanimity == Cardinality(Node)
HalfOfNodes == (ClusterLen + 1) \div 2

\* _handle_vote_response's majority: (len(cluster_nodes) + 1) // 2 + 1.
Majority == (ClusterLen + 1) \div 2 + 1

\* Mutant: one vote more than enough.
MoreThanEnoughVotes(S) == Cardinality(S) > Majority

EnoughVotes(S) == Cardinality(S) >= Majority

\* The nodes a broadcast of n reaches.
Targets(n) == IF OwnAddress = "unmatched" THEN Node ELSE Node \ {n}

\* Mutant: the sentinel of an empty log is that of LastIndex.
LastTermMinusOne(l) == IF l = << >> THEN -1 ELSE l[Len(l)].term

LastTerm(l) == IF l = << >> THEN 0 ELSE l[Len(l)].term
LastIndex(l) == Len(l) - 1

VoteRequest == [type : {"request_vote"}, term : Nat, src : Node, dst : Node,
                lastIndex : Int, lastTerm : Nat]
VoteResponse == [type : {"vote_response"}, term : Nat, src : Node, dst : Node,
                 granted : BOOLEAN]
LeaderMessage == [type : {"heartbeat", "append_entries"}, term : Nat,
                  src : Node, dst : Node]
Message == VoteRequest \cup VoteResponse \cup LeaderMessage

FromLeader(kind, n) ==
    {[type |-> kind, term |-> currentTerm[n], src |-> n, dst |-> d] : d \in Targets(n)}

Vote == [term : Nat, voter : Node, candidate : Node]

Init ==
    /\ currentTerm = [n \in Node |-> 0]
    /\ votedFor = [n \in Node |-> Nil]
    /\ state = [n \in Node |-> "follower"]
    /\ votesReceived = [n \in Node |-> {}]
    /\ log = [n \in Node |-> << >>]
    /\ commitIndex = [n \in Node |-> 0]
    /\ currentLeader = [n \in Node |-> Nil]
    /\ running = [n \in Node |-> TRUE]
    /\ heartbeatTask = [n \in Node |-> FALSE]
    /\ msgs = {}
    /\ votes = {}
    /\ stops = 0
    /\ restarts = 0
-----------------------------------------------------------------------------
\* The election timer of n finds the timeout elapsed and starts an election.
StartElection(n) ==
    /\ running[n]
    /\ state[n] # "leader"
    /\ currentTerm[n] < MaxTerm
    /\ Cardinality({v \in votes : v.voter = v.candidate}) < MaxElections
    /\ LET t == currentTerm[n] + 1 IN
       /\ state' = [state EXCEPT ![n] = "candidate"]
       /\ currentTerm' = [currentTerm EXCEPT ![n] = t]
       /\ votedFor' = [votedFor EXCEPT ![n] = n]
       /\ votesReceived' = [votesReceived EXCEPT ![n] = {n}]
       /\ votes' = votes \cup {[term |-> t, voter |-> n, candidate |-> n]}
       /\ msgs' = msgs \cup
              {[type |-> "request_vote", term |-> t, src |-> n, dst |-> d,
                lastIndex |-> LastIndex(log[n]), lastTerm |-> LastTerm(log[n])] :
                  d \in Targets(n)}
    /\ UNCHANGED <<logVars, currentLeader, taskVars, faultVars>>

\* Is the log the candidate described at least as up to date as l?
LogOk(m, l) ==
    \/ m.lastTerm > LastTerm(l)
    \/ m.lastTerm = LastTerm(l) /\ m.lastIndex >= LastIndex(l)

\* Mutant: the vote given before is not looked at.
VoteAlwaysFree(n, m) == m.term >= currentTerm[n]

\* The vote of n is free for candidate m.src in the term of m.  A newer term
\* forgets the vote of the older one.
VoteFree(n, m) ==
    \/ m.term > currentTerm[n]
    \/ m.term = currentTerm[n] /\ votedFor[n] \in {Nil, m.src}

HandleRequestVote(n) ==
    \E m \in msgs :
        /\ m.type = "request_vote" /\ m.dst = n
        /\ LET newer == m.term > currentTerm[n]
               term  == IF newer THEN m.term ELSE currentTerm[n]
               grant == VoteFree(n, m) /\ LogOk(m, log[n])
               reply == [type |-> "vote_response", term |-> term, src |-> n,
                         dst |-> m.src, granted |-> grant]
           IN /\ currentTerm' = [currentTerm EXCEPT ![n] = term]
              /\ state' = [state EXCEPT ![n] = IF newer THEN "follower" ELSE @]
              /\ votedFor' = [votedFor EXCEPT ![n] =
                                  IF grant THEN m.src ELSE IF newer THEN Nil ELSE @]
              /\ votes' = IF grant
                          THEN votes \cup {[term |-> m.term, voter |-> n,
                                            candidate |-> m.src]}
                          ELSE votes
              /\ msgs' = (msgs \ {m}) \cup
                         (IF "vote_response" \in Posted THEN {reply} ELSE {})
        /\ UNCHANGED <<votesReceived, logVars, currentLeader, taskVars, faultVars>>

\* The answer is counted only by a candidate, and only in its current term.
\* The heartbeat task a winner creates ends at once if the node was stopped.
HandleVoteResponse(n) ==
    \E m \in msgs :
        /\ m.type = "vote_response" /\ m.dst = n
        /\ LET counts == /\ state[n] = "candidate"
                         /\ m.granted /\ m.term = currentTerm[n]
               received == votesReceived[n] \cup {m.src}
               wins == counts /\ EnoughVotes(received)
           IN /\ votesReceived' = [votesReceived EXCEPT ![n] =
                                       IF counts THEN received ELSE @]
              /\ state' = [state EXCEPT ![n] = IF wins THEN "leader" ELSE @]
              /\ currentLeader' = [currentLeader EXCEPT ![n] = IF wins THEN n ELSE @]
              /\ heartbeatTask' = [heartbeatTask EXCEPT ![n] = IF wins THEN running[n] ELSE @]
        /\ msgs' = msgs \ {m}
        /\ UNCHANGED <<currentTerm, votedFor, logVars, running, votes, faultVars>>

\* One round of the heartbeat loop.
SendHeartbeats(n) ==
    /\ running[n] /\ heartbeatTask[n]
    /\ state[n] = "leader"
    /\ msgs' = msgs \cup FromLeader("heartbeat", n)
    /\ UNCHANGED <<serverVars, logVars, currentLeader, taskVars, votes, faultVars>>

\* A leader's append-entries, posted by software outside src/.
PostAppendEntries(n) ==
    /\ "append_entries" \in Posted
    /\ state[n] = "leader"
    /\ msgs' = msgs \cup FromLeader("append_entries", n)
    /\ UNCHANGED <<serverVars, logVars, currentLeader, taskVars, votes, faultVars>>

\* Mutant: the term of the sender is not compared.
FollowAnySender(n, m) ==
    /\ currentTerm' = [currentTerm EXCEPT ![n] = m.term]
    /\ state' = [state EXCEPT ![n] = "follower"]
    /\ UNCHANGED <<votedFor, votesReceived, logVars, taskVars, votes, faultVars>>

\* Mutant: a sender of the node's own term is not heard.
AcceptedIfNewer(n, m) == m.term > currentTerm[n]

Accepted(n, m) == m.term >= currentTerm[n]

\* What _handle_heartbeat and _handle_append_entries do alike: a message of a
\* term not older than the node's own makes it a follower of that term.  The
\* vote is left as it was, even when the term grows.
FollowSender(n, m) ==
    /\ currentTerm' = [currentTerm EXCEPT ![n] = IF Accepted(n, m) THEN m.term ELSE @]
    /\ state' = [state EXCEPT ![n] = IF Accepted(n, m) THEN "follower" ELSE @]
    /\ UNCHANGED <<votedFor, votesReceived, logVars, taskVars, votes, faultVars>>

\* Beats are periodic: an equal one may still be in flight after this one.
HandleHeartbeat(n) ==
    \E m \in msgs :
        /\ m.type = "heartbeat" /\ m.dst = n
        /\ FollowSender(n, m)
        /\ currentLeader' = [currentLeader EXCEPT ![n] = IF Accepted(n, m) THEN m.src ELSE @]
        /\ msgs' \in {msgs, msgs \ {m}}

\* The answer has no handler anywhere, so it is not modelled.
HandleAppendEntries(n) ==
    \E m \in msgs :
        /\ m.type = "append_entries" /\ m.dst = n
        /\ FollowSender(n, m)
        /\ msgs' = msgs \ {m}
        /\ UNCHANGED currentLeader

\* replicate_command returns TRUE on a leader: the entry is appended to the
\* leader's own log and committed at once, and nothing is sent.
ReplicateCommand(n, c) ==
    /\ state[n] = "leader"
    /\ Len(log[n]) < MaxLog
    /\ log' = [log EXCEPT ![n] = Append(@, [term |-> currentTerm[n], command |-> c])]
    /\ commitIndex' = [commitIndex EXCEPT ![n] = LastIndex(log[n]) + 1]
    /\ UNCHANGED <<serverVars, currentLeader, taskVars, msgs, votes, faultVars>>

\* stop() cancels both tasks; the handlers stay registered.
Stop(n) ==
    /\ running[n] /\ stops < MaxStops
    /\ running' = [running EXCEPT ![n] = FALSE]
    /\ heartbeatTask' = [heartbeatTask EXCEPT ![n] = FALSE]
    /\ stops' = stops + 1
    /\ UNCHANGED <<serverVars, logVars, currentLeader, msgs, votes, restarts>>

\* start() after a stop() creates the election timer only.
Start(n) ==
    /\ ~running[n]
    /\ running' = [running EXCEPT ![n] = TRUE]
    /\ UNCHANGED <<serverVars, logVars, currentLeader, heartbeatTask, msgs, votes, faultVars>>

\* The process of n dies and its container restarts it: nothing that raft.py
\* calls persistent was written anywhere.
Restart(n) ==
    /\ restarts < MaxRestarts
    /\ restarts' = restarts + 1
    /\ currentTerm' = [currentTerm EXCEPT ![n] = 0]
    /\ votedFor' = [votedFor EXCEPT ![n] = Nil]
    /\ state' = [state EXCEPT ![n] = "follower"]
    /\ votesReceived' = [votesReceived EXCEPT ![n] = {}]
    /\ log' = [log EXCEPT ![n] = << >>]
    /\ commitIndex' = [commitIndex EXCEPT ![n] = 0]
    /\ currentLeader' = [currentLeader EXCEPT ![n] = Nil]
    /\ running' = [running EXCEPT ![n] = TRUE]
    /\ heartbeatTask' = [heartbeatTask EXCEPT ![n] = FALSE]
    /\ UNCHANGED <<msgs, votes, stops>>
-----------------------------------------------------------------------------
NodeStep(n) ==
    \/ StartElection(n)
    \/ HandleRequestVote(n)
    \/ HandleVoteResponse(n)
    \/ SendHeartbeats(n)
    \/ PostAppendEntries(n)
    \/ HandleHeartbeat(n)
    \/ HandleAppendEntries(n)
    \/ \E c \in Command : ReplicateCommand(n, c)
    \/ Stop(n)
    \/ Start(n)

Next == \E n \in Node : NodeStep(n)
Spec == Init /\ [][Next]_vars

\* The same cluster whose processes may also crash.
CrashNext == \E n \in Node : NodeStep(n) \/ Restart(n)
CrashSpec == Init /\ [][CrashNext]_vars

\* A beat of s makes n its follower.
Follow(n, s) == HandleHeartbeat(n) /\ currentLeader'[n] = s

\* A heartbeat task keeps sending, a request that was posted reaches the server of a
\* node that is up, and asyncio runs its handler.  Nothing else is assumed to happen.
FairSpec ==
    /\ Spec
    /\ \A n \in Node :
          /\ WF_vars(HandleRequestVote(n)) /\ WF_vars(HandleVoteResponse(n))
          /\ WF_vars(SendHeartbeats(n))
          /\ \A s \in Node : WF_vars(Follow(n, s))
-----------------------------------------------------------------------------
TypeOK ==
    /\ currentTerm \in [Node -> Nat]
    /\ votedFor \in [Node -> Node \cup {Nil}]
    /\ state \in [Node -> {"follower", "candidate", "leader"}]
    /\ votesReceived \in [Node -> SUBSET Node]
    /\ log \in [Node -> Seq([term : Nat, command : Command])]
    /\ commitIndex \in [Node -> Int]
    /\ currentLeader \in [Node -> Node \cup {Nil}]
    /\ running \in [Node -> BOOLEAN]
    /\ heartbeatTask \in [Node -> BOOLEAN]
    /\ msgs \in SUBSET Message
    /\ votes \in SUBSET Vote
    /\ stops \in Nat /\ restarts \in Nat

\* The nodes that granted n their vote for term t, and whether they were enough.
Voters(n, t) == {m \in Node : [term |-> t, voter |-> m, candidate |-> n] \in votes}
Elected(n, t) == Cardinality(Voters(n, t)) >= Majority

(***************************************************************************)
(* The inductive invariant.  A vote stays in the voter's memory for as     *)
(* long as it can be asked again for the same term; whatever speaks for a  *)
(* vote (an answer, a counted vote) or for a victory (a leader, a message  *)
(* of one, a leader hint) is backed by votes that were granted.            *)
(***************************************************************************)
VotesRemembered ==
    \A v \in votes :
        \/ currentTerm[v.voter] > v.term
        \/ currentTerm[v.voter] = v.term /\ votedFor[v.voter] = v.candidate

OneVotePerTerm ==
    \A v, w \in votes : v.voter = w.voter /\ v.term = w.term => v = w

AnswersAreVotes ==
    \A m \in msgs : m.type = "vote_response" /\ m.granted =>
        [term |-> m.term, voter |-> m.src, candidate |-> m.dst] \in votes

CountedAreVotes ==
    \A n \in Node : state[n] # "follower" => votesReceived[n] \subseteq Voters(n, currentTerm[n])

LeadersAreElected ==
    \A n \in Node : state[n] = "leader" => Elected(n, currentTerm[n])

LeaderMessagesAreElected ==
    \A m \in msgs : m.type \in {"heartbeat", "append_entries"} => Elected(m.src, m.term)

\* A leader hint always names a node that has won an election, and of a term
\* its holder has reached; it may have lost the leadership since.
HintNamesAWinner ==
    \A n \in Node : currentLeader[n] # Nil =>
        \E t \in 0 .. currentTerm[n] : Elected(currentLeader[n], t)

\* Nothing a node believes about votes and leaders is unfounded: the
\* inductive strengthening of ElectionSafety.
ElectionInv ==
    /\ VotesRemembered
    /\ OneVotePerTerm
    /\ AnswersAreVotes
    /\ CountedAreVotes
    /\ LeadersAreElected
    /\ LeaderMessagesAreElected
    /\ HintNamesAWinner
-----------------------------------------------------------------------------
\* No two nodes lead in the same term: _handle_request_vote gives one vote a
\* term, _handle_vote_response asks for more than half of them.
ElectionSafety ==
    \A m, n \in Node :
        state[m] = "leader" /\ state[n] = "leader" /\ currentTerm[m] = currentTerm[n] => m = n

\* A leader steps down for a term newer than its own, or because a message of its own came
\* back to it: in the term it leads, no other node can make it a follower.  Where a node is
\* listed under another name than its own (OwnAddress = "unmatched"), its first heartbeat does.
NobodyElseDeposes ==
    [][\A n \in Node : state[n] = "leader" /\ state'[n] # "leader" =>
            \/ currentTerm'[n] > currentTerm[n]
            \/ \E m \in msgs : /\ m.type \in {"heartbeat", "append_entries"}
                              /\ m.src = n /\ m.dst = n /\ m.term = currentTerm[n]
                              /\ msgs \ msgs' \subseteq {m} /\ currentLeader'[n] = n]_vars

\* "Safety (consistency guarantee)" (raft.py:51): entries that replicate_command reported as
\* committed never conflict, no two nodes hold different ones at the same index.
LogsAgree ==
    \A m, n \in Node :
        \A i \in 1 .. Len(log[m]) : i <= Len(log[n]) => log[m][i] = log[n][i]

\* A candidate that enough nodes have voted for becomes the leader of that
\* term, unless it leaves the term first.
ElectionCompletes ==
    \A n \in Node : \A t \in 1 .. MaxTerm :
        state[n] = "candidate" /\ currentTerm[n] = t /\ Elected(n, t)
            ~> state[n] = "leader" \/ currentTerm[n] # t

\* Every node comes to name a leader whose heartbeat task runs, unless one of them leaves
\* the term first.  A leader that was stopped and started again has no such task.
LeaderIsKnown ==
    \A n, s \in Node : \A t \in 1 .. MaxTerm :
        []<>(state[s] = "leader" /\ heartbeatTask[s] /\ currentTerm[s] = t
                => currentLeader[n] = s \/ currentTerm[n] > t)

\* More than half of the nodes never wait for a candidate that has their votes
\* and all of whose answers were handled, and yet is not their leader.
MajorityWins ==
    \A n \in Node :
        state[n] = "candidate" => 2 * Cardinality(votesReceived[n]) <= Cardinality(Node)

(***************************************************************************)
(* The abstract specification: terms are won at most once, and a node      *)
(* leads only in terms it has won.                                         *)
(***************************************************************************)
Won == {[term |-> v.term, node |-> v.candidate] : v \in {w \in votes : Elected(w.candidate, w.term)}}
Leads == [n \in Node |-> IF state[n] = "leader" THEN currentTerm[n] ELSE 0]

L == INSTANCE Leadership WITH won <- Won, leads <- Leads

\* The votes and states of raft.py implement the election of one leader a term.
RefinesLeadership == L!Spec
=============================================================================
