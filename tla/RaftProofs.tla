----------------------------- MODULE RaftProofs -----------------------------
(***************************************************************************)
(* For every cluster, every way of listing it and every bound: elections   *)
(* of raft.py are safe as long as no process crashes, and implement        *)
(* Leadership.  The lemmas about quorums come first, then types, then the  *)
(* inductive invariant ElectionInv, one step per action.                   *)
(***************************************************************************)
EXTENDS Raft, FiniteSetTheorems, SequenceTheorems, TLAPS

USE NodeAssumption, OwnAddressAssumption, PostedAssumption

LEMMA MajorityIsMajority == Majority \in Int /\ 2 * Majority > Cardinality(Node)
<1>1. Cardinality(Node) \in Nat
  BY FS_CardinalityType
<1>2. QED
  BY <1>1 DEF Majority, ClusterLen

\* Votes are never withdrawn, so neither are victories.
LEMMA ElectedForEver ==
    ASSUME NEW n, NEW t, votes \subseteq votes', Elected(n, t)
    PROVE  Elected(n, t)'
<1>1. Voters(n, t) \subseteq Voters(n, t)' /\ Voters(n, t)' \subseteq Node
  BY DEF Voters
<1>2. /\ IsFiniteSet(Voters(n, t)')
      /\ Cardinality(Voters(n, t)) \in Nat /\ Cardinality(Voters(n, t)') \in Nat
      /\ Cardinality(Voters(n, t)) <= Cardinality(Voters(n, t)')
  <2>1. IsFiniteSet(Voters(n, t)')
    BY <1>1, FS_Subset
  <2>2. QED
    BY <1>1, <2>1, FS_Subset, FS_CardinalityType
<1>3. QED
  BY <1>2, MajorityIsMajority DEF Elected

\* Any two sets of enough voters have one in common.
LEMMA QuorumsIntersect ==
    ASSUME NEW A \in SUBSET Node, NEW B \in SUBSET Node,
           Cardinality(A) >= Majority, Cardinality(B) >= Majority
    PROVE  A \cap B # {}
<1>1. Cardinality(A) \in Nat /\ Cardinality(B) \in Nat /\ Cardinality(Node) \in Nat
  BY FS_Subset, FS_CardinalityType
<1>2. Cardinality(A) + Cardinality(B) > Cardinality(Node)
  BY <1>1, MajorityIsMajority
<1>3. QED
  BY <1>2, FS_MajoritiesIntersect

\* Two nodes cannot both have enough votes of one term.
LEMMA QuorumsMeet ==
    ASSUME OneVotePerTerm, NEW m, NEW n, NEW t, Elected(m, t), Elected(n, t)
    PROVE  m = n
<1>1. Voters(m, t) \in SUBSET Node /\ Voters(n, t) \in SUBSET Node
  BY DEF Voters
<1>2. Voters(m, t) \cap Voters(n, t) # {}
  BY <1>1, QuorumsIntersect DEF Elected
<1>3. QED
  BY <1>2 DEF Voters, OneVotePerTerm

\* Enough counted votes are enough votes.
LEMMA CountedElects ==
    ASSUME NEW n, NEW t, NEW S, S \subseteq Voters(n, t), Cardinality(S) >= Majority
    PROVE  Elected(n, t)
<1>1. IsFiniteSet(Voters(n, t))
  BY FS_Subset DEF Voters
<1>2. Cardinality(S) <= Cardinality(Voters(n, t)) /\ Cardinality(S) \in Nat
  BY <1>1, FS_Subset, FS_CardinalityType
<1>3. QED
  BY <1>1, <1>2, MajorityIsMajority, FS_CardinalityType DEF Elected

LEMMA LastEntryType ==
    ASSUME NEW l \in Seq([term : Nat, command : Command])
    PROVE  LastTerm(l) \in Nat /\ LastIndex(l) \in Int
<1>1. CASE l = << >>
  BY <1>1 DEF LastTerm, LastIndex
<1>2. CASE l # << >>
  <2>1. Len(l) \in 1 .. Len(l)
    BY <1>2, EmptySeq
  <2>2. l[Len(l)] \in [term : Nat, command : Command]
    BY <2>1, ElementOfSeq
  <2>3. Len(l) \in Nat
    BY LenProperties
  <2>4. QED
    BY <1>2, <2>2, <2>3 DEF LastTerm, LastIndex
<1>3. QED
  BY <1>1, <1>2
-----------------------------------------------------------------------------
LEMMA InitTypeOK == Init => TypeOK
BY DEF Init, TypeOK

\* What the messages in flight are, by their type.
LEMMA MessageKinds ==
    ASSUME TypeOK, NEW m \in msgs
    PROVE  /\ m.type = "request_vote" => m \in VoteRequest
           /\ m.type = "vote_response" => m \in VoteResponse
           /\ m.type \in {"heartbeat", "append_entries"} => m \in LeaderMessage
           /\ m.term \in Nat /\ m.src \in Node /\ m.dst \in Node
BY DEF TypeOK, Message, VoteRequest, VoteResponse, LeaderMessage

LEMMA FromLeaderType ==
    ASSUME TypeOK, NEW n \in Node, NEW kind \in {"heartbeat", "append_entries"}
    PROVE  FromLeader(kind, n) \subseteq Message
BY DEF TypeOK, FromLeader, Targets, Message, LeaderMessage

LEMMA StepTypeOK == TypeOK /\ [Next]_vars => TypeOK'
<1> SUFFICES ASSUME TypeOK, [Next]_vars
             PROVE  TypeOK'
  OBVIOUS
<1>1. ASSUME NEW n \in Node, StartElection(n)
      PROVE  TypeOK'
  <2>1. LastTerm(log[n]) \in Nat /\ LastIndex(log[n]) \in Int
    BY LastEntryType DEF TypeOK
  <2>2. Targets(n) \subseteq Node
    BY DEF Targets
  <2>3. msgs' \in SUBSET Message
    BY <1>1, <2>1, <2>2 DEF StartElection, TypeOK, Message, VoteRequest
  <2>4. votes' \in SUBSET Vote
    BY <1>1 DEF StartElection, TypeOK, Vote
  <2>5. /\ currentTerm' \in [Node -> Nat] /\ votedFor' \in [Node -> Node \cup {Nil}]
        /\ state' \in [Node -> {"follower", "candidate", "leader"}]
        /\ votesReceived' \in [Node -> SUBSET Node]
    BY <1>1 DEF StartElection, TypeOK
  <2>6. QED
    BY <1>1, <2>3, <2>4, <2>5 DEF StartElection, TypeOK, logVars, taskVars, faultVars
<1>2. ASSUME NEW n \in Node, HandleRequestVote(n)
      PROVE  TypeOK'
  <2>1. PICK m \in msgs : HandleRequestVote(n)!(m)
    BY <1>2 DEF HandleRequestVote
  <2>2. m.term \in Nat /\ m.src \in Node
    BY MessageKinds
  <2>3. msgs' \in SUBSET Message
    <3> DEFINE grant == VoteFree(n, m) /\ LogOk(m, log[n])
               term  == IF m.term > currentTerm[n] THEN m.term ELSE currentTerm[n]
    <3>1. grant \in BOOLEAN
      OBVIOUS
    <3>2. term \in Nat
      BY <2>2 DEF TypeOK
    <3>3. msgs' \subseteq msgs \cup
              {[type |-> "vote_response", term |-> term, src |-> n, dst |-> m.src,
                granted |-> grant]}
      BY <2>1
    <3> HIDE DEF grant, term
    <3>4. QED
      BY <2>2, <3>1, <3>2, <3>3 DEF TypeOK, Message, VoteResponse
  <2>4. votes' \in SUBSET Vote
    BY <2>1, <2>2 DEF TypeOK, Vote
  <2>5. QED
    BY <2>1, <2>2, <2>3, <2>4 DEF TypeOK, logVars, taskVars, faultVars
<1>3. ASSUME NEW n \in Node, HandleVoteResponse(n)
      PROVE  TypeOK'
  <2>1. PICK m \in msgs : HandleVoteResponse(n)!(m)
    BY <1>3 DEF HandleVoteResponse
  <2>2. m.src \in Node
    BY MessageKinds
  <2>3. votesReceived' \in [Node -> SUBSET Node]
    BY <2>1, <2>2 DEF TypeOK
  <2>4. currentLeader' \in [Node -> Node \cup {Nil}] /\ heartbeatTask' \in [Node -> BOOLEAN]
    BY <2>1 DEF TypeOK
  <2>5. state' \in [Node -> {"follower", "candidate", "leader"}]
    BY <2>1 DEF TypeOK
  <2>6. QED
    BY <2>1, <2>3, <2>4, <2>5 DEF TypeOK, logVars, faultVars
<1>4. ASSUME NEW n \in Node, SendHeartbeats(n)
      PROVE  TypeOK'
  BY <1>4, FromLeaderType DEF TypeOK, SendHeartbeats, serverVars, logVars, taskVars, faultVars
<1>5. ASSUME NEW n \in Node, PostAppendEntries(n)
      PROVE  TypeOK'
  BY <1>5, FromLeaderType DEF TypeOK, PostAppendEntries, serverVars, logVars, taskVars, faultVars
<1>6. ASSUME NEW n \in Node, HandleHeartbeat(n)
      PROVE  TypeOK'
  <2>1. PICK m \in msgs : HandleHeartbeat(n)!(m)
    BY <1>6 DEF HandleHeartbeat
  <2>2. m.term \in Nat /\ m.src \in Node
    BY MessageKinds
  <2>3. msgs' \in SUBSET Message
    BY <2>1 DEF TypeOK
  <2>4. QED
    BY <2>1, <2>2, <2>3 DEF TypeOK, FollowSender, logVars, taskVars, faultVars
<1>7. ASSUME NEW n \in Node, HandleAppendEntries(n)
      PROVE  TypeOK'
  <2>1. PICK m \in msgs : HandleAppendEntries(n)!(m)
    BY <1>7 DEF HandleAppendEntries
  <2>2. m.term \in Nat
    BY MessageKinds
  <2>3. msgs' \in SUBSET Message
    BY <2>1 DEF TypeOK
  <2>4. QED
    BY <2>1, <2>2, <2>3 DEF TypeOK, FollowSender, logVars, taskVars, faultVars
<1>8. ASSUME NEW n \in Node, NEW c \in Command, ReplicateCommand(n, c)
      PROVE  TypeOK'
  <2>1. log[n] \in Seq([term : Nat, command : Command])
    BY DEF TypeOK
  <2>2. [term |-> currentTerm[n], command |-> c] \in [term : Nat, command : Command]
    BY DEF TypeOK
  <2>3. /\ Append(log[n], [term |-> currentTerm[n], command |-> c])
               \in Seq([term : Nat, command : Command])
        /\ Len(log[n]) \in Nat
    BY <2>1, <2>2, AppendProperties, LenProperties
  <2>4. log' \in [Node -> Seq([term : Nat, command : Command])]
    BY <1>8, <2>3 DEF TypeOK, ReplicateCommand
  <2>5. commitIndex' \in [Node -> Int]
    BY <1>8, <2>3 DEF TypeOK, ReplicateCommand, LastIndex
  <2>6. QED
    BY <1>8, <2>4, <2>5 DEF TypeOK, ReplicateCommand, serverVars, taskVars, faultVars
<1>9. ASSUME NEW n \in Node, Stop(n)
      PROVE  TypeOK'
  <2>1. running' \in [Node -> BOOLEAN] /\ heartbeatTask' \in [Node -> BOOLEAN]
    <3>1. ASSUME NEW f \in [Node -> BOOLEAN]
          PROVE  [f EXCEPT ![n] = FALSE] \in [Node -> BOOLEAN]
      OBVIOUS
    <3>2. QED
      BY <1>9, <3>1 DEF TypeOK, Stop
  <2>2. stops' \in Nat
    BY <1>9 DEF TypeOK, Stop
  <2>3. QED
    BY <1>9, <2>1, <2>2 DEF TypeOK, Stop, serverVars, logVars
<1>10. ASSUME NEW n \in Node, Start(n)
       PROVE  TypeOK'
  BY <1>10 DEF TypeOK, Start, serverVars, logVars, faultVars
<1>11. CASE UNCHANGED vars
  BY <1>11 DEF TypeOK, vars, serverVars, logVars, taskVars, faultVars
<1>12. QED
  BY <1>1, <1>2, <1>3, <1>4, <1>5, <1>6, <1>7, <1>8, <1>9, <1>10, <1>11 DEF Next, NodeStep

\* Every variable of raft.py keeps its type, for every cluster.
THEOREM TypeCorrect == Spec => []TypeOK
BY InitTypeOK, StepTypeOK, PTL DEF Spec
-----------------------------------------------------------------------------
LEMMA InitElectionInv == Init => ElectionInv
BY DEF Init, ElectionInv, VotesRemembered, OneVotePerTerm, AnswersAreVotes, CountedAreVotes,
       LeadersAreElected, LeaderMessagesAreElected, HintNamesAWinner

\* A node that votes forgets no vote it may be asked for again.
LEMMA VotingStep ==
    ASSUME TypeOK, VotesRemembered, OneVotePerTerm,
           NEW n \in Node, NEW c \in Node, NEW t \in Nat,
           t > currentTerm[n] \/ (t = currentTerm[n] /\ votedFor[n] \in {Nil, c}),
           currentTerm' = [currentTerm EXCEPT ![n] = t],
           votedFor' = [votedFor EXCEPT ![n] = c],
           votes' = votes \cup {[term |-> t, voter |-> n, candidate |-> c]}
    PROVE  VotesRemembered' /\ OneVotePerTerm'
<1> DEFINE new == [term |-> t, voter |-> n, candidate |-> c]
<1>1. \A v \in votes : v.term \in Nat /\ v.voter \in Node /\ v.candidate \in Node
  BY DEF TypeOK, Vote
<1>2. \A v \in votes : v = [term |-> v.term, voter |-> v.voter, candidate |-> v.candidate]
  BY DEF TypeOK, Vote
<1>3. currentTerm \in [Node -> Nat] /\ votedFor \in [Node -> Node \cup {Nil}]
  BY DEF TypeOK
<1>4. ASSUME NEW v \in votes, v.voter = n
      PROVE  v.term < t \/ v = new
  <2>1. CASE t > currentTerm[n]
    BY <1>1, <1>3, <1>4, <2>1 DEF VotesRemembered
  <2>2. CASE t = currentTerm[n] /\ votedFor[n] \in {Nil, c}
    <3>1. currentTerm[n] > v.term \/ (currentTerm[n] = v.term /\ votedFor[n] = v.candidate)
      BY <1>4 DEF VotesRemembered
    <3>2. QED
      BY <1>1, <1>2, <1>4, <2>2, <3>1
  <2>3. QED
    BY <2>1, <2>2
<1>5. VotesRemembered'
  <2> SUFFICES ASSUME NEW v \in votes'
               PROVE  \/ currentTerm'[v.voter] > v.term
                      \/ currentTerm'[v.voter] = v.term /\ votedFor'[v.voter] = v.candidate
    BY DEF VotesRemembered
  <2>1. CASE v = new
    BY <1>3, <2>1
  <2>2. CASE v \in votes /\ v.voter = n
    BY <1>1, <1>3, <1>4, <2>1, <2>2
  <2>3. CASE v \in votes /\ v.voter # n
    BY <1>1, <1>3, <2>3 DEF VotesRemembered
  <2>4. QED
    BY <2>1, <2>2, <2>3
<1>6. OneVotePerTerm'
  <2> SUFFICES ASSUME NEW v \in votes', NEW w \in votes', v.voter = w.voter, v.term = w.term
               PROVE  v = w
    BY DEF OneVotePerTerm
  <2>1. CASE v \in votes /\ w \in votes
    BY <2>1 DEF OneVotePerTerm
  <2>2. CASE v = new \/ w = new
    BY <1>1, <1>4, <2>2
  <2>3. QED
    BY <2>1, <2>2
<1>7. QED
  BY <1>5, <1>6

\* A node that moves to a newer term without voting forgets none either.
LEMMA TermStep ==
    ASSUME TypeOK, VotesRemembered, NEW n \in Node, NEW t \in Nat,
           \/ t > currentTerm[n]
           \/ t = currentTerm[n] /\ votedFor'[n] = votedFor[n],
           currentTerm' = [currentTerm EXCEPT ![n] = t],
           \A m \in Node \ {n} : votedFor'[m] = votedFor[m],
           votes' = votes
    PROVE  VotesRemembered'
<1>1. \A v \in votes : v.term \in Nat /\ v.voter \in Node
  BY DEF TypeOK, Vote
<1>2. currentTerm \in [Node -> Nat]
  BY DEF TypeOK
<1>3. QED
  BY <1>1, <1>2 DEF VotesRemembered

\* A hint that a step does not touch stays good: votes are kept, terms only grow.
LEMMA HintKept ==
    ASSUME TypeOK, TypeOK', HintNamesAWinner, votes \subseteq votes',
           NEW n \in Node, NEW c, c # Nil, currentLeader[n] = c,
           currentTerm'[n] >= currentTerm[n]
    PROVE  \E t \in 0 .. currentTerm'[n] : Elected(c, t)'
<1>1. PICK t \in 0 .. currentTerm[n] : Elected(c, t)
  BY DEF HintNamesAWinner
<1>2. Elected(c, t)'
  BY <1>1, ElectedForEver
<1>3. t \in 0 .. currentTerm'[n]
  BY DEF TypeOK
<1>4. QED
  BY <1>2, <1>3

\* A step that changes no hint and lowers no term keeps them all good.
LEMMA HintsKept ==
    ASSUME TypeOK, TypeOK', HintNamesAWinner, votes \subseteq votes',
           currentLeader' = currentLeader,
           \A k \in Node : currentTerm'[k] >= currentTerm[k]
    PROVE  HintNamesAWinner'
<1> SUFFICES ASSUME NEW k \in Node, NEW c, currentLeader'[k] = c, c # Nil
             PROVE  \E t \in 0 .. currentTerm'[k] : Elected(c, t)'
  BY DEF HintNamesAWinner
<1> QED
  BY HintKept

\* A step that grants no vote, posts no answer, lets nobody win and leaves the
\* hints alone keeps the invariant.
LEMMA QuietStep ==
    ASSUME TypeOK, TypeOK', ElectionInv,
           votes' = votes, currentTerm' = currentTerm, votedFor' = votedFor,
           state' = state, votesReceived' = votesReceived, currentLeader' = currentLeader,
           \A m \in msgs' \ msgs :
               m.type \in {"heartbeat", "append_entries"} /\ state[m.src] = "leader"
                   /\ m.term = currentTerm[m.src] /\ m.src \in Node
    PROVE  ElectionInv'
<1>1. VotesRemembered' /\ OneVotePerTerm' /\ CountedAreVotes' /\ LeadersAreElected'
  BY DEF ElectionInv, VotesRemembered, OneVotePerTerm, CountedAreVotes, LeadersAreElected,
         Elected, Voters
<1>2. AnswersAreVotes'
  BY DEF ElectionInv, AnswersAreVotes
<1>3. LeaderMessagesAreElected'
  BY DEF ElectionInv, LeaderMessagesAreElected, LeadersAreElected, Elected, Voters
<1>4. HintNamesAWinner'
  BY DEF ElectionInv, HintNamesAWinner, Elected, Voters
<1>5. QED
  BY <1>1, <1>2, <1>3, <1>4 DEF ElectionInv

LEMMA StepElectionInv == TypeOK /\ TypeOK' /\ ElectionInv /\ [Next]_vars => ElectionInv'
<1> SUFFICES ASSUME TypeOK, TypeOK', ElectionInv, [Next]_vars
             PROVE  ElectionInv'
  OBVIOUS
<1> USE DEF ElectionInv
<1>1. ASSUME NEW n \in Node, StartElection(n)
      PROVE  ElectionInv'
  <2> DEFINE t == currentTerm[n] + 1
  <2>1. t \in Nat /\ t > currentTerm[n] /\ votes \subseteq votes'
    BY <1>1 DEF StartElection, TypeOK
  <2>2. VotesRemembered' /\ OneVotePerTerm'
    <3>1. /\ currentTerm' = [currentTerm EXCEPT ![n] = t]
          /\ votedFor' = [votedFor EXCEPT ![n] = n]
          /\ votes' = votes \cup {[term |-> t, voter |-> n, candidate |-> n]}
      BY <1>1 DEF StartElection
    <3> HIDE DEF t
    <3>2. QED
      BY <2>1, <3>1, VotingStep
  <2>3. AnswersAreVotes'
    BY <1>1 DEF StartElection, AnswersAreVotes
  <2>4. CountedAreVotes'
    BY <1>1 DEF StartElection, TypeOK, CountedAreVotes, Voters
  <2>5. LeadersAreElected'
    BY <1>1, <2>1, ElectedForEver DEF StartElection, TypeOK, LeadersAreElected
  <2>6. LeaderMessagesAreElected'
    BY <1>1, <2>1, ElectedForEver DEF StartElection, LeaderMessagesAreElected
  <2>7. HintNamesAWinner'
    <3>1. /\ currentLeader' = currentLeader
          /\ currentTerm' = [currentTerm EXCEPT ![n] = currentTerm[n] + 1]
      BY <1>1 DEF StartElection
    <3>2. currentTerm \in [Node -> Nat]
      BY DEF TypeOK
    <3>3. \A k \in Node : currentTerm'[k] >= currentTerm[k]
      BY <3>1, <3>2
    <3>4. QED
      BY <2>1, <3>1, <3>3, HintsKept
  <2>8. QED
    BY <2>2, <2>3, <2>4, <2>5, <2>6, <2>7
<1>2. ASSUME NEW n \in Node, HandleRequestVote(n)
      PROVE  ElectionInv'
  <2>1. PICK m \in msgs : HandleRequestVote(n)!(m)
    BY <1>2 DEF HandleRequestVote
  <2> DEFINE newer == m.term > currentTerm[n]
             term  == IF newer THEN m.term ELSE currentTerm[n]
             grant == VoteFree(n, m) /\ LogOk(m, log[n])
             vote  == [term |-> m.term, voter |-> n, candidate |-> m.src]
  <2>2. m.term \in Nat /\ m.src \in Node /\ term \in Nat /\ currentTerm[n] \in Nat
    BY MessageKinds DEF TypeOK
  <2>3. votes \subseteq votes' /\ term >= currentTerm[n]
    BY <2>1, <2>2
  <2>4. VotesRemembered' /\ OneVotePerTerm'
    <3>1. CASE grant
      <4>1. term = m.term
        BY <2>2, <3>1 DEF VoteFree
      <4>2. /\ currentTerm' = [currentTerm EXCEPT ![n] = m.term]
            /\ votedFor' = [votedFor EXCEPT ![n] = m.src]
            /\ votes' = votes \cup {vote}
        BY <2>1, <3>1, <4>1
      <4>3. m.term > currentTerm[n] \/ (m.term = currentTerm[n] /\ votedFor[n] \in {Nil, m.src})
        BY <3>1 DEF VoteFree
      <4>4. QED
        BY <2>2, <4>2, <4>3, VotingStep
    <3>2. CASE ~grant
      <4>1. votes' = votes /\ currentTerm' = [currentTerm EXCEPT ![n] = term]
        BY <2>1, <3>2
      <4>2. newer \/ votedFor'[n] = votedFor[n]
        BY <2>1, <3>2 DEF TypeOK
      <4>3. \A k \in Node \ {n} : votedFor'[k] = votedFor[k]
        BY <2>1 DEF TypeOK
      <4>4. VotesRemembered'
        BY <2>2, <4>1, <4>2, <4>3, TermStep
      <4>5. QED
        BY <4>1, <4>4 DEF OneVotePerTerm
    <3>3. QED
      BY <3>1, <3>2
  <2>5. AnswersAreVotes'
    <3>1. ASSUME NEW r \in msgs' \ msgs, r.granted
          PROVE  [term |-> r.term, voter |-> r.src, candidate |-> r.dst] \in votes'
      <4>1. r = [type |-> "vote_response", term |-> term, src |-> n, dst |-> m.src,
                 granted |-> grant]
        BY <2>1, <3>1
      <4>2. grant /\ term = m.term
        BY <2>2, <3>1, <4>1 DEF VoteFree
      <4>3. QED
        BY <2>1, <4>1, <4>2
    <3>2. QED
      BY <2>3, <3>1 DEF AnswersAreVotes
  <2>6. /\ state'[n] # "follower" => state'[n] = state[n] /\ currentTerm'[n] = currentTerm[n]
        /\ \A k \in Node \ {n} : state'[k] = state[k] /\ currentTerm'[k] = currentTerm[k]
        /\ votesReceived' = votesReceived
    BY <2>1, <2>2 DEF TypeOK
  <2>7. CountedAreVotes'
    BY <2>3, <2>6 DEF TypeOK, CountedAreVotes, Voters
  <2>8. LeadersAreElected'
    BY <2>3, <2>6, ElectedForEver DEF LeadersAreElected
  <2>9. LeaderMessagesAreElected'
    BY <2>1, <2>3, ElectedForEver DEF LeaderMessagesAreElected
  <2>10. HintNamesAWinner'
    <3>1. currentLeader' = currentLeader
      BY <2>1
    <3>2. currentTerm' = [currentTerm EXCEPT ![n] = term]
      BY <2>1
    <3>3. currentTerm \in [Node -> Nat] /\ term \in Nat /\ term >= currentTerm[n]
      BY <2>2, <2>3 DEF TypeOK
    <3>4. \A k \in Node : currentTerm'[k] >= currentTerm[k]
      BY <3>2, <3>3
    <3>5. QED
      BY <2>3, <3>1, <3>4, HintsKept
  <2>11. QED
    BY <2>4, <2>5, <2>7, <2>8, <2>9, <2>10
<1>3. ASSUME NEW n \in Node, HandleVoteResponse(n)
      PROVE  ElectionInv'
  <2>1. PICK m \in msgs : HandleVoteResponse(n)!(m)
    BY <1>3 DEF HandleVoteResponse
  <2> DEFINE counts == state[n] = "candidate" /\ m.granted /\ m.term = currentTerm[n]
             received == votesReceived[n] \cup {m.src}
             wins == counts /\ EnoughVotes(received)
  <2>2. votes' = votes /\ currentTerm' = currentTerm /\ votedFor' = votedFor /\ msgs' \subseteq msgs
    BY <2>1
  <2>3. counts => received \subseteq Voters(n, currentTerm[n])
    BY <2>1, MessageKinds DEF AnswersAreVotes, CountedAreVotes, Voters
  <2>4. wins => Elected(n, currentTerm[n])
    BY <2>3, CountedElects DEF EnoughVotes
  <2>5. \A k \in Node : \A u : Elected(k, u)' <=> Elected(k, u)
    BY <2>2 DEF Elected, Voters
  <2>6. VotesRemembered' /\ OneVotePerTerm' /\ AnswersAreVotes' /\ LeaderMessagesAreElected'
    BY <2>2, <2>5, MessageKinds
       DEF VotesRemembered, OneVotePerTerm, AnswersAreVotes, LeaderMessagesAreElected
  <2>7. CountedAreVotes'
    <3>1. \A k \in Node : state'[k] # "follower" => state[k] # "follower"
      BY <2>1 DEF TypeOK, EnoughVotes
    <3>2. \A k \in Node : votesReceived'[k] = IF k = n /\ counts THEN received ELSE votesReceived[k]
      BY <2>1 DEF TypeOK
    <3>3. \A k \in Node : Voters(k, currentTerm[k])' = Voters(k, currentTerm[k])
      BY <2>2 DEF Voters
    <3> HIDE DEF counts, received
    <3>4. QED
      BY <2>3, <3>1, <3>2, <3>3 DEF CountedAreVotes
  <2>8. LeadersAreElected'
    BY <2>1, <2>2, <2>4, <2>5 DEF TypeOK, LeadersAreElected
  <2>9. HintNamesAWinner'
    <3> SUFFICES ASSUME NEW k \in Node, NEW c, currentLeader'[k] = c, c # Nil
                 PROVE  \E u \in 0 .. currentTerm'[k] : Elected(c, u)'
      BY DEF HintNamesAWinner
    <3>1. CASE wins /\ k = n
      <4>1. c = n /\ currentTerm'[n] = currentTerm[n] /\ currentTerm[n] \in 0 .. currentTerm[n]
        BY <2>1, <3>1 DEF TypeOK
      <4>2. QED
        BY <2>4, <2>5, <3>1, <4>1
    <3>2. CASE ~(wins /\ k = n)
      <4>1. currentLeader[k] = c
        BY <2>1, <3>2 DEF TypeOK
      <4>2. votes \subseteq votes' /\ currentTerm'[k] >= currentTerm[k]
        BY <2>2 DEF TypeOK
      <4>3. QED
        BY <4>1, <4>2, HintKept
    <3>3. QED
      BY <3>1, <3>2
  <2>10. QED
    BY <2>6, <2>7, <2>8, <2>9
<1>4. ASSUME NEW n \in Node, SendHeartbeats(n)
      PROVE  ElectionInv'
  BY <1>4, QuietStep DEF SendHeartbeats, FromLeader, serverVars
<1>5. ASSUME NEW n \in Node, PostAppendEntries(n)
      PROVE  ElectionInv'
  BY <1>5, QuietStep DEF PostAppendEntries, FromLeader, serverVars
<1>6. ASSUME NEW n \in Node, NEW m \in msgs, m.type \in {"heartbeat", "append_entries"},
             FollowSender(n, m), msgs' \subseteq msgs,
             \/ currentLeader' = currentLeader
             \/ currentLeader' = [currentLeader EXCEPT ![n] = m.src] /\ m.term >= currentTerm[n]
      PROVE  ElectionInv'
  <2>1. m.term \in Nat /\ m.src \in Node /\ currentTerm[n] \in Nat
    BY MessageKinds DEF TypeOK
  <2> DEFINE term == IF m.term >= currentTerm[n] THEN m.term ELSE currentTerm[n]
  <2>2. /\ currentTerm' = [currentTerm EXCEPT ![n] = term]
        /\ term \in Nat /\ term >= currentTerm[n] /\ term >= m.term
        /\ votedFor' = votedFor /\ votes' = votes /\ votesReceived' = votesReceived
    BY <1>6, <2>1 DEF FollowSender, Accepted, TypeOK
  <2>3. VotesRemembered' /\ OneVotePerTerm'
    <3>1. /\ term > currentTerm[n] \/ (term = currentTerm[n] /\ votedFor'[n] = votedFor[n])
          /\ \A k \in Node \ {n} : votedFor'[k] = votedFor[k]
      BY <2>1, <2>2
    <3>2. VotesRemembered'
      <4> HIDE DEF term
      <4> QED
        BY <2>2, <3>1, TermStep
    <3>3. QED
      BY <2>2, <3>2 DEF OneVotePerTerm
  <2>4. \A k, u : Elected(k, u) => Elected(k, u)'
    BY <2>2, ElectedForEver
  <2>5. AnswersAreVotes' /\ LeaderMessagesAreElected'
    BY <1>6, <2>2, <2>4 DEF AnswersAreVotes, LeaderMessagesAreElected
  <2>6. \A k \in Node : state'[k] # "follower" =>
            state'[k] = state[k] /\ currentTerm'[k] = currentTerm[k]
    BY <1>6, <2>1 DEF FollowSender, Accepted, TypeOK
  <2>7. CountedAreVotes' /\ LeadersAreElected'
    BY <2>2, <2>4, <2>6 DEF TypeOK, CountedAreVotes, LeadersAreElected, Voters
  <2>8. HintNamesAWinner'
    <3> SUFFICES ASSUME NEW k \in Node, NEW c, currentLeader'[k] = c, c # Nil
                 PROVE  \E u \in 0 .. currentTerm'[k] : Elected(c, u)'
      BY DEF HintNamesAWinner
    <3>1. CASE currentLeader[k] = c
      <4>1. votes \subseteq votes'
        BY <2>2
      <4>2. currentTerm'[k] >= currentTerm[k]
        <5>1. currentTerm \in [Node -> Nat]
          BY DEF TypeOK
        <5> HIDE DEF term
        <5>2. QED
          BY <5>1, <2>1, <2>2
      <4>3. QED
        BY <3>1, <4>1, <4>2, HintKept
    <3>2. CASE currentLeader[k] # c
      <4>1. c = m.src /\ k = n
        BY <1>6, <3>2 DEF TypeOK
      <4>2. m.term \in 0 .. currentTerm'[n]
        BY <2>1, <2>2 DEF TypeOK
      <4>3. Elected(c, m.term)'
        BY <1>6, <2>4, <4>1 DEF LeaderMessagesAreElected
      <4>4. QED
        BY <4>1, <4>2, <4>3
    <3>3. QED
      BY <3>1, <3>2
  <2>9. QED
    BY <2>3, <2>5, <2>7, <2>8
<1>7. ASSUME NEW n \in Node, HandleHeartbeat(n)
      PROVE  ElectionInv'
  BY <1>6, <1>7 DEF HandleHeartbeat, Accepted, TypeOK
<1>8. ASSUME NEW n \in Node, HandleAppendEntries(n)
      PROVE  ElectionInv'
  BY <1>6, <1>8 DEF HandleAppendEntries
<1>9. ASSUME NEW n \in Node, NEW c \in Command, ReplicateCommand(n, c)
      PROVE  ElectionInv'
  BY <1>9, QuietStep DEF ReplicateCommand, serverVars
<1>10. ASSUME NEW n \in Node, Stop(n) \/ Start(n)
       PROVE  ElectionInv'
  BY <1>10, QuietStep DEF Stop, Start, serverVars
<1>11. CASE UNCHANGED vars
  BY <1>11, QuietStep DEF vars, serverVars
<1>12. QED
  BY <1>1, <1>2, <1>3, <1>4, <1>5, <1>7, <1>8, <1>9, <1>10, <1>11 DEF Next, NodeStep

\* Votes are remembered, given once a term, and back every claim of victory.
THEOREM ElectionInvariant == Spec => []ElectionInv
<1>1. TypeOK /\ ElectionInv /\ [Next]_vars => TypeOK' /\ ElectionInv'
  BY StepTypeOK, StepElectionInv
<1>2. QED
  BY <1>1, InitTypeOK, InitElectionInv, PTL DEF Spec

\* Two nodes never lead in the same term, however the cluster is listed: any
\* two sets of votes that are enough have a voter in common.
THEOREM ElectionSafe == Spec => []ElectionSafety
<1>1. ElectionInv => ElectionSafety
  BY QuorumsMeet DEF ElectionInv, LeadersAreElected, ElectionSafety
<1>2. QED
  BY <1>1, ElectionInvariant, PTL
-----------------------------------------------------------------------------
\* A leader names itself.
LeadersNameThemselves == \A n \in Node : state[n] = "leader" => currentLeader[n] = n

LEMMA StepLeadersName ==
    ASSUME TypeOK, LeadersNameThemselves, [Next]_vars
    PROVE  LeadersNameThemselves'
<1> USE DEF TypeOK, LeadersNameThemselves
<1>1. ASSUME NEW n \in Node, StartElection(n) \/ HandleRequestVote(n)
      PROVE  LeadersNameThemselves'
  BY <1>1 DEF StartElection, HandleRequestVote
<1>2. ASSUME NEW n \in Node, HandleVoteResponse(n)
      PROVE  LeadersNameThemselves'
  BY <1>2 DEF HandleVoteResponse
<1>3. ASSUME NEW n \in Node, HandleHeartbeat(n)
      PROVE  LeadersNameThemselves'
  BY <1>3 DEF HandleHeartbeat, FollowSender
<1>4. ASSUME NEW n \in Node, HandleAppendEntries(n)
      PROVE  LeadersNameThemselves'
  BY <1>4 DEF HandleAppendEntries, FollowSender
<1>5. ASSUME UNCHANGED <<state, currentLeader>>
      PROVE  LeadersNameThemselves'
  BY <1>5
<1>6. QED
  BY <1>1, <1>2, <1>3, <1>4, <1>5 DEF Next, NodeStep, SendHeartbeats, PostAppendEntries,
     ReplicateCommand, Stop, Start, vars, serverVars

\* However the nodes are listed, nothing but a newer term and messages of its own make a
\* leader step down: another sender of its term would have won that term too.
THEOREM LeadersStay == Spec => NobodyElseDeposes
<1> DEFINE Own(n, m) == /\ m.type \in {"heartbeat", "append_entries"}
                        /\ m.src = n /\ m.dst = n /\ m.term = currentTerm[n]
                        /\ msgs \ msgs' \subseteq {m} /\ currentLeader'[n] = n
           Stays == \A n \in Node : state[n] = "leader" /\ state'[n] # "leader" =>
            \/ currentTerm'[n] > currentTerm[n]
            \/ \E m \in msgs : /\ m.type \in {"heartbeat", "append_entries"}
                              /\ m.src = n /\ m.dst = n /\ m.term = currentTerm[n]
                              /\ msgs \ msgs' \subseteq {m} /\ currentLeader'[n] = n
<1>1. ASSUME TypeOK, ElectionInv, LeadersNameThemselves, [Next]_vars
      PROVE  [Stays]_vars
  <2> SUFFICES ASSUME Next, NEW n \in Node, state[n] = "leader", state'[n] # "leader"
               PROVE  currentTerm'[n] > currentTerm[n] \/ \E m \in msgs : Own(n, m)
    BY <1>1
  <2> HIDE DEF Own
  <2>1. currentTerm \in [Node -> Nat] /\ state \in [Node -> {"follower", "candidate", "leader"}]
    BY <1>1 DEF TypeOK
  <2>2. PICK k \in Node : NodeStep(k)
    BY DEF Next
  <2>3. CASE StartElection(k)
    BY <2>1, <2>3 DEF StartElection
  <2>4. CASE HandleRequestVote(k)
    BY <2>1, <2>4, <1>1, MessageKinds DEF HandleRequestVote
  <2>5. CASE HandleVoteResponse(k)
    BY <2>1, <2>5 DEF HandleVoteResponse
  <2>6. ASSUME NEW m \in msgs, m.type \in {"heartbeat", "append_entries"}, m.dst = k,
               FollowSender(k, m), msgs \ msgs' \subseteq {m},
               currentLeader'[k] \in {m.src, currentLeader[k]}
        PROVE  currentTerm'[n] > currentTerm[n] \/ Own(n, m)
    <3>1. n = k /\ m.term >= currentTerm[n] /\ currentTerm'[n] = m.term /\ m.term \in Nat
      BY <1>1, <2>1, <2>6, MessageKinds DEF FollowSender, Accepted
    <3>2. CASE m.term = currentTerm[n]
      <4>1. Elected(m.src, m.term) /\ Elected(n, currentTerm[n]) /\ OneVotePerTerm
        BY <1>1, <2>6 DEF ElectionInv, LeadersAreElected, LeaderMessagesAreElected
      <4>2. m.src = n
        BY <3>2, <4>1, QuorumsMeet
      <4>3. currentLeader[n] = n
        BY <1>1 DEF LeadersNameThemselves
      <4>4. QED
        BY <2>6, <3>1, <3>2, <4>2, <4>3 DEF Own
    <3>3. QED
      BY <2>1, <3>1, <3>2
  <2>7. CASE HandleHeartbeat(k)
    <3>1. PICK m \in msgs : HandleHeartbeat(k)!(m)
      BY <2>7 DEF HandleHeartbeat
    <3>2. currentLeader'[k] \in {m.src, currentLeader[k]}
      BY <1>1, <3>1 DEF TypeOK
    <3>3. QED
      BY <2>6, <3>1, <3>2
  <2>8. CASE HandleAppendEntries(k)
    BY <2>6, <2>8 DEF HandleAppendEntries
  <2>9. CASE SendHeartbeats(k) \/ PostAppendEntries(k) \/ Stop(k) \/ Start(k)
                \/ \E c \in Command : ReplicateCommand(k, c)
    BY <2>9 DEF SendHeartbeats, PostAppendEntries, Stop, Start, ReplicateCommand, serverVars
  <2>10. QED
    BY <2>2, <2>3, <2>4, <2>5, <2>7, <2>8, <2>9 DEF NodeStep
<1>2. Init => LeadersNameThemselves
  BY DEF Init, LeadersNameThemselves
<1>3. TypeOK /\ LeadersNameThemselves /\ [Next]_vars => LeadersNameThemselves'
  BY StepLeadersName
<1>4. Spec => [][Stays]_vars
  BY <1>1, <1>2, <1>3, TypeCorrect, ElectionInvariant, PTL DEF Spec
<1>5. QED
  BY <1>4 DEF NobodyElseDeposes
-----------------------------------------------------------------------------
\* A vote more makes at most its candidate win, and only a term nobody has won.
LEMMA WonStep ==
    ASSUME TypeOK, OneVotePerTerm', NEW v \in Vote, votes' = votes \cup {v}
    PROVE  UNCHANGED Won \/ L!Win
<1> DEFINE w == [term |-> v.term, node |-> v.candidate]
<1>1. ASSUME NEW c, NEW t, Elected(c, t), \E u \in votes : u.term = t /\ u.candidate = c
      PROVE  [term |-> t, node |-> c] \in Won
  BY <1>1 DEF Won
<1>2. ASSUME NEW x \in Won
      PROVE  /\ x = [term |-> x.term, node |-> x.node]
             /\ Elected(x.node, x.term)
             /\ \E u \in votes : u.term = x.term /\ u.candidate = x.node
  BY <1>2 DEF Won
<1>3. Won \subseteq Won'
  <2>1. ASSUME NEW u \in votes, Elected(u.candidate, u.term)
        PROVE  u \in votes' /\ Elected(u.candidate, u.term)'
    BY <2>1, ElectedForEver
  <2>2. QED
    BY <2>1 DEF Won
<1>4. Won' \subseteq Won \cup {w}
  <2>1. ASSUME NEW u \in votes', Elected(u.candidate, u.term)', 
               [term |-> u.term, node |-> u.candidate] # w
        PROVE  u \in votes /\ Elected(u.candidate, u.term)
    <3>1. u \in votes /\ (u.candidate # v.candidate \/ u.term # v.term)
      BY <2>1
    <3>2. Voters(u.candidate, u.term)' = Voters(u.candidate, u.term)
      BY <3>1 DEF Voters
    <3>3. QED
      BY <2>1, <3>1, <3>2 DEF Elected, Majority, ClusterLen
  <2>2. QED
    BY <2>1 DEF Won
<1>5. ASSUME w \in Won', NEW x \in Won, x.term = w.term
      PROVE  x = w
  <2>1. Elected(v.candidate, v.term)'
    BY <1>5 DEF Won
  <2>2. Elected(x.node, v.term)'
    BY <1>2, <1>5, ElectedForEver
  <2>3. x.node = v.candidate
    <3>1. Voters(v.candidate, v.term)' \in SUBSET Node /\ Voters(x.node, v.term)' \in SUBSET Node
      BY DEF Voters
    <3>2. /\ Cardinality(Voters(v.candidate, v.term)') >= Majority
          /\ Cardinality(Voters(x.node, v.term)') >= Majority
      BY <2>1, <2>2 DEF Elected, Majority, ClusterLen
    <3>3. Voters(v.candidate, v.term)' \cap Voters(x.node, v.term)' # {}
      BY <3>1, <3>2, QuorumsIntersect
    <3>4. PICK m \in Node : m \in Voters(v.candidate, v.term)' /\ m \in Voters(x.node, v.term)'
      BY <3>1, <3>3
    <3>5. /\ [term |-> v.term, voter |-> m, candidate |-> v.candidate] \in votes'
          /\ [term |-> v.term, voter |-> m, candidate |-> x.node] \in votes'
      BY <3>4 DEF Voters
    <3>6. QED
      BY <3>5 DEF OneVotePerTerm
  <2>4. QED
    BY <1>2, <1>5, <2>3
<1>6. CASE w \in Won \/ w \notin Won'
  BY <1>3, <1>4, <1>6
<1>7. CASE w \notin Won /\ w \in Won'
  BY <1>3, <1>4, <1>5, <1>7 DEF L!Win
<1>8. QED
  BY <1>6, <1>7

\* A node that leaves the leader state, or does not enter it, has resigned or
\* leads as before.
LEMMA LeadsStep ==
    ASSUME TypeOK, NEW n \in Node,
           \A k \in Node \ {n} : state'[k] = state[k] /\ currentTerm'[k] = currentTerm[k],
           \/ state'[n] # "leader"
           \/ state'[n] = state[n] /\ currentTerm'[n] = currentTerm[n]
    PROVE  UNCHANGED Leads \/ L!Resign(n)
<1>1. CASE state'[n] # "leader"
  BY <1>1 DEF Leads, L!Resign
<1>2. CASE state'[n] = state[n] /\ currentTerm'[n] = currentTerm[n]
  BY <1>2 DEF Leads
<1>3. QED
  BY <1>1, <1>2

LEMMA StepRefines ==
    ASSUME TypeOK, TypeOK', ElectionInv, ElectionInv', [Next]_vars
    PROVE  [L!Next]_<<Won, Leads>>
<1>1. currentTerm \in [Node -> Nat] /\ state \in [Node -> {"follower", "candidate", "leader"}]
  BY DEF TypeOK
<1>2. votes' = votes => UNCHANGED Won
  BY DEF Won, Elected, Voters
<1>3. ASSUME NEW n \in Node, NEW v \in Vote, votes' \in {votes, votes \cup {v}},
             \A k \in Node \ {n} : state'[k] = state[k] /\ currentTerm'[k] = currentTerm[k],
             \/ state'[n] # "leader"
             \/ state'[n] = state[n] /\ currentTerm'[n] = currentTerm[n]
      PROVE  [L!Next]_<<Won, Leads>>
  <2>1. UNCHANGED Won \/ L!Win
    BY <1>2, <1>3, WonStep DEF ElectionInv
  <2>2. UNCHANGED Leads \/ L!Resign(n)
    BY <1>3, LeadsStep
  <2>3. QED
    BY <2>1, <2>2 DEF L!Next
<1>4. ASSUME NEW n \in Node, StartElection(n)
      PROVE  [L!Next]_<<Won, Leads>>
  <2>1. [term |-> currentTerm[n] + 1, voter |-> n, candidate |-> n] \in Vote
    BY <1>1 DEF Vote
  <2>2. QED
    BY <1>1, <1>3, <1>4, <2>1 DEF StartElection
<1>5. ASSUME NEW n \in Node, HandleRequestVote(n)
      PROVE  [L!Next]_<<Won, Leads>>
  <2>1. PICK m \in msgs : HandleRequestVote(n)!(m)
    BY <1>5 DEF HandleRequestVote
  <2>2. m.term \in Nat /\ m.src \in Node
    BY MessageKinds
  <2> DEFINE v == [term |-> m.term, voter |-> n, candidate |-> m.src]
  <2>3. v \in Vote /\ votes' \in {votes, votes \cup {v}}
    BY <2>1, <2>2 DEF Vote
  <2>4. /\ \A k \in Node \ {n} : state'[k] = state[k] /\ currentTerm'[k] = currentTerm[k]
        /\ \/ state'[n] # "leader"
           \/ state'[n] = state[n] /\ currentTerm'[n] = currentTerm[n]
    BY <1>1, <2>1
  <2> HIDE DEF v
  <2>5. QED
    BY <1>3, <2>3, <2>4
<1>6. ASSUME NEW n \in Node, HandleVoteResponse(n)
      PROVE  [L!Next]_<<Won, Leads>>
  <2>1. UNCHANGED Won /\ currentTerm' = currentTerm
    BY <1>2, <1>6 DEF HandleVoteResponse
  <2>2. CASE state' = state
    BY <2>1, <2>2 DEF Leads
  <2>3. CASE state[n] = "candidate" /\ state' = [state EXCEPT ![n] = "leader"]
    <3>1. Leads[n] = 0 /\ Leads' = [Leads EXCEPT ![n] = currentTerm[n]]
      BY <1>1, <2>1, <2>3 DEF Leads
    <3>2. Elected(n, currentTerm[n])'
      BY <1>1, <2>1, <2>3 DEF ElectionInv, LeadersAreElected
    <3>3. Elected(n, currentTerm[n])
      BY <1>6, <2>1, <3>2 DEF HandleVoteResponse, Elected, Voters, Majority, ClusterLen
    <3>4. PICK v \in votes : v.term = currentTerm[n] /\ v.candidate = n
      <4>1. Voters(n, currentTerm[n]) \in SUBSET Node
        BY DEF Voters
      <4>2. Voters(n, currentTerm[n]) # {}
        BY <3>3, <4>1, QuorumsIntersect DEF Elected
      <4>3. QED
        BY <4>2 DEF Voters
    <3>5. [term |-> currentTerm[n], node |-> n] \in Won
      BY <3>3, <3>4 DEF Won
    <3>6. L!Lead(n)
      BY <2>1, <3>1, <3>5 DEF L!Lead
    <3>7. QED
      BY <3>6 DEF L!Next
  <2>4. QED
    BY <1>1, <1>6, <2>2, <2>3 DEF HandleVoteResponse
<1>7. ASSUME NEW n \in Node, NEW m \in msgs, FollowSender(n, m)
      PROVE  [L!Next]_<<Won, Leads>>
  <2>1. /\ \A k \in Node \ {n} : state'[k] = state[k] /\ currentTerm'[k] = currentTerm[k]
        /\ \/ state'[n] # "leader"
           \/ state'[n] = state[n] /\ currentTerm'[n] = currentTerm[n]
    BY <1>1, <1>7 DEF FollowSender, Accepted
  <2>2. UNCHANGED Won
    BY <1>2, <1>7 DEF FollowSender
  <2>3. UNCHANGED Leads \/ L!Resign(n)
    BY <2>1, LeadsStep
  <2>4. QED
    BY <2>2, <2>3 DEF L!Next
<1>8. ASSUME UNCHANGED serverVars, votes' = votes
      PROVE  [L!Next]_<<Won, Leads>>
  BY <1>2, <1>8 DEF serverVars, Leads
<1>9. ASSUME NEW n \in Node, HandleHeartbeat(n) \/ HandleAppendEntries(n)
      PROVE  [L!Next]_<<Won, Leads>>
  BY <1>7, <1>9 DEF HandleHeartbeat, HandleAppendEntries
<1>10. ASSUME NEW n \in Node,
              SendHeartbeats(n) \/ PostAppendEntries(n) \/ Stop(n) \/ Start(n)
                  \/ \E c \in Command : ReplicateCommand(n, c)
       PROVE  [L!Next]_<<Won, Leads>>
  BY <1>8, <1>10 DEF SendHeartbeats, PostAppendEntries, Stop, Start, ReplicateCommand
<1>11. UNCHANGED vars => [L!Next]_<<Won, Leads>>
  BY <1>8 DEF vars
<1>12. QED
  BY <1>4, <1>5, <1>6, <1>9, <1>10, <1>11 DEF Next, NodeStep

\* Elections of raft.py implement the abstract leadership: terms are won once,
\* and only their winners lead.
THEOREM ImplementsLeadership == Spec => RefinesLeadership
<1>1. Init => L!Init
  BY DEF Init, L!Init, Won, Leads
<1>2. Spec => [][L!Next]_<<Won, Leads>>
  BY StepRefines, TypeCorrect, ElectionInvariant, PTL DEF Spec
<1>3. QED
  BY <1>1, <1>2, PTL DEF Spec, RefinesLeadership, L!Spec
-----------------------------------------------------------------------------
\* A candidate is one vote short at least: whoever has enough leads.
CandidatesNeedMore ==
    \A n \in Node : state[n] = "candidate" => Cardinality(votesReceived[n]) < Majority

LEMMA StepCandidatesNeedMore ==
    ASSUME Majority >= 2, TypeOK, CandidatesNeedMore, [Next]_vars
    PROVE  CandidatesNeedMore'
<1> SUFFICES ASSUME NEW k \in Node, state'[k] = "candidate"
             PROVE  Cardinality(votesReceived'[k]) < Majority
  BY DEF CandidatesNeedMore, Majority, ClusterLen
<1>1. state \in [Node -> {"follower", "candidate", "leader"}]
  BY DEF TypeOK
<1>2. votesReceived \in [Node -> SUBSET Node]
  BY DEF TypeOK
<1>3. ASSUME state[k] = "candidate", votesReceived'[k] = votesReceived[k]
      PROVE  Cardinality(votesReceived'[k]) < Majority
  BY <1>3 DEF CandidatesNeedMore
<1>4. ASSUME NEW n \in Node, StartElection(n)
      PROVE  Cardinality(votesReceived'[k]) < Majority
  <2>1. CASE k = n
    <3>1. votesReceived'[k] = {n}
      BY <1>2, <1>4, <2>1 DEF StartElection
    <3>2. Cardinality({n}) = 1
      BY FS_Singleton
    <3>3. QED
      BY <3>1, <3>2, MajorityIsMajority
  <2>2. CASE k # n
    BY <1>1, <1>2, <1>3, <1>4, <2>2 DEF StartElection
  <2>3. QED
    BY <2>1, <2>2
<1>5. ASSUME NEW n \in Node, HandleRequestVote(n)
      PROVE  Cardinality(votesReceived'[k]) < Majority
  BY <1>1, <1>3, <1>5 DEF HandleRequestVote
<1>6. ASSUME NEW n \in Node, HandleVoteResponse(n)
      PROVE  Cardinality(votesReceived'[k]) < Majority
  <2>1. PICK m \in msgs : HandleVoteResponse(n)!(m)
    BY <1>6 DEF HandleVoteResponse
  <2> DEFINE counts == state[n] = "candidate" /\ m.granted /\ m.term = currentTerm[n]
             received == votesReceived[n] \cup {m.src}
  <2>2. CASE k = n /\ counts
    <3>1. ~EnoughVotes(received)
      BY <1>1, <2>1, <2>2
    <3>2. votesReceived'[k] = received
      BY <1>2, <2>1, <2>2
    <3>3. Cardinality(received) \in Nat
      <4>1. m.src \in Node
        BY MessageKinds
      <4>2. IsFiniteSet(received)
        BY <1>2, <4>1, FS_Subset
      <4>3. QED
        BY <4>2, FS_CardinalityType
    <3>4. QED
      BY <3>1, <3>2, <3>3, MajorityIsMajority DEF EnoughVotes
  <2>3. CASE ~(k = n /\ counts)
    BY <1>1, <1>2, <1>3, <2>1, <2>3
  <2>4. QED
    BY <2>2, <2>3
<1>7. ASSUME NEW n \in Node, NEW m \in msgs, FollowSender(n, m)
      PROVE  Cardinality(votesReceived'[k]) < Majority
  BY <1>1, <1>3, <1>7 DEF FollowSender
<1>8. ASSUME UNCHANGED serverVars
      PROVE  Cardinality(votesReceived'[k]) < Majority
  BY <1>3, <1>8 DEF serverVars
<1>9. ASSUME NEW n \in Node, HandleHeartbeat(n) \/ HandleAppendEntries(n)
      PROVE  Cardinality(votesReceived'[k]) < Majority
  BY <1>7, <1>9 DEF HandleHeartbeat, HandleAppendEntries
<1>10. ASSUME NEW n \in Node,
              SendHeartbeats(n) \/ PostAppendEntries(n) \/ Stop(n) \/ Start(n)
                  \/ \E c \in Command : ReplicateCommand(n, c)
       PROVE  UNCHANGED serverVars
  BY <1>10 DEF SendHeartbeats, PostAppendEntries, Stop, Start, ReplicateCommand
<1>11. UNCHANGED vars => UNCHANGED serverVars
  BY DEF vars
<1>12. QED
  BY <1>4, <1>5, <1>6, <1>8, <1>9, <1>10, <1>11 DEF Next, NodeStep

\* Of how many nodes the majority that _handle_vote_response asks for is one.
LEMMA MajorityOfNodes ==
    ASSUME Cardinality(Node) >= 2, OwnAddress = "absent" \/ Cardinality(Node) % 2 = 0
    PROVE  Majority >= 2 /\ 2 * (Majority - 1) <= Cardinality(Node)
<1>1. Cardinality(Node) \in Nat
  BY FS_CardinalityType
<1>2. CASE OwnAddress = "absent"
  BY <1>1, <1>2 DEF Majority, ClusterLen
<1>3. CASE OwnAddress # "absent" /\ Cardinality(Node) % 2 = 0
  BY <1>1, <1>3 DEF Majority, ClusterLen
<1>4. QED
  BY <1>2, <1>3

\* A candidate with the votes of more than half of the nodes is a leader at
\* once, where nodes list their peers only or are even in number.  (An odd
\* cluster whose nodes list themselves asks for one vote more.)
THEOREM MajorityAlwaysWins ==
    ASSUME Cardinality(Node) >= 2, OwnAddress = "absent" \/ Cardinality(Node) % 2 = 0
    PROVE  Spec => []MajorityWins
<1>1. Majority >= 2 /\ 2 * (Majority - 1) <= Cardinality(Node)
  BY MajorityOfNodes
<1>2. Init => CandidatesNeedMore
  BY DEF Init, CandidatesNeedMore
<1>3. TypeOK /\ CandidatesNeedMore /\ [Next]_vars => CandidatesNeedMore'
  BY <1>1, StepCandidatesNeedMore
<1>4. TypeOK /\ CandidatesNeedMore => MajorityWins
  <2> SUFFICES ASSUME TypeOK, CandidatesNeedMore, NEW n \in Node, state[n] = "candidate"
               PROVE  2 * Cardinality(votesReceived[n]) <= Cardinality(Node)
    BY DEF MajorityWins
  <2>1. Cardinality(votesReceived[n]) < Majority
    BY DEF CandidatesNeedMore
  <2>2. Cardinality(votesReceived[n]) \in Nat /\ Cardinality(Node) \in Nat
    BY FS_Subset, FS_CardinalityType DEF TypeOK
  <2>3. QED
    BY <1>1, <2>1, <2>2, MajorityIsMajority
<1>5. QED
  BY <1>2, <1>3, <1>4, TypeCorrect, PTL DEF Spec
-----------------------------------------------------------------------------
(***************************************************************************)
(* Entries are committed on their leader alone, so logs agree only if no   *)
(* second node ever leads while another holds entries.  Where a victory    *)
(* takes the votes of all nodes, the comparison of logs sees to that: a    *)
(* node with an empty log gets no vote from one with entries, unless they  *)
(* are of later terms than the vote.                                       *)
(***************************************************************************)
RequestsDescribe ==
    \A m \in msgs : m.type = "request_vote" /\ (m.lastTerm > 0 \/ m.lastIndex >= 0) =>
        log[m.src] # << >>

EntriesElected ==
    \A n \in Node : \A i \in 1 .. Len(log[n]) : Elected(n, log[n][i].term)

VotesFollowLogs ==
    \A v \in votes : v.voter # v.candidate /\ log[v.candidate] = << >> =>
        \A i \in 1 .. Len(log[v.voter]) : log[v.voter][i].term > v.term

OneLog == \A m, n \in Node : m # n => log[m] = << >> \/ log[n] = << >>

LogInv == RequestsDescribe /\ EntriesElected /\ VotesFollowLogs /\ OneLog

\* Where a victory takes all votes, a winner has the vote of every node.
LEMMA WinnersHaveAll ==
    ASSUME Majority >= Cardinality(Node), NEW n, NEW t, Elected(n, t), NEW k \in Node
    PROVE  [term |-> t, voter |-> k, candidate |-> n] \in votes
<1>1. Voters(n, t) \subseteq Node
  BY DEF Voters
<1>2. Cardinality(Voters(n, t)) \in Nat /\ Cardinality(Node) \in Nat
  BY <1>1, FS_Subset, FS_CardinalityType
<1>3. Cardinality(Voters(n, t)) >= Cardinality(Node)
  BY <1>2, MajorityIsMajority DEF Elected
<1>4. Voters(n, t) = Node
  BY <1>1, <1>2, <1>3, FS_Subset
<1>5. QED
  BY <1>4 DEF Voters

\* A log that has entries is never older than an empty one.
LEMMA EmptyLogIsOldest ==
    ASSUME NEW l \in Seq([term : Nat, command : Command]), l # << >>,
           NEW m \in VoteRequest, LogOk(m, l)
    PROVE  m.lastTerm > 0 \/ m.lastIndex >= 0
<1>1. Len(l) \in Nat /\ Len(l) # 0
  BY LenProperties, EmptySeq
<1>2. LastTerm(l) \in Nat
  BY LastEntryType
<1>3. m.lastTerm \in Nat /\ m.lastIndex \in Int
  BY DEF VoteRequest
<1>4. QED
  BY <1>1, <1>2, <1>3 DEF LogOk, LastIndex

\* A step that grants no vote, asks for none and appends nothing keeps all of it.
LEMMA LogQuietStep ==
    ASSUME LogInv, votes' = votes, log' = log,
           \A m \in msgs' \ msgs : m.type # "request_vote"
    PROVE  LogInv'
BY DEF LogInv, RequestsDescribe, EntriesElected, VotesFollowLogs, OneLog, Elected, Voters,
       Majority, ClusterLen

LEMMA StepLogInv ==
    ASSUME Majority >= Cardinality(Node), TypeOK, ElectionInv, LogInv, [Next]_vars
    PROVE  LogInv'
<1>1. /\ currentTerm \in [Node -> Nat]
      /\ log \in [Node -> Seq([term : Nat, command : Command])]
      /\ \A v \in votes : v.term \in Nat /\ v.voter \in Node /\ v.candidate \in Node
      /\ VotesRemembered /\ OneVotePerTerm
  BY DEF TypeOK, Vote, ElectionInv
<1>2. ASSUME NEW n \in Node, StartElection(n)
      PROVE  LogInv'
  <2>1. /\ log' = log /\ votes \subseteq votes'
        /\ votes' = votes \cup {[term |-> currentTerm[n] + 1, voter |-> n, candidate |-> n]}
    BY <1>2 DEF StartElection, logVars
  <2>2. EntriesElected'
    BY <2>1, ElectedForEver DEF LogInv, EntriesElected
  <2>3. VotesFollowLogs'
    <3>1. \A v \in votes' : v.voter # v.candidate => v \in votes
      BY <2>1
    <3>2. QED
      BY <2>1, <3>1 DEF LogInv, VotesFollowLogs
  <2>4. RequestsDescribe'
    <3>1. ASSUME NEW m \in msgs' \ msgs
          PROVE  /\ m.src = n
                 /\ m.lastTerm = LastTerm(log[n]) /\ m.lastIndex = LastIndex(log[n])
      BY <1>2, <3>1 DEF StartElection
    <3>2. log[n] = << >> => LastTerm(log[n]) = 0 /\ LastIndex(log[n]) = -1
      BY EmptySeq DEF LastTerm, LastIndex
    <3>3. QED
      BY <2>1, <3>1, <3>2 DEF LogInv, RequestsDescribe
  <2>5. OneLog'
    BY <2>1 DEF LogInv, OneLog
  <2>6. QED
    BY <2>2, <2>3, <2>4, <2>5 DEF LogInv
<1>3. ASSUME NEW n \in Node, HandleRequestVote(n)
      PROVE  LogInv'
  <2>1. PICK m \in msgs : HandleRequestVote(n)!(m)
    BY <1>3 DEF HandleRequestVote
  <2> DEFINE vote == [term |-> m.term, voter |-> n, candidate |-> m.src]
             grant == VoteFree(n, m) /\ LogOk(m, log[n])
  <2>2. m \in VoteRequest /\ m.src \in Node
    BY <2>1, MessageKinds
  <2>3. log' = log /\ votes \subseteq votes' /\ votes' \subseteq votes \cup {vote}
    BY <2>1 DEF logVars
  <2>4. vote \in votes' \ votes => grant
    BY <2>1
  <2>5. \A r \in msgs' \ msgs : r.type # "request_vote"
    BY <2>1
  <2>6. RequestsDescribe' /\ OneLog'
    BY <2>3, <2>5 DEF LogInv, RequestsDescribe, OneLog
  <2>7. EntriesElected'
    BY <2>3, ElectedForEver DEF LogInv, EntriesElected
  <2>8. ASSUME grant, log[m.src] = << >>
        PROVE  log[n] = << >>
    BY <1>1, <2>1, <2>2, <2>8, EmptyLogIsOldest DEF LogInv, RequestsDescribe
  <2>9. VotesFollowLogs'
    <3> SUFFICES ASSUME NEW v \in votes', v.voter # v.candidate, log[v.candidate] = << >>,
                        NEW i \in 1 .. Len(log[v.voter])
                 PROVE  log[v.voter][i].term > v.term
      BY <2>3 DEF VotesFollowLogs
    <3>1. CASE v \in votes
      BY <3>1 DEF LogInv, VotesFollowLogs
    <3>2. CASE v \notin votes
      <4>1. v = vote /\ log[n] = << >>
        BY <2>3, <2>4, <2>8, <3>2
      <4>2. QED
        BY <4>1, EmptySeq
    <3>3. QED
      BY <3>1, <3>2
  <2>10. QED
    BY <2>6, <2>7, <2>9 DEF LogInv
<1>4. ASSUME NEW n \in Node, NEW c \in Command, ReplicateCommand(n, c)
      PROVE  LogInv'
  <2> DEFINE t == currentTerm[n]
             entry == [term |-> t, command |-> c]
  <2>1. /\ state[n] = "leader" /\ log' = [log EXCEPT ![n] = Append(log[n], entry)]
        /\ votes' = votes /\ msgs' = msgs
    BY <1>4 DEF ReplicateCommand
  <2>2. t \in Nat /\ Elected(n, t)
    BY <1>1, <2>1 DEF ElectionInv, LeadersAreElected
  <2>3. /\ Len(log'[n]) = Len(log[n]) + 1 /\ Len(log[n]) \in Nat
        /\ log'[n] # << >>
        /\ \A i \in 1 .. Len(log[n]) : log'[n][i] = log[n][i]
        /\ log'[n][Len(log[n]) + 1] = entry
    <3>1. log[n] \in Seq([term : Nat, command : Command]) /\ log'[n] = Append(log[n], entry)
      BY <1>1, <2>1
    <3>2. entry \in [term : Nat, command : Command]
      BY <2>2
    <3> HIDE DEF entry
    <3>3. QED
      BY <3>1, <3>2, AppendProperties, LenProperties, EmptySeq
  <2>4. \A k \in Node \ {n} : log'[k] = log[k]
    BY <1>1, <2>1
  <2>5. ASSUME NEW i \in 1 .. Len(log'[n])
        PROVE  (i \in 1 .. Len(log[n]) /\ log'[n][i] = log[n][i]) \/ log'[n][i].term = t
    <3>1. CASE i = Len(log[n]) + 1
      BY <2>3, <3>1
    <3>2. CASE i # Len(log[n]) + 1
      BY <2>3, <3>2
    <3>3. QED
      BY <3>1, <3>2
  <2>6. RequestsDescribe'
    <3> SUFFICES ASSUME NEW m \in msgs, m.type = "request_vote", m.lastTerm > 0 \/ m.lastIndex >= 0
                 PROVE  log'[m.src] # << >>
      BY <2>1 DEF RequestsDescribe
    <3>1. m.src \in Node /\ log[m.src] # << >>
      BY MessageKinds DEF LogInv, RequestsDescribe
    <3>2. QED
      BY <2>3, <2>4, <3>1
  <2>7. \A k \in Node : \A u : Elected(k, u) => Elected(k, u)'
    BY <2>1, ElectedForEver
  <2>8. EntriesElected'
    <3> SUFFICES ASSUME NEW k \in Node, NEW i \in 1 .. Len(log'[k])
                 PROVE  Elected(k, log[k][i].term)'
      BY DEF EntriesElected
    <3>1. CASE k = n
      BY <2>2, <2>5, <2>7, <3>1 DEF LogInv, EntriesElected
    <3>2. CASE k # n
      BY <2>4, <2>7, <3>2 DEF LogInv, EntriesElected
    <3>3. QED
      BY <3>1, <3>2
  <2>9. VotesFollowLogs'
    <3> SUFFICES ASSUME NEW v \in votes, v.voter # v.candidate, log'[v.candidate] = << >>,
                        NEW i \in 1 .. Len(log'[v.voter])
                 PROVE  log'[v.voter][i].term > v.term
      BY <2>1 DEF VotesFollowLogs
    <3>1. v.candidate # n /\ log[v.candidate] = << >>
      BY <1>1, <2>3, <2>4
    <3>2. CASE v.voter # n
      BY <1>1, <2>4, <3>1, <3>2 DEF LogInv, VotesFollowLogs
    <3>3. CASE v.voter = n
      <4>1. CASE i \in 1 .. Len(log[n]) /\ log'[n][i] = log[n][i]
        BY <3>1, <3>3, <4>1 DEF LogInv, VotesFollowLogs
      <4>2. CASE log'[n][i].term = t
        <5>1. t >= v.term /\ v.term \in Nat
          <6>1. currentTerm[n] > v.term \/ currentTerm[n] = v.term
            BY <1>1, <3>3 DEF VotesRemembered
          <6>2. QED
            BY <1>1, <2>2, <6>1
        <5>2. t # v.term
          <6>1. [term |-> t, voter |-> n, candidate |-> n] \in votes
            BY <2>2, WinnersHaveAll
          <6>2. QED
            BY <1>1, <3>3, <6>1 DEF OneVotePerTerm
        <5>3. QED
          BY <2>2, <3>3, <4>2, <5>1, <5>2
      <4>3. QED
        BY <2>5, <3>3, <4>1, <4>2
    <3>4. QED
      BY <3>2, <3>3
  <2>10. ASSUME NEW m \in Node, m # n
         PROVE  log[m] = << >>
    <3> SUFFICES ASSUME log[m] # << >>
                 PROVE  FALSE
      OBVIOUS
    <3> DEFINE s == log[m][1].term
    <3>1. 1 \in 1 .. Len(log[m]) /\ s \in Nat
      <4>1. log[m] \in Seq([term : Nat, command : Command])
        BY <1>1
      <4>2. Len(log[m]) \in Nat /\ Len(log[m]) # 0
        BY <4>1, LenProperties, EmptySeq
      <4>3. 1 \in 1 .. Len(log[m])
        BY <4>2
      <4>4. log[m][1] \in [term : Nat, command : Command]
        BY <4>1, <4>3, ElementOfSeq
      <4>5. QED
        BY <4>3, <4>4
    <3>2. Elected(m, s)
      BY <3>1 DEF LogInv, EntriesElected
    <3> HIDE DEF s, t
    <3>3. /\ [term |-> s, voter |-> n, candidate |-> m] \in votes
          /\ [term |-> t, voter |-> m, candidate |-> n] \in votes
          /\ [term |-> t, voter |-> n, candidate |-> n] \in votes
      BY <2>2, <3>2, WinnersHaveAll
    <3>4. s # t
      BY <1>1, <2>10, <3>3 DEF OneVotePerTerm
    <3>5. ~(s > t)
      <4>1. currentTerm[n] > s \/ currentTerm[n] = s
        BY <1>1, <3>3 DEF VotesRemembered
      <4>2. QED
        BY <2>2, <3>1, <4>1 DEF t
    <3>6. ~(s < t)
      <4>1. log[n] = << >>
        BY <2>10 DEF LogInv, OneLog
      <4>2. s > t
        BY <2>10, <3>1, <3>3, <4>1 DEF LogInv, VotesFollowLogs, s
      <4>3. QED
        BY <2>2, <3>1, <4>2
    <3>7. QED
      BY <2>2, <3>1, <3>4, <3>5, <3>6
  <2>11. OneLog'
    BY <2>4, <2>10 DEF OneLog
  <2>12. QED
    BY <2>6, <2>8, <2>9, <2>11 DEF LogInv
<1>5. ASSUME NEW n \in Node, HandleVoteResponse(n)
      PROVE  LogInv'
  <2>1. votes' = votes /\ log' = log /\ msgs' \subseteq msgs
    BY <1>5 DEF HandleVoteResponse, logVars
  <2>2. QED
    BY <2>1, LogQuietStep
<1>6. ASSUME NEW n \in Node, SendHeartbeats(n) \/ PostAppendEntries(n)
      PROVE  LogInv'
  <2>1. votes' = votes /\ log' = log
    BY <1>6 DEF SendHeartbeats, PostAppendEntries, logVars
  <2>2. \A m \in msgs' \ msgs : m.type # "request_vote"
    BY <1>6 DEF SendHeartbeats, PostAppendEntries, FromLeader
  <2>3. QED
    BY <2>1, <2>2, LogQuietStep
<1>7. ASSUME NEW n \in Node, HandleHeartbeat(n) \/ HandleAppendEntries(n)
      PROVE  LogInv'
  <2>1. votes' = votes /\ log' = log /\ msgs' \subseteq msgs
    BY <1>7 DEF HandleHeartbeat, HandleAppendEntries, FollowSender, logVars
  <2>2. QED
    BY <2>1, LogQuietStep
<1>8. ASSUME NEW n \in Node, Stop(n) \/ Start(n)
      PROVE  LogInv'
  BY <1>8, LogQuietStep DEF Stop, Start, logVars
<1>9. CASE UNCHANGED vars
  BY <1>9, LogQuietStep DEF vars, logVars
<1>10. QED
  BY <1>2, <1>3, <1>4, <1>5, <1>6, <1>7, <1>8, <1>9 DEF Next, NodeStep

\* Where _handle_vote_response asks for the votes of all nodes, as with the
\* three self-listed nodes of docker-compose.yml, entries reported as committed
\* never conflict: one node at most ever appends any.
THEOREM UnanimousLogsAgree ==
    ASSUME Majority >= Cardinality(Node)
    PROVE  Spec => []LogsAgree
<1>1. Init => LogInv
  <2> SUFFICES ASSUME Init
               PROVE  LogInv
    OBVIOUS
  <2>1. \A n \in Node : log[n] = << >> /\ Len(log[n]) = 0
    BY EmptySeq DEF Init
  <2>2. QED
    BY <2>1 DEF Init, LogInv, RequestsDescribe, EntriesElected, VotesFollowLogs, OneLog
<1>2. TypeOK /\ ElectionInv /\ LogInv /\ [Next]_vars => LogInv'
  BY StepLogInv
<1>3. LogInv => LogsAgree
  <2> SUFFICES ASSUME LogInv, NEW m \in Node, NEW n \in Node,
                      NEW i \in 1 .. Len(log[m]), i <= Len(log[n])
               PROVE  log[m][i] = log[n][i]
    BY DEF LogsAgree
  <2>1. Len(<< >>) = 0
    BY EmptySeq
  <2>2. QED
    BY <2>1 DEF LogInv, OneLog
<1>4. QED
  BY <1>1, <1>2, <1>3, TypeCorrect, ElectionInvariant, PTL DEF Spec
=============================================================================
