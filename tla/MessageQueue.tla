---------------------------- MODULE MessageQueue ----------------------------
(***************************************************************************)
(* The DistributedQueue of one node (src/nodes/queue_node.py): the calls   *)
(* of producers and consumers, the cleanup and persistence tasks, the list *)
(* kept in Redis, and what stop, start and a crash of the process leave.   *)
(*                                                                         *)
(* Calls and tasks suspend only at the Redis commands: saving is a         *)
(* snapshot, then a DELETE, then an RPUSH; loading is an LRANGE, then the  *)
(* append of what it returned.  Everything else may happen in between.     *)
(* start() and stop() wait for each other, as one owner calls both.        *)
(*                                                                         *)
(* A message is its number in the order of enqueue.  Handing it to Raft    *)
(* (replicate_command) changes nothing here and returns without yielding.  *)
(***************************************************************************)
EXTENDS Naturals, Sequences, SequencesExt

CONSTANTS
    MaxSize,      \* max_size: the maxlen of the deque
    MaxMessages,  \* bound on the messages enqueued
    MaxStops,     \* bound on calls of stop()
    MaxCrashes,   \* bound on crashes of the process
    MaxFaults,    \* bound on Redis errors
    MaxTroubles   \* bound on all three together

ASSUME SizeAssumption == MaxSize \in Nat \ {0}
ASSUME QueueBoundAssumption == {MaxMessages, MaxStops, MaxCrashes, MaxFaults, MaxTroubles} \subseteq Nat

VARIABLES
    queue,      \* queue
    inflight,   \* keys of in_flight_messages
    running,    \* running
    stored,     \* the Redis list of this queue and node
    saver,      \* who is saving what, and the command sent to Redis
    loader,     \* where start() is in _load_from_redis
    expired,    \* messages whose time to live is over
    enqueued,   \* how many messages were accepted
    delivered,  \* history: messages dequeued at least once
    settled,    \* history: messages acked, or nacked without requeue
    saved,      \* history: messages that were in the Redis list
    torn,       \* history: is the list deleted, and nothing pushed since?
    broken,     \* history: did a crash find the list torn, or did a load fail?
    stops, crashes, faults

memory == <<queue, inflight>>
redis == <<stored, saver, loader, saved, torn, broken>>
history == <<enqueued, delivered, settled>>
bounds == <<stops, crashes, faults>>
vars == <<memory, running, redis, expired, history, bounds>>

\* The persistence task, stop(), and the command a cancelled task had sent.
Saver == {"task", "stop", "cancelled"}
Idle == [at |-> "idle", list |-> <<>>]
Sent(command, list) == [at |-> command, list |-> list]

MayGoWrong == stops + crashes + faults < MaxTroubles

Message == 0 .. MaxMessages - 1
InQueue == ToSet(queue)
Held == InQueue \cup inflight

Init ==
    /\ queue = <<>> /\ inflight = {}
    /\ running = FALSE
    /\ stored = <<>> /\ saved = {} /\ torn = FALSE /\ broken = FALSE
    /\ saver = [w \in Saver |-> Idle] /\ loader = Idle
    /\ expired = {}
    /\ enqueued = 0 /\ delivered = {} /\ settled = {}
    /\ stops = 0 /\ crashes = 0 /\ faults = 0
-----------------------------------------------------------------------------
\* Mutant: a deque without maxlen.
Uncapped(s) == s

\* A deque keeps the last maxlen of what is appended to it.
Capped(s) == IF Len(s) <= MaxSize THEN s ELSE SubSeq(s, Len(s) - MaxSize + 1, Len(s))

\* What is left of s without the expired messages, in the same order.
Live(s) ==
    LET live[i \in 0 .. Len(s)] == IF i = 0 THEN <<>>
                                   ELSE IF s[i] \in expired THEN live[i - 1]
                                   ELSE Append(live[i - 1], s[i])
    IN  live[Len(s)]

HasRoom == Len(queue) < MaxSize

\* Mutant: the message goes to the end messages are taken from.
AddedFirst(m) == <<m>> \o queue

Added(m) == Capped(Append(queue, m))

\* A full queue answers False and changes nothing.
Enqueue ==
    /\ enqueued < MaxMessages
    /\ HasRoom
    /\ queue' = Added(enqueued)
    /\ enqueued' = enqueued + 1
    /\ UNCHANGED <<inflight, running, redis, expired, delivered, settled, bounds>>

\* Mutant: a delivered message is not tracked.
Untracked(m) == inflight

Tracked(m) == inflight \cup {m}

\* dequeue() drops expired messages until it finds one to deliver.
Dequeue(i) ==
    /\ queue[i] \notin expired
    /\ \A j \in 1 .. i - 1 : queue[j] \in expired
    /\ queue' = SubSeq(queue, i + 1, Len(queue))
    /\ inflight' = Tracked(queue[i])
    /\ delivered' = delivered \cup {queue[i]}
    /\ UNCHANGED <<running, redis, expired, enqueued, settled, bounds>>

DequeueNothing ==
    /\ queue # <<>> /\ InQueue \subseteq expired
    /\ queue' = <<>>
    /\ UNCHANGED <<inflight, running, redis, expired, history, bounds>>

Ack(m) ==
    /\ m \in inflight
    /\ inflight' = inflight \ {m}
    /\ settled' = settled \cup {m}
    /\ UNCHANGED <<queue, running, redis, expired, enqueued, delivered, bounds>>

Nack(m, requeue) ==
    /\ m \in inflight
    /\ inflight' = inflight \ {m}
    /\ queue' = IF requeue /\ m \notin expired THEN Added(m) ELSE queue
    /\ settled' = IF requeue THEN settled ELSE settled \cup {m}
    /\ UNCHANGED <<running, redis, expired, enqueued, delivered, bounds>>

Expire(m) ==
    /\ m < enqueued /\ m \notin expired
    /\ expired' = expired \cup {m}
    /\ UNCHANGED <<memory, running, redis, history, bounds>>

\* Mutant: the tasks are started before the messages are loaded.
AlreadyRunning == running

\* The tasks run once start() has loaded, until stop().
Working == running /\ loader = Idle

\* Mutant: only the main queue is cleaned.
StillInFlight == inflight
InFlightKept == inflight \ expired

\* One pass of the cleanup task.
Cleanup ==
    /\ Working
    /\ queue' = Live(queue)
    /\ inflight' = InFlightKept
    /\ UNCHANGED <<running, redis, expired, history, bounds>>
-----------------------------------------------------------------------------
\* _save_to_redis up to its first await: an empty queue sends nothing.
Snapshot == IF queue = <<>> THEN Idle ELSE Sent("delete", queue)

SaveBegin ==
    /\ Working
    /\ saver["task"] = Idle /\ queue # <<>>
    /\ saver' = [saver EXCEPT !["task"] = Snapshot]
    /\ UNCHANGED <<memory, running, stored, loader, saved, torn, broken, expired, history, bounds>>

\* Mutants: the old list is not deleted; only the newest message is pushed.
Undeleted == stored
PushedLast(list) == Append(stored, Last(list))

Deleted == <<>>
Pushed(list) == stored \o list

\* A cancelled saver does not go on to the RPUSH.
SaveDelete(w) ==
    /\ saver[w].at = "delete"
    /\ stored' = Deleted
    /\ saver' = [saver EXCEPT ![w] = IF w = "cancelled" THEN Idle ELSE Sent("push", @.list)]
    /\ torn' = TRUE
    /\ UNCHANGED <<memory, running, loader, saved, broken, expired, history, bounds>>

SavePush(w) ==
    /\ saver[w].at = "push"
    /\ stored' = Pushed(saver[w].list)
    /\ saved' = saved \cup ToSet(stored')
    /\ torn' = FALSE
    /\ saver' = [saver EXCEPT ![w] = Idle]
    /\ UNCHANGED <<memory, running, loader, broken, expired, history, bounds>>

\* The command failed, or its reply was lost: the save is given up.
SaveFails(w) ==
    /\ faults < MaxFaults /\ MayGoWrong
    /\ saver[w] # Idle
    /\ saver' = [saver EXCEPT ![w] = Idle]
    /\ faults' = faults + 1
    /\ UNCHANGED <<memory, running, stored, loader, saved, torn, broken, expired, history, stops, crashes>>

Start ==
    /\ ~running /\ saver["stop"] = Idle /\ loader = Idle
    /\ running' = TRUE
    /\ loader' = Sent("range", <<>>)
    /\ UNCHANGED <<memory, stored, saver, saved, torn, broken, expired, history, bounds>>

LoadRead ==
    /\ loader.at = "range"
    /\ loader' = Sent("reply", stored)
    /\ UNCHANGED <<memory, running, stored, saver, saved, torn, broken, expired, history, bounds>>

Loaded(list) == Capped(queue \o Live(list))

LoadReply ==
    /\ loader.at = "reply"
    /\ queue' = Loaded(loader.list)
    /\ loader' = Idle
    /\ UNCHANGED <<inflight, running, stored, saver, saved, torn, broken, expired, history, bounds>>

\* The error is logged and start() goes on without the messages.
LoadFails ==
    /\ faults < MaxFaults /\ MayGoWrong
    /\ loader # Idle
    /\ loader' = Idle
    /\ broken' = TRUE
    /\ faults' = faults + 1
    /\ UNCHANGED <<memory, running, stored, saver, saved, torn, expired, history, stops, crashes>>

\* A command the persistence task had sent may still reach Redis.
Stop ==
    /\ stops < MaxStops /\ MayGoWrong
    /\ loader = Idle /\ saver["stop"] = Idle
    /\ running' = FALSE
    /\ \E late \in {Idle, saver["task"]} :
          saver' = [w \in Saver |-> CASE w = "task" -> Idle
                                      [] w = "stop" -> Snapshot
                                      [] w = "cancelled" -> late]
    /\ stops' = stops + 1
    /\ UNCHANGED <<memory, stored, loader, saved, torn, broken, expired, history, crashes, faults>>

Crash ==
    /\ crashes < MaxCrashes /\ MayGoWrong
    /\ queue' = <<>> /\ inflight' = {}
    /\ running' = FALSE
    /\ saver' = [w \in Saver |-> Idle] /\ loader' = Idle
    /\ broken' = (broken \/ torn)
    /\ crashes' = crashes + 1
    /\ UNCHANGED <<stored, saved, torn, expired, history, stops, faults>>
-----------------------------------------------------------------------------
Next ==
    \/ Enqueue
    \/ \E i \in 1 .. Len(queue) : Dequeue(i)
    \/ DequeueNothing
    \/ \E m \in inflight : Ack(m) \/ \E requeue \in BOOLEAN : Nack(m, requeue)
    \/ \E m \in Message : Expire(m)
    \/ Cleanup
    \/ SaveBegin
    \/ \E w \in Saver : SaveDelete(w) \/ SavePush(w) \/ SaveFails(w)
    \/ Start
    \/ LoadRead
    \/ LoadReply
    \/ LoadFails
    \/ Stop
    \/ Crash

Spec == Init /\ [][Next]_vars

\* Redis answers, both tasks keep running and a stopped queue is started again.
\* Producers and consumers owe nothing, and a message may live for ever.
FairSpec ==
    /\ Spec
    /\ WF_vars(Start) /\ WF_vars(LoadRead) /\ WF_vars(LoadReply)
    /\ WF_vars(Cleanup) /\ WF_vars(SaveBegin)
    /\ \A w \in Saver : WF_vars(SaveDelete(w)) /\ WF_vars(SavePush(w))
-----------------------------------------------------------------------------
List == Seq(Message)

TypeOK ==
    /\ queue \in List /\ Len(queue) <= MaxSize
    /\ inflight \subseteq Message /\ running \in BOOLEAN
    /\ stored \in List /\ saved \subseteq Message
    /\ torn \in BOOLEAN /\ broken \in BOOLEAN
    /\ saver \in [Saver -> [at : {"idle", "delete", "push"}, list : List]]
    /\ loader \in [at : {"idle", "range", "reply"}, list : List]
    /\ expired \subseteq Message /\ enqueued \in 0 .. MaxMessages
    /\ delivered \subseteq Message /\ settled \subseteq Message
    /\ stops \in Nat /\ crashes \in Nat /\ faults \in Nat

\* "Message tidak hilang" (architecture.md:86), of one life of the process: an accepted message is in
\* the queue or in flight until it is acked, refused for good, or too old, if there is room for all.
NothingLost ==
    stops = 0 /\ crashes = 0 /\ MaxMessages <= MaxSize =>
        \A m \in 0 .. enqueued - 1 : m \in Held \cup settled \cup expired

\* "FIFO queue" (README.md:11), of one life of the process: a message delivered for the first time
\* leaves behind no older message that was never delivered and is not too old.
FirstInFirstOut ==
    [][stops' = 0 /\ crashes' = 0 =>
          \A m \in delivered' \ delivered : \A k \in ToSet(queue') :
             k < m => k \in delivered \cup expired]_vars

\* Until stop() is called, the process never has two copies of a message, in the
\* queue or in flight: what start() loads after a crash meets no copy of it.
OneCopy == stops = 0 => IsInjective(queue) /\ InQueue \cap inflight = {}

\* Until stop() is called, a message that was saved and never delivered is still in Redis
\* between saves, as long as the process has it: no save drops it, but one that an error or
\* a crash ended after its DELETE, and that only until the next RPUSH.
SavedIsStored ==
    stops = 0 /\ ~torn /\ Working /\ (\A w \in Saver : saver[w] = Idle) =>
        \A m \in InQueue : m \in saved /\ m \notin delivered => m \in ToSet(stored)

\* Until stop() is called, a message that was once in Redis and never delivered is there or
\* in the process as long as it lives, across Redis errors, crashes and restarts.  It may be
\* lost by a crash between a DELETE and the next RPUSH, by a failed load, and where the
\* queue has no room for every message: these are left out.
SavedSurvives ==
    stops = 0 /\ ~broken /\ MaxMessages <= MaxSize =>
        \A m \in saved : m \in Held \cup ToSet(stored) \cup delivered \cup expired

\* Again and again no message in the process has its time to live over, delivered or not.
DeadMessagesGo == []<>(Held \cap expired = {})

\* A message that stays in the queue gets into the Redis list.
EveryMessageIsSaved == \A m \in Message : []<>(m \notin InQueue \/ m \in ToSet(stored))
=============================================================================
