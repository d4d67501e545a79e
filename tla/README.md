# A TLA+ model of the distributed synchronization system

The repository (`src/`) is a Python system of nodes that agree on a leader with
Raft and offer distributed locks, queues and a cache. This directory holds
TLA+ modules for its core, the TLC configurations that check them on small
instances, and proofs, checked by TLAPS, of what holds for every instance.
Paths below are relative to the repository's root; `raft.py` and the like are
under `src/src/`.

## 1. Inventory

| component | state | operations | hard behaviour |
|---|---|---|---|
| **Raft** (`consensus/raft.py`) | `current_term`, `voted_for`, `log`, `commit_index`, `state`, `current_leader`, `votes_received`, two tasks | election timer, `_start_election`, handlers of vote request, vote response, heartbeat and append-entries, `replicate_command`, `start`, `stop` | requests in flight in any order, answers that come late, restarts that forget votes |
| **Message passing** (`communication/message_passing.py`) | registered handlers, HTTP session | `send_message`, `broadcast_message`, `handle_message`, `send_heartbeat`, `ping` | lost and delayed requests; the body of a response is dropped unless waited for; a node may or may not send to itself |
| **Lock manager** (`nodes/lock_manager.py`) | `locks`, `wait_queue`, `held_resources`, `waiting_resources`, two tasks | `acquire_lock`, `release_lock`, forwarding, handlers of forwarded calls, cleanup, deadlock detector | expiry between any two calls, one holder id for all callers, waiters nobody looks at |
| **Queue** (`nodes/queue_node.py`) | a bounded deque, `in_flight_messages`, a Redis list, two tasks | `enqueue`, `dequeue`, `ack`, `nack`, save, load, cleanup, `start`, `stop` | calls while a Redis command is awaited, a crash between two commands, a full deque |
| **Hash ring** (`nodes/queue_node.py`, `ConsistentHash`) | `ring`, `sorted_keys` | `add_node`, `remove_node`, `get_node` | colliding virtual nodes |
| **Cache** (`nodes/cache_node.py`) | an LRU cache of entries with a MESI state | `get`, `set`, `delete`, handlers of invalidations, updates and sync requests, expiry task | a decision taken before an awaited broadcast, updates in different orders |
| **Failure detector** (`communication/failure_detector.py`) | status of each node, suspected and failed sets | `register_node`, `unregister_node`, `record_heartbeat`, the detector's pass | callbacks awaited in the middle of a pass |
| **Base node** (`nodes/base_node.py`) | the components, a Redis client | HTTP routes, `start`, `stop` | order of starting and stopping |

How they interact: a base node owns one Raft node, one message passing object
and one failure detector. Raft, locks and cache register handlers by message
kind; the HTTP route `/api/message` calls the handler and returns its result as
the response. The lock manager and the queue ask Raft whether this node leads
and hand it commands; the lock manager forwards calls to the leader that Raft
names. The queue keeps its messages in Redis. `Dockerfile.node` starts a module
`integrated_node` that the repository does not contain; no code in `src/`
creates a lock manager, a queue or a cache.

What makes each correct:

- Raft: one leader a term, nobody else deposes a leader within its term, a
  candidate with enough votes becomes leader, committed logs agree.
- Locks: a writer is alone, whoever holds knows it, every waiter is served; the
  bookkeeping of the deadlock detector says what it claims.
- Queue: no accepted message is lost, first deliveries are in order, a message
  is not held twice, what waits is saved, what is dead goes away.
- Cache: when no call is under way the valid copies of a key are of its latest
  value, and a modified one is alone.
- Failure detector: the sets and the statuses agree, nobody who beats is accused,
  a node is suspected before it fails, a silent node fails.
- Hash ring: it names members only, its answers depend on the members and not on
  their history, and few keys move.

The hazards of the code, each at its line with the properties that watch it,
are listed in `PROJECT.json`.

## 2. Modules

| module | models | variables ↔ code |
|---|---|---|
| `Raft` | `raft.py` on every node, over the part of `message_passing.py` it uses | the fields of `RaftNode`, per node; `msgs` are the requests posted and not yet handled; `votes` is history |
| `Leadership` | what an election promises: a term has one winner, and only winners lead | abstract |
| `LockTable` | the rules of one resource: what can be granted, what a freed resource grants, as one set (`Served`) and as the loop of `_process_wait_queue`, entry by entry (`ServeAll`) | sets for the lists of `Lock` and of waiters |
| `LockManager` | the lock manager of a leader, for local and forwarded calls | `locks`, `queue`, `held`, `waiting` are the four dictionaries; `believed` is history: who was told that it holds |
| `MCLockManager` | symmetry sets for TLC | |
| `LockCluster` | the lock managers of all nodes for one resource, over `Leadership` | `locks` and `queue` per node; `hint` is `current_leader`; `net` holds forwarded calls and their answers; `believed` and `ended` are history, `crashes` counts crashes of its process |
| `MessageQueue` | the queue of one node with its Redis list | `queue`, `inflight`, `stored`; `saver` and `loader` say at which awaited command a save or load is; `delivered`, `settled`, `saved`, `torn`, `broken` are history |
| `Cache` | the caches of all nodes | `cache` is the `OrderedDict` of each: entries and their order; `calls` are the `set()` calls that await a broadcast, `msgs` the requests; `last` and `disturbed` are history |
| `FailureDetector` | the detector of a node, as `BaseNode` runs it | `nodes`, `suspected`, `failed`; `todo`, `overdue`, `detached`, `calling` are the local variables of a pass that is suspended; `beaten` and `ghosted` are history |
| `HashRing` | the `ConsistentHash` of several processes | `ring`; `members` is history; the hash function is chosen by `Init` |
| `MCRaft` | symmetry sets for TLC | |
| `RaftProofs`, `LockTableProofs`, `LockProofs`, `LockClusterProofs` (with `Leadership`), `QueueProofs`, `CacheProofs`, `FailureProofs`, `HashRingProofs` | lemmas and theorems | |

`LockCluster` composes `LockTable` with `Leadership` (`L == INSTANCE Leadership`), not
with `Raft`: of the elections it needs only that a term has one winner and that
leaders and hints name winners. `RefinesLeadership` and `HintNamesAWinner` of
`Raft` are these two facts about the code. They hold without crashes of a process;
after the first `Crash` of `LockCluster` any node may win any term (`MayBeWon`), as it
may when votes are forgotten (`raft_double_vote`).

What the models keep and what they abstract:

- **Steps.** asyncio switches between coroutines only where one suspends. No
  handler of `raft.py` or of the leader's side of `lock_manager.py` does so
  before it returns, so each is one action. The queue suspends at the Redis
  commands, and there a save is three steps and a load two. A `set()` of the cache
  suspends in its broadcast, a forwarded lock call at its answer, and a pass of
  the failure detector only in a callback.
- **Time.** An election timeout, a lock's expiry, a message's or an entry's may
  come at any moment. A lost request is one that is never handled. For the
  detector, a node's last heartbeat is `late` or not.
- **Own address.** `broadcast_message` skips the target equal to
  `node_host:node_port`. `OwnAddress` says how a node is listed: `"matched"`
  under that name, `"unmatched"` under another (as `docker-compose.yml` does: it
  then sends to itself), or `"absent"` (peers only, as in `.env.example`).
  It decides both who hears a broadcast and what the majority is. `SelfSends`
  says the same for the cache.
- **Posted answers.** `send_message(wait_response=False)` drops the response, and
  no code posts a `VOTE_RESPONSE` or an `APPEND_ENTRIES`, though handlers for both
  are registered. `Posted` holds the kinds delivered by software outside the
  repository; `{}` is the repository alone.
- **Locks.** Every lock and waiter carries the serving node's own id, whoever asked.
  The caller is kept as a history field `owner` that no action of the tables reads.
  A list is a set: requests are numbered as they arrive and the head of a queue is
  its oldest. A call of `replicate_command` is `ReplicateCommand` of `Raft.tla`; its
  result is ignored and it does not suspend, so it is not a step of the callers.
- **Leader names.** `current_leader` is the string `node-<id>` (`raft.py:318`, `:359`),
  not an address of the cluster list. A forwarded call reaches its target where the
  deployment resolves that name to the node; where it does not, every forwarded call
  is `AskFails`. Both are behaviours of `LockCluster`.
- **Sequences.** What an expiry or a deletion leaves of a deque (`Live`) or of an order
  of use (`Kept`) is a recursive function of the position, so that TLC evaluates it and
  the proofs can follow it.
- **Queue.** A message is its number; content, producer and delivery count are
  left out since nothing depends on them. `start()` and `stop()` have one owner
  and wait for each other. A cancelled task may leave one command on its way. `torn`
  says that the list is deleted and nothing pushed since; `broken` that a crash found
  it so, or that a load failed.
- **Crashes.** A process of `Raft`, `LockCluster`, `MessageQueue` and `Cache` may end at
  any step and come back with what its constructor makes. `LockManager` is one
  process; it stops and starts, and a crash of it is a return to `Init`, which is why
  `LockCluster` has the crashes.
- **Cache.** A value is the number of the call that wrote it. A request that failed
  may have been handled, may be gone, or may still arrive. The first `start()` of a
  process registers the message handlers (`cache_node.py:217-229`) and starts the
  cleanup task; the model begins after it. `stop()` takes no handler away, so that later
  `stop()` and `start()` decide only whether the cleanup task runs; `Cleanup` may happen
  or never happen. `Restart` loses the calls of the process, and the whole broadcast
  of such a call stays on its way; a process that dies with part of its broadcast
  unsent is a `Restart` and a `RequestFails`, which marks the key as `disturbed`.
- **Failure detector.** Callbacks are the deployment's. They may suspend the pass and
  may raise; they are assumed not to swallow its cancellation, and recovery
  callbacks, which run inside `record_heartbeat`, not to call the detector. No code in
  `src/` calls `record_heartbeat` or `unregister_node`; any caller may.
- **Hash ring.** MD5 is any function from virtual nodes and keys to positions.

## 3. What the runs check

Passing runs (distinct states in parentheses):

| run | instance | shows |
|---|---|---|
| `raft_quorum` (128,909) | 3 nodes, peers only, 2 terms, 3 elections | `ElectionSafety` and `MajorityWins` where 2 votes of 3 elect; `NobodyElseDeposes`; `RefinesLeadership` |
| `raft_live` (13,072) | 2 nodes, 2 terms, 4 elections, logs of 1, 2 stops, append-entries, fair | `TypeOK`; `ElectionInv`, the inductive invariant; `ElectionCompletes`; `LeaderIsKnown`: everybody comes to name a leader that beats |
| `lock_table` (30,348) | 2 callers (1 remote), 1 resource, 4 requests, 1 stop, fair | `TypeOK`; `LockInv`, the inductive invariant; `ServedIsTheLoop` on every table and queue that comes up; `TableComesToRest`: expiry alone serves every waiter and clears table, books and alarm |
| `lock_cluster` (365,771) | 2 nodes, 1 of which may crash, after which both may win the term, 2 callers, 2 requests, 1 term, fair | `TypeOK`; `ServersHaveWon`; `BeliefsAreBacked`; `OneWinnerExcludes`; `TablesComeToRest` |
| `queue` (1,054,542) | 2 messages, room for 2, any 2 of a stop, a crash and a Redis error, fair | `TypeOK`, `OneCopy`, `SavedIsStored`, `SavedSurvives`, `NothingLost`, `FirstInFirstOut`, `DeadMessagesGo`, `EveryMessageIsSaved` |
| `cache` (242,152) | 3 nodes, 2 keys, room for 1, 2 calls, a failed request, a crash, an expiry, fair | `TypeOK` with the order of use, `CoherentWhenQuiet`, `ComesToRest` |
| `failure_detector` (107,600) | 2 configured addresses and a stranger, limit 3, 2 beats, 1 unregistration, 1 stop, fair | `TypeOK`, `SetsAgree`, `NoFalseAlarm`, `SuspectedFirst`, `SilentAreFailed` |
| `hash_ring` (87,025) | 2 rings, 3 nodes, 1 key, every hash function on 5 positions | `TypeOK`, `RoutesAgree`, `MovesAreMinimal` |

Runs that end in a violation, each of a sentence the repository says of itself:

| run | property | the code |
|---|---|---|
| `raft_shipped` | `ElectionCompletes` | answers to vote requests are dropped: nobody is ever elected |
| `raft_double_vote` | `ElectionSafety` | "persistent" state is not persisted: one crash suffices |
| `raft_logs` (3 nodes, answers delivered) | `LogsAgree` | a leader calls committed what it alone has: the leader of the next term, elected by the third node, commits another command at the same index |
| `lock_release` | `SingleHolder` | one release drops the locks of all callers |

The models follow the code in other places where it is not what a reader
expects. These have no run of their own:

- *Raft.* A node listed under another name than its own, as `docker-compose.yml` and
  the default of `config.py` do, hears its own heartbeat and steps down in its own
  term (`FollowSender` with `OwnAddress = "unmatched"`; `raft.py:354-359`), although the
  repository's README says "Periodic heartbeats untuk maintain leadership" (line 186).
  `NobodyElseDeposes` allows this and nothing else within a term: a leader goes only
  for a newer term or a message of its own. Three self-listed nodes need three votes
  (`Majority`), so that a minority that is down stops every election; `MajorityWins` is not
  run there, and `MajorityAlwaysWins` excludes it by its hypothesis. `current_leader`
  of a deposed leader goes on naming itself until a heartbeat arrives
  (`HandleRequestVote` leaves it alone). `Stop` and `Start` of a leader leave it leading
  without heartbeats, which is why `LeaderIsKnown` speaks of leaders whose heartbeat
  task runs. With two nodes logs cannot differ as in `raft_logs`, since both must vote
  and the voter compares its log with the candidate's (`UnanimousLogsAgree`).
- *Locks.* A local caller that waits is answered False and granted the lock
  later (`Served` in `Release` and `Cleanup`). A new reader is granted past a
  waiting writer (`CanGrant`), and the loop over the wait queue goes on past a writer it
  cannot grant (`Served`): readers overtake older writers for as long as readers come,
  although the repository's README says "Timestamp-based priority untuk fairness" (line
  204). No property states an order; that every waiter is served once callers stop
  is `TableComesToRest`. `held` and `waiting` are cleared for all by the
  first expiry or the first waiter served; `BooksAreFounded` is what is left of
  them. `DetectDeadlocks` reports any wait.
- *Several lock managers.* Tables are not replicated: with two winners, callers may
  hold exclusive locks of one resource on two nodes, which is why
  `OneWinnerExcludes` asks for one winner. Tables are in memory only: a winner that
  crashes and leads again grants a lock that its caller was told True for and still
  believes in (`Crash` puts what it loses into `ended`), and its waiters are forgotten. The
  recovery of "Lock Ownership" in `architecture.md:247-277` is not in the code. A forwarded release may arrive after its
  caller gave it up and take a later lock away; `ended` records the locks it meets.
- *Queue.* `Nack` onto a full deque drops its oldest message (`Capped`). An
  empty queue is not saved, so messages that were acked are loaded again by the
  next start (`Snapshot`). A crash between DELETE and RPUSH loses what
  was saved (`SavedSurvives` excludes it by `broken`); an error there leaves the list empty
  until the next save, and loses it only if a crash comes before that. The command of a
  save that `stop()` cancelled may reach Redis after those of `stop()`, delete what it
  saved or push it twice. A delivered message is saved
  nowhere, so a crash before its ack may lose it. A message enqueued while a
  restarted process loads precedes the older ones (`Loaded`; hence
  `FirstInFirstOut` in a run without restarts). `stop()` followed by `start()`
  appends the saved queue to the one still in memory (hence `stops = 0` in
  `OneCopy`), and `stop()` of a queue whose load failed overwrites the Redis list.
- *Cache.* Two calls of one key that overlap may leave different values on
  different nodes for good, since versions are not compared; so may a request that
  fails, which the sender ignores. `disturbed` records both. No code assigns
  `EXCLUSIVE`, and a modified entry is evicted like any other.
- *Failure detector.* A node that is unregistered while a pass has still to check it
  may be put into `suspected_nodes` or `failed_nodes` by the rest of the pass and
  stays there (`ghosted`). With a limit of one a node goes from alive to failed.
- *Hash ring.* Of two nodes with a common position the later one has it, and its
  removal does not give it back; `RoutesAgree` therefore excludes collisions.

**Bounds.** Three nodes are the repository's deployment and the least in which a
majority is not everybody; with two nodes the bounds leave room for stops, logs
and append-entries. (With `"unmatched"` lists the safety properties of `raft_live` were
explored too, 1.5 million states, and held; its liveness is too slow to be a run.) Two terms let a newer election meet the messages of an older
one, and a third election makes two candidates of one term or a second try; the
fourth of `raft_live` re-elects after a leader was stopped and started.
A local and a remote caller make all pairs of lock types and origins; four
requests are a holder with three waiters behind it, readers between writers
included. Resources of `LockManager` do not interact except in the cleanup pass,
which treats each alone; the proofs are for any number of them. In `LockCluster` two
nodes are a server and a forwarder, or two servers with separate tables; two
requests are the least that can conflict, and callers release any number of times.
One term is enough, since after a crash both nodes may win it; a node whose table
is empty loses nothing by a crash, so that two winners without any loss are among
the behaviours. The proofs are for any number of nodes, terms, requests and crashes.
Two messages are enough to be out of order and to fill a queue of two, also
across a nack and a save. Two troubles of the queue (`MaxTroubles`) are an error and the crash
that finds what it left, a crash and an error of the load after it, or either
and a stop. Two calls of the cache are a writer and
what it meets; two keys and room for one evict on each. Two beats take a failed
node back to alive. Three nodes are the least in which a key could move between
two others. Bounds are constants (`Max...`) and stand in the guards; every counter
with a bound exists for the bound alone, except `enqueued`, `requests` and `begun`,
which also number messages, requests and calls. Elections are counted by the votes
candidates gave themselves.

Deadlock is checked for the hash ring, where something can always be done. It is
not checked elsewhere: the bounds end every behaviour, and a cluster or a queue that
nobody calls may rest.

**Fairness.** All of it is weak fairness, in `FairSpec` of each module: an action
that stays enabled happens. Raft: the server of a node runs the handler of a
posted vote request, vote response or heartbeat (heartbeats of each sender), and a
heartbeat task keeps beating; elections themselves are not forced. Locks: every
timeout is finite, cleanup and detector loops keep running, a stopped manager is
started again. Lock cluster: timeouts and cleanup tasks only; nobody needs to
lead, to call or to be answered. Queue: Redis answers, the cleanup and persistence tasks keep
running, a stopped queue is started again; a message may live for ever. Cache: a
request reaches its target unless it fails, and a call whose broadcast is over goes
on. Failure detector: passes go on until `stop()`, callbacks return, time passes, a
stopped detector is started again. Nothing is assumed of callers, producers,
consumers, leaders or the senders of heartbeats.

## 4. What is proved

All proofs are for every value of the constants under the named assumptions of
the modules: the set of nodes is finite, `Nil` is not one of them, `OwnAddress`
and `Posted` take one of their meanings, remote callers are callers, configured
addresses are addresses, sizes and limits are positive, bounds are natural numbers.

`RaftProofs`, for `Spec` (no crash of a process; stops and starts are included):

- `TypeCorrect`: `[]TypeOK`.
- `ElectionInvariant`: `[]ElectionInv`. `ElectionSafety` is not inductive: a
  state in which a leader has no votes behind it satisfies it and the next step
  does not. The strengthening says that votes are remembered as long as they
  can be asked for again (`VotesRemembered`), are given once a term
  (`OneVotePerTerm`), and that every answer, counted vote, leader, leader's
  message and leader hint is backed by granted votes.
- `ElectionSafe`: `[]ElectionSafety`. Two leaders of a term have each more than
  half of the nodes as voters (`MajorityIsMajority` covers the odd formula of the
  code with and without the node itself in the list); two such sets meet
  (`QuorumsMeet`); the common voter voted once.
- `LeadersStay`: `NobodyElseDeposes`, for every form of cluster list. A leader's message in
  a term was sent by the one leader of that term (`LeadersNameThemselves` and election
  safety), so one that deposes a leader of its own term is its own.
- `ImplementsLeadership`: `RefinesLeadership`. A step that completes a set of
  voters is `Win` of the abstract module, a candidate that counts enough answers
  is `Lead`, a step down is `Resign`, all others stutter.

- `MajorityAlwaysWins`: `[]MajorityWins` in clusters of two or more nodes that list
  their peers only, or whose number is even. The inductive invariant is that every
  candidate is still short of the majority (`CandidatesNeedMore`); under the
  hypothesis more than half of the nodes make that majority (`MajorityOfNodes`). In the
  other settings the code asks for one vote more, so a bare majority does not win.
- `UnanimousLogsAgree`: `[]LogsAgree` where a majority is all nodes (three self-listed
  ones, or two). `LogInv` says that one log at most has entries (`OneLog`): a vote
  request says whether its sender's log is empty (`RequestsDescribe`), entries are of terms
  that were won (`EntriesElected`), and a node that has entries votes for an empty
  log only in a term before its entries' (`VotesFollowLogs`), so that no second node wins.
  The hypothesis is part of the statement: without it the property is false, which is
  the run `raft_logs`.

`LockTableProofs` holds the lemmas about the operators of `LockTable` that both
lock modules use: what is granted is compatible with what is there
(`GrantCompatible`, `ServedCompatible`), what a free resource serves
(`ServedFromFree`), what expiry keeps (`LapseKeeps`), and that the loop grants what
`Served` says (`LoopServes`): after the entries below any number it has granted what
`Served` gives for these (`ServedOneMore`).

`LockProofs`, for `Spec` of the lock manager:

- `LockTypeCorrect`: `[]TypeOK`.
- `LockInvariant`: `[]LockInv`. The exclusion of the table needs that a request is
  in one place only, since granted locks are recognised by their number; that
  nobody waits for a free resource is proved with it, one resource at a time, by
  one lemma per thing that can happen to a resource (`StepResourceInv`), and
  that the books are founded follows step by step (`StepBooks`).
- `ServiceIsTheLoop`: `[]ServedIsTheLoop`, from `LoopServes`. It needs the invariant: waiters
  are numbered, each once, and the table excludes.

`LockClusterProofs`, for `Spec` of the cluster:

- `ClusterTypeCorrect`: `[]TypeOK`.
- `ServersAlwaysHaveWon`, `BeliefsAlwaysBacked`, `OneWinnerAlwaysExcludes`, all from
  `ClusterInv`. None is inductive alone: a table is filled by a message, which was
  addressed by a hint, so leaders, hints, messages and answers must name winners
  (`ChannelsReachWinners`); a belief comes from an answer, so an answer on its way
  must be backed already (`AnswersAreBacked`); and each table must exclude
  (`TablesExclude`). Crashes are included, any number of them: a lock that a crash lost is
  `ended`, as one is that expired or was released, and neither theorem says anything of it.
- `OneLeader`: for the abstract module, `[]OneLeaderPerTerm`, from `LeadershipInv`: a term
  is won once, and a leader has won its term. With `ImplementsLeadership` this is
  election safety a second time, by refinement.
- `ClusterIsLed`: `Spec => L!Spec` if `MaxCrashes = 0`. The cluster's elections are those of `Leadership`, so
  that what is proved here about winners holds of whatever implements it, `Raft` first.

`QueueProofs`, from `QueueInv`, which has one part per question:

- `QueueTypeCorrect`: `[]TypeOK`, with the bound of the deque.
- `NeverTwoCopies`: `[]OneCopy`. Until `stop()` only the persistence task saves; a list that
  is being loaded is still the one in Redis, and nothing of it is in the process (`Alone`).
- `SavesKeepWhatWaits`: `[]SavedIsStored`. What waits for its first delivery and was saved
  is in Redis, or in the list of the save under way between its two commands
  (`WaitingIsSaved`), or the list is `torn`, deleted by a save that failed since; a snapshot has all that waits, since nothing leaves the queue but by
  delivery, expiry or overflow.
- `SavedAlwaysSurvives`: `[]SavedSurvives`. A crash takes the process's copy away and
  a save the stored one, so the invariant (`SavedIsSomewhere`) says that each of them has
  everything whenever the other may lose it; while the list is `torn` the process runs and
  has it. The statement leaves out what does lose messages: a crash with the list torn, a
  failed load, and a queue without room for all.
- `NothingEverLost`: `[]NothingLost`, which is inductive with the fact that a queue without
  duplicates never exceeds the number of messages (`RoomForAll`).
- `FirstDeliveriesInOrder`: `FirstInFirstOut`, from the order of what was never delivered
  (`InOrder`) and that the one load of a first life finds nothing.

`CacheProofs`:

- `CacheIsCoherent`: `[]CoherentWhenQuiet`. Coherence says nothing while a call is
  under way, so the invariant (`CacheInv`) says what holds then: all that is under way
  for an undisturbed key comes from one call (`OneCall`), and the nodes its broadcast
  has reached have no valid copy, or one of the new value (`Reached`). When the last
  message and the call are gone, every node has been reached.
- `CacheTypeCorrect`: `[]TypeOK`. The order of use of a cache lists the keys that are there, each
  once (`KeptOnce`, `LatestOnce`), so that its length is the cache's size and what is
  evicted is there. Calls and messages carry the numbers of calls that began (`Counts`).

`FailureProofs`, from `DetectorInv`:

- `DetectorTypeCorrect`, `SetsAlwaysAgree`: the pass's copy holds registered nodes or
  ones unregistered behind its back (`CopyFounded`).
- `NoAlarmAfterBeat`: who has beaten since the pass began is not late for it
  (`BeatenInTime`).
- `SuspicionComesFirst`: an alive node has missed fewer than half the limit
  (`AliveMissedFew`), so one more miss does not reach a limit of two or more.

`HashRingProofs`, from `RingInv`:

- `RingTypeCorrect`: rings name members at their own points.
- `RoutesAlwaysAgree`: without collisions a ring has all points of its members
  (`Full`), so the members determine it.
- `MovesAlwaysMinimal`: the first position from a hash on stays first when other
  positions go (`NearestAmongFewer`). That a least position exists
  (`LeastIsLeast`) is proved from the well-foundedness of finite subsets.

**Induction.** The theorems about sequences and the loop are inductions on a position. The
library states induction for an operator, which the provers cannot instantiate;
`NatInSet` states it for a set instead (a set of numbers with 0 and every successor has them
all) and is proved from the well-foundedness of finite subsets. A recursive function is
shown to exist (`LiveExists`, `KeptExists`, `LoopExists`) before its equations are used.
The lemma stands in three modules, which have no module in common.

**Only model-checked** is liveness (`ElectionCompletes`, `LeaderIsKnown`,
`TableComesToRest`, `TablesComeToRest`, `DeadMessagesGo`, `EveryMessageIsSaved`, `ComesToRest`,
`SilentAreFailed`), which rests on `ENABLED` and is out of the prover's reach. Every
safety invariant and action property of the passing runs is stated by a theorem.

## 5. Not modelled

Metrics, configuration parsing, HTTP routes, queries, statistics and log output,
which no property depends on. `next_index`, `match_index` and `last_applied` of Raft are
written and never read, and so are the versions of cache entries. `CACHE_SYNC` is sent by
nobody and its handler only reads. `ping` compares an answer that no handler gives.
The retry that the repository's README mentions does not exist in the code. What a
client does with an answer is the client's, and the load tests are one. The
deployment files enter through the constants `OwnAddress`, `SelfSends` and `Posted`.

## 6. State of the plan

Every component with behaviour of its own is modelled: elections and their
refinement, the lock manager of a leader and the cluster of them, the queue of a
node, the cache, the failure detector and the hash ring, each with its theorems. What
could follow:

- The lock manager's table as an implementation of an abstract lock, with the callers'
  beliefs as its state: `lock_release` shows that the code does not implement it once
  one caller releases what another holds, so the abstract lock would have to allow that.
- The order in which waiters are served, once the code has one.
- What `LogInv` becomes where a majority is fewer than all: only that each leader's
  log keeps its own entries, since nothing is replicated.
- The depth-first search of `_detect_deadlocks` against reachability. With one
  node id in the whole graph it cannot say more than `DetectDeadlocks` does; it
  becomes worth a module once locks name their callers.
- `LockCluster` over `Raft` itself, without `Leadership` between them: a product of
  two state spaces that says no more than the refinement does.
