-------------------------------- MODULE Cache --------------------------------
(***************************************************************************)
(* The DistributedCache of every node (src/nodes/cache_node.py): the LRU   *)
(* cache, get, set and delete, the updates and invalidations they send,    *)
(* expiry, and crashes of a process.                                       *)
(*                                                                         *)
(* set() looks the key up and decides on the new MESI state, then waits    *)
(* for its broadcast, then stores: two actions, with anything in between.  *)
(* The broadcast is over when every target has answered or its request has *)
(* failed; a request that was given up may still arrive.                   *)
(*                                                                         *)
(* A value is the number of the call that wrote it.  stop() and start()    *)
(* only decide whether the cleanup task runs, and Cleanup may happen at    *)
(* any time or never.  Nothing sends a CACHE_SYNC, whose handler only      *)
(* reads; nothing reads the version of an entry.                           *)
(***************************************************************************)
EXTENDS Naturals, Sequences, SequencesExt

CONSTANTS
    Node,        \* the processes of the cluster
    Key,         \* keys of the cache
    MaxSize,     \* max_size of the LRU cache of a node
    SelfSends,   \* is a node listed under a name that it does not know as its own?
    MaxCalls,    \* bound on the calls of set() and delete()
    MaxFaults,   \* bound on requests that fail or are given up
    MaxCrashes,  \* bound on crashes
    MaxExpiries  \* bound on entries whose time to live ends

ASSUME SizeAssumption == MaxSize \in Nat \ {0}
ASSUME SelfAssumption == SelfSends \in BOOLEAN
ASSUME CacheBoundAssumption == {MaxCalls, MaxFaults, MaxCrashes, MaxExpiries} \subseteq Nat

VARIABLES
    cache,     \* per node the entries, and the keys from least to most recently used
    calls,     \* calls of set() that wait for their broadcast
    msgs,      \* updates and invalidations on their way
    begun,     \* how many calls of set() and delete() there were
    last,      \* history: the number of the latest set() of a key, or 0
    disturbed, \* history: keys with overlapping calls, or a request that failed
    faults, crashes, expiries

bounds == <<faults, crashes, expiries>>
vars == <<cache, calls, msgs, begun, last, disturbed, bounds>>
-----------------------------------------------------------------------------
\* No code assigns EXCLUSIVE.  An entry that is not in the cache is Absent.
Entry == [value : Nat, state : {"M", "S", "I", "absent"}, expired : BOOLEAN]
Absent == [value |-> 0, state |-> "absent", expired |-> FALSE]
Fresh(v, state) == [value |-> v, state |-> state, expired |-> FALSE]
Valid(e) == e.state \in {"M", "S"} /\ ~e.expired

\* What deletions leave of an order of use.
Kept(order, gone) ==
    LET kept[i \in 0 .. Len(order)] == IF i = 0 THEN << >>
                                       ELSE IF order[i] \in gone THEN kept[i - 1]
                                       ELSE Append(kept[i - 1], order[i])
    IN  kept[Len(order)]

\* Every key of gone that is there is deleted.
Without(c, gone) ==
    [entry |-> [k \in Key |-> IF k \in gone THEN Absent ELSE c.entry[k]],
     order |-> Kept(c.order, gone)]

\* LRUCache.delete
Dropped(c, k) == Without(c, {k})

\* Move to the end: k is the latest used.
Latest(order, k) == Append(Kept(order, {k}), k)

\* LRUCache.get: an invalid entry is deleted, a valid one becomes the latest used.
Looked(c, k) ==
    IF Valid(c.entry[k])
    THEN [c EXCEPT !.order = Latest(@, k)]
    ELSE Dropped(c, k)

\* Mutant: a full cache is not full yet.
RoomForOneMore(c, k) == IF Len(c.order) > MaxSize THEN Dropped(c, Head(c.order)) ELSE c

\* A new key evicts the least recently used one, whatever its state.
RoomFor(c, k) ==
    IF c.entry[k] = Absent /\ Len(c.order) >= MaxSize THEN Dropped(c, Head(c.order)) ELSE c

\* LRUCache.put
Stored(c, k, e) ==
    LET d == RoomFor(c, k)
    IN [entry |-> [d.entry EXCEPT ![k] = e], order |-> Latest(d.order, k)]

Targets(n) == IF SelfSends THEN Node ELSE Node \ {n}

Call == [id : Nat, node : Node, key : Key, state : {"M", "S"}]
Message == [type : {"update", "invalidate"}, id : Nat, key : Key, dst : Node, late : BOOLEAN]

Broadcast(type, n, k) ==
    {[type |-> type, id |-> begun + 1, key |-> k, dst |-> d, late |-> FALSE] : d \in Targets(n)}

\* A call of set() or delete() on k, or something it has sent, is not over.
Quiet(k) == (\A m \in msgs : m.key # k) /\ (\A c \in calls : c.key # k)

Init ==
    /\ cache = [n \in Node |-> [entry |-> [k \in Key |-> Absent], order |-> << >>]]
    /\ calls = {} /\ msgs = {}
    /\ begun = 0 /\ last = [k \in Key |-> 0]
    /\ disturbed = {}
    /\ faults = 0 /\ crashes = 0 /\ expiries = 0
-----------------------------------------------------------------------------
Get(n, k) ==
    /\ cache' = [cache EXCEPT ![n] = Looked(@, k)]
    /\ UNCHANGED <<calls, msgs, begun, last, disturbed, bounds>>

\* Every call of set() or delete().  One that begins before another of its key
\* is over disturbs the key.
Begin(k) ==
    /\ begun < MaxCalls
    /\ begun' = begun + 1
    /\ disturbed' = IF Quiet(k) THEN disturbed ELSE disturbed \cup {k}
    /\ UNCHANGED bounds

\* Mutant: a shared entry is written without an update.
OwnedOrShared(e) == Valid(e)

\* The entry need not be announced when it is written.
Owned(e) == Valid(e) /\ e.state = "M"

SetWaits(n, k, type, state) ==
    /\ Begin(k)
    /\ cache' = [cache EXCEPT ![n] = Looked(@, k)]
    /\ msgs' = msgs \cup Broadcast(type, n, k)
    /\ calls' = calls \cup {[id |-> begun + 1, node |-> n, key |-> k, state |-> state]}
    /\ last' = [last EXCEPT ![k] = begun + 1]

SetExclusive(n, k) == SetWaits(n, k, "invalidate", "M")

SetShared(n, k) == ~Owned(cache[n].entry[k]) /\ SetWaits(n, k, "update", "S")

\* A modified entry is written again at once, and nobody is told.
SetOwned(n, k) ==
    /\ Begin(k)
    /\ Owned(cache[n].entry[k])
    /\ cache' = [cache EXCEPT ![n] = Stored(Looked(@, k), k, Fresh(begun + 1, "M"))]
    /\ last' = [last EXCEPT ![k] = begun + 1]
    /\ UNCHANGED <<calls, msgs>>

\* Every target has answered, or its request has failed.
Answered(c) == \A m \in msgs : m.id = c.id => m.late

SetEnds(n) ==
    \E c \in calls :
        /\ c.node = n /\ Answered(c)
        /\ cache' = [cache EXCEPT ![n] = Stored(@, c.key, Fresh(c.id, c.state))]
        /\ calls' = calls \ {c}
        /\ UNCHANGED <<msgs, begun, last, disturbed, bounds>>

\* Nobody is told of a key that this node does not have.
Delete(n, k) ==
    /\ Begin(k)
    /\ cache[n].entry[k] # Absent
    /\ cache' = [cache EXCEPT ![n] = Dropped(@, k)]
    /\ msgs' = msgs \cup Broadcast("invalidate", n, k)
    /\ UNCHANGED <<calls, last>>

\* Mutant: the entry stays as it is.
LeftAlone(e) == e

Invalidated(e) == IF e = Absent THEN e ELSE [e EXCEPT !.state = "I"]

HandleInvalidation(n) ==
    \E m \in msgs :
        /\ m.type = "invalidate" /\ m.dst = n
        /\ cache' = [cache EXCEPT ![n].entry[m.key] = Invalidated(@)]
        /\ msgs' = msgs \ {m}
        /\ UNCHANGED <<calls, begun, last, disturbed, bounds>>

\* An update is stored whether the key was there or not.
HandleUpdate(n) ==
    \E m \in msgs :
        /\ m.type = "update" /\ m.dst = n
        /\ cache' = [cache EXCEPT ![n] = Stored(Looked(@, m.key), m.key, Fresh(m.id, "S"))]
        /\ msgs' = msgs \ {m}
        /\ UNCHANGED <<calls, begun, last, disturbed, bounds>>

\* The request failed, or its sender gave it up and it is still on its way.
RequestFails(m) ==
    /\ faults < MaxFaults
    /\ ~m.late
    /\ msgs' \in {msgs \ {m}, (msgs \ {m}) \cup {[m EXCEPT !.late = TRUE]}}
    /\ faults' = faults + 1
    /\ disturbed' = disturbed \cup {m.key}
    /\ UNCHANGED <<cache, calls, begun, last, crashes, expiries>>

\* The time to live of an entry is over.
Expire(n, k) ==
    /\ expiries < MaxExpiries
    /\ cache[n].entry[k] # Absent /\ ~cache[n].entry[k].expired
    /\ cache' = [cache EXCEPT ![n].entry[k].expired = TRUE]
    /\ expiries' = expiries + 1
    /\ UNCHANGED <<calls, msgs, begun, last, disturbed, faults, crashes>>

\* One pass of the cleanup task removes what has expired, and leaves what is invalid.
Cleanup(n) ==
    /\ cache' = [cache EXCEPT ![n] = Without(@, {k \in Key : @.entry[k].expired})]
    /\ UNCHANGED <<calls, msgs, begun, last, disturbed, bounds>>

\* The process of n dies, and its cache and its waiting calls with it.
Restart(n) ==
    /\ crashes < MaxCrashes
    /\ cache' = [cache EXCEPT ![n] = [entry |-> [k \in Key |-> Absent], order |-> << >>]]
    /\ calls' = {c \in calls : c.node # n}
    /\ crashes' = crashes + 1
    /\ UNCHANGED <<msgs, begun, last, disturbed, faults, expiries>>
-----------------------------------------------------------------------------
Handle(n) == HandleInvalidation(n) \/ HandleUpdate(n)

Next ==
    \/ \E n \in Node :
          \/ \E k \in Key :
                \/ Get(n, k)
                \/ SetExclusive(n, k)
                \/ SetShared(n, k)
                \/ SetOwned(n, k)
                \/ Delete(n, k)
                \/ Expire(n, k)
          \/ SetEnds(n)
          \/ Handle(n)
          \/ Cleanup(n)
          \/ Restart(n)
    \/ \E m \in msgs : RequestFails(m)

Spec == Init /\ [][Next]_vars

\* A request reaches its target, and a call whose broadcast is over goes on.
FairSpec == Spec /\ \A n \in Node : WF_vars(SetEnds(n)) /\ WF_vars(Handle(n))
-----------------------------------------------------------------------------
\* The order of use names each key in the cache once, and no more than max_size.
TypeOK ==
    /\ \A n \in Node :
          /\ cache[n].entry \in [Key -> Entry]
          /\ IsInjective(cache[n].order) /\ Len(cache[n].order) <= MaxSize
          /\ ToSet(cache[n].order) = {k \in Key : cache[n].entry[k] # Absent}
    /\ calls \subseteq Call /\ msgs \subseteq Message
    /\ last \in [Key -> 0 .. begun] /\ disturbed \subseteq Key
    /\ begun \in Nat /\ faults \in Nat /\ crashes \in Nat /\ expiries \in Nat

Copy(n, k) == cache[n].entry[k]

\* Every valid copy is of the latest set(), and a modified one is the only one.
Coherent(k) ==
    \A n \in Node : Valid(Copy(n, k)) =>
        /\ Copy(n, k).value = last[k]
        /\ Copy(n, k).state = "M" => \A d \in Node \ {n} : ~Valid(Copy(d, k))

\* "Modified: Cache dirty, exclusive ownership" (architecture.md:121), as far as the code goes: when
\* no call of a key is under way, calls of it have never overlapped and no request
\* of it has failed, its copies are coherent, whatever expired, was evicted or
\* died with a process in the middle of a set().
CoherentWhenQuiet == \A k \in Key \ disturbed : Quiet(k) => Coherent(k)

\* When callers stop, every key comes to rest, and undisturbed ones coherent.
ComesToRest == <>[](\A k \in Key : Quiet(k) /\ (k \in disturbed \/ Coherent(k)))
=============================================================================
