----------------------------- MODULE CacheProofs -----------------------------
(***************************************************************************)
(* Proof that the copies of an undisturbed key are coherent when no call   *)
(* of it is under way, for every number of nodes and keys, every size of   *)
(* the caches, every sequence of expiries and crashes, and whether a node  *)
(* sends its updates to itself or not.                                     *)
(*                                                                         *)
(* The invariant says what is true while a call is under way: the nodes    *)
(* that its broadcast has not reached yet are Pending, and the others have *)
(* no copy (invalidation) or one of the new value (update).                *)
(***************************************************************************)
EXTENDS Cache, FiniteSetTheorems, SequenceTheorems, WellFoundedInduction, TLAPS

Shaped(c) ==
    /\ c = [entry |-> c.entry, order |-> c.order]
    /\ c.entry \in [Key -> Entry]

\* TypeOK without the order of use, and without what follows from it.
Shapes ==
    /\ cache = [n \in Node |-> cache[n]]
    /\ \A n \in Node : Shaped(cache[n])
    /\ calls \subseteq Call /\ msgs \subseteq Message
    /\ last \in [Key -> Nat] /\ begun \in Nat

Pending(n, k) ==
    \/ \E m \in msgs : m.key = k /\ m.dst = n
    \/ \E c \in calls : c.key = k /\ c.node = n

Invalidating(k) ==
    \/ \E m \in msgs : m.key = k /\ m.type = "invalidate"
    \/ \E c \in calls : c.key = k /\ c.state = "M"

Updating(k) ==
    \/ \E m \in msgs : m.key = k /\ m.type = "update"
    \/ \E c \in calls : c.key = k /\ c.state = "S"

LatestShared(n, k) ==
    Valid(Copy(n, k)) => Copy(n, k).state = "S" /\ Copy(n, k).value = last[k]

\* Whatever is under way for k comes from one call.
OneCall(k) ==
    /\ \A m \in msgs : m.key = k => ~m.late /\ (m.type = "update" => m.id = last[k])
    /\ \A c \in calls : c.key = k => c.id = last[k]
    /\ \A c, d \in calls : c.key = k /\ d.key = k => c = d
    /\ \A m \in msgs, c \in calls : m.key = k /\ c.key = k => m.id = c.id
    /\ ~(Invalidating(k) /\ Updating(k))

Reached(k) ==
    \A n \in Node : ~Pending(n, k) =>
        /\ Invalidating(k) => ~Valid(Copy(n, k))
        /\ Updating(k) => LatestShared(n, k)

KeyInv(k) == OneCall(k) /\ Reached(k) /\ (Quiet(k) => Coherent(k))

CacheInv == \A k \in Key \ disturbed : KeyInv(k)
-----------------------------------------------------------------------------
LEMMA AbsentIsEntry == Absent \in Entry /\ ~Valid(Absent)
BY DEF Absent, Entry, Valid

\* The operations of the LRU cache keep its shape; what they take away is
\* not valid afterwards, and Stored adds the one entry it is given.
LEMMA WithoutShape ==
    ASSUME NEW c, Shaped(c), NEW gone
    PROVE  /\ Shaped(Without(c, gone))
           /\ \A j \in Key : Without(c, gone).entry[j] = IF j \in gone THEN Absent ELSE c.entry[j]
           /\ Without(c, gone).order = Kept(c.order, gone)
BY AbsentIsEntry DEF Shaped, Without

LEMMA DroppedShape ==
    ASSUME NEW c, Shaped(c), NEW k
    PROVE  /\ Shaped(Dropped(c, k))
           /\ k \in Key => Dropped(c, k).entry[k] = Absent
           /\ \A j \in Key : Dropped(c, k).entry[j] \in {c.entry[j], Absent}
BY WithoutShape DEF Dropped

LEMMA LookedShape ==
    ASSUME NEW c, Shaped(c), NEW k
    PROVE  /\ Shaped(Looked(c, k))
           /\ \A j \in Key : Looked(c, k).entry[j] \in {c.entry[j], Absent}
<1>1. CASE Valid(c.entry[k])
  <2>1. Looked(c, k) = [entry |-> c.entry, order |-> Latest(c.order, k)]
    BY <1>1 DEF Shaped, Looked
  <2> QED BY <2>1 DEF Shaped
<1>2. CASE ~Valid(c.entry[k])
  BY <1>2, DroppedShape DEF Looked
<1> QED BY <1>1, <1>2

LEMMA StoredShape ==
    ASSUME NEW c, Shaped(c), NEW k \in Key, NEW e \in Entry
    PROVE  /\ Shaped(Stored(c, k, e))
           /\ Stored(c, k, e).entry[k] = e
           /\ \A j \in Key \ {k} : Stored(c, k, e).entry[j] \in {c.entry[j], Absent}
<1>1. /\ Shaped(RoomFor(c, k))
      /\ \A j \in Key : RoomFor(c, k).entry[j] \in {c.entry[j], Absent}
  BY DroppedShape DEF RoomFor
<1> DEFINE d == RoomFor(c, k)
           s == Stored(c, k, e)
<1>2. s = [entry |-> [d.entry EXCEPT ![k] = e], order |-> Latest(d.order, k)]
  BY DEF Stored
<1> HIDE DEF d, s
<1>3. s.entry = [d.entry EXCEPT ![k] = e] /\ s = [entry |-> s.entry, order |-> s.order]
  BY <1>2
<1>4. Shaped(d) /\ \A j \in Key : d.entry[j] \in {c.entry[j], Absent}
  BY <1>1 DEF d
<1>5. s.entry \in [Key -> Entry] /\ s.entry[k] = e /\ \A j \in Key \ {k} : s.entry[j] = d.entry[j]
  BY <1>3, <1>4 DEF Shaped
<1> QED BY <1>3, <1>4, <1>5 DEF s, Shaped

LEMMA FreshIsEntry ==
    ASSUME NEW v \in Nat, NEW st \in {"M", "S"}
    PROVE  /\ Fresh(v, st) \in Entry /\ Valid(Fresh(v, st))
           /\ Fresh(v, st).value = v /\ Fresh(v, st).state = st
BY DEF Fresh, Entry, Valid

LEMMA BroadcastMessages ==
    ASSUME NEW type \in {"update", "invalidate"}, NEW n \in Node, NEW k \in Key, begun \in Nat
    PROVE  /\ Broadcast(type, n, k) \subseteq Message
           /\ \A m \in Broadcast(type, n, k) :
                 m.type = type /\ m.key = k /\ m.id = begun + 1 /\ ~m.late
           /\ \A d \in Node \ {n} : \E m \in Broadcast(type, n, k) : m.dst = d
<1>1. ASSUME NEW m \in Broadcast(type, n, k)
      PROVE  /\ m \in Message /\ m.type = type /\ m.key = k /\ m.id = begun + 1
             /\ ~m.late /\ m.dst \in Targets(n)
  <2>1. PICK d \in Targets(n) :
           m = [type |-> type, id |-> begun + 1, key |-> k, dst |-> d, late |-> FALSE]
    BY DEF Broadcast
  <2>2. d \in Node
    BY DEF Targets
  <2> QED BY <2>1, <2>2 DEF Message
<1>2. ASSUME NEW d \in Node \ {n}
      PROVE  \E m \in Broadcast(type, n, k) : m.dst = d
  <2>1. d \in Targets(n)
    BY DEF Targets
  <2>2. [type |-> type, id |-> begun + 1, key |-> k, dst |-> d, late |-> FALSE] \in Broadcast(type, n, k)
    BY <2>1 DEF Broadcast
  <2> QED BY <2>2
<1> QED BY <1>1, <1>2
-----------------------------------------------------------------------------
\* What a step does to the copies, the calls and the messages.  Fewer: no copy of
\* k is new.  Alone: nothing of k is begun, sent, handled or over.
Fewer(k) == \A n \in Node : Copy(n, k)' = Copy(n, k) \/ ~Valid(Copy(n, k))'

Alone(k) ==
    /\ \A m : m.key = k => (m \in msgs' <=> m \in msgs)
    /\ \A c : c.key = k => (c \in calls' <=> c \in calls)
    /\ last'[k] = last[k]

LEMMA Untouched ==
    ASSUME NEW k \in Key, KeyInv(k), Fewer(k), Alone(k)
    PROVE  KeyInv(k)'
<1>1. OneCall(k)'
  BY DEF KeyInv, OneCall, Alone, Invalidating, Updating
<1>2. \A n : Pending(n, k)' <=> Pending(n, k)
  BY DEF Pending, Alone
<1>3. (Invalidating(k)' <=> Invalidating(k)) /\ (Updating(k)' <=> Updating(k))
  BY DEF Invalidating, Updating, Alone
<1>4. Reached(k)'
  BY <1>2, <1>3 DEF KeyInv, Reached, LatestShared, Fewer, Alone, Valid
<1>5. (Quiet(k) => Coherent(k))'
  BY DEF KeyInv, Quiet, Coherent, Fewer, Alone, Valid
<1> QED BY <1>1, <1>4, <1>5 DEF KeyInv

\* A step of node n that changes its cache into c.
LEMMA OneCacheChanges ==
    ASSUME Shapes, NEW n \in Node, NEW c, Shaped(c),
           cache' = [cache EXCEPT ![n] = c]
    PROVE  /\ cache' = [d \in Node |-> cache'[d]]
           /\ \A d \in Node : Shaped(cache'[d])
           /\ \A k : Copy(n, k)' = c.entry[k]
           /\ \A d \in Node \ {n} : \A k : Copy(d, k)' = Copy(d, k)
<1>1. cache' = [d \in Node |-> IF d = n THEN c ELSE cache[d]]
  BY DEF Shapes
<1> QED BY <1>1 DEF Shapes, Copy

LEMMA OthersFewer ==
    ASSUME Shapes, NEW n \in Node, NEW c, Shaped(c), NEW k \in Key,
           cache' = [cache EXCEPT ![n] = c],
           c.entry[k] \in {cache[n].entry[k], Absent}
    PROVE  Fewer(k)
<1>1. Copy(n, k)' = Copy(n, k) \/ Copy(n, k)' = Absent
  BY OneCacheChanges DEF Copy
<1>2. \A d \in Node \ {n} : Copy(d, k)' = Copy(d, k)
  BY OneCacheChanges
<1> QED BY <1>1, <1>2, AbsentIsEntry DEF Fewer, Valid
-----------------------------------------------------------------------------
Good == Shapes /\ CacheInv

\* The steps that only take valid copies away.
LEMMA FewerStep ==
    ASSUME Good, NEW n \in Node, NEW c, Shaped(c), cache' = [cache EXCEPT ![n] = c],
           \A k \in Key : c.entry[k] = cache[n].entry[k] \/ ~Valid(c.entry[k]),
           UNCHANGED <<calls, msgs, begun, last, disturbed>>
    PROVE  Good'
<1>1. Shapes'
  BY OneCacheChanges DEF Good, Shapes
<1>2. ASSUME NEW k \in Key \ disturbed'
      PROVE  KeyInv(k)'
  <2>1. Fewer(k)
    <3>1. Copy(n, k)' = c.entry[k] /\ \A d \in Node \ {n} : Copy(d, k)' = Copy(d, k)
      BY OneCacheChanges DEF Good
    <3> QED BY <3>1 DEF Fewer, Copy, Valid
  <2>2. Alone(k)
    BY DEF Alone
  <2> QED BY <2>1, <2>2, Untouched DEF Good, CacheInv
<1> QED BY <1>1, <1>2 DEF Good, CacheInv

LEMMA GetGood ==
    ASSUME Good, NEW n \in Node, NEW k \in Key, Get(n, k)
    PROVE  Good'
<1> DEFINE c == Looked(cache[n], k)
<1>1. Shaped(c) /\ \A j \in Key : c.entry[j] \in {cache[n].entry[j], Absent}
  BY LookedShape DEF Good, Shapes
<1>2. cache' = [cache EXCEPT ![n] = c] /\ UNCHANGED <<calls, msgs, begun, last, disturbed>>
  BY DEF Get
<1> HIDE DEF c
<1> QED BY <1>1, <1>2, FewerStep, AbsentIsEntry

LEMMA CleanupGood ==
    ASSUME Good, NEW n \in Node, Cleanup(n)
    PROVE  Good'
<1> DEFINE c == Without(cache[n], {k \in Key : cache[n].entry[k].expired})
<1>1. Shaped(c) /\ \A k \in Key : c.entry[k] = cache[n].entry[k] \/ ~Valid(c.entry[k])
  BY WithoutShape, AbsentIsEntry DEF Good, Shapes
<1>2. cache' = [cache EXCEPT ![n] = c] /\ UNCHANGED <<calls, msgs, begun, last, disturbed>>
  BY DEF Cleanup
<1> HIDE DEF c
<1> QED BY <1>1, <1>2, FewerStep

LEMMA EntryReplaced ==
    ASSUME NEW c, NEW e, NEW o, NEW f, c = [entry |-> e, order |-> o]
    PROVE  [c EXCEPT !.entry = f] = [entry |-> f, order |-> o]
OBVIOUS

LEMMA ExpireGood ==
    ASSUME Good, NEW n \in Node, NEW k \in Key, Expire(n, k)
    PROVE  Good'
<1> DEFINE f == [cache[n].entry EXCEPT ![k].expired = TRUE]
           c == [entry |-> f, order |-> cache[n].order]
<1>1. Shaped(cache[n])
  BY DEF Good, Shapes
<1>2. cache' = [cache EXCEPT ![n] = c]
  <2>1. cache[n] = [entry |-> cache[n].entry, order |-> cache[n].order]
    BY <1>1 DEF Shaped
  <2>2. cache' = [cache EXCEPT ![n] = [cache[n] EXCEPT !.entry = f]]
    BY DEF Expire
  <2> HIDE DEF f
  <2>3. c = [cache[n] EXCEPT !.entry = f]
    BY <2>1, EntryReplaced
  <2> QED BY <2>2, <2>3
<1>3. c.entry = [cache[n].entry EXCEPT ![k].expired = TRUE] /\ c = [entry |-> c.entry, order |-> c.order]
  OBVIOUS
<1> HIDE DEF c
<1>4. Shaped(c) /\ \A j \in Key : c.entry[j] = cache[n].entry[j] \/ ~Valid(c.entry[j])
  <2>1. [cache[n].entry[k] EXCEPT !.expired = TRUE] \in Entry /\ ~Valid([cache[n].entry[k] EXCEPT !.expired = TRUE])
    BY <1>1 DEF Shaped, Entry, Valid
  <2> QED BY <1>1, <1>3, <2>1 DEF Shaped
<1> QED BY <1>2, <1>4, FewerStep DEF Expire

\* A process that dies takes its waiting calls with it; its cache is empty, so it
\* need not be reached any more.
LEMMA RestartGood ==
    ASSUME Good, NEW n \in Node, Restart(n)
    PROVE  Good'
<1> DEFINE c == [entry |-> [k \in Key |-> Absent], order |-> << >>]
<1>1. Shaped(c) /\ \A k \in Key : c.entry[k] = Absent
  BY AbsentIsEntry DEF Shaped
<1>2. cache' = [cache EXCEPT ![n] = c] /\ calls' = {d \in calls : d.node # n}
  BY DEF Restart
<1>3. UNCHANGED <<msgs, begun, last, disturbed>>
  BY DEF Restart
<1> HIDE DEF c
<1>4. \A k \in Key : ~Valid(Copy(n, k))' /\ \A d \in Node \ {n} : Copy(d, k)' = Copy(d, k)
  <2>1. Shapes /\ Shaped(c) /\ cache' = [cache EXCEPT ![n] = c]
    BY <1>1, <1>2 DEF Good
  <2>2. /\ \A k \in Key : Copy(n, k)' = c.entry[k]
        /\ \A d \in Node \ {n} : \A k \in Key : Copy(d, k)' = Copy(d, k)
    BY <2>1, OneCacheChanges
  <2>3. \A k \in Key : Copy(n, k)' = Absent
    BY <1>1, <2>2
  <2> QED BY <2>2, <2>3, AbsentIsEntry DEF Valid
<1>5. Shapes'
  BY <1>1, <1>2, <1>3, OneCacheChanges DEF Good, Shapes
<1>6. ASSUME NEW k \in Key \ disturbed'
      PROVE  KeyInv(k)'
  <2>1. KeyInv(k)
    BY <1>3 DEF Good, CacheInv
  <2>2. OneCall(k)'
    BY <2>1, <1>2, <1>3 DEF KeyInv, OneCall, Invalidating, Updating
  <2>3. \A d \in Node \ {n} : Pending(d, k)' <=> Pending(d, k)
    BY <1>2, <1>3 DEF Pending
  <2>4. (Invalidating(k)' => Invalidating(k)) /\ (Updating(k)' => Updating(k))
    BY <1>2, <1>3 DEF Invalidating, Updating
  <2>5. Reached(k)'
    BY <2>1, <2>3, <2>4, <1>3, <1>4 DEF KeyInv, Reached, LatestShared, Valid
  <2>6. ASSUME Quiet(k)'
        PROVE  Coherent(k)'
    <3>1. ASSUME NEW d \in Node \ {n}
          PROVE  ~Pending(d, k)
      BY <2>6, <2>3 DEF Quiet, Pending
    <3>2. CASE Quiet(k)
      BY <3>2, <2>1, <1>3, <1>4 DEF KeyInv, Coherent, Valid
    <3>3. CASE ~Quiet(k)
      <4>1. Invalidating(k) \/ Updating(k)
        BY <3>3 DEF Quiet, Invalidating, Updating, Good, Shapes, Message, Call
      <4>2. \A d \in Node \ {n} : ~Valid(Copy(d, k)) \/ LatestShared(d, k)
        BY <2>1, <3>1, <4>1 DEF KeyInv, Reached
      <4> QED BY <4>2, <1>3, <1>4 DEF Coherent, LatestShared, Valid
    <3> QED BY <3>2, <3>3
  <2> QED BY <2>2, <2>5, <2>6 DEF KeyInv
<1> QED BY <1>5, <1>6 DEF Good, CacheInv
-----------------------------------------------------------------------------
\* A call of k that leaves it undisturbed finds nothing of it under way.
LEMMA BeginsAlone ==
    ASSUME NEW k \in Key, Begin(k)
    PROVE  /\ begun' = begun + 1
           /\ \A j \in Key \ disturbed' : j \in Key \ disturbed /\ (j = k => Quiet(k))
BY DEF Begin

LEMMA SetWaitsGood ==
    ASSUME Good, NEW n \in Node, NEW k \in Key, NEW type, NEW state, SetWaits(n, k, type, state),
           <<type, state>> \in {<<"invalidate", "M">>, <<"update", "S">>}
    PROVE  Good'
<1> DEFINE c == Looked(cache[n], k)
           sent == Broadcast(type, n, k)
           call == [id |-> begun + 1, node |-> n, key |-> k, state |-> state]
<1>1. Shaped(c) /\ \A j \in Key : c.entry[j] \in {cache[n].entry[j], Absent}
  BY LookedShape DEF Good, Shapes
<1>2. /\ cache' = [cache EXCEPT ![n] = c] /\ msgs' = msgs \cup sent /\ calls' = calls \cup {call}
      /\ last' = [last EXCEPT ![k] = begun + 1]
  BY DEF SetWaits
<1>3. /\ begun' = begun + 1 /\ begun \in Nat
      /\ \A j \in Key \ disturbed' : j \in Key \ disturbed /\ (j = k => Quiet(k))
  BY BeginsAlone DEF SetWaits, Good, Shapes
<1>4. /\ sent \subseteq Message
      /\ \A m \in sent : m.type = type /\ m.key = k /\ m.id = begun + 1 /\ ~m.late
      /\ \A d \in Node \ {n} : \E m \in sent : m.dst = d
  BY <1>3, BroadcastMessages
<1>5. call \in Call /\ call.id = begun + 1 /\ call.node = n /\ call.key = k /\ call.state = state
  BY <1>3 DEF Call
<1> HIDE DEF c, sent, call
<1>6. Shapes'
  BY <1>1, <1>2, <1>3, <1>4, <1>5, OneCacheChanges DEF Good, Shapes
<1>7. ASSUME NEW j \in Key \ disturbed'
      PROVE  KeyInv(j)'
  <2>1. KeyInv(j) /\ (j = k => Quiet(k))
    BY <1>3 DEF Good, CacheInv
  <2>2. CASE j # k
    <3>1. Alone(j)
      BY <2>2, <1>2, <1>4, <1>5 DEF Alone, Good, Shapes
    <3>2. Fewer(j)
      BY <1>1, <1>2, OthersFewer DEF Good
    <3> QED BY <2>1, <3>1, <3>2, Untouched
  <2>3. CASE j = k
    <3>1. last'[k] = begun + 1
      BY <1>2 DEF Good, Shapes
    <3>2. \A m \in msgs' : m.key = k => m \in sent
      BY <2>1, <2>3, <1>2 DEF Quiet
    <3>3. \A d \in calls' : d.key = k => d = call
      BY <2>1, <2>3, <1>2 DEF Quiet
    <3>4. ~(Invalidating(k) /\ Updating(k))'
      BY <3>2, <3>3, <1>4, <1>5 DEF Invalidating, Updating
    <3>5. OneCall(k)'
      BY <3>1, <3>2, <3>3, <3>4, <1>4, <1>5 DEF OneCall
    <3>6. \A d \in Node : Pending(d, k)'
      <4>1. Pending(n, k)'
        BY <1>2, <1>5 DEF Pending
      <4>2. ASSUME NEW d \in Node \ {n}
            PROVE  Pending(d, k)'
        BY <1>2, <1>4 DEF Pending
      <4> QED BY <4>1, <4>2
    <3>7. ~Quiet(k)'
      BY <1>2, <1>5 DEF Quiet
    <3> QED BY <2>3, <3>5, <3>6, <3>7 DEF KeyInv, Reached
  <2> QED BY <2>2, <2>3
<1> QED BY <1>6, <1>7 DEF Good, CacheInv

LEMMA SetOwnedGood ==
    ASSUME Good, NEW n \in Node, NEW k \in Key, SetOwned(n, k)
    PROVE  Good'
<1> DEFINE e == Fresh(begun + 1, "M")
           c == Stored(Looked(cache[n], k), k, e)
<1>1. /\ begun' = begun + 1 /\ begun \in Nat
      /\ \A j \in Key \ disturbed' : j \in Key \ disturbed /\ (j = k => Quiet(k))
  BY BeginsAlone DEF SetOwned, Good, Shapes
<1>2. e \in Entry /\ Valid(e) /\ e.value = begun + 1 /\ e.state = "M"
  BY <1>1, FreshIsEntry
<1>3. Shaped(Looked(cache[n], k)) /\ \A j \in Key : Looked(cache[n], k).entry[j] \in {cache[n].entry[j], Absent}
  BY LookedShape DEF Good, Shapes
<1>4. Shaped(c) /\ c.entry[k] = e /\ \A j \in Key \ {k} : c.entry[j] \in {cache[n].entry[j], Absent}
  BY <1>2, <1>3, StoredShape
<1>5. /\ cache' = [cache EXCEPT ![n] = c] /\ last' = [last EXCEPT ![k] = begun + 1]
      /\ UNCHANGED <<calls, msgs>> /\ Valid(Copy(n, k)) /\ Copy(n, k).state = "M"
  BY DEF SetOwned, Owned, Copy
<1> HIDE DEF c, e
<1>6. Shapes'
  BY <1>1, <1>4, <1>5, OneCacheChanges DEF Good, Shapes
<1>7. ASSUME NEW j \in Key \ disturbed'
      PROVE  KeyInv(j)'
  <2>1. KeyInv(j) /\ (j = k => Quiet(k))
    BY <1>1 DEF Good, CacheInv
  <2>2. CASE j # k
    <3>1. Alone(j)
      BY <2>2, <1>5 DEF Alone, Good, Shapes
    <3>2. Fewer(j)
      BY <2>2, <1>4, <1>5, OthersFewer DEF Good
    <3> QED BY <2>1, <3>1, <3>2, Untouched
  <2>3. CASE j = k
    <3>1. last'[k] = begun + 1 /\ Copy(n, k)' = e /\ \A d \in Node \ {n} : Copy(d, k)' = Copy(d, k)
      BY <1>4, <1>5, OneCacheChanges DEF Good, Shapes
    <3>2. \A d \in Node \ {n} : ~Valid(Copy(d, k))
      BY <2>1, <2>3, <1>5 DEF KeyInv, Coherent
    <3>3. Coherent(k)'
      BY <3>1, <3>2, <1>2 DEF Coherent, Valid
    <3>4. (\A m \in msgs' : m.key # k) /\ (\A d \in calls' : d.key # k)
      BY <2>1, <2>3, <1>5 DEF Quiet
    <3>5. ~Invalidating(k)' /\ ~Updating(k)'
      BY <3>4 DEF Invalidating, Updating
    <3>6. OneCall(k)' /\ Reached(k)'
      BY <3>4, <3>5 DEF OneCall, Reached
    <3> QED BY <2>3, <3>3, <3>6 DEF KeyInv
  <2> QED BY <2>2, <2>3
<1> QED BY <1>6, <1>7 DEF Good, CacheInv

\* The call is over when every node has been reached.
LEMMA SetEndsGood ==
    ASSUME Good, NEW n \in Node, SetEnds(n)
    PROVE  Good'
<1>1. PICK call \in calls : SetEnds(n)!(call)
  BY DEF SetEnds
<1> PICK k \in Key : k = call.key
  BY DEF Good, Shapes, Call
<1> DEFINE e == Fresh(call.id, call.state)
           c == Stored(cache[n], k, e)
<1>2. call.node = n /\ call.key = k /\ call.id \in Nat /\ call.state \in {"M", "S"}
  BY <1>1 DEF Good, Shapes, Call
<1>3. e \in Entry /\ Valid(e) /\ e.value = call.id /\ e.state = call.state
  BY <1>2, FreshIsEntry
<1>4. Shaped(c) /\ c.entry[k] = e /\ \A j \in Key \ {k} : c.entry[j] \in {cache[n].entry[j], Absent}
  BY <1>2, <1>3, StoredShape DEF Good, Shapes
<1>5. /\ cache' = [cache EXCEPT ![n] = c] /\ calls' = calls \ {call}
      /\ UNCHANGED <<msgs, begun, last, disturbed>> /\ Answered(call)
  BY <1>1, <1>2
<1> HIDE DEF c, e
<1>6. Shapes'
  BY <1>2, <1>4, <1>5, OneCacheChanges DEF Good, Shapes
<1>7. ASSUME NEW j \in Key \ disturbed'
      PROVE  KeyInv(j)'
  <2>1. KeyInv(j)
    BY <1>5 DEF Good, CacheInv
  <2>2. CASE j # k
    <3>1. Alone(j)
      BY <2>2, <1>2, <1>5 DEF Alone
    <3>2. Fewer(j)
      BY <2>2, <1>4, <1>5, OthersFewer DEF Good
    <3> QED BY <2>1, <3>1, <3>2, Untouched
  <2>3. CASE j = k
    <3>1. \A m \in msgs : m.key # k
      BY <1>2, <2>1, <2>3, <1>5 DEF KeyInv, OneCall, Answered
    <3>2. \A d \in calls : d.key = k => d = call
      BY <1>2, <2>1, <2>3 DEF KeyInv, OneCall
    <3>3. last'[k] = call.id
      BY <1>2, <2>1, <2>3, <1>5 DEF KeyInv, OneCall
    <3>4. Copy(n, k)' = e /\ \A d \in Node \ {n} : Copy(d, k)' = Copy(d, k)
      <4>1. Shapes /\ Shaped(c) /\ cache' = [cache EXCEPT ![n] = c]
        BY <1>4, <1>5 DEF Good
      <4>2. Copy(n, k)' = c.entry[k] /\ \A d \in Node \ {n} : Copy(d, k)' = Copy(d, k)
        BY <4>1, OneCacheChanges DEF Copy
      <4> QED BY <4>2, <1>4
    <3>5. ASSUME NEW d \in Node \ {n}
          PROVE  ~Pending(d, k)
      BY <3>1, <3>2, <1>2 DEF Pending
    <3>6. Coherent(k)'
      <4>1. CASE call.state = "M"
        <5>1. \A d \in Node \ {n} : ~Valid(Copy(d, k))
          BY <1>2, <4>1, <3>5, <2>1, <2>3 DEF KeyInv, Reached, Invalidating
        <5> QED BY <5>1, <3>3, <3>4, <1>3, <1>5 DEF Coherent, Valid
      <4>2. CASE call.state = "S"
        <5>1. \A d \in Node \ {n} : LatestShared(d, k)
          BY <1>2, <4>2, <3>5, <2>1, <2>3 DEF KeyInv, Reached, Updating
        <5> QED BY <4>2, <5>1, <3>3, <3>4, <1>3, <1>5 DEF Coherent, LatestShared, Valid
      <4> QED BY <4>1, <4>2, <1>2
    <3>7. (\A m \in msgs' : m.key # k) /\ (\A d \in calls' : d.key # k)
      BY <3>1, <3>2, <1>5
    <3>8. ~Invalidating(k)' /\ ~Updating(k)'
      BY <3>7 DEF Invalidating, Updating
    <3>9. OneCall(k)' /\ Reached(k)'
      BY <3>7, <3>8 DEF OneCall, Reached
    <3> QED BY <2>3, <3>6, <3>9 DEF KeyInv
  <2> QED BY <2>2, <2>3
<1> QED BY <1>6, <1>7 DEF Good, CacheInv

LEMMA DeleteGood ==
    ASSUME Good, NEW n \in Node, NEW k \in Key, Delete(n, k)
    PROVE  Good'
<1> DEFINE c == Dropped(cache[n], k)
           sent == Broadcast("invalidate", n, k)
<1>1. Shaped(c) /\ c.entry[k] = Absent /\ \A j \in Key : c.entry[j] \in {cache[n].entry[j], Absent}
  BY DroppedShape DEF Good, Shapes
<1>2. cache' = [cache EXCEPT ![n] = c] /\ msgs' = msgs \cup sent /\ UNCHANGED <<calls, last>>
  BY DEF Delete
<1>3. /\ begun' = begun + 1 /\ begun \in Nat
      /\ \A j \in Key \ disturbed' : j \in Key \ disturbed /\ (j = k => Quiet(k))
  BY BeginsAlone DEF Delete, Good, Shapes
<1>4. /\ sent \subseteq Message
      /\ \A m \in sent : m.type = "invalidate" /\ m.key = k /\ m.id = begun + 1 /\ ~m.late
      /\ \A d \in Node \ {n} : \E m \in sent : m.dst = d
  BY <1>3, BroadcastMessages
<1> HIDE DEF c, sent
<1>5. Shapes'
  BY <1>1, <1>2, <1>3, <1>4, OneCacheChanges DEF Good, Shapes
<1>6. ASSUME NEW j \in Key \ disturbed'
      PROVE  KeyInv(j)'
  <2>1. KeyInv(j) /\ (j = k => Quiet(k))
    BY <1>3 DEF Good, CacheInv
  <2>2. CASE j # k
    <3>1. Alone(j)
      BY <2>2, <1>2, <1>4 DEF Alone
    <3>2. Fewer(j)
      BY <1>1, <1>2, OthersFewer DEF Good
    <3> QED BY <2>1, <3>1, <3>2, Untouched
  <2>3. CASE j = k
    <3>1. \A m \in msgs' : m.key = k => m \in sent
      BY <2>1, <2>3, <1>2 DEF Quiet
    <3>2. \A d \in calls' : d.key # k
      BY <2>1, <2>3, <1>2 DEF Quiet
    <3>3. ~Updating(k)'
      BY <3>1, <3>2, <1>4 DEF Updating
    <3>4. OneCall(k)'
      BY <3>1, <3>2, <3>3, <1>4 DEF OneCall
    <3>5. ~Valid(Copy(n, k))'
      <4>1. Shapes /\ Shaped(c) /\ cache' = [cache EXCEPT ![n] = c]
        BY <1>1, <1>2 DEF Good
      <4>2. Copy(n, k)' = c.entry[k]
        BY <4>1, OneCacheChanges
      <4>3. Copy(n, k)' = Absent
        BY <1>1, <4>2
      <4> QED BY <4>3, AbsentIsEntry DEF Valid
    <3>6. \A d \in Node \ {n} : Pending(d, k)'
      BY <1>2, <1>4 DEF Pending
    <3>7. Reached(k)'
      BY <3>3, <3>5, <3>6 DEF Reached
    <3>8. Quiet(k)' => Coherent(k)'
      <4>1. \A d \in Node \ {n} : ~Quiet(k)'
        BY <1>2, <1>4 DEF Quiet
      <4> QED BY <4>1, <3>5 DEF Coherent, Valid
    <3> QED BY <2>3, <3>4, <3>7, <3>8 DEF KeyInv
  <2> QED BY <2>2, <2>3
<1> QED BY <1>5, <1>6 DEF Good, CacheInv

LEMMA RequestFailsGood ==
    ASSUME Good, NEW m \in msgs, RequestFails(m)
    PROVE  Good'
<1> DEFINE late == [m EXCEPT !.late = TRUE]
<1>1. late \in Message /\ late.key = m.key /\ m.key \in Key
  BY DEF Good, Shapes, Message
<1>2. /\ msgs' \in {msgs \ {m}, (msgs \ {m}) \cup {late}}
      /\ disturbed' = disturbed \cup {m.key} /\ UNCHANGED <<cache, calls, begun, last>>
  BY DEF RequestFails
<1> HIDE DEF late
<1>3. Shapes'
  BY <1>1, <1>2 DEF Good, Shapes
<1>4. ASSUME NEW k \in Key \ disturbed'
      PROVE  KeyInv(k)'
  <2>1. KeyInv(k) /\ k # m.key
    BY <1>2 DEF Good, CacheInv
  <2>2. Alone(k)
    BY <2>1, <1>1, <1>2 DEF Alone
  <2>3. Fewer(k)
    BY <1>2 DEF Fewer, Copy
  <2> QED BY <2>1, <2>2, <2>3, Untouched
<1> QED BY <1>3, <1>4 DEF Good, CacheInv

LEMMA HandleInvalidationGood ==
    ASSUME Good, NEW n \in Node, HandleInvalidation(n)
    PROVE  Good'
<1>1. PICK m \in msgs : HandleInvalidation(n)!(m)
  BY DEF HandleInvalidation
<1> PICK k \in Key : k = m.key
  BY DEF Good, Shapes, Message
<1> DEFINE f == [cache[n].entry EXCEPT ![k] = Invalidated(cache[n].entry[k])]
           c == [entry |-> f, order |-> cache[n].order]
<1>2. Shaped(cache[n])
  BY DEF Good, Shapes
<1>3. /\ cache' = [cache EXCEPT ![n] = c]
      /\ msgs' = msgs \ {m} /\ m.type = "invalidate" /\ m.dst = n /\ m.key = k
      /\ UNCHANGED <<calls, begun, last, disturbed>>
  <2>1. cache' = [cache EXCEPT ![n] = [cache[n] EXCEPT !.entry = f]]
    BY <1>1
  <2>2. cache[n] = [entry |-> cache[n].entry, order |-> cache[n].order]
    BY <1>2 DEF Shaped
  <2> HIDE DEF f
  <2>3. c = [cache[n] EXCEPT !.entry = f]
    BY <2>2, EntryReplaced
  <2> QED BY <1>1, <2>1, <2>3
<1>4. f \in [Key -> Entry] /\ ~Valid(f[k]) /\ \A j \in Key \ {k} : f[j] = cache[n].entry[j]
  <2>1. Invalidated(cache[n].entry[k]) \in Entry /\ ~Valid(Invalidated(cache[n].entry[k]))
    BY <1>2, AbsentIsEntry DEF Invalidated, Shaped, Entry, Valid
  <2> QED BY <1>2, <2>1 DEF Shaped
<1> HIDE DEF f
<1>5. Shaped(c) /\ c.entry = f
  BY <1>4 DEF Shaped
<1> HIDE DEF c
<1>6. Shapes'
  BY <1>3, <1>5, OneCacheChanges DEF Good, Shapes
<1>7. ASSUME NEW j \in Key \ disturbed'
      PROVE  KeyInv(j)'
  <2>1. KeyInv(j)
    BY <1>3 DEF Good, CacheInv
  <2>2. CASE j # k
    <3>1. Alone(j)
      BY <2>2, <1>3 DEF Alone
    <3>2. Fewer(j)
      BY <2>2, <1>3, <1>4, <1>5, OthersFewer DEF Good
    <3> QED BY <2>1, <3>1, <3>2, Untouched
  <2>3. CASE j = k
    <3>1. \A d \in Node \ {n} : Copy(d, k)' = Copy(d, k)
      BY <1>3, <1>5, OneCacheChanges DEF Good
    <3>2. ~Valid(Copy(n, k))'
      <4>1. Copy(n, k)' = f[k]
        BY <1>3, <1>5, OneCacheChanges DEF Good, Copy
      <4> QED BY <4>1, <1>4 DEF Valid
    <3>3. Invalidating(k) /\ ~Updating(k)
      BY <1>3, <2>1, <2>3 DEF Invalidating, KeyInv, OneCall
    <3>4. OneCall(k)' /\ ~Updating(k)'
      BY <2>1, <2>3, <3>3, <1>3 DEF KeyInv, OneCall, Invalidating, Updating
    <3>5. \A d \in Node \ {n} : Pending(d, k)' <=> Pending(d, k)
      BY <1>3 DEF Pending
    <3>6. \A d \in Node \ {n} : ~Pending(d, k) => ~Valid(Copy(d, k))
      BY <2>1, <2>3, <3>3 DEF KeyInv, Reached
    <3>7. Reached(k)'
      BY <3>1, <3>2, <3>4, <3>5, <3>6 DEF Reached, Valid
    <3>8. Quiet(k)' => Coherent(k)'
      <4>1. Quiet(k)' => \A d \in Node \ {n} : ~Pending(d, k)
        BY <3>5 DEF Quiet, Pending
      <4> QED BY <4>1, <3>1, <3>2, <3>6 DEF Coherent, Valid
    <3> QED BY <2>3, <3>4, <3>7, <3>8 DEF KeyInv
  <2> QED BY <2>2, <2>3
<1> QED BY <1>6, <1>7 DEF Good, CacheInv

LEMMA HandleUpdateGood ==
    ASSUME Good, NEW n \in Node, HandleUpdate(n)
    PROVE  Good'
<1>1. PICK m \in msgs : HandleUpdate(n)!(m)
  BY DEF HandleUpdate
<1> PICK k \in Key : k = m.key
  BY DEF Good, Shapes, Message
<1> DEFINE e == Fresh(m.id, "S")
           c == Stored(Looked(cache[n], k), k, e)
<1>2. m.id \in Nat
  BY DEF Good, Shapes, Message
<1>3. e \in Entry /\ Valid(e) /\ e.value = m.id /\ e.state = "S"
  BY <1>2, FreshIsEntry
<1>4. Shaped(Looked(cache[n], k)) /\ \A j \in Key : Looked(cache[n], k).entry[j] \in {cache[n].entry[j], Absent}
  BY LookedShape DEF Good, Shapes
<1>5. Shaped(c) /\ c.entry[k] = e /\ \A j \in Key \ {k} : c.entry[j] \in {cache[n].entry[j], Absent}
  BY <1>3, <1>4, StoredShape
<1>6. /\ cache' = [cache EXCEPT ![n] = c]
      /\ msgs' = msgs \ {m} /\ m.type = "update" /\ m.dst = n /\ m.key = k
      /\ UNCHANGED <<calls, begun, last, disturbed>>
  BY <1>1
<1> HIDE DEF c, e
<1>7. Shapes'
  BY <1>5, <1>6, OneCacheChanges DEF Good, Shapes
<1>8. ASSUME NEW j \in Key \ disturbed'
      PROVE  KeyInv(j)'
  <2>1. KeyInv(j)
    BY <1>6 DEF Good, CacheInv
  <2>2. CASE j # k
    <3>1. Alone(j)
      BY <2>2, <1>6 DEF Alone
    <3>2. Fewer(j)
      BY <2>2, <1>5, <1>6, OthersFewer DEF Good
    <3> QED BY <2>1, <3>1, <3>2, Untouched
  <2>3. CASE j = k
    <3>1. \A d \in Node \ {n} : Copy(d, k)' = Copy(d, k)
      BY <1>5, <1>6, OneCacheChanges DEF Good
    <3>2. Copy(n, k)' = e
      BY <1>5, <1>6, OneCacheChanges DEF Good, Copy
    <3>3. Updating(k) /\ ~Invalidating(k) /\ m.id = last[k]
      BY <1>6, <2>1, <2>3 DEF Updating, KeyInv, OneCall
    <3>4. OneCall(k)' /\ ~Invalidating(k)'
      BY <2>1, <2>3, <3>3, <1>6 DEF KeyInv, OneCall, Invalidating, Updating
    <3>5. \A d \in Node \ {n} : Pending(d, k)' <=> Pending(d, k)
      BY <1>6 DEF Pending
    <3>6. \A d \in Node \ {n} : ~Pending(d, k) => LatestShared(d, k)
      BY <2>1, <2>3, <3>3 DEF KeyInv, Reached
    <3>7. \A d \in Node : ~Pending(d, k)' => LatestShared(d, k)'
      BY <3>1, <3>2, <3>3, <3>5, <3>6, <1>3, <1>6 DEF LatestShared, Valid
    <3>8. Reached(k)'
      BY <3>4, <3>7 DEF Reached
    <3>9. Quiet(k)' => Coherent(k)'
      <4>1. Quiet(k)' => \A d \in Node : ~Pending(d, k)'
        BY DEF Quiet, Pending
      <4> QED BY <4>1, <3>7 DEF Coherent, LatestShared, Valid
    <3> QED BY <2>3, <3>4, <3>8, <3>9 DEF KeyInv
  <2> QED BY <2>2, <2>3
<1> QED BY <1>7, <1>8 DEF Good, CacheInv
-----------------------------------------------------------------------------
LEMMA InitGood == Init => Good
<1> SUFFICES ASSUME Init PROVE Good
  OBVIOUS
<1>1. \A n \in Node : cache[n] = [entry |-> [k \in Key |-> Absent], order |-> << >>]
  BY DEF Init
<1>2. Shapes
  BY <1>1, AbsentIsEntry DEF Init, Shapes, Shaped
<1>3. \A k \in Key : \A n \in Node : ~Valid(Copy(n, k))
  BY <1>1, AbsentIsEntry DEF Copy
<1>4. \A k \in Key : KeyInv(k)
  BY <1>3 DEF Init, KeyInv, OneCall, Reached, Invalidating, Updating, Quiet, Coherent
<1> QED BY <1>2, <1>4 DEF Good, CacheInv

LEMMA NextGood == Good /\ [Next]_vars => Good'
<1> SUFFICES ASSUME Good, [Next]_vars PROVE Good'
  OBVIOUS
<1>1. ASSUME NEW n \in Node, NEW k \in Key, SetExclusive(n, k) PROVE Good'
  BY <1>1, SetWaitsGood DEF SetExclusive
<1>2. ASSUME NEW n \in Node, NEW k \in Key, SetShared(n, k) PROVE Good'
  BY <1>2, SetWaitsGood DEF SetShared
<1>3. ASSUME NEW n \in Node, NEW k \in Key, Get(n, k) \/ SetOwned(n, k) \/ Delete(n, k) \/ Expire(n, k)
      PROVE  Good'
  BY <1>3, GetGood, SetOwnedGood, DeleteGood, ExpireGood
<1>4. ASSUME NEW n \in Node, SetEnds(n) \/ Handle(n) \/ Cleanup(n) \/ Restart(n)
      PROVE  Good'
  BY <1>4, SetEndsGood, HandleInvalidationGood, HandleUpdateGood, CleanupGood, RestartGood DEF Handle
<1>5. ASSUME NEW m \in msgs, RequestFails(m) PROVE Good'
  BY <1>5, RequestFailsGood
<1>6. CASE UNCHANGED vars
  BY <1>6 DEF vars, Good, Shapes, CacheInv, KeyInv, OneCall, Reached, Quiet, Coherent,
              Invalidating, Updating, Pending, LatestShared, Copy
<1> QED BY <1>1, <1>2, <1>3, <1>4, <1>5, <1>6 DEF Next

\* Between the calls of a key that never overlapped and whose requests never failed,
\* every valid copy has the value of the latest set(), and a modified one is alone.
THEOREM CacheIsCoherent == Spec => []CoherentWhenQuiet
<1>1. Good => CoherentWhenQuiet
  BY DEF Good, CacheInv, KeyInv, CoherentWhenQuiet
<1> QED BY InitGood, NextGood, <1>1, PTL DEF Spec
-----------------------------------------------------------------------------
(***************************************************************************)
(* The order of use: what the operations of the LRU cache keep of it, by   *)
(* induction along the order.                                              *)
(***************************************************************************)

\* A set of numbers with 0 and every successor has all: an element that is missing
\* would have a least one below it, as finite intervals cannot shrink for ever.
LEMMA NatInSet ==
    ASSUME NEW T, 0 \in T, \A n \in Nat : n \in T => n + 1 \in T
    PROVE  Nat \subseteq T
<1> SUFFICES ASSUME Nat \ T # {}
             PROVE  FALSE
  OBVIOUS
<1> DEFINE below == {0 .. n : n \in Nat \ T}
<1>1. below \subseteq FiniteSubsetsOf(Nat) /\ below # {}
  <2>1. ASSUME NEW n \in Nat \ T
        PROVE  0 .. n \in FiniteSubsetsOf(Nat)
    <3>1. n \in Int /\ 0 .. n \subseteq Nat
      OBVIOUS
    <3>2. IsFiniteSet(0 .. n)
      BY <3>1, FS_Interval
    <3> QED BY <3>1, <3>2 DEF FiniteSubsetsOf
  <2> QED BY <2>1
<1>2. PICK b \in below : \A c \in below : <<c, b>> \notin StrictSubsetOrdering(Nat)
  <2> HIDE DEF below
  <2> QED BY <1>1, FS_StrictSubsetOrderingWellFounded, WFMin
<1>3. PICK n \in Nat \ T : b = 0 .. n
  OBVIOUS
<1>4. n # 0 /\ n - 1 \in Nat
  OBVIOUS
<1>5. n - 1 \notin T
  <2>1. n = (n - 1) + 1
    OBVIOUS
  <2> QED BY <1>3, <1>4, <2>1
<1>6. <<0 .. n - 1, 0 .. n>> \in StrictSubsetOrdering(Nat)
  <2>1. 0 .. n - 1 \subseteq 0 .. n /\ n \in 0 .. n /\ n \notin 0 .. n - 1 /\ 0 .. n \subseteq Nat
    BY <1>4
  <2>2. 0 .. n - 1 \subseteq Nat /\ 0 .. n - 1 # 0 .. n
    BY <2>1
  <2> QED BY <2>1, <2>2 DEF StrictSubsetOrdering
<1>7. 0 .. n - 1 \in below
  BY <1>4, <1>5
<1> QED BY <1>2, <1>3, <1>6, <1>7

\* What the recursive function of Kept is, up to position n.
IsKept(g, s, gone, n) ==
    g = [i \in 0 .. n |-> IF i = 0 THEN <<>>
                          ELSE IF s[i] \in gone THEN g[i - 1]
                          ELSE Append(g[i - 1], s[i])]

LEMMA KeptExists ==
    ASSUME NEW s, NEW gone, NEW n \in Nat
    PROVE  \E g : IsKept(g, s, gone, n)
<1> DEFINE Step(g, i) == IF i = 0 THEN <<>>
                         ELSE IF s[i] \in gone THEN g[i - 1]
                         ELSE Append(g[i - 1], s[i])
           T == {m \in Nat : \E g : g = [i \in 0 .. m |-> Step(g, i)]}
<1>1. 0 \in T
  <2> DEFINE g == [i \in 0 .. 0 |-> <<>>]
  <2>1. g = [i \in 0 .. 0 |-> Step(g, i)]
    OBVIOUS
  <2> QED BY <2>1
<1>2. ASSUME NEW m \in Nat, m \in T
      PROVE  m + 1 \in T
  <2>1. PICK g : g = [i \in 0 .. m |-> Step(g, i)]
    BY <1>2
  <2> DEFINE h == [i \in 0 .. m + 1 |-> IF i = m + 1 THEN Step(g, m + 1) ELSE g[i]]
  <2>2. \A i \in 0 .. m + 1 : i # 0 => i - 1 \in 0 .. m /\ h[i - 1] = g[i - 1]
    OBVIOUS
  <2>3. \A i \in 0 .. m : h[i] = Step(g, i)
    <3>1. \A i \in 0 .. m : g[i] = Step(g, i)
      <4> HIDE DEF Step
      <4> QED BY <2>1, Zenon
    <3>2. \A i \in 0 .. m : h[i] = g[i]
      <4> HIDE DEF Step
      <4> QED OBVIOUS
    <3> HIDE DEF Step, h
    <3> QED BY <3>1, <3>2
  <2>4. \A i \in 0 .. m + 1 : h[i] = Step(h, i)
    <3> TAKE i \in 0 .. m + 1
    <3>1. h[i] = Step(g, i)
      <4>1. CASE i = m + 1
        BY <4>1
      <4>2. CASE i # m + 1
        <5>1. i \in 0 .. m
          BY <4>2
        <5> QED BY <2>3, <5>1
      <4> QED BY <4>1, <4>2
    <3>2. Step(g, i) = Step(h, i)
      <4> HIDE DEF h
      <4> QED BY <2>2
    <3> QED BY <3>1, <3>2
  <2>5. h = [i \in 0 .. m + 1 |-> Step(h, i)]
    <3> DEFINE D == 0 .. m + 1
               f == [i \in D |-> Step(h, i)]
    <3>1. h = [i \in D |-> h[i]]
      OBVIOUS
    <3> HIDE DEF h, Step, D
    <3>2. f = [i \in D |-> f[i]]
      OBVIOUS
    <3>3. \A i \in D : f[i] = h[i]
      BY <2>4 DEF D
    <3> HIDE DEF f
    <3>4. h = f
      BY <3>1, <3>2, <3>3
    <3> QED BY <3>4 DEF f, D, Step
  <2>6. m + 1 \in Nat
    OBVIOUS
  <2> HIDE DEF h
  <2> QED BY <2>5, <2>6
<1>3. n \in T
  <2> HIDE DEF T
  <2> QED BY <1>1, <1>2, NatInSet
<1> QED BY <1>3 DEF IsKept

\* A sequence of elements of S, none of them twice.
Once(s, S) == s \in Seq(S) /\ \A j, k \in 1 .. Len(s) : s[j] = s[k] => j = k

LEMMA OnceSet ==
    ASSUME NEW S, NEW s \in Seq(S)
    PROVE  /\ Len(s) \in Nat /\ ToSet(s) = {s[i] : i \in 1 .. Len(s)} /\ ToSet(s) \subseteq S
           /\ IsInjective(s) <=> Once(s, S)
<1>1. Len(s) \in Nat /\ DOMAIN s = 1 .. Len(s) /\ \A i \in 1 .. Len(s) : s[i] \in S
  OBVIOUS
<1> QED BY <1>1 DEF ToSet, IsInjective, Once

\* What deletions leave: the other keys, once each, and fewer if one was there.
LEMMA KeptOnce ==
    ASSUME NEW S, NEW s, Once(s, S), NEW gone
    PROVE  /\ Once(Kept(s, gone), S) /\ ToSet(Kept(s, gone)) = ToSet(s) \ gone
           /\ Len(Kept(s, gone)) <= Len(s)
           /\ ToSet(s) \cap gone # {} => Len(Kept(s, gone)) < Len(s)
<1> DEFINE kept == CHOOSE g : IsKept(g, s, gone, Len(s))
           First(n) == /\ Once(kept[n], S) /\ Len(kept[n]) <= n
                       /\ (\E i \in 1 .. n : s[i] \in gone) => Len(kept[n]) < n
                       /\ \A k \in 1 .. Len(kept[n]) :
                             \E i \in 1 .. n : s[i] = kept[n][k] /\ s[i] \notin gone
                       /\ \A i \in 1 .. n : s[i] \notin gone =>
                             \E k \in 1 .. Len(kept[n]) : kept[n][k] = s[i]
           T == {n \in Nat : n <= Len(s) => First(n)}
<1>1. /\ s \in Seq(S) /\ Len(s) \in Nat /\ \A i \in 1 .. Len(s) : s[i] \in S
      /\ \A i, j \in 1 .. Len(s) : s[i] = s[j] => i = j
  BY DEF Once
<1>2. IsKept(kept, s, gone, Len(s))
  <2>1. Len(s) \in Nat
    BY <1>1
  <2> QED BY <2>1, KeptExists
<1>3. Kept(s, gone) = kept[Len(s)]
  BY DEF Kept, IsKept
<1> HIDE DEF kept
<1>4. 0 \in T
  <2>1. kept[0] = <<>>
    BY <1>1, <1>2 DEF IsKept
  <2>2. Once(<<>>, S) /\ Len(<<>>) = 0
    BY EmptySeq DEF Once
  <2>3. First(0)
    BY <2>1, <2>2
  <2> QED BY <2>3
<1>5. ASSUME NEW n \in Nat, n \in T
      PROVE  n + 1 \in T
  <2> HIDE DEF First
  <2> SUFFICES ASSUME n + 1 <= Len(s)
               PROVE  First(n + 1)
    OBVIOUS
  <2> USE DEF First
  <2>1. First(n) /\ s[n + 1] \in S /\ n + 1 \in 0 .. Len(s)
    <3>1. n <= Len(s) /\ n + 1 \in 1 .. Len(s)
      BY <1>1
    <3>2. First(n)
      <4> HIDE DEF First
      <4> QED BY <1>5, <3>1
    <3>3. s[n + 1] \in S
      BY <1>1, <3>1
    <3> QED BY <3>1, <3>2, <3>3
  <2>2. kept[n + 1] = IF s[n + 1] \in gone THEN kept[n] ELSE Append(kept[n], s[n + 1])
    <3>1. kept[n + 1] = IF n + 1 = 0 THEN <<>>
                        ELSE IF s[n + 1] \in gone THEN kept[(n + 1) - 1]
                        ELSE Append(kept[(n + 1) - 1], s[n + 1])
      BY <1>2, <2>1, Zenon DEF IsKept
    <3>2. n + 1 # 0 /\ (n + 1) - 1 = n
      OBVIOUS
    <3> QED BY <3>1, <3>2
  <2>3. \A i \in 1 .. n + 1 : i \in 1 .. n \/ i = n + 1
    OBVIOUS
  <2>4. 1 .. n \subseteq 1 .. n + 1 /\ n + 1 \in 1 .. n + 1
    OBVIOUS
  <2>5. CASE s[n + 1] \in gone
    <3>1. kept[n + 1] = kept[n] /\ Len(kept[n]) \in Nat
      BY <2>1, <2>2, <2>5 DEF Once
    <3> QED BY <2>1, <2>3, <2>4, <2>5, <3>1
  <2>6. CASE s[n + 1] \notin gone
    <3> DEFINE t == kept[n]
               u == kept[n + 1]
    <3>1. u = Append(t, s[n + 1]) /\ t \in Seq(S)
      BY <2>1, <2>2, <2>6 DEF Once
    <3>2. First(n)
      BY <2>1
    <3>3. u \in Seq(S) /\ Len(u) = Len(t) + 1 /\ u[Len(t) + 1] = s[n + 1] /\ Len(t) \in Nat
      BY <2>1, <3>1, AppendProperties
    <3>4. \A k \in 1 .. Len(t) : u[k] = t[k]
      BY <2>1, <3>1, AppendProperties
    <3>5. \A k \in 1 .. Len(u) : k \in 1 .. Len(t) \/ k = Len(t) + 1
      BY <3>3
    <3>6. 1 .. Len(t) \subseteq 1 .. Len(u) /\ Len(t) + 1 \in 1 .. Len(u)
      BY <3>3
    <3> HIDE DEF t, u
    <3>7. Len(u) <= n + 1 /\ ((\E i \in 1 .. n + 1 : s[i] \in gone) => Len(u) < n + 1)
      <4>1. Len(t) <= n /\ ((\E i \in 1 .. n : s[i] \in gone) => Len(t) < n)
        BY <3>2 DEF t
      <4>2. (\E i \in 1 .. n + 1 : s[i] \in gone) => \E i \in 1 .. n : s[i] \in gone
        BY <2>3, <2>6
      <4> QED BY <3>3, <4>1, <4>2
    <3>8. \A k \in 1 .. Len(u) : \E i \in 1 .. n + 1 : s[i] = u[k] /\ s[i] \notin gone
      <4> TAKE k \in 1 .. Len(u)
      <4>1. CASE k \in 1 .. Len(t)
        <5>1. PICK i \in 1 .. n : s[i] = t[k] /\ s[i] \notin gone
          BY <3>2, <4>1 DEF t
        <5> QED BY <2>4, <3>4, <4>1, <5>1
      <4>2. CASE k = Len(t) + 1
        BY <2>4, <2>6, <3>3, <4>2
      <4> QED BY <3>5, <4>1, <4>2
    <3>9. \A i \in 1 .. n + 1 : s[i] \notin gone => \E k \in 1 .. Len(u) : u[k] = s[i]
      BY <2>3, <3>2, <3>3, <3>4, <3>6 DEF t
    <3>10. \A k \in 1 .. Len(t) : t[k] # s[n + 1]
      <4> TAKE k \in 1 .. Len(t)
      <4>1. PICK i \in 1 .. n : s[i] = t[k]
        BY <3>2 DEF t
      <4>2. i \in 1 .. Len(s) /\ n + 1 \in 1 .. Len(s) /\ i # n + 1
        BY <1>1
      <4> QED BY <1>1, <4>1, <4>2
    <3>11. \A j, k \in 1 .. Len(t) : t[j] = t[k] => j = k
      BY <3>2 DEF t, Once
    <3>12. Once(u, S)
      BY <3>3, <3>4, <3>5, <3>10, <3>11 DEF Once
    <3> QED BY <3>7, <3>8, <3>9, <3>12 DEF u
  <2> QED BY <2>5, <2>6
<1>6. First(Len(s))
  <2>1. Len(s) \in T
    <3> HIDE DEF T
    <3> QED BY <1>1, <1>4, <1>5, NatInSet
  <2> HIDE DEF First
  <2> QED BY <1>1, <2>1
<1> DEFINE t == Kept(s, gone)
<1>7. ToSet(t) = {t[k] : k \in 1 .. Len(t)} /\ ToSet(s) = {s[i] : i \in 1 .. Len(s)}
  BY <1>1, <1>3, <1>6, OnceSet DEF Once
<1>8. ToSet(t) = ToSet(s) \ gone
  <2>1. \A k \in 1 .. Len(t) : t[k] \in ToSet(s) \ gone
    BY <1>3, <1>6, <1>7
  <2>2. \A i \in 1 .. Len(s) : s[i] \notin gone => s[i] \in ToSet(t)
    BY <1>3, <1>6, <1>7
  <2> HIDE DEF t
  <2> QED BY <1>7, <2>1, <2>2
<1>9. ToSet(s) \cap gone # {} => \E i \in 1 .. Len(s) : s[i] \in gone
  <2> HIDE DEF t
  <2> QED BY <1>7
<1> QED BY <1>3, <1>6, <1>8, <1>9

\* A key that is used is the last, and there once.
LEMMA LatestOnce ==
    ASSUME NEW s, Once(s, Key), NEW k \in Key,
           Len(s) <= MaxSize, k \in ToSet(s) \/ Len(s) < MaxSize
    PROVE  /\ Once(Latest(s, k), Key) /\ ToSet(Latest(s, k)) = ToSet(s) \cup {k}
           /\ Len(Latest(s, k)) <= MaxSize
<1> DEFINE t == Kept(s, {k})
           u == Latest(s, k)
<1>1. /\ Once(t, Key) /\ ToSet(t) = ToSet(s) \ {k} /\ Len(t) <= Len(s)
      /\ k \in ToSet(s) => Len(t) < Len(s)
  BY KeptOnce
<1>2. u = Append(t, k)
  BY DEF Latest
<1> HIDE DEF t, u
<1>3. t \in Seq(Key) /\ Len(t) \in Nat /\ Len(s) \in Nat
  BY <1>1 DEF Once
<1>4. u \in Seq(Key) /\ Len(u) = Len(t) + 1 /\ u[Len(t) + 1] = k /\ \A i \in 1 .. Len(t) : u[i] = t[i]
  BY <1>2, <1>3, AppendProperties
<1>5. ToSet(t) = {t[i] : i \in 1 .. Len(t)} /\ ToSet(u) = {u[i] : i \in 1 .. Len(u)}
  BY <1>3, <1>4, OnceSet
<1>6. \A i \in 1 .. Len(u) : i \in 1 .. Len(t) \/ i = Len(t) + 1
  BY <1>3, <1>4
<1>7. 1 .. Len(t) \subseteq 1 .. Len(u) /\ Len(t) + 1 \in 1 .. Len(u)
  BY <1>3, <1>4
<1>8. \A i \in 1 .. Len(t) : t[i] # k
  BY <1>1, <1>5
<1>9. Once(u, Key)
  BY <1>1, <1>4, <1>6, <1>8 DEF Once
<1>10. ToSet(u) = ToSet(t) \cup {k}
  <2>1. ToSet(u) \subseteq ToSet(t) \cup {k}
    BY <1>4, <1>5, <1>6
  <2>2. ToSet(t) \cup {k} \subseteq ToSet(u)
    BY <1>4, <1>5, <1>7
  <2> QED BY <2>1, <2>2
<1>11. Len(u) <= MaxSize
  BY <1>1, <1>3, <1>4, SizeAssumption
<1>12. ToSet(u) = ToSet(s) \cup {k}
  BY <1>1, <1>10
<1> QED BY <1>9, <1>11, <1>12 DEF u
-----------------------------------------------------------------------------
\* The order of use of one cache: what is there, once each, max_size at most.
Used(c) ==
    /\ Once(c.order, Key) /\ Len(c.order) <= MaxSize
    /\ ToSet(c.order) = {k \in Key : c.entry[k] # Absent}

LEMMA WithoutUsed ==
    ASSUME NEW c, Shaped(c), Used(c), NEW gone
    PROVE  /\ Used(Without(c, gone))
           /\ ToSet(c.order) \cap gone # {} => Len(Without(c, gone).order) < Len(c.order)
<1> DEFINE w == Without(c, gone)
<1>1. w.order = Kept(c.order, gone) /\ \A j \in Key : w.entry[j] = IF j \in gone THEN Absent ELSE c.entry[j]
  BY WithoutShape
<1> HIDE DEF w
<1>2. /\ Once(w.order, Key) /\ ToSet(w.order) = ToSet(c.order) \ gone
      /\ Len(w.order) <= Len(c.order)
      /\ ToSet(c.order) \cap gone # {} => Len(w.order) < Len(c.order)
  BY <1>1, KeptOnce DEF Used
<1>3. Len(w.order) \in Nat /\ Len(c.order) \in Nat
  BY <1>2 DEF Used, Once
<1>4. Len(w.order) <= MaxSize
  BY <1>2, <1>3, SizeAssumption DEF Used
<1>5. ToSet(w.order) = {k \in Key : w.entry[k] # Absent}
  BY <1>1, <1>2 DEF Used
<1> QED BY <1>2, <1>4, <1>5 DEF w, Used

LEMMA LookedUsed ==
    ASSUME NEW c, Shaped(c), Used(c), NEW k \in Key
    PROVE  Used(Looked(c, k))
<1>1. CASE Valid(c.entry[k])
  <2>1. Looked(c, k) = [entry |-> c.entry, order |-> Latest(c.order, k)]
    BY <1>1 DEF Shaped, Looked
  <2>2. k \in ToSet(c.order)
    BY <1>1, AbsentIsEntry DEF Used
  <2>3. /\ Once(Latest(c.order, k), Key) /\ ToSet(Latest(c.order, k)) = ToSet(c.order) \cup {k}
        /\ Len(Latest(c.order, k)) <= MaxSize
    BY <2>2, LatestOnce DEF Used
  <2> QED BY <2>1, <2>2, <2>3 DEF Used
<1>2. CASE ~Valid(c.entry[k])
  BY <1>2, WithoutUsed DEF Looked, Dropped
<1> QED BY <1>1, <1>2

\* There is room for a key that was not there once the least recently used is gone.
LEMMA RoomForUsed ==
    ASSUME NEW c, Shaped(c), Used(c), NEW k \in Key
    PROVE  LET d == RoomFor(c, k)
           IN  Shaped(d) /\ Used(d) /\ (k \in ToSet(d.order) \/ Len(d.order) < MaxSize)
<1>1. Len(c.order) \in Nat /\ c.order \in Seq(Key) /\ Len(c.order) <= MaxSize
  BY DEF Used, Once
<1>2. CASE c.entry[k] = Absent /\ Len(c.order) >= MaxSize
  <2> DEFINE h == Head(c.order)
             d == Without(c, {h})
  <2>1. RoomFor(c, k) = d
    BY <1>2 DEF RoomFor, Dropped
  <2>2. h \in ToSet(c.order)
    <3>1. c.order # <<>> /\ 1 \in 1 .. Len(c.order)
      BY <1>1, <1>2, SizeAssumption, EmptySeq
    <3>2. h = c.order[1]
      BY <1>1, <3>1
    <3>3. ToSet(c.order) = {c.order[i] : i \in 1 .. Len(c.order)}
      BY <1>1, OnceSet
    <3> QED BY <3>1, <3>2, <3>3
  <2>3. Shaped(d) /\ Used(d) /\ Len(d.order) < Len(c.order)
    <3> HIDE DEF h
    <3> QED BY <2>2, WithoutShape, WithoutUsed
  <2>4. Len(d.order) \in Nat
    BY <2>3 DEF Used, Once
  <2> HIDE DEF d
  <2>5. Len(d.order) < MaxSize
    BY <1>1, <2>3, <2>4, SizeAssumption
  <2> QED BY <2>1, <2>3, <2>5
<1>3. CASE c.entry[k] # Absent
  BY <1>3 DEF RoomFor, Used
<1>4. CASE Len(c.order) < MaxSize
  BY <1>1, <1>4, SizeAssumption DEF RoomFor
<1> QED BY <1>1, <1>2, <1>3, <1>4, SizeAssumption

LEMMA StoredUsed ==
    ASSUME NEW c, Shaped(c), Used(c), NEW k \in Key, NEW e \in Entry, e # Absent
    PROVE  Used(Stored(c, k, e))
<1> DEFINE d == RoomFor(c, k)
           s == Stored(c, k, e)
<1>1. Shaped(d) /\ Used(d) /\ (k \in ToSet(d.order) \/ Len(d.order) < MaxSize)
  BY RoomForUsed
<1>2. s = [entry |-> [d.entry EXCEPT ![k] = e], order |-> Latest(d.order, k)]
  BY DEF Stored
<1> HIDE DEF d, s
<1>3. s.order = Latest(d.order, k) /\ \A j \in Key : s.entry[j] = IF j = k THEN e ELSE d.entry[j]
  BY <1>1, <1>2 DEF Shaped
<1>4. /\ Once(s.order, Key) /\ ToSet(s.order) = ToSet(d.order) \cup {k}
      /\ Len(s.order) <= MaxSize
  BY <1>1, <1>3, LatestOnce DEF Used
<1>5. ToSet(s.order) = {j \in Key : s.entry[j] # Absent}
  BY <1>1, <1>3, <1>4 DEF Used
<1> QED BY <1>4, <1>5 DEF s, Used

\* An entry that is there is replaced by another.
LEMMA ReplacedUsed ==
    ASSUME NEW c, Shaped(c), Used(c), NEW d, d.order = c.order,
           \A j \in Key : d.entry[j] = Absent <=> c.entry[j] = Absent
    PROVE  Used(d)
BY DEF Used
-----------------------------------------------------------------------------
Orders == \A n \in Node : Used(cache[n])

\* What else TypeOK says.
Counts ==
    /\ \A k \in Key : last[k] <= begun
    /\ disturbed \subseteq Key
    /\ faults \in Nat /\ crashes \in Nat /\ expiries \in Nat

LEMMA OneOrderChanges ==
    ASSUME Shapes, Orders, NEW n \in Node, NEW c, Shaped(c), Used(c),
           cache' = [cache EXCEPT ![n] = c]
    PROVE  Orders'
<1>1. cache' = [d \in Node |-> IF d = n THEN c ELSE cache[d]]
  BY DEF Shapes
<1> QED BY <1>1 DEF Orders

LEMMA NextOrders == Shapes /\ Orders /\ [Next]_vars => Orders'
<1> SUFFICES ASSUME Shapes, Orders, [Next]_vars
             PROVE  Orders'
  OBVIOUS
<1>1. ASSUME NEW n \in Node
      PROVE  Shaped(cache[n]) /\ Used(cache[n])
  BY DEF Shapes, Orders
<1>2. ASSUME NEW n \in Node, NEW k \in Key
      PROVE  Shaped(Looked(cache[n], k)) /\ Used(Looked(cache[n], k))
  BY <1>1, LookedShape, LookedUsed
<1>3. ASSUME NEW n \in Node, NEW gone
      PROVE  Shaped(Without(cache[n], gone)) /\ Used(Without(cache[n], gone))
  BY <1>1, WithoutShape, WithoutUsed
<1>4. ASSUME NEW v \in Nat, NEW st \in {"M", "S"}
      PROVE  Fresh(v, st) \in Entry /\ Fresh(v, st) # Absent
  BY FreshIsEntry, AbsentIsEntry
<1>5. ASSUME NEW n \in Node, NEW k \in Key, Get(n, k)
      PROVE  Orders'
  BY <1>2, <1>5, OneOrderChanges DEF Get
<1>6. ASSUME NEW n \in Node, NEW k \in Key, SetExclusive(n, k) \/ SetShared(n, k)
      PROVE  Orders'
  <2>1. cache' = [cache EXCEPT ![n] = Looked(cache[n], k)]
    BY <1>6 DEF SetExclusive, SetShared, SetWaits
  <2> QED BY <1>2, <2>1, OneOrderChanges
<1>7. ASSUME NEW n \in Node, NEW k \in Key, SetOwned(n, k)
      PROVE  Orders'
  <2> DEFINE e == Fresh(begun + 1, "M")
             c == Stored(Looked(cache[n], k), k, e)
  <2>1. e \in Entry /\ e # Absent
    BY <1>4 DEF Shapes
  <2>2. cache' = [cache EXCEPT ![n] = c]
    BY <1>7 DEF SetOwned
  <2> HIDE DEF e
  <2>3. Shaped(c) /\ Used(c)
    BY <1>2, <2>1, StoredShape, StoredUsed
  <2> HIDE DEF c
  <2> QED BY <2>2, <2>3, OneOrderChanges
<1>8. ASSUME NEW n \in Node, NEW k \in Key, Delete(n, k)
      PROVE  Orders'
  <2>1. cache' = [cache EXCEPT ![n] = Without(cache[n], {k})]
    BY <1>8 DEF Delete, Dropped
  <2> QED BY <1>3, <2>1, OneOrderChanges
<1>9. ASSUME NEW n \in Node, NEW k \in Key, NEW e \in Entry, e = Absent <=> cache[n].entry[k] = Absent,
             cache' = [cache EXCEPT ![n].entry[k] = e]
      PROVE  Orders'
  <2> DEFINE f == [cache[n].entry EXCEPT ![k] = e]
             c == [entry |-> f, order |-> cache[n].order]
  <2>1. cache[n] = [entry |-> cache[n].entry, order |-> cache[n].order]
    BY <1>1 DEF Shaped
  <2>2. cache' = [cache EXCEPT ![n] = [cache[n] EXCEPT !.entry = f]]
    BY <1>9
  <2>3. f \in [Key -> Entry] /\ \A j \in Key : f[j] = IF j = k THEN e ELSE cache[n].entry[j]
    BY <1>1, <1>9 DEF Shaped
  <2> HIDE DEF f
  <2>4. c = [cache[n] EXCEPT !.entry = f]
    BY <2>1, EntryReplaced
  <2>5. Shaped(c) /\ c.order = cache[n].order /\ c.entry = f
    BY <2>3 DEF Shaped
  <2> HIDE DEF c
  <2>6. Used(c)
    BY <1>1, <1>9, <2>3, <2>5, ReplacedUsed
  <2> QED BY <2>2, <2>4, <2>5, <2>6, OneOrderChanges
<1>10. ASSUME NEW n \in Node, NEW k \in Key, Expire(n, k)
       PROVE  Orders'
  <2> DEFINE e == [cache[n].entry[k] EXCEPT !.expired = TRUE]
  <2>1. cache[n].entry[k] \in Entry /\ cache[n].entry[k] # Absent
    BY <1>1, <1>10 DEF Expire, Shaped
  <2>2. e \in Entry /\ e # Absent
    BY <2>1 DEF Entry, Absent
  <2>3. cache' = [cache EXCEPT ![n].entry[k] = e]
    BY <1>10 DEF Expire
  <2> HIDE DEF e
  <2> QED BY <1>9, <2>1, <2>2, <2>3
<1>11. ASSUME NEW n \in Node, SetEnds(n)
       PROVE  Orders'
  <2>1. PICK call \in calls : SetEnds(n)!(call)
    BY <1>11 DEF SetEnds
  <2>2. call.key \in Key /\ call.id \in Nat /\ call.state \in {"M", "S"}
    BY DEF Shapes, Call
  <2> DEFINE e == Fresh(call.id, call.state)
             c == Stored(cache[n], call.key, e)
  <2>3. e \in Entry /\ e # Absent
    BY <1>4, <2>2
  <2>4. cache' = [cache EXCEPT ![n] = c]
    BY <2>1
  <2> HIDE DEF e
  <2>5. Shaped(c) /\ Used(c)
    BY <1>1, <2>2, <2>3, StoredShape, StoredUsed
  <2> HIDE DEF c
  <2> QED BY <2>4, <2>5, OneOrderChanges
<1>12. ASSUME NEW n \in Node, HandleInvalidation(n)
       PROVE  Orders'
  <2>1. PICK m \in msgs : HandleInvalidation(n)!(m)
    BY <1>12 DEF HandleInvalidation
  <2>2. m.key \in Key
    BY DEF Shapes, Message
  <2> DEFINE e == Invalidated(cache[n].entry[m.key])
  <2>3. cache[n].entry[m.key] \in Entry
    BY <1>1, <2>2 DEF Shaped
  <2>4. e \in Entry /\ (e = Absent <=> cache[n].entry[m.key] = Absent)
    <3>1. CASE cache[n].entry[m.key] = Absent
      BY <2>3, <3>1 DEF Invalidated
    <3>2. CASE cache[n].entry[m.key] # Absent
      <4>1. e = [cache[n].entry[m.key] EXCEPT !.state = "I"]
        BY <3>2 DEF Invalidated
      <4>2. e \in Entry /\ e.state = "I"
        BY <2>3, <4>1 DEF Entry
      <4> HIDE DEF e
      <4> QED BY <3>2, <4>2 DEF Absent
    <3> QED BY <3>1, <3>2
  <2>5. cache' = [cache EXCEPT ![n].entry[m.key] = e]
    BY <2>1
  <2> HIDE DEF e
  <2> QED BY <1>9, <2>2, <2>4, <2>5
<1>13. ASSUME NEW n \in Node, HandleUpdate(n)
       PROVE  Orders'
  <2>1. PICK m \in msgs : HandleUpdate(n)!(m)
    BY <1>13 DEF HandleUpdate
  <2>2. m.key \in Key /\ m.id \in Nat
    BY DEF Shapes, Message
  <2> DEFINE e == Fresh(m.id, "S")
             c == Stored(Looked(cache[n], m.key), m.key, e)
  <2>3. e \in Entry /\ e # Absent
    BY <1>4, <2>2
  <2>4. cache' = [cache EXCEPT ![n] = c]
    BY <2>1
  <2> HIDE DEF e
  <2>5. Shaped(c) /\ Used(c)
    BY <1>2, <2>2, <2>3, StoredShape, StoredUsed
  <2> HIDE DEF c
  <2> QED BY <2>4, <2>5, OneOrderChanges
<1>14. ASSUME NEW n \in Node, Cleanup(n)
       PROVE  Orders'
  <2>1. cache' = [cache EXCEPT ![n] = Without(cache[n], {k \in Key : cache[n].entry[k].expired})]
    BY <1>14 DEF Cleanup
  <2> QED BY <1>3, <2>1, OneOrderChanges
<1>15. ASSUME NEW n \in Node, Restart(n)
       PROVE  Orders'
  <2> DEFINE c == [entry |-> [k \in Key |-> Absent], order |-> << >>]
  <2>1. Shaped(c) /\ Used(c)
    <3>1. Once(<<>>, Key) /\ Len(<<>>) = 0 /\ ToSet(<<>>) = {}
      BY EmptySeq DEF Once, ToSet
    <3> QED BY <3>1, AbsentIsEntry, SizeAssumption DEF Shaped, Used
  <2>2. cache' = [cache EXCEPT ![n] = c]
    BY <1>15 DEF Restart
  <2> HIDE DEF c
  <2> QED BY <2>1, <2>2, OneOrderChanges
<1>16. ASSUME cache' = cache
       PROVE  Orders'
  BY <1>16 DEF Orders
<1>17. (\E m \in msgs : RequestFails(m)) \/ UNCHANGED vars => cache' = cache
  BY DEF RequestFails, vars
<1> QED BY <1>5, <1>6, <1>7, <1>8, <1>10, <1>11, <1>12, <1>13, <1>14, <1>15, <1>16, <1>17
        DEF Next, Handle

LEMMA NextCounts == Shapes /\ Counts /\ [Next]_vars => Counts'
<1> SUFFICES ASSUME Shapes, Counts, [Next]_vars
             PROVE  Counts'
  OBVIOUS
<1>1. last \in [Key -> Nat] /\ begun \in Nat
  BY DEF Shapes
<1>2. ASSUME NEW k \in Key, Begin(k), last' \in {last, [last EXCEPT ![k] = begun + 1]}
      PROVE  Counts'
  <2>1. \A j \in Key : last'[j] <= begun + 1
    BY <1>1, <1>2 DEF Counts
  <2> QED BY <1>2, <2>1 DEF Counts, Begin, bounds
<1>3. ASSUME NEW n \in Node, NEW k \in Key,
             SetExclusive(n, k) \/ SetShared(n, k) \/ SetOwned(n, k) \/ Delete(n, k)
      PROVE  Counts'
  BY <1>2, <1>3 DEF SetExclusive, SetShared, SetWaits, SetOwned, Delete
<1>4. ASSUME NEW m \in msgs, RequestFails(m)
      PROVE  Counts'
  <2>1. m.key \in Key
    BY DEF Shapes, Message
  <2> QED BY <1>4, <2>1 DEF Counts, RequestFails
<1>5. ASSUME NEW n \in Node, NEW k \in Key, Expire(n, k)
      PROVE  Counts'
  BY <1>5 DEF Counts, Expire
<1>6. ASSUME NEW n \in Node, Restart(n)
      PROVE  Counts'
  BY <1>6 DEF Counts, Restart
<1>7. ASSUME UNCHANGED <<begun, last, disturbed, bounds>>
      PROVE  Counts'
  BY <1>7 DEF Counts, bounds
<1>8. ASSUME NEW n \in Node,
             (\E k \in Key : Get(n, k)) \/ SetEnds(n) \/ Handle(n) \/ Cleanup(n)
      PROVE  UNCHANGED <<begun, last, disturbed, bounds>>
  BY <1>8 DEF Get, SetEnds, Handle, HandleInvalidation, HandleUpdate, Cleanup
<1>9. UNCHANGED vars => UNCHANGED <<begun, last, disturbed, bounds>>
  BY DEF vars
<1> QED BY <1>3, <1>4, <1>5, <1>6, <1>7, <1>8, <1>9 DEF Next

\* The order of use of every cache has the keys that are there, once each, and
\* never more than max_size: a call that was waiting stores its entry like any other.
THEOREM CacheTypeCorrect == Spec => []TypeOK
<1>1. Init => Orders /\ Counts
  <2> SUFFICES ASSUME Init
               PROVE  Orders /\ Counts
    OBVIOUS
  <2>1. Once(<<>>, Key) /\ Len(<<>>) = 0 /\ ToSet(<<>>) = {}
    BY EmptySeq DEF Once, ToSet
  <2> QED BY <2>1, SizeAssumption DEF Init, Orders, Used, Counts
<1>2. Good /\ Orders /\ Counts => TypeOK
  <2> SUFFICES ASSUME Good, Orders, Counts
               PROVE  TypeOK
    OBVIOUS
  <2>1. ASSUME NEW n \in Node
        PROVE  /\ cache[n].entry \in [Key -> Entry]
               /\ IsInjective(cache[n].order) /\ Len(cache[n].order) <= MaxSize
               /\ ToSet(cache[n].order) = {k \in Key : cache[n].entry[k] # Absent}
    <3>1. Once(cache[n].order, Key) /\ cache[n].order \in Seq(Key)
      BY DEF Orders, Used, Once
    <3>2. IsInjective(cache[n].order)
      BY <3>1, OnceSet
    <3> QED BY <3>2 DEF Good, Shapes, Shaped, Orders, Used
  <2>2. last \in [Key -> 0 .. begun]
    BY DEF Good, Shapes, Counts
  <2> QED BY <2>1, <2>2 DEF Good, Shapes, Counts, TypeOK
<1>3. Good => Shapes
  BY DEF Good
<1> QED BY <1>1, <1>2, <1>3, InitGood, NextGood, NextOrders, NextCounts, PTL DEF Spec
=============================================================================
