----------------------------- MODULE LockProofs -----------------------------
(***************************************************************************)
(* For every set of callers and resources: the lock table of a leader      *)
(* never holds a writer beside another lock, and nobody waits for a free   *)
(* resource.  One step per action of LockManager.                          *)
(***************************************************************************)
EXTENDS LockManager, LockTableProofs

USE RemoteAssumption, LockBoundAssumption

LEMMA InitTypeOK == Init => TypeOK
<1> SUFFICES ASSUME Init
             PROVE  TypeOK
  OBVIOUS
<1>1. /\ locks \in [Resource -> SUBSET Lock] /\ queue \in [Resource -> SUBSET Request]
      /\ believed \in [Resource -> SUBSET Request]
  BY DEF Init
<1>2. QED
  BY <1>1 DEF Init, TypeOK

LEMMA InitLockInv == Init => LockInv
BY DEF Init, LockInv, TableExclusion, NobodyWaitsForFree, RequestsAreOnce, Compatible, BooksAreFounded

LEMMA StepTypeOK == TypeOK /\ [Next]_vars => TypeOK'
<1> SUFFICES ASSUME TypeOK, [Next]_vars
             PROVE  TypeOK'
  OBVIOUS
<1> USE DEF TypeOK
<1>1. ASSUME NEW r \in Resource
      PROVE  /\ locks[r] \in SUBSET Lock /\ Valid(locks[r]) \in SUBSET Lock
             /\ queue[r] \in SUBSET Request /\ believed[r] \in SUBSET Request
             /\ Served({}, queue[r]) \in SUBSET queue[r]
             /\ Grants(Served({}, queue[r])) \in SUBSET Lock
             /\ Grants({}) = {}
  <2>1. locks[r] \in SUBSET Lock /\ queue[r] \in SUBSET Request /\ believed[r] \in SUBSET Request
    OBVIOUS
  <2>2. Served({}, queue[r]) \in SUBSET queue[r]
    BY <2>1, ServedFromFree
  <2>3. QED
    BY <2>1, <2>2, ValidType, GrantsType DEF Grants
<1>2. ASSUME NEW r \in Resource, NEW c \in Caller, NEW t \in LockType
      PROVE  NewRequest(c, t) \in Request /\ Grant(NewRequest(c, t)) \in Lock
  <2>1. NewRequest(c, t) \in Request
    BY DEF NewRequest, Request
  <2>2. QED
    BY <2>1, GrantType
<1>3. ASSUME NEW r \in Resource, NEW t \in LockType, NEW c \in Caller, AcquireGranted(c, r, t)
      PROVE  TypeOK'
  BY <1>1, <1>2, <1>3 DEF AcquireGranted, AcquireCall
<1>4. ASSUME NEW r \in Resource, NEW t \in LockType, NEW c \in Caller, AcquireQueued(c, r, t)
      PROVE  TypeOK'
  BY <1>1, <1>2, <1>4 DEF AcquireQueued, AcquireCall
<1>5. ASSUME NEW r \in Resource, NEW t \in LockType, AcquireDenied(r, t)
      PROVE  TypeOK'
  BY <1>1, <1>5 DEF AcquireDenied, AcquireCall
<1>6. ASSUME NEW r \in Resource, NEW c \in Caller, Release(c, r)
      PROVE  TypeOK'
  BY <1>1, <1>6 DEF Release
<1>7. ASSUME NEW r \in Resource, NEW i \in 0 .. MaxRequests, Expire(r, i)
      PROVE  TypeOK'
  <2>1. ASSUME NEW l \in locks[r]
        PROVE  Lapsed(l) \in Lock /\ l \in Lock
    BY <1>1 DEF Lock, Lapsed
  <2>2. Lapse(locks[r], i) \in SUBSET Lock
    BY <2>1 DEF Lapse
  <2>3. {e \in believed[r] : e.id # i} \in SUBSET Request
    BY <1>1
  <2>4. QED
    BY <1>7, <2>2, <2>3 DEF Expire
<1>8. ASSUME Cleanup
      PROVE  TypeOK'
  <2>1. \A r \in Resource : locks'[r] \in SUBSET Lock /\ queue'[r] \in SUBSET Request
    BY <1>1, <1>8 DEF Cleanup
  <2>2. QED
    BY <1>8, <2>1 DEF Cleanup
<1>9. ASSUME DetectDeadlocks \/ Stop \/ Start
      PROVE  TypeOK'
  <2>1. CASE DetectDeadlocks
    <3>1. alarm' \in BOOLEAN
      BY <2>1 DEF DetectDeadlocks
    <3>2. QED
      BY <2>1, <3>1 DEF DetectDeadlocks
  <2>2. CASE Stop
    <3>1. stops' \in Nat
      BY <2>2 DEF Stop
    <3>2. QED
      BY <2>2, <3>1 DEF Stop
  <2>3. CASE Start
    BY <2>3 DEF Start
  <2>4. QED
    BY <1>9, <2>1, <2>2, <2>3
<1>10. UNCHANGED vars => TypeOK'
  BY DEF vars
<1>11. QED
  BY <1>3, <1>4, <1>5, <1>6, <1>7, <1>8, <1>9, <1>10 DEF Next

\* The variables of the lock table keep their types.
THEOREM LockTypeCorrect == Spec => []TypeOK
BY InitTypeOK, StepTypeOK, PTL DEF Spec
-----------------------------------------------------------------------------
\* LockInv but for the books, for one resource.
ResourceInv(ls, q, n) ==
    /\ Compatible(ls)
    /\ q # {} => ls # {}
    /\ \A x \in ls \cup q : x.id < n
    /\ \A l \in ls, e \in q : l.id # e.id
    /\ \A l, m \in ls : l.id = m.id => l = m
    /\ \A e, f \in q : e.id = f.id => e = f

LEMMA LockInvByResource ==
    LockInv <=> /\ \A r \in Resource : ResourceInv(locks[r], queue[r], requests)
                /\ BooksAreFounded
BY DEF LockInv, TableExclusion, NobodyWaitsForFree, RequestsAreOnce, ResourceInv

\* Dropping expired locks is safe as long as nobody waits or a lock remains.
LEMMA InvDrop ==
    ASSUME NEW ls \in SUBSET Lock, NEW q \in SUBSET Request, NEW n \in Nat, NEW m \in Nat,
           m >= n, ResourceInv(ls, q, n), q # {} => Valid(ls) # {}
    PROVE  ResourceInv(Valid(ls), q, m)
<1>1. \A x \in ls \cup q : x.id \in Nat
  BY DEF Lock, Request
<1>2. QED
  BY <1>1 DEF ResourceInv, Valid, Compatible

\* A grant.
LEMMA InvGrant ==
    ASSUME NEW ls \in SUBSET Lock, NEW q \in SUBSET Request, NEW n \in Nat,
           NEW e \in Request, e.id = n, ResourceInv(ls, q, n), CanGrant(ls, e.type)
    PROVE  ResourceInv(Valid(ls) \cup {Grant(e)}, q, n + 1)
<1>1. Grant(e) \in Lock /\ Grant(e).id = n /\ Grant(e).type = e.type
  BY GrantType
<1>2. \A x \in ls \cup q : x.id \in Nat /\ x.id < n
  BY DEF Lock, Request, ResourceInv
<1>3. Valid(ls) \subseteq ls
  BY DEF Valid
<1>4. Compatible(Valid(ls) \cup {Grant(e)})
  BY GrantCompatible
<1> HIDE DEF Grant
<1>5. QED
  BY <1>1, <1>2, <1>3, <1>4 DEF ResourceInv

\* A request that cannot be granted finds a valid lock, behind which it waits.
LEMMA InvQueue ==
    ASSUME NEW ls \in SUBSET Lock, NEW q \in SUBSET Request, NEW n \in Nat,
           NEW e \in Request, e.id = n, ResourceInv(ls, q, n), ~CanGrant(ls, e.type)
    PROVE  ResourceInv(Valid(ls), q \cup {e}, n + 1)
<1>1. Valid(ls) # {} /\ Valid(ls) \subseteq ls
  BY DEF Valid, CanGrant
<1>2. \A x \in ls \cup q : x.id \in Nat /\ x.id < n
  BY DEF Lock, Request, ResourceInv
<1>3. Compatible(Valid(ls))
  BY <1>1 DEF ResourceInv, Compatible
<1>4. QED
  BY <1>1, <1>2, <1>3 DEF ResourceInv

\* A freed resource serves its queue.
LEMMA InvFreed ==
    ASSUME NEW q \in SUBSET Request, NEW n \in Nat, NEW ls, ResourceInv(ls, q, n)
    PROVE  ResourceInv(Grants(Served({}, q)), q \ Served({}, q), n)
<1> DEFINE S == Served({}, q)
<1>1. /\ S \in SUBSET q /\ (q # {} => S # {})
      /\ \A e, f \in S : e # f => e.type = "shared" /\ f.type = "shared"
  BY ServedFromFree
<1> HIDE DEF S
<1>2. /\ \A l \in Grants(S) : \E e \in S : l = Grant(e)
      /\ \A e \in S : Grant(e) \in Grants(S)
  BY <1>1, GrantsType
<1>3. \A e \in S : Grant(e).id = e.id /\ Grant(e).type = e.type
  BY <1>1, GrantType
<1>4. Compatible(Grants(S))
  BY <1>1, <1>2, <1>3 DEF Compatible
<1>5. q # {} => Grants(S) # {}
  BY <1>1, <1>2
<1>6. /\ \A x \in q : x.id < n
      /\ \A e, f \in q : e.id = f.id => e = f
  BY DEF ResourceInv
<1>7. /\ \A x \in Grants(S) \cup (q \ S) : x.id < n
      /\ \A l \in Grants(S), e \in q \ S : l.id # e.id
      /\ \A l, m \in Grants(S) : l.id = m.id => l = m
      /\ \A e, f \in q \ S : e.id = f.id => e = f
  BY <1>1, <1>2, <1>3, <1>6
<1>8. QED
  BY <1>4, <1>5, <1>7 DEF ResourceInv, S

\* Expiry changes neither numbers nor types.
LEMMA InvExpire ==
    ASSUME NEW ls \in SUBSET Lock, NEW q, NEW n, NEW i, ResourceInv(ls, q, n)
    PROVE  ResourceInv(Lapse(ls, i), q, n)
<1> DEFINE f(l) == IF l.id = i THEN Lapsed(l) ELSE l
           out  == {f(l) : l \in ls}
<1>1. \A l \in ls : f(l).id = l.id /\ f(l).type = l.type
  BY DEF Lapsed
<1> HIDE DEF f
<1>2. \A k \in out : \E l \in ls : k = f(l)
  OBVIOUS
<1>3. ls # {} => out # {}
  OBVIOUS
<1> HIDE DEF out
<1>4. Compatible(out)
  BY <1>1, <1>2 DEF ResourceInv, Compatible
<1>5. /\ \A x \in out \cup q : x.id < n
      /\ \A l \in out, e \in q : l.id # e.id
      /\ \A l, m \in out : l.id = m.id => l = m
  BY <1>1, <1>2 DEF ResourceInv
<1>6. ResourceInv(out, q, n)
  BY <1>3, <1>4, <1>5 DEF ResourceInv
<1>7. QED
  BY <1>6 DEF out, f, Lapse

LEMMA StepResourceInv ==
    ASSUME TypeOK, LockInv, [Next]_vars
    PROVE  \A r \in Resource : ResourceInv(locks'[r], queue'[r], requests')
<1>1. requests \in Nat /\ \A r \in Resource : locks[r] \in SUBSET Lock /\ queue[r] \in SUBSET Request
  BY DEF TypeOK
<1>2. \A r \in Resource : ResourceInv(locks[r], queue[r], requests)
  BY LockInvByResource
<1>3. ASSUME NEW r \in Resource
      PROVE  ResourceInv(locks[r], queue[r], requests + 1)
  <2>1. \A x \in locks[r] \cup queue[r] : x.id \in Nat
    BY <1>1 DEF Lock, Request
  <2>2. QED
    BY <1>1, <1>2, <2>1 DEF ResourceInv
\* An acquire call changes one resource and takes the next number.
<1>4. ASSUME NEW r \in Resource, NEW ls, NEW q,
             locks' = [locks EXCEPT ![r] = ls], queue' = [queue EXCEPT ![r] = q],
             requests' = requests + 1, ResourceInv(ls, q, requests + 1)
      PROVE  \A s \in Resource : ResourceInv(locks'[s], queue'[s], requests')
  BY <1>3, <1>4 DEF TypeOK
<1>5. ASSUME NEW r \in Resource, NEW t \in LockType, NEW c \in Caller, AcquireGranted(c, r, t)
      PROVE  \A s \in Resource : ResourceInv(locks'[s], queue'[s], requests')
  <2> DEFINE e == NewRequest(c, t)
             ls == Valid(locks[r]) \cup {Grant(e)}
  <2>1. e \in Request /\ e.id = requests /\ e.type = t
    BY <1>1 DEF NewRequest, Request
  <2>2. locks' = [locks EXCEPT ![r] = ls] /\ queue' = [queue EXCEPT ![r] = queue[r]]
    BY <1>5 DEF AcquireGranted, TypeOK
  <2>3. requests' = requests + 1 /\ CanGrant(locks[r], t)
    BY <1>5 DEF AcquireGranted, AcquireCall
  <2> HIDE DEF e
  <2>4. ResourceInv(ls, queue[r], requests + 1)
    BY <1>1, <1>2, <2>1, <2>3, InvGrant
  <2> HIDE DEF ls
  <2>5. QED
    BY <1>4, <2>2, <2>3, <2>4
<1>6. ASSUME NEW r \in Resource, NEW t \in LockType, NEW c \in Caller, AcquireQueued(c, r, t)
      PROVE  \A s \in Resource : ResourceInv(locks'[s], queue'[s], requests')
  <2> DEFINE e == NewRequest(c, t)
             ls == Valid(locks[r])
             q == queue[r] \cup {e}
  <2>1. e \in Request /\ e.id = requests /\ e.type = t
    BY <1>1 DEF NewRequest, Request
  <2>2. locks' = [locks EXCEPT ![r] = ls] /\ queue' = [queue EXCEPT ![r] = q]
    BY <1>6 DEF AcquireQueued
  <2>3. requests' = requests + 1 /\ ~CanGrant(locks[r], t)
    BY <1>6 DEF AcquireQueued, AcquireCall
  <2> HIDE DEF e
  <2>4. ResourceInv(ls, q, requests + 1)
    BY <1>1, <1>2, <2>1, <2>3, InvQueue
  <2> HIDE DEF ls, q
  <2>5. QED
    BY <1>4, <2>2, <2>3, <2>4
<1>7. ASSUME NEW r \in Resource, NEW t \in LockType, AcquireDenied(r, t)
      PROVE  \A s \in Resource : ResourceInv(locks'[s], queue'[s], requests')
  <2> DEFINE ls == Valid(locks[r])
  <2>1. locks' = [locks EXCEPT ![r] = ls] /\ queue' = [queue EXCEPT ![r] = queue[r]]
    BY <1>7 DEF AcquireDenied, TypeOK
  <2>2. requests' = requests + 1 /\ ls # {}
    BY <1>7 DEF AcquireDenied, AcquireCall, CanGrant
  <2>3. ResourceInv(ls, queue[r], requests + 1)
    BY <1>1, <1>2, <2>2, InvDrop
  <2> HIDE DEF ls
  <2>4. QED
    BY <1>4, <2>1, <2>2, <2>3
<1>8. ASSUME NEW r \in Resource, NEW c \in Caller, Release(c, r)
      PROVE  \A s \in Resource : ResourceInv(locks'[s], queue'[s], requests')
  <2> DEFINE S == IF locks[r] = {} THEN {} ELSE Served({}, queue[r])
  <2>1. /\ locks' = [locks EXCEPT ![r] = Grants(S)] /\ requests' = requests
        /\ queue' = [queue EXCEPT ![r] = queue[r] \ S]
    BY <1>8 DEF Release
  <2>2. ResourceInv(Grants(S), queue[r] \ S, requests)
    <3>1. CASE locks[r] = {}
      <4>1. S = {} /\ Grants(S) = {} /\ queue[r] \ S = queue[r]
        BY <3>1 DEF Grants
      <4>2. QED
        BY <1>2, <3>1, <4>1
    <3>2. CASE locks[r] # {}
      BY <1>1, <1>2, <3>2, InvFreed
    <3>3. QED
      BY <3>1, <3>2
  <2> HIDE DEF S
  <2>3. QED
    BY <1>2, <2>1, <2>2 DEF TypeOK
<1>9. ASSUME NEW r \in Resource, NEW i \in 0 .. MaxRequests, Expire(r, i)
      PROVE  \A s \in Resource : ResourceInv(locks'[s], queue'[s], requests')
  <2> DEFINE ls == Lapse(locks[r], i)
  <2>1. locks' = [locks EXCEPT ![r] = ls] /\ queue' = queue /\ requests' = requests
    BY <1>9 DEF Expire
  <2>2. ResourceInv(ls, queue[r], requests)
    BY <1>1, <1>2, InvExpire
  <2> HIDE DEF ls
  <2>3. QED
    BY <1>2, <2>1, <2>2 DEF TypeOK
<1>10. ASSUME Cleanup, NEW r \in Resource
       PROVE  ResourceInv(locks'[r], queue'[r], requests')
  <2>1. requests' = requests
    BY <1>10 DEF Cleanup
  <2>2. CASE locks[r] # {} /\ Valid(locks[r]) = {}
    <3>1. /\ locks'[r] = Grants(Served({}, queue[r]))
          /\ queue'[r] = queue[r] \ Served({}, queue[r])
      BY <1>10, <2>2 DEF Cleanup
    <3>2. QED
      BY <1>1, <1>2, <2>1, <3>1, InvFreed
  <2>3. CASE ~(locks[r] # {} /\ Valid(locks[r]) = {})
    <3>1. locks'[r] = Valid(locks[r]) /\ queue'[r] = queue[r]
      BY <1>10, <2>3 DEF Cleanup, Grants
    <3>2. queue[r] # {} => Valid(locks[r]) # {}
      BY <1>2, <2>3 DEF ResourceInv
    <3>3. QED
      BY <1>1, <1>2, <2>1, <3>1, <3>2, InvDrop
  <2>4. QED
    BY <2>2, <2>3
<1>11. ASSUME locks' = locks, queue' = queue, requests' = requests
       PROVE  \A s \in Resource : ResourceInv(locks'[s], queue'[s], requests')
  BY <1>2, <1>11
<1>12. DetectDeadlocks \/ Stop \/ Start \/ UNCHANGED vars =>
           \A s \in Resource : ResourceInv(locks'[s], queue'[s], requests')
  BY <1>11 DEF DetectDeadlocks, Stop, Start, vars
<1>13. QED
  BY <1>5, <1>6, <1>7, <1>8, <1>9, <1>10, <1>12 DEF Next

LEMMA StepBooks ==
    ASSUME TypeOK, LockInv, [Next]_vars
    PROVE  BooksAreFounded'
<1> DEFINE Founded(r) == /\ r \in held' => locks'[r] # {}
                         /\ r \in waiting' => queue'[r] # {}
<1> SUFFICES ASSUME NEW r \in Resource
             PROVE  Founded(r)
  <2>1. \A x \in held' \cup waiting' : x \in Resource
    BY StepTypeOK DEF TypeOK
  <2>2. QED
    BY <2>1 DEF BooksAreFounded
<1>1. r \in held => locks[r] # {}
  BY DEF LockInv, BooksAreFounded
<1>2. r \in waiting => queue[r] # {}
  BY DEF LockInv, BooksAreFounded
<1>3. /\ locks \in [Resource -> SUBSET Lock] /\ queue \in [Resource -> SUBSET Request]
      /\ queue[r] \in SUBSET Request
  BY DEF TypeOK
<1>4. ASSUME NEW S \in SUBSET Request, S # {}
      PROVE  Grants(S) # {}
  BY <1>4, GrantsType
<1>5. ASSUME NEW s \in Resource, NEW t \in LockType, NEW c \in Caller, AcquireGranted(c, s, t)
      PROVE  Founded(r)
  BY <1>1, <1>2, <1>3, <1>5 DEF AcquireGranted
<1>6. ASSUME NEW s \in Resource, NEW t \in LockType, ~CanGrant(locks[s], t),
             locks' = [locks EXCEPT ![s] = Valid(@)], held' = held
      PROVE  r \in held' => locks'[r] # {}
  <2>1. Valid(locks[s]) # {}
    BY <1>6 DEF CanGrant
  <2>2. QED
    BY <1>1, <1>3, <1>6, <2>1
<1>7. ASSUME NEW s \in Resource, NEW t \in LockType, NEW c \in Caller, AcquireQueued(c, s, t)
      PROVE  Founded(r)
  <2>1. r \in held' => locks'[r] # {}
    BY <1>6, <1>7 DEF AcquireQueued
  <2>2. r \in waiting' => queue'[r] # {}
    BY <1>2, <1>3, <1>7 DEF AcquireQueued
  <2>3. QED
    BY <2>1, <2>2
<1>8. ASSUME NEW s \in Resource, NEW t \in LockType, AcquireDenied(s, t)
      PROVE  Founded(r)
  <2>1. r \in held' => locks'[r] # {}
    BY <1>6, <1>8 DEF AcquireDenied
  <2>2. QED
    BY <1>2, <1>8, <2>1 DEF AcquireDenied
\* Whom the freed resource serves holds it; nobody served, nothing taken from the queue.
<1>9. ASSUME NEW s \in Resource, NEW c \in Caller, Release(c, s)
      PROVE  Founded(r)
  <2> DEFINE S == IF locks[s] = {} THEN {} ELSE Served({}, queue[s])
  <2>1. /\ locks' = [locks EXCEPT ![s] = Grants(S)]
        /\ queue' = [queue EXCEPT ![s] = queue[s] \ S]
        /\ held' = IF S # {} THEN held \cup {s} ELSE IF locks[s] # {} THEN held \ {s} ELSE held
        /\ waiting' = IF S # {} THEN waiting \ {s} ELSE waiting
    BY <1>9 DEF Release
  <2>2. S \in SUBSET Request
    <3>1. queue[s] \in SUBSET Request
      BY <1>3
    <3>2. QED
      BY <3>1, ServedFromFree
  <2> HIDE DEF S
  <2>3. S # {} => Grants(S) # {}
    BY <1>4, <2>2
  <2>4. QED
    BY <1>1, <1>2, <1>3, <2>1, <2>3
<1>10. ASSUME NEW s \in Resource, NEW i \in 0 .. MaxRequests, Expire(s, i)
       PROVE  Founded(r)
  <2>1. locks[s] # {} => Lapse(locks[s], i) # {}
    BY DEF Lapse
  <2>2. QED
    BY <1>1, <1>2, <1>3, <1>10, <2>1 DEF Expire
<1>11. ASSUME Cleanup
       PROVE  Founded(r)
  <2> DEFINE drained == {x \in Resource : locks[x] # {} /\ Valid(locks[x]) = {}}
             served == [x \in Resource |-> IF x \in drained THEN Served({}, queue[x]) ELSE {}]
             granted == {x \in Resource : served[x] # {}}
  <2>1. /\ locks' = [x \in Resource |-> Valid(locks[x]) \cup Grants(served[x])]
        /\ queue' = [x \in Resource |-> queue[x] \ served[x]]
        /\ held' = (held \ {x \in Resource : locks[x] # Valid(locks[x])}) \cup granted
        /\ waiting' = waiting \ granted
    BY <1>11 DEF Cleanup
  <2>2. served[r] \in SUBSET Request
    BY <1>3, ServedFromFree
  <2>3. r \in granted <=> served[r] # {}
    OBVIOUS
  <2>4. locks'[r] = Valid(locks[r]) \cup Grants(served[r]) /\ queue'[r] = queue[r] \ served[r]
    BY <2>1
  <2> HIDE DEF served, granted
  <2>5. served[r] # {} => Grants(served[r]) # {}
    BY <1>4, <2>2
  <2>6. QED
    BY <1>1, <1>2, <2>1, <2>3, <2>4, <2>5
<1>12. ASSUME DetectDeadlocks \/ Stop \/ Start \/ UNCHANGED vars
       PROVE  Founded(r)
  BY <1>1, <1>2, <1>12 DEF DetectDeadlocks, Stop, Start, vars
<1>13. QED
  BY <1>5, <1>7, <1>8, <1>9, <1>10, <1>11, <1>12 DEF Next

LEMMA StepLockInv == TypeOK /\ LockInv /\ [Next]_vars => LockInv'
<1> SUFFICES ASSUME TypeOK, LockInv, [Next]_vars
             PROVE  LockInv'
  OBVIOUS
<1>1. \A r \in Resource : ResourceInv(locks'[r], queue'[r], requests')
  BY StepResourceInv
<1>2. BooksAreFounded'
  BY StepBooks
<1>3. QED
  BY <1>1, <1>2 DEF LockInv, TableExclusion, NobodyWaitsForFree, RequestsAreOnce, ResourceInv

\* Readers only or one writer, in every table, counting expired locks too; and
\* whoever waits, waits for a lock that somebody holds; what held_resources and
\* waiting_resources list is held and waited for.
THEOREM LockInvariant == Spec => []LockInv
<1>1. TypeOK /\ LockInv /\ [Next]_vars => TypeOK' /\ LockInv'
  BY StepTypeOK, StepLockInv
<1>2. QED
  BY <1>1, InitTypeOK, InitLockInv, PTL DEF Spec

-----------------------------------------------------------------------------
\* Serving a queue in one step is what the loop of _process_wait_queue does entry by
\* entry, on every table and queue that comes up: no two requests in a queue have the
\* same number, and all were numbered already.
THEOREM ServiceIsTheLoop == Spec => []ServedIsTheLoop
<1>1. TypeOK /\ LockInv => ServedIsTheLoop
  <2> SUFFICES ASSUME TypeOK, LockInv, NEW r \in Resource, NEW ls \in {{}, locks[r]},
                      queue[r] # {}
               PROVE  /\ ServeAll(ls, queue[r], requests).granted = Served(ls, queue[r])
                      /\ ServeAll(ls, queue[r], requests).table
                             = Valid(ls) \cup Grants(Served(ls, queue[r]))
    BY DEF ServedIsTheLoop
  <2>1. ls \in SUBSET Lock /\ queue[r] \in SUBSET Request /\ requests \in Nat
    BY DEF TypeOK
  <2>2. Numbered(queue[r]) /\ \A e \in queue[r] : e.id < requests
    BY DEF LockInv, RequestsAreOnce, Numbered
  <2>3. QED
    BY <2>1, <2>2, LoopServes DEF Joined
<1>2. QED
  BY <1>1, LockTypeCorrect, LockInvariant, PTL
=============================================================================
