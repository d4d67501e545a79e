-------------------------- MODULE LockTableProofs --------------------------
(***************************************************************************)
(* Facts about the rules of one lock table, for every table and queue:     *)
(* what a grant, an expiry and the service of a queue leave.               *)
(***************************************************************************)
EXTENDS LockTable, FiniteSetTheorems, WellFoundedInduction, TLAPS

LEMMA ValidType ==
    ASSUME NEW ls \in SUBSET Lock
    PROVE  Valid(ls) \in SUBSET Lock /\ Valid(ls) \subseteq ls
BY DEF Valid

LEMMA GrantType ==
    ASSUME NEW e \in Request
    PROVE  Grant(e) \in Lock /\ Grant(e).id = e.id /\ Grant(e).type = e.type
BY DEF Grant, Request, Lock

\* A set of numbers with 0 and every successor has all: an element that is missing
\* would have a least one below it, as finite intervals cannot shrink for ever.
LEMMA NatInSet ==
    ASSUME NEW T, 0 \in T, \A n \in Nat : n \in T => n + 1 \in T
    PROVE  Nat \subseteq T
<1> SUFFICES ASSUME Nat \ T # {}
             PROVE  FALSE
  OBVIOUS
<1> DEFINE below == {0 .. n : n \in Nat \ T}
<1>1. below \subseteq FiniteSubsetsOf(Nat) /\ below # {}
  <2>1. ASSUME NEW n \in Nat \ T
        PROVE  0 .. n \in FiniteSubsetsOf(Nat)
    <3>1. n \in Int /\ 0 .. n \subseteq Nat
      OBVIOUS
    <3>2. IsFiniteSet(0 .. n)
      BY <3>1, FS_Interval
    <3>3. QED
      BY <3>1, <3>2 DEF FiniteSubsetsOf
  <2>2. QED
    BY <2>1
<1>2. PICK b \in below : \A c \in below : <<c, b>> \notin StrictSubsetOrdering(Nat)
  <2> HIDE DEF below
  <2> QED
    BY <1>1, FS_StrictSubsetOrderingWellFounded, WFMin
<1>3. PICK n \in Nat \ T : b = 0 .. n
  OBVIOUS
<1>4. n # 0 /\ n - 1 \in Nat
  OBVIOUS
<1>5. n - 1 \notin T
  <2>1. n = (n - 1) + 1
    OBVIOUS
  <2>2. QED
    BY <1>3, <1>4, <2>1
<1>6. <<0 .. n - 1, 0 .. n>> \in StrictSubsetOrdering(Nat)
  <2>1. 0 .. n - 1 \subseteq 0 .. n /\ n \in 0 .. n /\ n \notin 0 .. n - 1 /\ 0 .. n \subseteq Nat
    BY <1>4
  <2>2. 0 .. n - 1 \subseteq Nat /\ 0 .. n - 1 # 0 .. n
    BY <2>1
  <2>3. QED
    BY <2>1, <2>2 DEF StrictSubsetOrdering
<1>7. 0 .. n - 1 \in below
  BY <1>4, <1>5
<1>8. QED
  BY <1>2, <1>3, <1>6, <1>7

\* A queue that is not empty has an oldest request: the numbers are natural.
LEMMA OldestIsFirst ==
    ASSUME NEW q \in SUBSET Request, q # {}
    PROVE  Oldest(q) \in q /\ \A f \in q : Oldest(q).id <= f.id
<1> SUFFICES \E e \in q : \A f \in q : e.id <= f.id
  BY DEF Oldest
<1> SUFFICES ASSUME \A e \in q : \E f \in q : ~(e.id <= f.id)
             PROVE  FALSE
  OBVIOUS
<1> DEFINE T == {n \in Nat : \A f \in q : n < f.id}
<1>1. \A f \in q : f.id \in Nat
  BY DEF Request
<1>2. 0 \in T
  <2>1. ASSUME NEW f \in q, ~(0 < f.id)
        PROVE  FALSE
    BY <1>1, <2>1
  <2>2. QED
    BY <2>1
<1>3. ASSUME NEW n \in Nat, n \in T
      PROVE  n + 1 \in T
  <2>1. ASSUME NEW f \in q, ~(n + 1 < f.id)
        PROVE  FALSE
    <3>1. f.id = n + 1
      BY <1>1, <1>3, <2>1
    <3>2. \A g \in q : f.id <= g.id
      BY <1>1, <1>3, <3>1
    <3>3. QED
      BY <3>2
  <2>2. QED
    BY <2>1
<1>4. Nat \subseteq T
  <2> HIDE DEF T
  <2> QED
    BY <1>2, <1>3, NatInSet
<1>5. QED
  BY <1>1, <1>4

\* What is served out of a queue when the resource is free: somebody, if
\* anybody waits; one writer or readers only; in order but for readers.
LEMMA ServedFromFree ==
    ASSUME NEW q \in SUBSET Request
    PROVE  /\ Served({}, q) \in SUBSET q
           /\ q # {} => Served({}, q) # {}
           /\ \A e, f \in Served({}, q) : e # f => e.type = "shared" /\ f.type = "shared"
           /\ \A e \in Served({}, q), f \in q \ Served({}, q) :
                  f.id < e.id => f.type = "exclusive" /\ e.type = "shared"
<1>1. Valid({}) = {} /\ CanGrant({}, "shared")
  BY DEF Valid, CanGrant
<1>2. CASE q = {}
  BY <1>1, <1>2 DEF Served
<1>3. CASE q # {} /\ Oldest(q).type = "exclusive"
  <2>1. Served({}, q) = {Oldest(q)}
    BY <1>1, <1>3 DEF Served
  <2>2. Oldest(q) \in q /\ \A f \in q : Oldest(q).id <= f.id
    BY <1>3, OldestIsFirst
  <2>3. \A f \in q : f.id \in Nat
    BY DEF Request
  <2>4. QED
    BY <2>1, <2>2, <2>3
<1>4. CASE q # {} /\ Oldest(q).type # "exclusive"
  <2>1. Served({}, q) = {e \in q : e.type = "shared"}
    BY <1>1, <1>4 DEF Served
  <2>2. \A f \in q : f.type \in {"shared", "exclusive"}
    BY DEF Request, LockType
  <2>3. Oldest(q) \in q
    BY <1>4, OldestIsFirst
  <2>4. QED
    BY <1>4, <2>1, <2>2, <2>3
<1>5. QED
  BY <1>2, <1>3, <1>4

LEMMA GrantsType ==
    ASSUME NEW S \in SUBSET Request
    PROVE  /\ Grants(S) \in SUBSET Lock
           /\ \A l \in Grants(S) : \E e \in S : l = Grant(e)
           /\ \A e \in S : Grant(e) \in Grants(S)
BY GrantType DEF Grants
-----------------------------------------------------------------------------
\* The table after a grant that _can_grant_lock allows.
LEMMA GrantCompatible ==
    ASSUME NEW ls \in SUBSET Lock, NEW e \in Request, CanGrant(ls, e.type)
    PROVE  Compatible(Valid(ls) \cup {Grant(e)})
<1>1. Grant(e).type = e.type
  BY GrantType
<1>2. Valid(ls) = {} \/ (Grant(e).type = "shared" /\ \A l \in Valid(ls) : l.type = "shared")
  BY <1>1 DEF CanGrant
<1> HIDE DEF Grant
<1>3. QED
  BY <1>2 DEF Compatible

\* The table of a freed resource after its queue was served.
LEMMA ServedCompatible ==
    ASSUME NEW q \in SUBSET Request
    PROVE  Compatible(Grants(Served({}, q)))
<1> DEFINE S == Served({}, q)
<1>1. S \in SUBSET q /\ \A e, f \in S : e # f => e.type = "shared" /\ f.type = "shared"
  BY ServedFromFree
<1> HIDE DEF S
<1>2. \A l \in Grants(S) : \E e \in S : l = Grant(e)
  BY <1>1, GrantsType
<1>3. \A e \in S : Grant(e).type = e.type
  BY <1>1, GrantType
<1>4. Compatible(Grants(S))
  BY <1>1, <1>2, <1>3 DEF Compatible
<1>5. QED
  BY <1>4 DEF S

\* Expiry changes no type and no other lock.
LEMMA LapseKeeps ==
    ASSUME NEW ls \in SUBSET Lock, NEW i
    PROVE  /\ Lapse(ls, i) \in SUBSET Lock
           /\ Compatible(ls) => Compatible(Lapse(ls, i))
           /\ ls # {} <=> Lapse(ls, i) # {}
           /\ \A l \in ls : l.id # i => l \in Lapse(ls, i)
<1> DEFINE f(l) == IF l.id = i THEN Lapsed(l) ELSE l
           out  == {f(l) : l \in ls}
<1>1. \A l \in ls : f(l).type = l.type /\ f(l) \in Lock
  BY DEF Lapsed, Lock
<1>2. \A l \in ls : l.id # i => f(l) = l
  OBVIOUS
<1> HIDE DEF f
<1>3. \A k \in out : \E l \in ls : k = f(l)
  OBVIOUS
<1>4. ls # {} <=> out # {}
  OBVIOUS
<1>5. \A l \in ls : l.id # i => l \in out
  BY <1>2
<1> HIDE DEF out
<1>6. Compatible(ls) => Compatible(out)
  BY <1>1, <1>3 DEF Compatible
<1>7. out \in SUBSET Lock
  BY <1>1, <1>3
<1>8. out = Lapse(ls, i)
  BY DEF out, f, Lapse
<1>9. QED
  BY <1>4, <1>5, <1>6, <1>7, <1>8
-----------------------------------------------------------------------------
(***************************************************************************)
(* The loop of _process_wait_queue, entry by entry, grants what Served     *)
(* says: by induction along the order of arrival.                          *)
(***************************************************************************)
Numbered(q) == \A e, f \in q : e.id = f.id => e = f

\* The locks in the table after S was served from a table that held ls.
Joined(ls, S) == Valid(ls) \cup Grants(S)

LEMMA GrantsAreValid ==
    ASSUME NEW ls, NEW S
    PROVE  Valid(Joined(ls, S)) = Joined(ls, S) /\ Valid(Valid(ls)) = Valid(ls)
BY DEF Valid, Joined, Grants, Grant

\* The newest request joins the others.
LEMMA OldestStays ==
    ASSUME NEW q \in SUBSET Request, NEW e \in Request, \A f \in q : f.id < e.id, Numbered(q)
    PROVE  Oldest(q \cup {e}) = IF q = {} THEN e ELSE Oldest(q)
<1>1. e.id \in Nat /\ \A f \in q : f.id \in Nat
  BY DEF Request
<1>2. CASE q = {}
  <2>1. Oldest(q \cup {e}) \in q \cup {e}
    BY OldestIsFirst
  <2>2. QED
    BY <1>2, <2>1
<1>3. CASE q # {}
  <2>1. Oldest(q) \in q /\ \A f \in q : Oldest(q).id <= f.id
    BY <1>3, OldestIsFirst
  <2>2. Oldest(q \cup {e}) \in q \cup {e} /\ \A f \in q \cup {e} : Oldest(q \cup {e}).id <= f.id
    BY OldestIsFirst
  <2> DEFINE o == Oldest(q)
             p == Oldest(q \cup {e})
  <2>3. p.id <= o.id /\ o.id < e.id
    BY <2>1, <2>2
  <2>4. p \in q
    BY <1>1, <2>1, <2>2, <2>3
  <2>5. p.id = o.id
    BY <1>1, <2>1, <2>3, <2>4
  <2>6. QED
    BY <1>3, <2>1, <2>4, <2>5 DEF Numbered
<1>4. QED
  BY <1>2, <1>3

\* What is served when one request more waits, the newest: it is served as well if
\* it goes with what the others have got by then.
LEMMA ServedOneMore ==
    ASSUME NEW ls \in SUBSET Lock, NEW q \in SUBSET Request, NEW e \in Request,
           \A f \in q : f.id < e.id, Numbered(q)
    PROVE  Served(ls, q \cup {e}) = IF CanGrant(Joined(ls, Served(ls, q)), e.type)
                                    THEN Served(ls, q) \cup {e} ELSE Served(ls, q)
<1> DEFINE S == Served(ls, q)
           more == Served(ls, q \cup {e})
           can == CanGrant(Joined(ls, S), e.type)
<1>1. \A f \in q \cup {e} : f.type \in {"shared", "exclusive"}
  BY DEF Request, LockType
<1>2. can <=> \/ Joined(ls, S) = {}
              \/ e.type = "shared" /\ \A l \in Joined(ls, S) : l.type = "shared"
  BY GrantsAreValid DEF CanGrant
<1>3. \A f \in S : Grant(f) \in Joined(ls, S) /\ Grant(f).type = f.type
  BY DEF Joined, Grants, Grant
<1>4. \A l \in Joined(ls, S) : l \in Valid(ls) \/ \E f \in S : l = Grant(f)
  BY DEF Joined, Grants
<1>5. Valid(ls) \subseteq Joined(ls, S)
  BY DEF Joined
<1>6. CanGrant(ls, "shared") <=> \A l \in Valid(ls) : l.type = "shared"
  BY DEF CanGrant
<1>7. Oldest(q \cup {e}) = IF q = {} THEN e ELSE Oldest(q)
  BY OldestStays
<1>8. CASE Valid(ls) = {} /\ q = {}
  <2>1. S = {}
    BY <1>8 DEF Served
  <2>2. can
    BY <1>2, <1>4, <1>8, <2>1
  <2>3. more = {e}
    BY <1>1, <1>6, <1>7, <1>8 DEF Served
  <2>4. QED
    BY <2>1, <2>2, <2>3
<1>9. CASE Valid(ls) = {} /\ q # {} /\ Oldest(q).type = "exclusive"
  <2>1. S = {Oldest(q)} /\ more = {Oldest(q)}
    BY <1>7, <1>9 DEF Served
  <2>2. ~can
    BY <1>2, <1>3, <1>9, <2>1
  <2>3. QED
    BY <2>1, <2>2
<1>10. CASE Valid(ls) = {} /\ q # {} /\ Oldest(q).type = "shared"
  <2>1. S = {f \in q : f.type = "shared"} /\ more = {f \in q \cup {e} : f.type = "shared"}
    BY <1>6, <1>7, <1>10 DEF Served
  <2>2. Oldest(q) \in S
    BY <1>10, <2>1, OldestIsFirst
  <2>3. can <=> e.type = "shared"
    BY <1>2, <1>3, <1>4, <1>10, <2>1, <2>2
  <2>4. QED
    BY <2>1, <2>3
<1>11. CASE Valid(ls) # {}
  <2>1. /\ S = {f \in q : f.type = "shared" /\ CanGrant(ls, "shared")}
        /\ more = {f \in q \cup {e} : f.type = "shared" /\ CanGrant(ls, "shared")}
    BY <1>11 DEF Served
  <2>2. can <=> e.type = "shared" /\ CanGrant(ls, "shared")
    BY <1>2, <1>3, <1>4, <1>5, <1>6, <1>11, <2>1
  <2>3. QED
    BY <2>1, <2>2
<1>12. QED
  <2>1. q # {} => Oldest(q).type \in {"shared", "exclusive"}
    BY <1>1, OldestIsFirst
  <2>2. QED
    BY <1>8, <1>9, <1>10, <1>11, <2>1

\* What the recursive function of ServeAll is, up to number n.
IsLoop(g, ls, q, n) ==
    g = [i \in 0 .. n |-> IF i = 0 THEN [table |-> ls, granted |-> {}]
                          ELSE IF \E e \in q : e.id = i - 1
                          THEN Serve(g[i - 1], CHOOSE e \in q : e.id = i - 1)
                          ELSE g[i - 1]]

LEMMA LoopExists ==
    ASSUME NEW ls, NEW q, NEW n \in Nat
    PROVE  \E g : IsLoop(g, ls, q, n)
<1> DEFINE Step(g, i) == IF i = 0 THEN [table |-> ls, granted |-> {}]
                         ELSE IF \E e \in q : e.id = i - 1
                         THEN Serve(g[i - 1], CHOOSE e \in q : e.id = i - 1)
                         ELSE g[i - 1]
           T == {m \in Nat : \E g : g = [i \in 0 .. m |-> Step(g, i)]}
<1>1. 0 \in T
  <2> DEFINE g == [i \in 0 .. 0 |-> [table |-> ls, granted |-> {}]]
  <2>1. g = [i \in 0 .. 0 |-> Step(g, i)]
    OBVIOUS
  <2>2. QED
    BY <2>1
<1>2. ASSUME NEW m \in Nat, m \in T
      PROVE  m + 1 \in T
  <2>1. PICK g : g = [i \in 0 .. m |-> Step(g, i)]
    BY <1>2
  <2> DEFINE h == [i \in 0 .. m + 1 |-> IF i = m + 1 THEN Step(g, m + 1) ELSE g[i]]
  <2>2. \A i \in 0 .. m + 1 : i # 0 => i - 1 \in 0 .. m /\ h[i - 1] = g[i - 1]
    <3> HIDE DEF Step
    <3> QED
      OBVIOUS
  <2>3. \A i \in 0 .. m : h[i] = Step(g, i)
    <3>1. \A i \in 0 .. m : g[i] = Step(g, i)
      <4> HIDE DEF Step
      <4> QED
        BY <2>1, Zenon
    <3>2. \A i \in 0 .. m : h[i] = g[i]
      <4> HIDE DEF Step
      <4> QED
        OBVIOUS
    <3> HIDE DEF Step, h
    <3>3. QED
      BY <3>1, <3>2
  <2>4. \A i \in 0 .. m + 1 : h[i] = Step(h, i)
    <3> TAKE i \in 0 .. m + 1
    <3>1. h[i] = Step(g, i)
      <4> HIDE DEF Step
      <4>1. CASE i = m + 1
        BY <4>1
      <4>2. CASE i # m + 1
        <5>1. i \in 0 .. m
          BY <4>2
        <5>2. QED
          BY <2>3, <5>1
      <4>3. QED
        BY <4>1, <4>2
    <3>2. Step(g, i) = Step(h, i)
      <4> HIDE DEF h
      <4>1. CASE i = 0
        BY <4>1
      <4>2. CASE i # 0
        <5>1. h[i - 1] = g[i - 1]
          BY <2>2, <4>2
        <5>2. QED
          BY <5>1
      <4>3. QED
        BY <4>1, <4>2
    <3> HIDE DEF Step, h
    <3>3. QED
      BY <3>1, <3>2
  <2>5. h = [i \in 0 .. m + 1 |-> Step(h, i)]
    <3> DEFINE D == 0 .. m + 1
               f == [i \in D |-> Step(h, i)]
    <3>1. h = [i \in D |-> h[i]]
      <4> HIDE DEF Step
      <4> QED
        OBVIOUS
    <3> HIDE DEF h, Step, D
    <3>2. f = [i \in D |-> f[i]]
      OBVIOUS
    <3>3. \A i \in D : f[i] = h[i]
      BY <2>4 DEF D
    <3> HIDE DEF f
    <3>4. h = f
      BY <3>1, <3>2, <3>3
    <3>5. QED
      BY <3>4 DEF f, D, Step
  <2>6. m + 1 \in Nat
    OBVIOUS
  <2> HIDE DEF h, Step
  <2>7. QED
    BY <2>5, <2>6
<1>3. n \in T
  <2> HIDE DEF T
  <2> QED
    BY <1>1, <1>2, NatInSet
<1>4. QED
  BY <1>3 DEF IsLoop

\* The loop grants what Served says, and leaves the valid locks beside the new ones.
LEMMA LoopServes ==
    ASSUME NEW ls \in SUBSET Lock, NEW q \in SUBSET Request, Numbered(q), q # {},
           NEW n \in Nat, \A e \in q : e.id < n
    PROVE  /\ ServeAll(ls, q, n).granted = Served(ls, q)
           /\ ServeAll(ls, q, n).table = Joined(ls, Served(ls, q))
<1> DEFINE after == CHOOSE g : IsLoop(g, ls, q, n)
           First(i) == {e \in q : e.id < i}
           Ok(i) == after[i] = [table   |-> IF First(i) = {} THEN ls
                                            ELSE Joined(ls, Served(ls, First(i))),
                                granted |-> Served(ls, First(i))]
           T == {i \in Nat : i <= n => Ok(i)}
<1>1. IsLoop(after, ls, q, n)
  BY LoopExists
<1>2. ServeAll(ls, q, n) = after[n]
  BY DEF ServeAll, IsLoop
<1> HIDE DEF after
<1>3. \A e \in q : e.id \in Nat
  BY DEF Request
<1>4. 0 \in T
  <2>1. after[0] = [table |-> ls, granted |-> {}]
    BY <1>1 DEF IsLoop
  <2>2. First(0) = {}
    BY <1>3
  <2>3. Served(ls, {}) = {}
    BY DEF Served
  <2>4. QED
    BY <2>1, <2>2, <2>3
<1>5. ASSUME NEW i \in Nat, i \in T
      PROVE  i + 1 \in T
  <2> HIDE DEF Ok
  <2> SUFFICES ASSUME i + 1 <= n
               PROVE  Ok(i + 1)
    OBVIOUS
  <2> DEFINE Q == First(i)
             S == Served(ls, Q)
             W == Joined(ls, S)
             t == IF Q = {} THEN ls ELSE W
  <2>1. after[i] = [table |-> t, granted |-> S]
    BY <1>5 DEF Ok
  <2>2. after[i + 1] = IF \E e \in q : e.id = i
                       THEN Serve(after[i], CHOOSE e \in q : e.id = i)
                       ELSE after[i]
    <3>1. i + 1 \in 0 .. n /\ i + 1 # 0 /\ (i + 1) - 1 = i
      OBVIOUS
    <3>2. after[i + 1] = IF i + 1 = 0 THEN [table |-> ls, granted |-> {}]
                         ELSE IF \E e \in q : e.id = (i + 1) - 1
                         THEN Serve(after[(i + 1) - 1], CHOOSE e \in q : e.id = (i + 1) - 1)
                         ELSE after[(i + 1) - 1]
      BY <1>1, <3>1, Zenon DEF IsLoop
    <3>3. QED
      BY <3>1, <3>2
  <2>3. CASE ~\E e \in q : e.id = i
    <3>1. First(i + 1) = Q
      BY <1>3, <2>3
    <3>2. QED
      BY <2>1, <2>2, <2>3, <3>1 DEF Ok
  <2>4. CASE \E e \in q : e.id = i
    <3>1. PICK e \in q : e = CHOOSE f \in q : f.id = i
      BY <2>4
    <3>2. e.id = i
      BY <2>4, <3>1
    <3>3. First(i + 1) = Q \cup {e} /\ e \notin Q
      BY <1>3, <3>2 DEF Numbered
    <3>4. Q \in SUBSET Request /\ e \in Request /\ Numbered(Q) /\ \A f \in Q : f.id < e.id
      BY <3>2 DEF Numbered
    <3>5. Valid(t) = W
      <4>1. CASE Q = {}
        <5>1. S = {}
          BY <4>1 DEF Served
        <5>2. W = Valid(ls)
          BY <5>1 DEF Joined, Grants
        <5>3. QED
          BY <4>1, <5>2
      <4>2. CASE Q # {}
        BY <4>2, GrantsAreValid
      <4>3. QED
        BY <4>1, <4>2
    <3>6. CanGrant(t, e.type) <=> CanGrant(W, e.type)
      BY <3>5, GrantsAreValid DEF CanGrant
    <3>7. Served(ls, Q \cup {e}) = IF CanGrant(W, e.type) THEN S \cup {e} ELSE S
      <4> HIDE DEF Q
      <4> QED
        BY <3>4, ServedOneMore
    <3>8. Joined(ls, S \cup {e}) = W \cup {Grant(e)}
      <4> HIDE DEF S
      <4> QED
        BY DEF Joined, Grants
    <3>9. after[i + 1] = Serve([table |-> t, granted |-> S], e)
      BY <2>1, <2>2, <2>4, <3>1
    <3> HIDE DEF Q, S, W, t
    <3>10. after[i + 1] = [table   |-> IF CanGrant(W, e.type) THEN W \cup {Grant(e)} ELSE W,
                           granted |-> IF CanGrant(W, e.type) THEN S \cup {e} ELSE S]
      BY <3>5, <3>6, <3>9 DEF Serve
    <3>11. after[i + 1] = [table   |-> Joined(ls, Served(ls, Q \cup {e})),
                           granted |-> Served(ls, Q \cup {e})]
      BY <3>7, <3>8, <3>10 DEF W
    <3>12. QED
      BY <3>3, <3>11 DEF Ok
  <2>5. QED
    BY <2>3, <2>4
<1>6. Ok(n)
  <2>1. n \in T
    <3> HIDE DEF T
    <3> QED
      BY <1>4, <1>5, NatInSet
  <2> HIDE DEF Ok
  <2>2. QED
    BY <2>1
<1>7. First(n) = q
  BY <1>3
<1>8. QED
  BY <1>2, <1>6, <1>7
=============================================================================
