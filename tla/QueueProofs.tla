---------------------------- MODULE QueueProofs ----------------------------
(***************************************************************************)
(* Proofs about the queue of one node, for any size and number of          *)
(* messages, any Redis errors, crashes and stops: until stop() is called   *)
(* no message is there twice, no save drops what waits, a saved message    *)
(* survives crashes, and one life of the process loses and reorders        *)
(* nothing.                                                                *)
(***************************************************************************)
EXTENDS MessageQueue, FiniteSetTheorems, SequenceTheorems, WellFoundedInduction, TLAPS

USE SizeAssumption, QueueBoundAssumption

\* t keeps some elements of s, in the order they have there.
Within(t, s) ==
    \A j, k \in 1 .. Len(t) : j < k =>
        \E a, b \in 1 .. Len(s) : a < b /\ s[a] = t[j] /\ s[b] = t[k]
-----------------------------------------------------------------------------
\* A set of numbers with 0 and every successor has all: an element that is missing
\* would have a least one below it, as finite intervals cannot shrink for ever.
LEMMA NatInSet ==
    ASSUME NEW T, 0 \in T, \A n \in Nat : n \in T => n + 1 \in T
    PROVE  Nat \subseteq T
<1> SUFFICES ASSUME Nat \ T # {}
             PROVE  FALSE
  OBVIOUS
<1> DEFINE below == {0 .. n : n \in Nat \ T}
<1>1. below \subseteq FiniteSubsetsOf(Nat) /\ below # {}
  <2>1. ASSUME NEW n \in Nat \ T
        PROVE  0 .. n \in FiniteSubsetsOf(Nat)
    <3>1. n \in Int /\ 0 .. n \subseteq Nat
      OBVIOUS
    <3>2. IsFiniteSet(0 .. n)
      BY <3>1, FS_Interval
    <3> QED BY <3>1, <3>2 DEF FiniteSubsetsOf
  <2> QED BY <2>1
<1>2. PICK b \in below : \A c \in below : <<c, b>> \notin StrictSubsetOrdering(Nat)
  <2> HIDE DEF below
  <2> QED BY <1>1, FS_StrictSubsetOrderingWellFounded, WFMin
<1>3. PICK n \in Nat \ T : b = 0 .. n
  OBVIOUS
<1>4. n # 0 /\ n - 1 \in Nat
  OBVIOUS
<1>5. n - 1 \notin T
  <2>1. n = (n - 1) + 1
    OBVIOUS
  <2> QED BY <1>3, <1>4, <2>1
<1>6. <<0 .. n - 1, 0 .. n>> \in StrictSubsetOrdering(Nat)
  <2>1. 0 .. n - 1 \subseteq 0 .. n /\ n \in 0 .. n /\ n \notin 0 .. n - 1 /\ 0 .. n \subseteq Nat
    BY <1>4
  <2>2. 0 .. n - 1 \subseteq Nat /\ 0 .. n - 1 # 0 .. n
    BY <2>1
  <2> QED BY <2>1, <2>2 DEF StrictSubsetOrdering
<1>7. 0 .. n - 1 \in below
  BY <1>4, <1>5
<1> QED BY <1>2, <1>3, <1>6, <1>7

\* The recursive function of Live has a value.
LEMMA LiveExists ==
    ASSUME NEW s, NEW n \in Nat
    PROVE  \E g : g = [i \in 0 .. n |-> IF i = 0 THEN <<>>
                                        ELSE IF s[i] \in expired THEN g[i - 1]
                                        ELSE Append(g[i - 1], s[i])]
<1> DEFINE Step(g, i) == IF i = 0 THEN <<>>
                         ELSE IF s[i] \in expired THEN g[i - 1]
                         ELSE Append(g[i - 1], s[i])
           T == {m \in Nat : \E g : g = [i \in 0 .. m |-> Step(g, i)]}
<1>1. 0 \in T
  <2> DEFINE g == [i \in 0 .. 0 |-> <<>>]
  <2>1. g = [i \in 0 .. 0 |-> Step(g, i)]
    OBVIOUS
  <2> QED BY <2>1
<1>2. ASSUME NEW m \in Nat, m \in T
      PROVE  m + 1 \in T
  <2>1. PICK g : g = [i \in 0 .. m |-> Step(g, i)]
    BY <1>2
  <2> DEFINE h == [i \in 0 .. m + 1 |-> IF i = m + 1 THEN Step(g, m + 1) ELSE g[i]]
  <2>2. \A i \in 0 .. m + 1 : i # 0 => i - 1 \in 0 .. m /\ h[i - 1] = g[i - 1]
    OBVIOUS
  <2>3. \A i \in 0 .. m : h[i] = Step(g, i)
    <3>1. \A i \in 0 .. m : g[i] = Step(g, i)
      <4> HIDE DEF Step
      <4> QED BY <2>1, Zenon
    <3>2. \A i \in 0 .. m : h[i] = g[i]
      <4> HIDE DEF Step
      <4> QED OBVIOUS
    <3> HIDE DEF Step, h
    <3> QED BY <3>1, <3>2
  <2>4. \A i \in 0 .. m + 1 : h[i] = Step(h, i)
    <3> TAKE i \in 0 .. m + 1
    <3>1. h[i] = Step(g, i)
      <4>1. CASE i = m + 1
        BY <4>1
      <4>2. CASE i # m + 1
        <5>1. i \in 0 .. m
          BY <4>2
        <5> QED BY <2>3, <5>1
      <4> QED BY <4>1, <4>2
    <3>2. Step(g, i) = Step(h, i)
      <4> HIDE DEF h
      <4> QED BY <2>2
    <3> QED BY <3>1, <3>2
  <2>5. h = [i \in 0 .. m + 1 |-> Step(h, i)]
    <3> DEFINE D == 0 .. m + 1
               f == [i \in D |-> Step(h, i)]
    <3>1. h = [i \in D |-> h[i]]
      OBVIOUS
    <3> HIDE DEF h, Step, D
    <3>2. f = [i \in D |-> f[i]]
      OBVIOUS
    <3>3. \A i \in D : f[i] = h[i]
      BY <2>4 DEF D
    <3> HIDE DEF f
    <3>4. h = f
      BY <3>1, <3>2, <3>3
    <3> QED BY <3>4 DEF f, D, Step
  <2>6. m + 1 \in Nat
    OBVIOUS
  <2> HIDE DEF h
  <2> QED BY <2>5, <2>6
<1>3. n \in T
  <2> HIDE DEF T
  <2> QED BY <1>1, <1>2, NatInSet
<1> QED BY <1>3

\* What Live leaves of a sequence: the messages that are not expired, in their order.
LEMMA LiveIsWithin ==
    ASSUME NEW S, NEW s \in Seq(S)
    PROVE  /\ Live(s) \in Seq(S) /\ Len(Live(s)) <= Len(s)
           /\ ToSet(Live(s)) = ToSet(s) \ expired
           /\ Within(Live(s), s)
<1> DEFINE Is(g) == g = [i \in 0 .. Len(s) |-> IF i = 0 THEN <<>>
                                               ELSE IF s[i] \in expired THEN g[i - 1]
                                               ELSE Append(g[i - 1], s[i])]
           live == CHOOSE g : Is(g)
           Left(t, n) == /\ t \in Seq(S) /\ Len(t) <= n
                         /\ \A k \in 1 .. Len(t) :
                               \E i \in 1 .. n : s[i] = t[k] /\ s[i] \notin expired
                         /\ \A i \in 1 .. n : s[i] \notin expired =>
                               \E k \in 1 .. Len(t) : t[k] = s[i]
                         /\ \A j, k \in 1 .. Len(t) : j < k =>
                               \E a, b \in 1 .. n : a < b /\ s[a] = t[j] /\ s[b] = t[k]
           First(n) == Left(live[n], n)
           T == {n \in Nat : n <= Len(s) => First(n)}
<1>1. Len(s) \in Nat /\ \A i \in 1 .. Len(s) : s[i] \in S
  OBVIOUS
<1>2. Is(live)
  <2>1. \E g : Is(g)
    BY <1>1, LiveExists
  <2> HIDE DEF Is
  <2> QED BY <2>1
<1>3. Live(s) = live[Len(s)]
  BY DEF Live
<1> HIDE DEF live
<1>4. 0 \in T
  <2>1. live[0] = <<>>
    BY <1>1, <1>2
  <2>2. First(0)
    BY <2>1, EmptySeq
  <2> QED BY <2>2
<1>5. ASSUME NEW n \in Nat, n \in T
      PROVE  n + 1 \in T
  <2> HIDE DEF First
  <2> SUFFICES ASSUME n + 1 <= Len(s)
               PROVE  First(n + 1)
    OBVIOUS
  <2>1. First(n) /\ s[n + 1] \in S /\ n + 1 \in 0 .. Len(s)
    <3>1. n <= Len(s) /\ n + 1 \in 1 .. Len(s)
      BY <1>1
    <3>2. First(n)
      BY <1>5, <3>1
    <3>3. s[n + 1] \in S
      BY <1>1, <3>1
    <3> QED BY <3>1, <3>2, <3>3
  <2>2. live[n + 1] = IF s[n + 1] \in expired THEN live[n] ELSE Append(live[n], s[n + 1])
    <3>1. live[n + 1] = IF n + 1 = 0 THEN <<>>
                        ELSE IF s[n + 1] \in expired THEN live[(n + 1) - 1]
                        ELSE Append(live[(n + 1) - 1], s[n + 1])
      BY <1>2, <2>1, Zenon
    <3>2. n + 1 # 0 /\ (n + 1) - 1 = n
      OBVIOUS
    <3> QED BY <3>1, <3>2
  <2> USE DEF First
  <2>3. CASE s[n + 1] \in expired
    <3>1. live[n + 1] = live[n]
      BY <2>2, <2>3
    <3>2. \A i \in 1 .. n + 1 : i \in 1 .. n \/ i = n + 1
      OBVIOUS
    <3>3. 1 .. n \subseteq 1 .. n + 1 /\ Len(live[n]) \in Nat
      BY <2>1
    <3>4. \A i \in 1 .. n + 1 : s[i] \notin expired => i \in 1 .. n
      BY <2>3, <3>2
    <3> DEFINE t == live[n]
    <3>5. First(n)
      BY <2>1
    <3>6. t \in Seq(S) /\ Len(t) <= n + 1
      BY <3>3, <3>5
    <3>7. \A k \in 1 .. Len(t) : \E i \in 1 .. n + 1 : s[i] = t[k] /\ s[i] \notin expired
      BY <3>3, <3>5
    <3>8. \A i \in 1 .. n + 1 : s[i] \notin expired => \E k \in 1 .. Len(t) : t[k] = s[i]
      BY <3>4, <3>5
    <3> HIDE DEF t
    <3>9. ASSUME NEW j \in 1 .. Len(t), NEW k \in 1 .. Len(t), j < k
          PROVE  \E a, b \in 1 .. n + 1 : a < b /\ s[a] = t[j] /\ s[b] = t[k]
      <4>1. PICK a \in 1 .. n, b \in 1 .. n : a < b /\ s[a] = t[j] /\ s[b] = t[k]
        BY <3>5, <3>9 DEF t
      <4> QED BY <3>3, <4>1
    <3>10. Left(t, n + 1)
      BY <3>6, <3>7, <3>8, <3>9
    <3>11. live[n + 1] = t
      BY <3>1 DEF t
    <3> HIDE DEF Left
    <3> QED BY <3>10, <3>11
  <2>4. CASE s[n + 1] \notin expired
    <3> DEFINE t == live[n]
               u == live[n + 1]
    <3>1. u = Append(t, s[n + 1]) /\ t \in Seq(S)
      BY <2>1, <2>2, <2>4
    <3>2. First(n)
      BY <2>1
    <3>3. u \in Seq(S) /\ Len(u) = Len(t) + 1 /\ u[Len(t) + 1] = s[n + 1] /\ Len(t) \in Nat
      BY <2>1, <3>1, AppendProperties
    <3>4. \A k \in 1 .. Len(t) : u[k] = t[k]
      BY <2>1, <3>1, AppendProperties
    <3>5. \A k \in 1 .. Len(u) : k \in 1 .. Len(t) \/ k = Len(t) + 1
      BY <3>3
    <3>6. \A i \in 1 .. n + 1 : i \in 1 .. n \/ i = n + 1
      OBVIOUS
    <3>7. 1 .. n \subseteq 1 .. n + 1 /\ n + 1 \in 1 .. n + 1
          /\ 1 .. Len(t) \subseteq 1 .. Len(u) /\ Len(t) + 1 \in 1 .. Len(u)
      BY <3>3
    <3> HIDE DEF t, u
    <3>8. Len(u) <= n + 1
      BY <3>2, <3>3 DEF t
    <3>9. \A k \in 1 .. Len(u) : \E i \in 1 .. n + 1 : s[i] = u[k] /\ s[i] \notin expired
      <4> TAKE k \in 1 .. Len(u)
      <4>1. CASE k \in 1 .. Len(t)
        <5>1. PICK i \in 1 .. n : s[i] = t[k] /\ s[i] \notin expired
          BY <3>2, <4>1 DEF t
        <5> QED BY <3>4, <3>7, <4>1, <5>1
      <4>2. CASE k = Len(t) + 1
        BY <2>4, <3>3, <3>7, <4>2
      <4> QED BY <3>5, <4>1, <4>2
    <3>10. ASSUME NEW i \in 1 .. n + 1, s[i] \notin expired
           PROVE  \E k \in 1 .. Len(u) : u[k] = s[i]
      <4>1. CASE i \in 1 .. n
        <5>1. PICK k \in 1 .. Len(t) : t[k] = s[i]
          BY <3>2, <3>10, <4>1 DEF t
        <5>2. k \in 1 .. Len(u) /\ u[k] = t[k]
          BY <3>4, <3>7, <5>1
        <5> QED BY <5>1, <5>2
      <4>2. CASE i = n + 1
        BY <3>3, <3>7, <4>2
      <4> QED BY <3>6, <4>1, <4>2
    <3>11. ASSUME NEW j \in 1 .. Len(u), NEW k \in 1 .. Len(u), j < k
           PROVE  \E a, b \in 1 .. n + 1 : a < b /\ s[a] = u[j] /\ s[b] = u[k]
      <4>1. j \in 1 .. Len(t)
        BY <3>3, <3>5, <3>11
      <4>2. CASE k \in 1 .. Len(t)
        <5>1. PICK a \in 1 .. n, b \in 1 .. n : a < b /\ s[a] = t[j] /\ s[b] = t[k]
          <6>1. \A x, y \in 1 .. Len(t) : x < y =>
                   \E a, b \in 1 .. n : a < b /\ s[a] = t[x] /\ s[b] = t[y]
            BY <3>2 DEF t
          <6> QED BY <3>11, <4>1, <4>2, <6>1
        <5>2. u[j] = t[j] /\ u[k] = t[k]
          BY <3>4, <4>1, <4>2
        <5>3. a \in 1 .. n + 1 /\ b \in 1 .. n + 1
          BY <3>7
        <5> WITNESS a \in 1 .. n + 1, b \in 1 .. n + 1
        <5> QED BY <5>1, <5>2
      <4>3. CASE k = Len(t) + 1
        <5>1. PICK a \in 1 .. n : s[a] = t[j]
          BY <3>2, <4>1 DEF t
        <5>2. a < n + 1 /\ a \in 1 .. n + 1 /\ n + 1 \in 1 .. n + 1
          BY <3>7
        <5> QED BY <3>3, <3>4, <4>1, <4>3, <5>1, <5>2
      <4> QED BY <3>5, <4>2, <4>3
    <3>12. Left(u, n + 1)
      BY <3>3, <3>8, <3>9, <3>10, <3>11
    <3> HIDE DEF Left
    <3> QED BY <3>12 DEF u
  <2> QED BY <2>3, <2>4
<1>6. First(Len(s))
  <2>1. Len(s) \in T
    <3> HIDE DEF T
    <3> QED BY <1>1, <1>4, <1>5, NatInSet
  <2> HIDE DEF First
  <2> QED BY <1>1, <2>1
<1>7. ToSet(Live(s)) = ToSet(s) \ expired
  <2>1. DOMAIN s = 1 .. Len(s) /\ DOMAIN live[Len(s)] = 1 .. Len(live[Len(s)])
    BY <1>1, <1>6
  <2> DEFINE t == live[Len(s)]
  <2>2. ToSet(t) = {t[k] : k \in 1 .. Len(t)} /\ ToSet(s) = {s[i] : i \in 1 .. Len(s)}
    BY <2>1 DEF ToSet
  <2>3. ASSUME NEW k \in 1 .. Len(t)
        PROVE  t[k] \in ToSet(s) \ expired
    <3>1. PICK i \in 1 .. Len(s) : s[i] = t[k] /\ s[i] \notin expired
      BY <1>6
    <3> QED BY <2>2, <3>1
  <2>4. ASSUME NEW i \in 1 .. Len(s), s[i] \notin expired
        PROVE  s[i] \in ToSet(t)
    <3>1. PICK k \in 1 .. Len(t) : t[k] = s[i]
      BY <1>6, <2>4
    <3> HIDE DEF t
    <3> QED BY <2>2, <3>1
  <2> HIDE DEF t
  <2>5. ToSet(t) = ToSet(s) \ expired
    BY <2>2, <2>3, <2>4
  <2> QED BY <1>3, <2>5 DEF t
<1>8. Within(Live(s), s)
  BY <1>3, <1>6 DEF Within
<1> QED BY <1>1, <1>3, <1>6, <1>7, <1>8
-----------------------------------------------------------------------------
LEMMA SeqSet ==
    ASSUME NEW S, NEW s \in Seq(S)
    PROVE  /\ Len(s) \in Nat /\ DOMAIN s = 1 .. Len(s) /\ \A i \in 1 .. Len(s) : s[i] \in S
           /\ ToSet(s) = {s[i] : i \in 1 .. Len(s)} /\ ToSet(s) \subseteq S
<1>1. Len(s) \in Nat /\ DOMAIN s = 1 .. Len(s) /\ \A i \in 1 .. Len(s) : s[i] \in S
  OBVIOUS
<1> QED BY <1>1 DEF ToSet

LEMMA EmptyIsBare ==
    /\ ToSet(<<>>) = {} /\ IsInjective(<<>>) /\ Len(<<>>) = 0
    /\ \A S : <<>> \in Seq(S)
    /\ \A s : Within(<<>>, s)
<1>1. Len(<<>>) = 0 /\ DOMAIN <<>> = {} /\ \A S : <<>> \in Seq(S)
  OBVIOUS
<1> QED BY <1>1 DEF ToSet, IsInjective, Within

\* Part of a sequence without repetitions has none.
LEMMA InjectiveWithin ==
    ASSUME NEW S, NEW s \in Seq(S), NEW t \in Seq(S), Within(t, s), IsInjective(s)
    PROVE  IsInjective(t)
<1>1. \A a, b \in 1 .. Len(s) : s[a] = s[b] => a = b
  BY SeqSet DEF IsInjective
<1>2. \A j, k \in 1 .. Len(t) : j < k => t[j] # t[k]
  <2> TAKE j, k \in 1 .. Len(t)
  <2> HAVE j < k
  <2>1. PICK a \in 1 .. Len(s), b \in 1 .. Len(s) : a < b /\ s[a] = t[j] /\ s[b] = t[k]
    BY DEF Within
  <2>2. a # b
    BY <2>1
  <2> QED BY <1>1, <2>1, <2>2
<1>3. \A j, k \in 1 .. Len(t) : j < k \/ k < j \/ j = k
  OBVIOUS
<1>4. \A j, k \in 1 .. Len(t) : t[j] = t[k] => j = k
  BY <1>2, <1>3
<1> QED BY <1>4, SeqSet DEF IsInjective

\* The end of a sequence after a position.
After(s, i) == SubSeq(s, i + 1, Len(s))

\* It has the elements behind that position, in their order.
LEMMA TailIsWithin ==
    ASSUME NEW S, NEW s \in Seq(S), NEW i \in 0 .. Len(s)
    PROVE  /\ After(s, i) \in Seq(S) /\ Len(After(s, i)) = Len(s) - i
           /\ \A j \in 1 .. Len(After(s, i)) : After(s, i)[j] = s[j + i]
           /\ ToSet(After(s, i)) = {s[j] : j \in i + 1 .. Len(s)}
           /\ Within(After(s, i), s)
<1> DEFINE t == SubSeq(s, i + 1, Len(s))
<1>1. Len(s) \in Nat /\ \A j \in 1 .. Len(s) : s[j] \in S
  BY SeqSet
<1>2. t \in Seq(S) /\ Len(t) = Len(s) - i /\ \A j \in 1 .. Len(s) - i : t[j] = s[j + i]
  <2>1. \A j \in i + 1 .. Len(s) : s[j] \in S
    BY <1>1
  <2>2. i + 1 \in Int /\ Len(s) \in Int
    BY <1>1
  <2>3. /\ t \in Seq(S)
        /\ Len(t) = IF i + 1 <= Len(s) THEN Len(s) - (i + 1) + 1 ELSE 0
        /\ \A j \in 1 .. Len(s) - (i + 1) + 1 : t[j] = s[(i + 1) + j - 1]
    BY <2>1, <2>2, SubSeqProperties
  <2>4. \A j \in Int : (i + 1) + j - 1 = j + i
    OBVIOUS
  <2>5. Len(s) - (i + 1) + 1 = Len(s) - i /\ (i + 1 <= Len(s) \/ Len(s) - i = 0)
    BY <1>1
  <2>6. Len(t) = Len(s) - i
    BY <2>3, <2>5
  <2>7. \A j \in 1 .. Len(s) - i : t[j] = s[j + i]
    <3> TAKE j \in 1 .. Len(s) - i
    <3>1. t[j] = s[(i + 1) + j - 1]
      <4> HIDE DEF t
      <4> QED BY <2>3, <2>5
    <3>2. (i + 1) + j - 1 = j + i
      BY <2>4
    <3> HIDE DEF t
    <3> QED BY <3>1, <3>2
  <2> HIDE DEF t
  <2> QED BY <2>3, <2>6, <2>7
<1> HIDE DEF t
<1>3. ToSet(t) = {s[j] : j \in i + 1 .. Len(s)}
  <2>1. ToSet(t) = {t[j] : j \in 1 .. Len(t)}
    BY <1>2, SeqSet
  <2>2. \A j \in 1 .. Len(t) : j + i \in i + 1 .. Len(s)
    BY <1>1, <1>2
  <2>3. \A j \in i + 1 .. Len(s) : j - i \in 1 .. Len(t) /\ t[j - i] = s[j]
    BY <1>1, <1>2
  <2>4. ToSet(t) \subseteq {s[j] : j \in i + 1 .. Len(s)}
    BY <1>2, <2>1, <2>2
  <2>5. {s[j] : j \in i + 1 .. Len(s)} \subseteq ToSet(t)
    BY <2>1, <2>3
  <2> QED BY <2>4, <2>5
<1>4. Within(t, s)
  <2> SUFFICES ASSUME NEW j \in 1 .. Len(t), NEW k \in 1 .. Len(t), j < k
               PROVE  \E a, b \in 1 .. Len(s) : a < b /\ s[a] = t[j] /\ s[b] = t[k]
    BY DEF Within
  <2>1. j + i \in 1 .. Len(s) /\ k + i \in 1 .. Len(s) /\ j + i < k + i
    BY <1>1, <1>2
  <2> QED BY <1>2, <2>1
<1>5. After(s, i) = t
  BY DEF After, t
<1> QED BY <1>2, <1>3, <1>4, <1>5

\* A deque keeps the end of what it is given, all of it when there is room.
LEMMA CappedIsWithin ==
    ASSUME NEW S, NEW s \in Seq(S)
    PROVE  /\ Capped(s) \in Seq(S) /\ Len(Capped(s)) <= MaxSize
           /\ ToSet(Capped(s)) \subseteq ToSet(s) /\ Within(Capped(s), s)
           /\ Len(s) <= MaxSize => Capped(s) = s
<1>1. Len(s) \in Nat
  BY SeqSet
<1>2. CASE Len(s) <= MaxSize
  <2>1. Capped(s) = s
    BY <1>2 DEF Capped
  <2>2. Within(s, s)
    BY DEF Within
  <2> QED BY <1>2, <2>1, <2>2
<1>3. CASE ~(Len(s) <= MaxSize)
  <2> DEFINE i == Len(s) - MaxSize
  <2>1. i \in 0 .. Len(s) /\ Len(s) - i = MaxSize
    BY <1>1, <1>3
  <2>2. Capped(s) = After(s, i)
    BY <1>3 DEF Capped, After
  <2>3. /\ Capped(s) \in Seq(S) /\ Len(Capped(s)) = MaxSize /\ Within(Capped(s), s)
        /\ ToSet(Capped(s)) = {s[j] : j \in i + 1 .. Len(s)}
    <3> HIDE DEF i
    <3>1. i \in 0 .. Len(s)
      BY <2>1
    <3>2. /\ After(s, i) \in Seq(S) /\ Len(After(s, i)) = Len(s) - i
          /\ Within(After(s, i), s)
          /\ ToSet(After(s, i)) = {s[j] : j \in i + 1 .. Len(s)}
      BY <3>1, TailIsWithin
    <3> QED BY <2>1, <2>2, <3>2
  <2>4. i + 1 .. Len(s) \subseteq 1 .. Len(s)
    BY <2>1
  <2>5. ToSet(Capped(s)) \subseteq ToSet(s)
    BY <2>3, <2>4, SeqSet
  <2> QED BY <1>3, <2>3, <2>5
<1> QED BY <1>2, <1>3

LEMMA AppendSet ==
    ASSUME NEW S, NEW s \in Seq(S), NEW e \in S
    PROVE  /\ Append(s, e) \in Seq(S) /\ Len(Append(s, e)) = Len(s) + 1
           /\ ToSet(Append(s, e)) = ToSet(s) \cup {e}
           /\ IsInjective(s) /\ e \notin ToSet(s) => IsInjective(Append(s, e))
<1> DEFINE t == Append(s, e)
<1>1. /\ t \in Seq(S) /\ Len(t) = Len(s) + 1 /\ Len(s) \in Nat
      /\ \A i \in 1 .. Len(s) : t[i] = s[i]
      /\ t[Len(s) + 1] = e
  BY AppendProperties, SeqSet
<1>2. \A i \in 1 .. Len(t) : i \in 1 .. Len(s) \/ i = Len(s) + 1
  BY <1>1
<1>3. 1 .. Len(s) \subseteq 1 .. Len(t) /\ Len(s) + 1 \in 1 .. Len(t)
  BY <1>1
<1> HIDE DEF t
<1>4. ToSet(t) = {t[i] : i \in 1 .. Len(t)} /\ ToSet(s) = {s[i] : i \in 1 .. Len(s)}
  BY <1>1, SeqSet
<1>5. ToSet(t) = ToSet(s) \cup {e}
  <2>1. ToSet(t) \subseteq ToSet(s) \cup {e}
    BY <1>1, <1>2, <1>4
  <2>2. ToSet(s) \cup {e} \subseteq ToSet(t)
    BY <1>1, <1>3, <1>4
  <2> QED BY <2>1, <2>2
<1>6. ASSUME IsInjective(s), e \notin ToSet(s)
      PROVE  IsInjective(t)
  <2>1. \A i, j \in 1 .. Len(s) : s[i] = s[j] => i = j
    BY <1>6, SeqSet DEF IsInjective
  <2>2. \A i \in 1 .. Len(s) : s[i] # e
    BY <1>4, <1>6
  <2>3. \A i, j \in 1 .. Len(t) : t[i] = t[j] => i = j
    BY <1>1, <1>2, <2>1, <2>2
  <2> QED BY <1>1, <2>3, SeqSet DEF IsInjective
<1> QED BY <1>1, <1>5, <1>6 DEF t

LEMMA ConcatSet ==
    ASSUME NEW S, NEW s \in Seq(S), NEW t \in Seq(S)
    PROVE  /\ s \o t \in Seq(S) /\ Len(s \o t) = Len(s) + Len(t)
           /\ ToSet(s \o t) = ToSet(s) \cup ToSet(t)
           /\ IsInjective(s) /\ IsInjective(t) /\ ToSet(s) \cap ToSet(t) = {} => IsInjective(s \o t)
           /\ s = <<>> => s \o t = t
           /\ t = <<>> => s \o t = s
<1> DEFINE u == s \o t
<1>1. /\ u \in Seq(S) /\ Len(u) = Len(s) + Len(t) /\ Len(s) \in Nat /\ Len(t) \in Nat
      /\ \A i \in 1 .. Len(s) + Len(t) : u[i] = IF i <= Len(s) THEN s[i] ELSE t[i - Len(s)]
  BY ConcatProperties, SeqSet
<1> HIDE DEF u
<1>2. /\ ToSet(u) = {u[i] : i \in 1 .. Len(u)} /\ ToSet(s) = {s[i] : i \in 1 .. Len(s)}
      /\ ToSet(t) = {t[i] : i \in 1 .. Len(t)}
  <2>1. ToSet(u) = {u[i] : i \in 1 .. Len(u)}
    <3>1. u \in Seq(S)
      BY <1>1
    <3> QED BY <3>1, SeqSet
  <2>2. ToSet(s) = {s[i] : i \in 1 .. Len(s)}
    BY SeqSet
  <2>3. ToSet(t) = {t[i] : i \in 1 .. Len(t)}
    BY SeqSet
  <2> QED BY <2>1, <2>2, <2>3
<1>3. \A i \in 1 .. Len(u) : /\ i <= Len(s) => i \in 1 .. Len(s) /\ u[i] = s[i]
                             /\ ~(i <= Len(s)) => i - Len(s) \in 1 .. Len(t) /\ u[i] = t[i - Len(s)]
  BY <1>1
<1>4. ToSet(u) = ToSet(s) \cup ToSet(t)
  <2>1. \A i \in 1 .. Len(s) : i \in 1 .. Len(u) /\ u[i] = s[i]
    BY <1>1
  <2>2. \A i \in 1 .. Len(t) : i + Len(s) \in 1 .. Len(u) /\ u[i + Len(s)] = t[i]
    <3> TAKE i \in 1 .. Len(t)
    <3>1. /\ i + Len(s) \in 1 .. Len(u) /\ i + Len(s) \in 1 .. Len(s) + Len(t)
          /\ ~(i + Len(s) <= Len(s)) /\ (i + Len(s)) - Len(s) = i
      BY <1>1
    <3> QED BY <1>1, <3>1
  <2>3. ToSet(u) \subseteq ToSet(s) \cup ToSet(t)
    BY <1>2, <1>3
  <2>4. ToSet(s) \cup ToSet(t) \subseteq ToSet(u)
    BY <1>2, <2>1, <2>2
  <2> QED BY <2>3, <2>4
<1>5. ASSUME IsInjective(s), IsInjective(t), ToSet(s) \cap ToSet(t) = {}
      PROVE  IsInjective(u)
  <2>1. /\ \A i, j \in 1 .. Len(s) : s[i] = s[j] => i = j
        /\ \A i, j \in 1 .. Len(t) : t[i] = t[j] => i = j
    <3>1. DOMAIN s = 1 .. Len(s)
      BY SeqSet
    <3>2. DOMAIN t = 1 .. Len(t)
      BY SeqSet
    <3> QED BY <1>5, <3>1, <3>2 DEF IsInjective
  <2>2. \A i \in 1 .. Len(s), j \in 1 .. Len(t) : s[i] # t[j]
    BY <1>2, <1>5
  <2>3. ASSUME NEW i \in 1 .. Len(u), NEW j \in 1 .. Len(u), u[i] = u[j]
        PROVE  i = j
    <3>1. CASE i <= Len(s) /\ j <= Len(s)
      BY <1>3, <2>1, <2>3, <3>1
    <3>2. CASE ~(i <= Len(s)) /\ ~(j <= Len(s))
      <4>1. i - Len(s) = j - Len(s)
        BY <1>3, <2>1, <2>3, <3>2
      <4> QED BY <1>1, <4>1
    <3>3. CASE i <= Len(s) /\ ~(j <= Len(s))
      BY <1>3, <2>2, <2>3, <3>3
    <3>4. CASE ~(i <= Len(s)) /\ j <= Len(s)
      BY <1>3, <2>2, <2>3, <3>4
    <3> QED BY <3>1, <3>2, <3>3, <3>4
  <2> QED BY <1>1, <2>3, SeqSet DEF IsInjective
<1> QED BY <1>1, <1>4, <1>5, ConcatEmptySeq DEF u

\* A sequence of different messages is no longer than there are messages.
LEMMA RoomForAll ==
    ASSUME NEW s \in List, IsInjective(s)
    PROVE  Len(s) <= MaxMessages
<1>1. Len(s) \in Nat /\ s \in [1 .. Len(s) -> Message]
  BY LenProperties DEF List
<1>2. s \in Injection(1 .. Len(s), Message)
  BY <1>1 DEF Injection
<1>3. MaxMessages \in Nat
  OBVIOUS
<1>4. IsFiniteSet(Message) /\ Cardinality(Message) = MaxMessages
  <2>1. 0 \in Int /\ MaxMessages - 1 \in Int
    BY <1>3
  <2>2. /\ IsFiniteSet(0 .. MaxMessages - 1)
        /\ Cardinality(0 .. MaxMessages - 1)
              = IF 0 > MaxMessages - 1 THEN 0 ELSE (MaxMessages - 1) - 0 + 1
    BY <2>1, FS_Interval
  <2>3. (IF 0 > MaxMessages - 1 THEN 0 ELSE (MaxMessages - 1) - 0 + 1) = MaxMessages
    BY <1>3
  <2> QED BY <2>2, <2>3 DEF Message
<1>5. IsFiniteSet(1 .. Len(s)) /\ Cardinality(1 .. Len(s)) = Len(s)
  <2>1. 1 \in Int /\ Len(s) \in Int
    BY <1>1
  <2>2. Cardinality(1 .. Len(s)) = (IF 1 > Len(s) THEN 0 ELSE Len(s) - 1 + 1)
        /\ IsFiniteSet(1 .. Len(s))
    BY <2>1, FS_Interval
  <2>3. (IF 1 > Len(s) THEN 0 ELSE Len(s) - 1 + 1) = Len(s)
    BY <1>1
  <2> QED BY <2>2, <2>3
<1>6. Cardinality(1 .. Len(s)) <= Cardinality(Message)
  BY <1>2, <1>4, FS_Injection
<1> QED BY <1>4, <1>5, <1>6
-----------------------------------------------------------------------------
\* What is anywhere was accepted, what Redis or a load has was saved, and start()
\* loads while the queue runs.
Accepted ==
    /\ InQueue \cup delivered \cup saved \subseteq 0 .. enqueued - 1
    /\ inflight \subseteq delivered
    /\ ToSet(stored) \cup ToSet(loader.list) \subseteq saved
    /\ \A w \in Saver : ToSet(saver[w].list) \subseteq 0 .. enqueued - 1
    /\ loader # Idle => running

task == saver["task"]

\* Only the persistence task saves, and only between a load and a crash: a load
\* reads what no later save changes, and nothing of it is in the process.
Alone ==
    /\ saver["stop"] = Idle /\ saver["cancelled"] = Idle
    /\ IsInjective(queue) /\ IsInjective(stored) /\ IsInjective(task.list)
    /\ InQueue \cap inflight = {}
    /\ ~Working => task = Idle /\ Held \cap saved = {}
    /\ task.at = "push" => torn
    /\ torn => stored = <<>>
    /\ loader.at = "reply" => loader.list = stored

\* What waits for a first delivery and was saved is in Redis, unless the list is torn, and
\* in the save under way.
WaitingIsSaved ==
    LET waiting == (InQueue \cap saved) \ delivered
    IN  /\ ~torn => waiting \subseteq ToSet(stored)
        /\ task.at # "idle" => waiting \subseteq ToSet(task.list)

\* What was saved and lives is in Redis, unless the list is torn, in the save under way, and
\* in the queue once it is loaded: the queue that tore the list still works.
SavedIsSomewhere ==
    LET over == delivered \cup expired
    IN  /\ ~torn => saved \subseteq ToSet(stored) \cup over
        /\ torn => Working
        /\ task.at # "idle" => /\ saved \subseteq ToSet(task.list) \cup over
                               /\ ToSet(task.list) \subseteq InQueue \cup over
        /\ Working => saved \subseteq InQueue \cup over

\* Messages that were never delivered wait in the order of enqueue, and the only
\* load finds nothing.
InOrder ==
    /\ \A i, j \in 1 .. Len(queue) :
          i < j /\ queue[i] \notin delivered /\ queue[j] \notin delivered => queue[i] < queue[j]
    /\ ~Working => stored = <<>>

\* The inductive invariant.
QueueInv ==
    /\ Accepted
    /\ stops = 0 => Alone
    /\ stops = 0 /\ Working => WaitingIsSaved
    /\ stops = 0 /\ ~broken /\ MaxMessages <= MaxSize => SavedIsSomewhere
    /\ NothingLost
    /\ stops = 0 /\ crashes = 0 => InOrder
-----------------------------------------------------------------------------
\* What enqueue and a requeue leave of the queue.
LEMMA AddedOne ==
    ASSUME TypeOK, NEW m \in Message
    PROVE  /\ Added(m) \in List /\ Len(Added(m)) <= MaxSize
           /\ ToSet(Added(m)) \subseteq InQueue \cup {m}
           /\ Within(Added(m), Append(queue, m))
           /\ IsInjective(queue) /\ m \notin InQueue =>
                 /\ IsInjective(Added(m))
                 /\ MaxMessages <= MaxSize => ToSet(Added(m)) = InQueue \cup {m}
<1> DEFINE s == Append(queue, m)
<1>1. /\ s \in Seq(Message) /\ ToSet(s) = InQueue \cup {m}
      /\ IsInjective(queue) /\ m \notin InQueue => IsInjective(s)
  BY AppendSet DEF TypeOK, List, InQueue
<1> HIDE DEF s
<1>2. /\ Capped(s) \in Seq(Message) /\ Len(Capped(s)) <= MaxSize
      /\ ToSet(Capped(s)) \subseteq ToSet(s) /\ Within(Capped(s), s)
      /\ Len(s) <= MaxSize => Capped(s) = s
  BY <1>1, CappedIsWithin
<1>3. ASSUME IsInjective(s)
      PROVE  IsInjective(Capped(s)) /\ (MaxMessages <= MaxSize => Capped(s) = s)
  <2>1. Len(s) <= MaxMessages /\ Len(s) \in Nat
    BY <1>1, <1>3, RoomForAll, SeqSet DEF List
  <2> QED BY <1>1, <1>2, <1>3, <2>1, InjectiveWithin
<1> QED BY <1>1, <1>2, <1>3 DEF Added, List, s

\* What start() leaves of the queue and of the list it has read.
LEMMA LoadedAll ==
    ASSUME TypeOK, NEW l \in List
    PROVE  /\ Loaded(l) \in List /\ Len(Loaded(l)) <= MaxSize
           /\ ToSet(Loaded(l)) \subseteq InQueue \cup (ToSet(l) \ expired)
           /\ IsInjective(queue) /\ IsInjective(l) /\ InQueue \cap ToSet(l) = {} =>
                 /\ IsInjective(Loaded(l))
                 /\ MaxMessages <= MaxSize => ToSet(Loaded(l)) = InQueue \cup (ToSet(l) \ expired)
           /\ l = <<>> => Loaded(l) = queue
<1> DEFINE t == Live(l)
           s == queue \o t
<1>1. /\ t \in Seq(Message) /\ ToSet(t) = ToSet(l) \ expired /\ Within(t, l)
      /\ Len(t) \in Nat /\ Len(t) <= Len(l)
  BY LiveIsWithin, SeqSet DEF List
<1>2. queue \in Seq(Message) /\ l \in Seq(Message) /\ Len(queue) <= MaxSize
  BY DEF TypeOK, List
<1> HIDE DEF t
<1>3. /\ s \in Seq(Message) /\ ToSet(s) = InQueue \cup ToSet(t)
      /\ IsInjective(queue) /\ IsInjective(t) /\ InQueue \cap ToSet(t) = {} => IsInjective(s)
      /\ t = <<>> => s = queue
  BY <1>1, <1>2, ConcatSet DEF InQueue
<1> HIDE DEF s
<1>4. /\ Capped(s) \in Seq(Message) /\ Len(Capped(s)) <= MaxSize
      /\ ToSet(Capped(s)) \subseteq ToSet(s) /\ Within(Capped(s), s)
      /\ Len(s) <= MaxSize => Capped(s) = s
  BY <1>3, CappedIsWithin
<1>5. ASSUME IsInjective(queue), IsInjective(l), InQueue \cap ToSet(l) = {}
      PROVE  IsInjective(Capped(s)) /\ (MaxMessages <= MaxSize => Capped(s) = s)
  <2>1. IsInjective(t)
    BY <1>1, <1>2, <1>5, InjectiveWithin
  <2>2. IsInjective(s)
    BY <1>1, <1>3, <1>5, <2>1
  <2>3. Len(s) <= MaxMessages /\ Len(s) \in Nat
    BY <1>3, <2>2, RoomForAll, SeqSet DEF List
  <2> QED BY <1>3, <1>4, <2>2, <2>3, InjectiveWithin
<1>6. ASSUME l = <<>>
      PROVE  Capped(s) = queue
  <2>1. Len(t) = 0
    BY <1>1, <1>6, EmptyIsBare
  <2>2. t = <<>>
    BY <1>1, <2>1, EmptySeq
  <2> QED BY <1>2, <1>3, <1>4, <2>2
<1>7. Loaded(l) = Capped(s)
  BY DEF Loaded, s, t
<1> QED BY <1>1, <1>3, <1>4, <1>5, <1>6, <1>7 DEF List

\* What dequeue leaves of the queue.
LEMMA DequeuedTo ==
    ASSUME TypeOK, NEW i \in 1 .. Len(queue), Dequeue(i)
    PROVE  /\ queue' \in List /\ Len(queue') <= MaxSize
           /\ queue[i] \in InQueue /\ queue[i] \in Message
           /\ ToSet(queue') = {queue[j] : j \in i + 1 .. Len(queue)}
           /\ ToSet(queue') \subseteq InQueue
           /\ InQueue \subseteq ToSet(queue') \cup {queue[i]} \cup expired
           /\ Within(queue', queue)
           /\ IsInjective(queue) => queue[i] \notin ToSet(queue') /\ IsInjective(queue')
<1>1. /\ queue \in Seq(Message) /\ Len(queue) <= MaxSize /\ Len(queue) \in Nat
      /\ InQueue = {queue[j] : j \in 1 .. Len(queue)}
      /\ \A j \in 1 .. Len(queue) : queue[j] \in Message
  BY SeqSet DEF TypeOK, List, InQueue
<1>2. queue' = SubSeq(queue, i + 1, Len(queue)) /\ i \in 0 .. Len(queue)
  BY DEF Dequeue
<1>3. /\ queue' \in Seq(Message) /\ Len(queue') = Len(queue) - i
      /\ ToSet(queue') = {queue[j] : j \in i + 1 .. Len(queue)}
      /\ Within(queue', queue)
  <2>1. queue \in Seq(Message) /\ i \in 0 .. Len(queue)
    BY <1>1, <1>2
  <2>2. /\ After(queue, i) \in Seq(Message) /\ Len(After(queue, i)) = Len(queue) - i
        /\ Within(After(queue, i), queue)
        /\ ToSet(After(queue, i)) = {queue[j] : j \in i + 1 .. Len(queue)}
    BY <2>1, TailIsWithin
  <2>3. queue' = After(queue, i)
    BY <1>2 DEF After
  <2> QED BY <2>2, <2>3
<1>4. \A j \in 1 .. Len(queue) : j \in 1 .. i - 1 \/ j = i \/ j \in i + 1 .. Len(queue)
  BY <1>1
<1>5. \A j \in 1 .. i - 1 : queue[j] \in expired
  BY DEF Dequeue
<1>6. InQueue \subseteq ToSet(queue') \cup {queue[i]} \cup expired
  BY <1>1, <1>3, <1>4, <1>5
<1>7. i + 1 .. Len(queue) \subseteq 1 .. Len(queue) /\ \A j \in i + 1 .. Len(queue) : i # j
  OBVIOUS
<1>8. IsInjective(queue) => queue[i] \notin ToSet(queue')
  <2>1. IsInjective(queue) => \A j \in 1 .. Len(queue) : queue[i] = queue[j] => i = j
    BY <1>1, SeqSet DEF IsInjective
  <2> QED BY <1>3, <1>7, <2>1
<1>9. IsInjective(queue) => IsInjective(queue')
  BY <1>1, <1>3, InjectiveWithin
<1>10. Len(queue') <= MaxSize
  BY <1>1, <1>3
<1> QED BY <1>1, <1>3, <1>6, <1>7, <1>8, <1>9, <1>10 DEF List

\* What a pass of the cleanup task leaves of the queue.
LEMMA CleanedTo ==
    ASSUME TypeOK, Cleanup
    PROVE  /\ queue' \in List /\ Len(queue') <= MaxSize
           /\ ToSet(queue') = InQueue \ expired
           /\ Within(queue', queue)
           /\ IsInjective(queue) => IsInjective(queue')
<1>1. queue \in Seq(Message) /\ Len(queue) <= MaxSize /\ Len(queue) \in Nat
  BY SeqSet DEF TypeOK, List
<1>2. queue' = Live(queue)
  BY DEF Cleanup
<1>3. /\ queue' \in Seq(Message) /\ Len(queue') <= Len(queue)
      /\ ToSet(queue') = ToSet(queue) \ expired /\ Within(queue', queue)
  BY <1>1, <1>2, LiveIsWithin
<1>4. Len(queue') \in Nat
  BY <1>3, SeqSet
<1> QED BY <1>1, <1>3, <1>4, InjectiveWithin DEF InQueue, List
-----------------------------------------------------------------------------
Save == [at : {"idle", "delete", "push"}, list : List]
Load == [at : {"idle", "range", "reply"}, list : List]

LEMMA Commands ==
    /\ Idle \in Save /\ Idle \in Load /\ Idle.at = "idle" /\ Idle.list = <<>>
    /\ \A l \in List : /\ Sent("delete", l) \in Save /\ Sent("push", l) \in Save
                       /\ Sent("range", l) \in Load /\ Sent("reply", l) \in Load
    /\ \A c, l : Sent(c, l).at = c /\ Sent(c, l).list = l
    /\ <<>> \in List
BY EmptyIsBare DEF Save, Load, Idle, Sent, List

\* A step of one saver, seen by all of them.
LEMMA SaverType ==
    ASSUME TypeOK
    PROVE  /\ saver \in [Saver -> Save] /\ loader \in Load
           /\ \A w \in Saver : saver[w] \in Save /\ saver[w].list \in List
           /\ loader.list \in List
           /\ queue \in List /\ Snapshot \in Save
<1>1. saver \in [Saver -> Save] /\ loader \in Load /\ queue \in List
  BY DEF TypeOK, Save, Load
<1>2. Snapshot \in Save
  BY <1>1, Commands DEF Snapshot
<1> QED BY <1>1, <1>2 DEF Save, Load

LEMMA InitTypeOK == Init => TypeOK
<1> SUFFICES ASSUME Init
             PROVE  TypeOK
  OBVIOUS
<1>1. queue \in List /\ Len(queue) <= MaxSize /\ stored \in List
  BY EmptyIsBare DEF Init, List
<1>2. saver \in [Saver -> Save] /\ loader \in Load
  BY Commands DEF Init
<1>3. MaxMessages \in Nat /\ 0 \in 0 .. MaxMessages
  OBVIOUS
<1>4. /\ inflight \subseteq Message /\ running \in BOOLEAN /\ saved \subseteq Message
      /\ torn \in BOOLEAN /\ broken \in BOOLEAN /\ expired \subseteq Message /\ delivered \subseteq Message
      /\ settled \subseteq Message /\ stops \in Nat /\ crashes \in Nat /\ faults \in Nat
  BY DEF Init
<1>5. enqueued \in 0 .. MaxMessages
  BY <1>3 DEF Init
<1> QED BY <1>1, <1>2, <1>4, <1>5 DEF TypeOK, Save, Load

\* Every step keeps the type of every variable.
LEMMA StepTypeOK == TypeOK /\ [Next]_vars => TypeOK'
<1> SUFFICES ASSUME TypeOK, [Next]_vars
             PROVE  TypeOK'
  OBVIOUS
<1> USE DEF memory, redis, history, bounds
<1>0. /\ saver \in [Saver -> Save] /\ loader \in Load /\ queue \in List /\ Snapshot \in Save
      /\ \A w \in Saver : saver[w] \in Save /\ saver[w].list \in List
      /\ loader.list \in List
  BY SaverType
<1> DEFINE Rest == /\ running \in BOOLEAN /\ saved \subseteq Message
                   /\ torn \in BOOLEAN /\ broken \in BOOLEAN
                   /\ stored \in List /\ saver \in [Saver -> Save] /\ loader \in Load
           Counts == stops \in Nat /\ crashes \in Nat /\ faults \in Nat
           Memory == queue \in List /\ Len(queue) <= MaxSize /\ inflight \subseteq Message
           History == /\ expired \subseteq Message /\ enqueued \in 0 .. MaxMessages
                      /\ delivered \subseteq Message /\ settled \subseteq Message
<1>1. Rest /\ Counts /\ Memory /\ History
  BY <1>0 DEF TypeOK
<1>2. Rest' /\ Counts' /\ Memory' /\ History' => TypeOK'
  BY DEF TypeOK, Save, Load
<1>3. CASE Enqueue
  <2>1. enqueued \in Message /\ enqueued + 1 \in 0 .. MaxMessages
    BY <1>1, <1>3 DEF Enqueue, Message
  <2>2. Memory'
    BY <1>1, <1>3, <2>1, AddedOne DEF Enqueue
  <2> QED BY <1>1, <1>2, <1>3, <2>1, <2>2 DEF Enqueue
<1>4. ASSUME NEW i \in 1 .. Len(queue), Dequeue(i)
      PROVE  TypeOK'
  <2>1. queue' \in List /\ Len(queue') <= MaxSize /\ queue[i] \in Message
    BY <1>4, DequeuedTo
  <2> QED BY <1>1, <1>2, <1>4, <2>1 DEF Dequeue, Tracked
<1>5. CASE DequeueNothing
  BY <1>1, <1>2, <1>5, EmptyIsBare, Commands DEF DequeueNothing
<1>6. ASSUME NEW m \in inflight, Ack(m)
      PROVE  TypeOK'
  BY <1>1, <1>2, <1>6 DEF Ack
<1>7. ASSUME NEW m \in inflight, NEW requeue \in BOOLEAN, Nack(m, requeue)
      PROVE  TypeOK'
  <2>1. Memory'
    BY <1>1, <1>7, AddedOne DEF Nack
  <2> QED BY <1>1, <1>2, <1>7, <2>1 DEF Nack
<1>8. ASSUME NEW m \in Message, Expire(m)
      PROVE  TypeOK'
  BY <1>1, <1>2, <1>8 DEF Expire
<1>9. CASE Cleanup
  <2>1. Memory'
    BY <1>1, <1>9, CleanedTo DEF Cleanup, InFlightKept
  <2> QED BY <1>1, <1>2, <1>9, <2>1 DEF Cleanup
<1>10. CASE SaveBegin
  BY <1>0, <1>1, <1>2, <1>10 DEF SaveBegin, Saver
<1>11. ASSUME NEW w \in Saver, SaveDelete(w)
       PROVE  TypeOK'
  <2>1. stored' \in List
    BY <1>11, Commands DEF SaveDelete, Deleted
  <2>2. saver' \in [Saver -> Save]
    BY <1>0, <1>11, Commands DEF SaveDelete
  <2> QED BY <1>1, <1>2, <1>11, <2>1, <2>2 DEF SaveDelete
<1>12. ASSUME NEW w \in Saver, SavePush(w)
       PROVE  TypeOK'
  <2>1. stored' \in List
    BY <1>0, <1>1, <1>12, ConcatSet DEF SavePush, Pushed, List
  <2>2. ToSet(stored') \subseteq Message
    BY <2>1, SeqSet DEF List
  <2>3. saver' \in [Saver -> Save]
    BY <1>0, <1>12, Commands DEF SavePush
  <2> QED BY <1>1, <1>2, <1>12, <2>1, <2>2, <2>3 DEF SavePush
<1>13. ASSUME NEW w \in Saver, SaveFails(w)
       PROVE  TypeOK'
  <2>1. saver' \in [Saver -> Save]
    BY <1>0, <1>13, Commands DEF SaveFails
  <2> QED BY <1>1, <1>2, <1>13, <2>1 DEF SaveFails
<1>14. CASE Start
  BY <1>1, <1>2, <1>14, Commands DEF Start
<1>15. CASE LoadRead
  BY <1>1, <1>2, <1>15, Commands DEF LoadRead
<1>16. CASE LoadReply
  <2>1. Memory'
    BY <1>0, <1>1, <1>16, LoadedAll DEF LoadReply
  <2> QED BY <1>1, <1>2, <1>16, <2>1, Commands DEF LoadReply
<1>17. CASE LoadFails
  BY <1>1, <1>2, <1>17, Commands DEF LoadFails
<1>18. CASE Stop
  <2>1. saver' \in [Saver -> Save]
    <3>1. PICK late \in {Idle, saver["task"]} :
             saver' = [w \in Saver |-> CASE w = "task" -> Idle
                                         [] w = "stop" -> Snapshot
                                         [] w = "cancelled" -> late]
      BY <1>18 DEF Stop
    <3>2. late \in Save
      BY <1>0, Commands DEF Saver
    <3>3. \A w \in Saver : (CASE w = "task" -> Idle
                              [] w = "stop" -> Snapshot
                              [] w = "cancelled" -> late) \in Save
      BY <1>0, <3>2, Commands DEF Saver
    <3> QED BY <3>1, <3>3
  <2>2. Rest'
    BY <1>1, <1>18, <2>1, Zenon DEF Stop
  <2>3. Counts'
    BY <1>1, <1>18 DEF Stop
  <2>4. Memory' /\ History'
    BY <1>1, <1>18 DEF Stop
  <2> QED BY <1>2, <2>2, <2>3, <2>4
<1>19. CASE Crash
  <2>1. Memory'
    BY <1>1, <1>19, Commands, EmptyIsBare DEF Crash
  <2>2. saver' \in [Saver -> Save] /\ loader' \in Load
    BY <1>19, Commands DEF Crash
  <2>3. broken' \in BOOLEAN /\ running' \in BOOLEAN
    BY <1>19, Zenon DEF Crash
  <2>4. Rest'
    BY <1>1, <1>19, <2>2, <2>3 DEF Crash
  <2>5. Counts'
    BY <1>1, <1>19 DEF Crash
  <2>6. History'
    BY <1>1, <1>19 DEF Crash
  <2> QED BY <1>2, <2>1, <2>4, <2>5, <2>6
<1>20. CASE UNCHANGED vars
  BY <1>1, <1>2, <1>20 DEF vars
<1> QED
  BY <1>3, <1>4, <1>5, <1>6, <1>7, <1>8, <1>9, <1>10, <1>11, <1>12, <1>13, <1>14, <1>15,
     <1>16, <1>17, <1>18, <1>19, <1>20 DEF Next
-----------------------------------------------------------------------------
\* The bounds count and broken stays.
LEMMA Histories ==
    ASSUME TypeOK, [Next]_vars
    PROVE  /\ stops' = 0 => stops = 0 /\ ~Stop
           /\ crashes' = 0 => crashes = 0 /\ ~Crash
           /\ ~broken' => ~broken
<1> USE DEF memory, redis, history, bounds
<1>1. /\ stops \in Nat /\ crashes \in Nat
      /\ \A k \in Nat : k + 1 # 0
  BY DEF TypeOK
<1>2. CASE Stop
  <2>1. stops' # 0 /\ crashes' = crashes /\ broken' = broken
    BY <1>1, <1>2 DEF Stop
  <2>2. ~Crash
    BY <1>1, <2>1 DEF Crash
  <2> QED BY <2>1, <2>2
<1>3. CASE Crash
  <2>1. crashes' # 0 /\ stops' = stops /\ (broken => broken')
    BY <1>1, <1>3 DEF Crash
  <2>2. ~Stop
    BY <1>1, <2>1 DEF Stop
  <2> QED BY <2>1, <2>2
<1>4. CASE ~Stop /\ ~Crash
  <2>1. stops' = stops /\ crashes' = crashes
    BY <1>4 DEF Next, Enqueue, Dequeue, DequeueNothing, Ack, Nack, Expire, Cleanup, SaveBegin,
       SaveDelete, SavePush, SaveFails, Start, LoadRead, LoadReply, LoadFails, vars
  <2>2. broken' = broken \/ LoadFails
    BY <1>4 DEF Next, Enqueue, Dequeue, DequeueNothing, Ack, Nack, Expire, Cleanup, SaveBegin,
       SaveDelete, SavePush, SaveFails, Start, LoadRead, LoadReply, vars
  <2>3. broken => broken'
    BY <2>2 DEF LoadFails
  <2> QED BY <1>4, <2>1, <2>3
<1> QED BY <1>2, <1>3, <1>4

LEMMA StepAccepted == TypeOK /\ Accepted /\ [Next]_vars => Accepted'
<1> SUFFICES ASSUME TypeOK, Accepted, [Next]_vars
             PROVE  Accepted'
  OBVIOUS
<1> USE DEF memory, redis, history, bounds
<1> DEFINE E == 0 .. enqueued - 1
           Process == /\ InQueue \subseteq E /\ delivered \subseteq E /\ inflight \subseteq delivered
           Lists == /\ saved \subseteq E
                    /\ ToSet(stored) \subseteq saved /\ ToSet(loader.list) \subseteq saved
                    /\ \A w \in Saver : ToSet(saver[w].list) \subseteq E
                    /\ loader # Idle => running
<1>1. Process /\ Lists /\ enqueued \in Nat
  BY DEF Accepted, TypeOK
<1>2. Process' /\ Lists' => Accepted'
  BY DEF Accepted
<1>3. /\ saver \in [Saver -> Save] /\ queue \in List /\ stored \in List
      /\ \A w \in Saver : saver[w].list \in List
      /\ loader.list \in List /\ ToSet(queue) = InQueue
  BY SaverType DEF InQueue, TypeOK
<1>4. CASE Enqueue
  <2>1. enqueued \in Message /\ enqueued \in E' /\ E \subseteq E'
    BY <1>1, <1>4 DEF Enqueue, Message
  <2>2. ToSet(queue') \subseteq InQueue \cup {enqueued}
    BY <1>4, <2>1, AddedOne DEF Enqueue
  <2>3. Process'
    BY <1>1, <1>4, <2>1, <2>2 DEF Enqueue, InQueue
  <2>4. Lists'
    BY <1>1, <1>4, <2>1 DEF Enqueue
  <2> QED BY <1>2, <2>3, <2>4
<1>5. ASSUME NEW i \in 1 .. Len(queue), Dequeue(i)
      PROVE  Accepted'
  <2>1. ToSet(queue') \subseteq InQueue /\ queue[i] \in InQueue
    BY <1>5, DequeuedTo
  <2> QED BY <1>1, <1>2, <1>5, <2>1 DEF Dequeue, Tracked, InQueue
<1>6. CASE DequeueNothing
  BY <1>1, <1>2, <1>6, EmptyIsBare DEF DequeueNothing, InQueue
<1>7. ASSUME NEW m \in inflight, Ack(m)
      PROVE  Accepted'
  BY <1>1, <1>2, <1>7 DEF Ack, InQueue
<1>8. ASSUME NEW m \in inflight, NEW requeue \in BOOLEAN, Nack(m, requeue)
      PROVE  Accepted'
  <2>1. m \in Message
    BY <1>8 DEF TypeOK
  <2>2. ToSet(queue') \subseteq InQueue \cup {m}
    BY <1>3, <1>8, <2>1, AddedOne DEF Nack
  <2> QED BY <1>1, <1>2, <1>8, <2>2 DEF Nack, InQueue
<1>9. ASSUME NEW m \in Message, Expire(m)
      PROVE  Accepted'
  BY <1>1, <1>2, <1>9 DEF Expire, InQueue
<1>10. CASE Cleanup
  BY <1>1, <1>2, <1>10, CleanedTo DEF Cleanup, InFlightKept, InQueue
<1>11. CASE SaveBegin
  <2>1. \A w \in Saver : saver'[w] = saver[w] \/ saver'[w] = Snapshot
    BY <1>3, <1>11 DEF SaveBegin
  <2>2. ToSet(Snapshot.list) \subseteq E
    BY <1>1, <1>3, Commands, EmptyIsBare DEF Snapshot
  <2>3. Lists'
    BY <1>1, <1>11, <2>1, <2>2 DEF SaveBegin
  <2> QED BY <1>1, <1>2, <1>11, <2>3 DEF SaveBegin, InQueue
<1>12. ASSUME NEW w \in Saver, SaveDelete(w)
       PROVE  Accepted'
  <2>1. \A v \in Saver : saver'[v] = saver[v] \/ saver'[v] = Idle
                         \/ (v = w /\ saver'[v] = Sent("push", saver[v].list))
    BY <1>3, <1>12 DEF SaveDelete
  <2>2. \A v \in Saver : ToSet(saver'[v].list) \subseteq E
    BY <1>1, <2>1, Commands, EmptyIsBare
  <2>3. ToSet(stored') = {}
    BY <1>12, EmptyIsBare DEF SaveDelete, Deleted
  <2> QED BY <1>1, <1>2, <1>12, <2>2, <2>3 DEF SaveDelete, InQueue
<1>13. ASSUME NEW w \in Saver, SavePush(w)
       PROVE  Accepted'
  <2>1. \A v \in Saver : saver'[v] = saver[v] \/ saver'[v] = Idle
    BY <1>3, <1>13 DEF SavePush
  <2>2. \A v \in Saver : ToSet(saver'[v].list) \subseteq E
    BY <1>1, <2>1, Commands, EmptyIsBare
  <2>3. ToSet(stored') = ToSet(stored) \cup ToSet(saver[w].list)
    BY <1>3, <1>13, ConcatSet DEF SavePush, Pushed, List
  <2> QED BY <1>1, <1>2, <1>13, <2>2, <2>3 DEF SavePush, InQueue
<1>14. ASSUME NEW w \in Saver, SaveFails(w)
       PROVE  Accepted'
  <2>1. \A v \in Saver : saver'[v] = saver[v] \/ saver'[v] = Idle
    BY <1>3, <1>14 DEF SaveFails
  <2>2. \A v \in Saver : ToSet(saver'[v].list) \subseteq E
    BY <1>1, <2>1, Commands, EmptyIsBare
  <2> QED BY <1>1, <1>2, <1>14, <2>2 DEF SaveFails, InQueue
<1>15. CASE Start
  <2>1. ToSet(loader'.list) = {} /\ running'
    BY <1>15, Commands, EmptyIsBare DEF Start
  <2> QED BY <1>1, <1>2, <1>15, <2>1 DEF Start, InQueue
<1>16. CASE LoadRead
  <2>1. loader'.list = stored /\ running
    BY <1>1, <1>16, Commands DEF LoadRead
  <2> QED BY <1>1, <1>2, <1>16, <2>1 DEF LoadRead, InQueue
<1>17. CASE LoadReply
  <2>1. ToSet(queue') \subseteq InQueue \cup ToSet(loader.list)
    BY <1>3, <1>17, LoadedAll DEF LoadReply
  <2>2. ToSet(loader'.list) = {} /\ loader' = Idle
    BY <1>17, Commands, EmptyIsBare DEF LoadReply
  <2> QED BY <1>1, <1>2, <1>17, <2>1, <2>2 DEF LoadReply, InQueue
<1>18. CASE LoadFails
  <2>1. ToSet(loader'.list) = {} /\ loader' = Idle
    BY <1>18, Commands, EmptyIsBare DEF LoadFails
  <2> QED BY <1>1, <1>2, <1>18, <2>1 DEF LoadFails, InQueue
<1>19. CASE Stop
  <2>1. ToSet(Snapshot.list) \subseteq E /\ ToSet(Idle.list) = {}
    BY <1>1, <1>3, Commands, EmptyIsBare DEF Snapshot
  <2>2. \A w \in Saver : saver'[w] = Idle \/ saver'[w] = Snapshot \/ saver'[w] = saver["task"]
    BY <1>19 DEF Stop, Saver
  <2>3. \A w \in Saver : ToSet(saver'[w].list) \subseteq E
    BY <1>1, <2>1, <2>2 DEF Saver
  <2> QED BY <1>1, <1>2, <1>19, <2>3 DEF Stop, InQueue
<1>20. CASE Crash
  <2>1. ToSet(loader'.list) = {} /\ loader' = Idle /\ ToSet(queue') = {} /\ inflight' = {}
    BY <1>20, Commands, EmptyIsBare DEF Crash
  <2>2. \A w \in Saver : ToSet(saver'[w].list) = {}
    BY <1>20, Commands, EmptyIsBare DEF Crash
  <2> QED BY <1>1, <1>2, <1>20, <2>1, <2>2 DEF Crash, InQueue
<1>21. CASE UNCHANGED vars
  BY <1>1, <1>2, <1>21 DEF vars, InQueue
<1> QED
  BY <1>4, <1>5, <1>6, <1>7, <1>8, <1>9, <1>10, <1>11, <1>12, <1>13, <1>14, <1>15,
     <1>16, <1>17, <1>18, <1>19, <1>20, <1>21 DEF Next

\* Until stop(), only the persistence task saves, while the queue works.
LEMMA OnlyTheTask ==
    ASSUME TypeOK, Alone
    PROVE  /\ \A w \in Saver : saver[w] # Idle => w = "task"
           /\ \A w \in Saver : saver[w].at # "idle" => w = "task" /\ Working
           /\ task.at # "idle" => Working
           /\ Working => loader.at # "reply"
BY Commands DEF Alone, Saver, Working, task

\* A step of the process alone leaves the saves as they are.
LEMMA ProcessKeepsAlone ==
    ASSUME Alone, UNCHANGED <<running, stored, saver, loader, saved, torn>>,
           IsInjective(queue'), InQueue' \cap inflight' = {}, Held' \cap saved \subseteq Held
    PROVE  Alone'
BY DEF Alone, Working, task

LEMMA StepAlone ==
    ASSUME TypeOK, Accepted, Alone, [Next]_vars, ~Stop
    PROVE  Alone'
<1> USE DEF memory, redis, history, bounds
<1>1. /\ saver \in [Saver -> Save] /\ queue \in List /\ stored \in List
      /\ \A w \in Saver : saver[w].list \in List
      /\ loader.list \in List /\ ToSet(queue) = InQueue /\ "task" \in Saver
  BY SaverType DEF InQueue, TypeOK, Saver
<1>2. /\ IsInjective(queue) /\ InQueue \cap inflight = {}
      /\ inflight \subseteq 0 .. enqueued - 1 /\ InQueue \subseteq 0 .. enqueued - 1
      /\ saved \subseteq 0 .. enqueued - 1 /\ enqueued \in Nat
  BY DEF Alone, Accepted, TypeOK
<1>3. CASE Enqueue
  <2>1. enqueued \in Message /\ enqueued \notin 0 .. enqueued - 1
    BY <1>2, <1>3 DEF Enqueue, Message
  <2>2. IsInjective(queue') /\ ToSet(queue') \subseteq InQueue \cup {enqueued}
    BY <1>2, <1>3, <2>1, AddedOne DEF Enqueue
  <2>3. InQueue' \cap inflight' = {} /\ Held' \cap saved \subseteq Held
    BY <1>2, <1>3, <2>1, <2>2 DEF Enqueue, InQueue, Held
  <2> QED BY <1>3, <2>2, <2>3, ProcessKeepsAlone DEF Enqueue
<1>4. ASSUME NEW i \in 1 .. Len(queue), Dequeue(i)
      PROVE  Alone'
  <2>1. /\ queue[i] \in InQueue /\ ToSet(queue') \subseteq InQueue
        /\ queue[i] \notin ToSet(queue') /\ IsInjective(queue')
    BY <1>2, <1>4, DequeuedTo
  <2>2. InQueue' \cap inflight' = {} /\ Held' \cap saved \subseteq Held
    BY <1>2, <1>4, <2>1 DEF Dequeue, Tracked, InQueue, Held
  <2> QED BY <1>4, <2>1, <2>2, ProcessKeepsAlone DEF Dequeue
<1>5. CASE DequeueNothing
  <2>1. IsInjective(queue') /\ InQueue' = {} /\ inflight' = inflight
    BY <1>5, EmptyIsBare DEF DequeueNothing, InQueue
  <2> QED BY <1>5, <2>1, ProcessKeepsAlone DEF DequeueNothing, Held
<1>6. ASSUME NEW m \in inflight, Ack(m)
      PROVE  Alone'
  <2>1. IsInjective(queue') /\ InQueue' = InQueue /\ inflight' \subseteq inflight
    BY <1>2, <1>6 DEF Ack, InQueue
  <2>2. InQueue' \cap inflight' = {} /\ Held' \cap saved \subseteq Held
    BY <1>2, <2>1 DEF Held
  <2> QED BY <1>6, <2>1, <2>2, ProcessKeepsAlone DEF Ack
<1>7. ASSUME NEW m \in inflight, NEW requeue \in BOOLEAN, Nack(m, requeue)
      PROVE  Alone'
  <2>1. m \in Message /\ m \notin InQueue /\ inflight' = inflight \ {m}
    BY <1>2, <1>7 DEF TypeOK, Nack
  <2>2. IsInjective(queue') /\ ToSet(queue') \subseteq InQueue \cup {m}
    BY <1>1, <1>2, <1>7, <2>1, AddedOne DEF Nack
  <2>3. InQueue' \cap inflight' = {} /\ Held' \cap saved \subseteq Held
    BY <1>2, <2>1, <2>2 DEF InQueue, Held
  <2> QED BY <1>7, <2>2, <2>3, ProcessKeepsAlone DEF Nack
<1>8. ASSUME NEW m \in Message, Expire(m)
      PROVE  Alone'
  BY <1>2, <1>8, ProcessKeepsAlone DEF Expire, InQueue, Held
<1>9. CASE Cleanup
  <2>1. IsInjective(queue') /\ ToSet(queue') \subseteq InQueue /\ inflight' \subseteq inflight
    BY <1>2, <1>9, CleanedTo DEF Cleanup, InFlightKept
  <2>2. InQueue' \cap inflight' = {} /\ Held' \cap saved \subseteq Held
    BY <1>2, <2>1 DEF InQueue, Held
  <2> QED BY <1>9, <2>1, <2>2, ProcessKeepsAlone DEF Cleanup
<1>10. CASE SaveBegin
  <2>1. /\ saver'["task"] = Sent("delete", queue)
        /\ saver'["stop"] = saver["stop"] /\ saver'["cancelled"] = saver["cancelled"]
    BY <1>1, <1>10 DEF SaveBegin, Snapshot, Saver
  <2>2. task'.at = "delete" /\ IsInjective(task'.list)
    BY <1>2, <2>1, Commands DEF task
  <2> QED BY <1>10, <2>1, <2>2 DEF SaveBegin, Alone, Working, InQueue, Held, task
<1>11. ASSUME NEW w \in Saver, SaveDelete(w)
       PROVE  Alone'
  <2>1. w = "task" /\ Working
    BY <1>11, OnlyTheTask DEF SaveDelete
  <2>2. /\ saver'["task"] = Sent("push", task.list)
        /\ saver'["stop"] = saver["stop"] /\ saver'["cancelled"] = saver["cancelled"]
    BY <1>1, <1>11, <2>1 DEF SaveDelete, Saver, task
  <2>3. task'.at = "push" /\ IsInjective(task'.list)
    BY <2>2, Commands DEF task, Alone
  <2>4. stored' = <<>> /\ IsInjective(stored') /\ Working' /\ loader.at # "reply"
    BY <1>11, <2>1, EmptyIsBare, OnlyTheTask DEF SaveDelete, Deleted, Working
  <2> QED BY <1>11, <2>2, <2>3, <2>4 DEF SaveDelete, Alone, InQueue, task
<1>12. ASSUME NEW w \in Saver, SavePush(w)
       PROVE  Alone'
  <2>1. w = "task" /\ Working /\ task.at = "push"
    BY <1>12, OnlyTheTask DEF SavePush, task
  <2>2. /\ saver'["task"] = Idle
        /\ saver'["stop"] = saver["stop"] /\ saver'["cancelled"] = saver["cancelled"]
    BY <1>1, <1>12, <2>1 DEF SavePush, Saver
  <2>3. stored' = task.list
    BY <1>1, <1>12, <2>1, ConcatSet DEF SavePush, Pushed, Alone, List, task
  <2>4. Working' /\ loader.at # "reply" /\ task'.at = "idle" /\ IsInjective(task'.list)
    BY <1>12, <2>1, <2>2, Commands, EmptyIsBare, OnlyTheTask DEF SavePush, Working, task
  <2> QED BY <1>12, <2>2, <2>3, <2>4 DEF SavePush, Alone, InQueue, task
<1>13. ASSUME NEW w \in Saver, SaveFails(w)
       PROVE  Alone'
  <2>1. w = "task"
    BY <1>13, OnlyTheTask DEF SaveFails
  <2>2. /\ saver'["task"] = Idle
        /\ saver'["stop"] = saver["stop"] /\ saver'["cancelled"] = saver["cancelled"]
    BY <1>1, <1>13, <2>1 DEF SaveFails, Saver
  <2>3. task' = Idle /\ task'.at = "idle" /\ IsInjective(task'.list)
    BY <2>2, Commands, EmptyIsBare DEF task
  <2> QED BY <1>13, <2>2, <2>3 DEF SaveFails, Alone, Working, InQueue, Held, task
<1>14. CASE Start
  <2>1. ~Working /\ loader'.at = "range"
    BY <1>14, Commands DEF Start, Working
  <2> QED BY <1>14, <2>1 DEF Start, Alone, InQueue, Held, task
<1>15. CASE LoadRead
  <2>1. ~Working /\ loader'.list = stored
    BY <1>15, Commands DEF LoadRead, Working
  <2> QED BY <1>15, <2>1 DEF LoadRead, Alone, InQueue, Held, task
<1>16. CASE LoadReply
  <2>1. ~Working /\ loader # Idle /\ loader.list = stored
    BY <1>16, Commands DEF LoadReply, Working, Alone
  <2>2. Working' /\ loader'.at = "idle"
    BY <1>16, <2>1, Commands DEF LoadReply, Working, Accepted
  <2>3. IsInjective(stored) /\ ToSet(stored) \subseteq saved /\ Held \cap saved = {}
    BY <2>1 DEF Alone, Accepted
  <2>4. IsInjective(queue') /\ ToSet(queue') \subseteq InQueue \cup ToSet(stored)
    <3>1. InQueue \cap ToSet(stored) = {}
      BY <2>3 DEF Held
    <3>2. queue' = Loaded(stored)
      BY <1>16, <2>1 DEF LoadReply
    <3> QED BY <1>1, <1>2, <2>3, <3>1, <3>2, LoadedAll
  <2>5. InQueue' \cap inflight' = {}
    BY <1>2, <1>16, <2>3, <2>4 DEF LoadReply, InQueue, Held
  <2> QED BY <1>16, <2>2, <2>4, <2>5 DEF LoadReply, Alone, task
<1>17. CASE LoadFails
  <2>1. Working' /\ loader'.at = "idle"
    BY <1>17, Commands DEF LoadFails, Working, Accepted
  <2> QED BY <1>17, <2>1 DEF LoadFails, Alone, InQueue, task
<1>18. CASE Crash
  <2>1. /\ \A w \in Saver : saver'[w] = Idle
        /\ queue' = <<>> /\ InQueue' = {} /\ inflight' = {} /\ stored' = stored /\ saved' = saved
        /\ torn' = torn /\ IsInjective(queue') /\ IsInjective(Idle.list) /\ Idle.at = "idle" /\ loader' = Idle
    BY <1>18, Commands, EmptyIsBare DEF Crash, InQueue
  <2> QED BY <2>1 DEF Alone, Held, Saver, task
<1>19. CASE UNCHANGED vars
  BY <1>19 DEF vars, Alone, Working, InQueue, Held, task
<1> QED
  BY <1>3, <1>4, <1>5, <1>6, <1>7, <1>8, <1>9, <1>10, <1>11, <1>12, <1>13, <1>14, <1>15,
     <1>16, <1>17, <1>18, <1>19 DEF Next
-----------------------------------------------------------------------------
\* A step of the process alone that adds nothing to what waits.
LEMMA ProcessKeepsWaiting ==
    ASSUME Working => WaitingIsSaved, Working', UNCHANGED <<running, stored, saver, loader, saved, torn>>,
           (InQueue' \cap saved) \ delivered' \subseteq (InQueue \cap saved) \ delivered
    PROVE  WaitingIsSaved'
BY DEF WaitingIsSaved, Working, task

LEMMA StepWaiting ==
    ASSUME TypeOK, Accepted, Alone, Working => WaitingIsSaved, [Next]_vars, ~Stop,
           Working'
    PROVE  WaitingIsSaved'
<1> USE DEF memory, redis, history, bounds
<1>1. /\ saver \in [Saver -> Save] /\ queue \in List /\ ToSet(queue) = InQueue /\ "task" \in Saver
      /\ \A w \in Saver : saver[w].list \in List
      /\ saved \subseteq 0 .. enqueued - 1 /\ inflight \subseteq delivered /\ enqueued \in Nat
  BY SaverType DEF InQueue, TypeOK, Saver, Accepted
<1>2. CASE Enqueue
  <2>1. enqueued \in Message /\ enqueued \notin saved
    BY <1>1, <1>2 DEF Enqueue, Message
  <2>2. ToSet(queue') \subseteq InQueue \cup {enqueued}
    BY <1>2, <2>1, AddedOne DEF Enqueue
  <2> QED BY <1>2, <2>1, <2>2, ProcessKeepsWaiting DEF Enqueue, InQueue
<1>3. ASSUME NEW i \in 1 .. Len(queue), Dequeue(i)
      PROVE  WaitingIsSaved'
  <2>1. ToSet(queue') \subseteq InQueue
    BY <1>3, DequeuedTo
  <2>2. delivered \subseteq delivered'
    BY <1>3 DEF Dequeue
  <2> QED BY <1>3, <2>1, <2>2, ProcessKeepsWaiting DEF Dequeue, InQueue
<1>4. CASE DequeueNothing
  <2>1. InQueue' = {}
    BY <1>4, EmptyIsBare DEF DequeueNothing, InQueue
  <2> QED BY <1>4, <2>1, ProcessKeepsWaiting DEF DequeueNothing
<1>5. ASSUME NEW m \in inflight, Ack(m)
      PROVE  WaitingIsSaved'
  BY <1>5, ProcessKeepsWaiting DEF Ack, InQueue
<1>6. ASSUME NEW m \in inflight, NEW requeue \in BOOLEAN, Nack(m, requeue)
      PROVE  WaitingIsSaved'
  <2>1. m \in Message /\ m \in delivered
    BY <1>1 DEF TypeOK
  <2>2. ToSet(queue') \subseteq InQueue \cup {m}
    BY <1>1, <1>6, <2>1, AddedOne DEF Nack
  <2> QED BY <1>6, <2>1, <2>2, ProcessKeepsWaiting DEF Nack, InQueue
<1>7. ASSUME NEW m \in Message, Expire(m)
      PROVE  WaitingIsSaved'
  BY <1>7, ProcessKeepsWaiting DEF Expire, InQueue
<1>8. CASE Cleanup
  <2>1. ToSet(queue') \subseteq InQueue
    BY <1>8, CleanedTo
  <2> QED BY <1>8, <2>1, ProcessKeepsWaiting DEF Cleanup, InQueue
<1>9. CASE SaveBegin
  <2>1. saver'["task"] = Sent("delete", queue) /\ task = Idle
    BY <1>1, <1>9 DEF SaveBegin, Snapshot, task
  <2>2. task'.at = "delete" /\ task'.list = queue /\ task.at = "idle"
    BY <2>1, Commands DEF task
  <2>3. WaitingIsSaved
    BY <1>9 DEF SaveBegin
  <2> QED BY <1>1, <1>9, <2>2, <2>3 DEF SaveBegin, WaitingIsSaved, InQueue
<1>10. ASSUME NEW w \in Saver, SaveDelete(w)
       PROVE  WaitingIsSaved'
  <2>1. w = "task" /\ Working /\ task.at = "delete"
    BY <1>10, OnlyTheTask DEF SaveDelete, task
  <2>2. task'.at = "push" /\ task'.list = task.list
    BY <1>1, <1>10, <2>1, Commands DEF SaveDelete, task
  <2> QED BY <1>10, <2>1, <2>2 DEF SaveDelete, WaitingIsSaved, InQueue
<1>11. ASSUME NEW w \in Saver, SavePush(w)
       PROVE  WaitingIsSaved'
  <2>1. w = "task" /\ Working /\ task.at = "push"
    BY <1>11, OnlyTheTask DEF SavePush, task
  <2>2. task'.at = "idle"
    BY <1>1, <1>11, <2>1, Commands DEF SavePush, task
  <2>3. stored' = task.list
    BY <1>1, <1>11, <2>1, ConcatSet DEF SavePush, Pushed, Alone, List, task
  <2> QED BY <1>11, <2>1, <2>2, <2>3 DEF SavePush, WaitingIsSaved, InQueue
<1>12. ASSUME NEW w \in Saver, SaveFails(w)
       PROVE  WaitingIsSaved'
  <2>1. w = "task"
    BY <1>12, OnlyTheTask DEF SaveFails, task
  <2>2. task'.at = "idle" /\ Working
    BY <1>1, <1>12, <2>1, Commands DEF SaveFails, task, Working
  <2> QED BY <1>12, <2>1, <2>2 DEF SaveFails, WaitingIsSaved, InQueue
<1>13. CASE Start \/ LoadRead
  <2>1. loader'.at # "idle"
    BY <1>13, Commands DEF Start, LoadRead
  <2> QED BY <2>1, Commands DEF Working
<1>14. CASE LoadReply
  <2>1. ~Working /\ loader.list = stored
    BY <1>14, Commands DEF LoadReply, Working, Alone
  <2>2. InQueue \cap saved = {} /\ task = Idle /\ task.at = "idle"
    BY <2>1, Commands DEF Alone, Held
  <2>3. ToSet(queue') \subseteq InQueue \cup ToSet(stored)
    BY <1>14, <2>1, LoadedAll DEF LoadReply, TypeOK
  <2> QED BY <1>14, <2>2, <2>3 DEF LoadReply, WaitingIsSaved, InQueue, task
<1>15. CASE LoadFails
  <2>1. ~Working
    BY <1>15 DEF LoadFails, Working
  <2>2. InQueue \cap saved = {} /\ task.at = "idle"
    BY <2>1, Commands DEF Alone, Held
  <2> QED BY <1>15, <2>2 DEF LoadFails, WaitingIsSaved, InQueue, task
<1>16. CASE Crash
  BY <1>16 DEF Crash, Working
<1>17. CASE UNCHANGED vars
  BY <1>17, ProcessKeepsWaiting DEF vars, InQueue
<1> QED
  BY <1>2, <1>3, <1>4, <1>5, <1>6, <1>7, <1>8, <1>9, <1>10, <1>11, <1>12, <1>13, <1>14, <1>15,
     <1>16, <1>17 DEF Next
-----------------------------------------------------------------------------
Over == delivered \cup expired

\* A step of the process alone that leaves every living message somewhere.
LEMMA ProcessKeepsSaved ==
    ASSUME SavedIsSomewhere, UNCHANGED <<running, stored, saver, loader, saved, torn>>,
           Over \subseteq Over', InQueue \subseteq InQueue' \cup Over'
    PROVE  SavedIsSomewhere'
BY DEF SavedIsSomewhere, Working, task, Over

LEMMA StepSomewhere ==
    ASSUME TypeOK, Accepted, Alone, SavedIsSomewhere, [Next]_vars, ~Stop, ~broken',
           MaxMessages <= MaxSize
    PROVE  SavedIsSomewhere'
<1> USE DEF memory, redis, history, bounds
<1>1. /\ saver \in [Saver -> Save] /\ queue \in List /\ ToSet(queue) = InQueue /\ "task" \in Saver
      /\ \A w \in Saver : saver[w].list \in List
      /\ InQueue \subseteq 0 .. enqueued - 1 /\ inflight \subseteq delivered /\ enqueued \in Nat
      /\ IsInjective(queue) /\ InQueue \cap inflight = {}
  BY SaverType DEF InQueue, TypeOK, Saver, Accepted, Alone
<1>2. CASE Enqueue
  <2>1. enqueued \in Message /\ enqueued \notin InQueue
    BY <1>1, <1>2 DEF Enqueue, Message
  <2>2. ToSet(queue') = InQueue \cup {enqueued}
    BY <1>1, <1>2, <2>1, AddedOne DEF Enqueue
  <2> QED BY <1>2, <2>2, ProcessKeepsSaved DEF Enqueue, InQueue, Over
<1>3. ASSUME NEW i \in 1 .. Len(queue), Dequeue(i)
      PROVE  SavedIsSomewhere'
  <2>1. InQueue \subseteq ToSet(queue') \cup {queue[i]} \cup expired
    BY <1>3, DequeuedTo
  <2>2. Over' = Over \cup {queue[i]}
    BY <1>3 DEF Dequeue, Over
  <2>3. InQueue \subseteq InQueue' \cup Over'
    BY <2>1, <2>2 DEF InQueue, Over
  <2> QED BY <1>3, <2>2, <2>3, ProcessKeepsSaved DEF Dequeue
<1>4. CASE DequeueNothing
  <2>1. InQueue \subseteq expired /\ Over' = Over
    BY <1>4 DEF DequeueNothing, Over
  <2>2. InQueue \subseteq Over'
    BY <2>1 DEF Over
  <2> QED BY <1>4, <2>1, <2>2, ProcessKeepsSaved DEF DequeueNothing
<1>5. ASSUME NEW m \in inflight, Ack(m)
      PROVE  SavedIsSomewhere'
  BY <1>5, ProcessKeepsSaved DEF Ack, InQueue, Over
<1>6. ASSUME NEW m \in inflight, NEW requeue \in BOOLEAN, Nack(m, requeue)
      PROVE  SavedIsSomewhere'
  <2>1. m \in Message /\ m \notin InQueue
    BY <1>1 DEF TypeOK
  <2>2. InQueue \subseteq ToSet(queue')
    BY <1>1, <1>6, <2>1, AddedOne DEF Nack
  <2> QED BY <1>6, <2>2, ProcessKeepsSaved DEF Nack, InQueue, Over
<1>7. ASSUME NEW m \in Message, Expire(m)
      PROVE  SavedIsSomewhere'
  BY <1>7, ProcessKeepsSaved DEF Expire, InQueue, Over
<1>8. CASE Cleanup
  <2>1. ToSet(queue') = InQueue \ expired /\ Over' = Over
    BY <1>8, CleanedTo DEF Cleanup, Over
  <2>2. InQueue \subseteq InQueue' \cup Over'
    BY <2>1 DEF InQueue, Over
  <2> QED BY <1>8, <2>1, <2>2, ProcessKeepsSaved DEF Cleanup
<1>9. CASE SaveBegin
  <2>1. saver'["task"] = Sent("delete", queue) /\ task = Idle /\ Working
    BY <1>1, <1>9 DEF SaveBegin, Snapshot, task
  <2>2. task'.at = "delete" /\ task'.list = queue /\ task.at = "idle"
    BY <2>1, Commands DEF task
  <2> QED BY <1>1, <1>9, <2>1, <2>2 DEF SaveBegin, SavedIsSomewhere, InQueue, Working
<1>10. ASSUME NEW w \in Saver, SaveDelete(w)
       PROVE  SavedIsSomewhere'
  <2>1. w = "task" /\ Working /\ task.at = "delete"
    BY <1>10, OnlyTheTask DEF SaveDelete, task
  <2>2. task'.at = "push" /\ task'.list = task.list
    BY <1>1, <1>10, <2>1, Commands DEF SaveDelete, task
  <2> QED BY <1>10, <2>1, <2>2 DEF SaveDelete, SavedIsSomewhere, InQueue, Working
<1>11. ASSUME NEW w \in Saver, SavePush(w)
       PROVE  SavedIsSomewhere'
  <2>1. w = "task" /\ Working /\ task.at = "push"
    BY <1>11, OnlyTheTask DEF SavePush, task
  <2>2. task'.at = "idle"
    BY <1>1, <1>11, <2>1, Commands DEF SavePush, task
  <2>3. stored' = task.list
    BY <1>1, <1>11, <2>1, ConcatSet DEF SavePush, Pushed, Alone, List, task
  <2>4. saved' = saved \cup ToSet(task.list)
    BY <1>11, <2>3 DEF SavePush
  <2>5. saved' \subseteq ToSet(stored') \cup Over /\ saved' \subseteq InQueue \cup Over
    BY <2>1, <2>3, <2>4 DEF SavedIsSomewhere, Over
  <2> QED BY <1>11, <2>2, <2>5 DEF SavePush, SavedIsSomewhere, InQueue, Over
<1>12. ASSUME NEW w \in Saver, SaveFails(w)
       PROVE  SavedIsSomewhere'
  <2>1. w = "task"
    BY <1>12, OnlyTheTask DEF SaveFails, task
  <2>2. task'.at = "idle"
    BY <1>1, <1>12, <2>1, Commands DEF SaveFails, task
  <2> QED BY <1>12, <2>1, <2>2 DEF SaveFails, SavedIsSomewhere, InQueue, Working
<1>13. CASE Start \/ LoadRead
  <2>1. loader'.at # "idle"
    BY <1>13, Commands DEF Start, LoadRead
  <2>2. ~Working'
    BY <2>1, Commands DEF Working
  <2>3. ~torn
    BY <1>13, Commands DEF Start, LoadRead, SavedIsSomewhere, Working
  <2> QED BY <1>13, <2>2, <2>3 DEF Start, LoadRead, SavedIsSomewhere, InQueue, task
<1>14. CASE LoadReply
  <2>1. ~Working /\ loader.list = stored
    BY <1>14, Commands DEF LoadReply, Working, Alone
  <2>2. /\ InQueue \cap saved = {} /\ task.at = "idle" /\ IsInjective(stored)
        /\ ToSet(stored) \subseteq saved /\ stored \in List
    BY <2>1, Commands DEF Alone, Held, Accepted, TypeOK
  <2>3. ToSet(queue') = InQueue \cup (ToSet(stored) \ expired)
    <3>1. queue' = Loaded(stored)
      BY <1>14, <2>1 DEF LoadReply
    <3>2. InQueue \cap ToSet(stored) = {}
      BY <2>2
    <3> QED BY <1>1, <2>2, <3>1, <3>2, LoadedAll
  <2>4. ~torn /\ saved \subseteq ToSet(stored) \cup Over
    BY <2>1 DEF SavedIsSomewhere, Over
  <2>5. saved \subseteq ToSet(queue') \cup Over
    BY <2>3, <2>4 DEF Over
  <2> QED BY <1>14, <2>2, <2>4, <2>5 DEF LoadReply, SavedIsSomewhere, InQueue, task, Over
<1>15. CASE LoadFails
  BY <1>15 DEF LoadFails
<1>16. CASE Crash
  <2>1. ~torn
    BY <1>16 DEF Crash
  <2>2. task'.at = "idle" /\ ~Working'
    BY <1>1, <1>16, Commands DEF Crash, task, Working
  <2> QED BY <1>16, <2>1, <2>2 DEF Crash, SavedIsSomewhere
<1>17. CASE UNCHANGED vars
  BY <1>17, ProcessKeepsSaved DEF vars, InQueue, Over
<1> QED
  BY <1>2, <1>3, <1>4, <1>5, <1>6, <1>7, <1>8, <1>9, <1>10, <1>11, <1>12, <1>13, <1>14, <1>15,
     <1>16, <1>17 DEF Next
-----------------------------------------------------------------------------
\* One life of the process with room for all: what leaves the queue is in flight, settled or expired.
LEMMA StepNothingLost ==
    ASSUME TypeOK, Accepted, Alone, [Next]_vars, ~Stop, ~Crash, MaxMessages <= MaxSize,
           0 .. enqueued - 1 \subseteq Held \cup settled \cup expired
    PROVE  (0 .. enqueued - 1)' \subseteq Held' \cup settled' \cup expired'
<1> USE DEF memory, redis, history, bounds
<1> DEFINE E == 0 .. enqueued - 1
           Kept == Held \cup settled \cup expired
<1>1. /\ queue \in List /\ ToSet(queue) = InQueue /\ enqueued \in Nat
      /\ InQueue \subseteq E /\ IsInjective(queue) /\ InQueue \cap inflight = {}
  BY DEF InQueue, TypeOK, Accepted, Alone
<1>2. ASSUME enqueued' = enqueued, Kept \subseteq Kept'
      PROVE  E' \subseteq Kept'
  BY <1>2
<1>3. CASE Enqueue
  <2>1. enqueued \in Message /\ enqueued \notin InQueue /\ E' = E \cup {enqueued}
    BY <1>1, <1>3 DEF Enqueue, Message
  <2>2. ToSet(queue') = InQueue \cup {enqueued}
    BY <1>1, <1>3, <2>1, AddedOne DEF Enqueue
  <2>3. Kept' = Kept \cup {enqueued}
    BY <1>3, <2>2 DEF Enqueue, Held, InQueue
  <2> HIDE DEF Kept, E
  <2> QED BY <2>1, <2>3 DEF E, Kept
<1>4. ASSUME NEW i \in 1 .. Len(queue), Dequeue(i)
      PROVE  E' \subseteq Kept'
  <2>1. InQueue \subseteq ToSet(queue') \cup {queue[i]} \cup expired
    BY <1>4, DequeuedTo
  <2>2. Kept \subseteq Kept'
    BY <1>4, <2>1 DEF Dequeue, Tracked, Held, InQueue
  <2> QED BY <1>2, <1>4, <2>2 DEF Dequeue
<1>5. CASE DequeueNothing
  <2>1. Kept \subseteq Kept'
    BY <1>5 DEF DequeueNothing, Held
  <2> QED BY <1>2, <1>5, <2>1 DEF DequeueNothing
<1>6. ASSUME NEW m \in inflight, Ack(m)
      PROVE  E' \subseteq Kept'
  <2>1. Kept \subseteq Kept'
    BY <1>6 DEF Ack, Held, InQueue
  <2> QED BY <1>2, <1>6, <2>1 DEF Ack
<1>7. ASSUME NEW m \in inflight, NEW requeue \in BOOLEAN, Nack(m, requeue)
      PROVE  E' \subseteq Kept'
  <2>1. m \in Message /\ m \notin InQueue
    BY <1>1 DEF TypeOK
  <2>2. ToSet(Added(m)) = InQueue \cup {m}
    BY <1>1, <2>1, AddedOne
  <2>3. InQueue \subseteq InQueue' /\ (requeue /\ m \notin expired => m \in InQueue')
    BY <1>7, <2>2 DEF Nack, InQueue
  <2>4. Kept \subseteq Kept'
    BY <1>7, <2>3 DEF Nack, Held
  <2> QED BY <1>2, <1>7, <2>4 DEF Nack
<1>8. ASSUME NEW m \in Message, Expire(m)
      PROVE  E' \subseteq Kept'
  <2>1. Kept \subseteq Kept'
    BY <1>8 DEF Expire, Held, InQueue
  <2> QED BY <1>2, <1>8, <2>1 DEF Expire
<1>9. CASE Cleanup
  <2>1. ToSet(queue') = InQueue \ expired
    BY <1>9, CleanedTo
  <2>2. Kept \subseteq Kept'
    BY <1>9, <2>1 DEF Cleanup, InFlightKept, Held, InQueue
  <2> QED BY <1>2, <1>9, <2>2 DEF Cleanup
<1>10. CASE \/ SaveBegin \/ Start \/ LoadRead \/ LoadFails
            \/ \E w \in Saver : SaveDelete(w) \/ SavePush(w) \/ SaveFails(w)
  <2>1. UNCHANGED <<queue, inflight, settled, expired, enqueued>>
    BY <1>10 DEF SaveBegin, Start, LoadRead, LoadFails, SaveDelete, SavePush, SaveFails
  <2> QED BY <1>2, <2>1 DEF Held, InQueue
<1>11. CASE LoadReply
  <2>1. ~Working /\ loader.list = stored
    BY <1>11, Commands DEF LoadReply, Working, Alone
  <2>2. /\ InQueue \cap ToSet(stored) = {} /\ IsInjective(stored) /\ stored \in List
        /\ queue' = Loaded(stored)
    BY <1>11, <2>1 DEF LoadReply, Alone, Held, Accepted, TypeOK
  <2>3. InQueue \subseteq ToSet(queue')
    BY <1>1, <2>2, LoadedAll
  <2>4. Kept \subseteq Kept'
    BY <1>11, <2>3 DEF LoadReply, Held, InQueue
  <2> QED BY <1>2, <1>11, <2>4 DEF LoadReply
<1>12. CASE UNCHANGED vars
  BY <1>2, <1>12 DEF vars, Held, InQueue
<1> QED
  BY <1>3, <1>4, <1>5, <1>6, <1>7, <1>8, <1>9, <1>10, <1>11, <1>12 DEF Next
-----------------------------------------------------------------------------
\* The messages of s that d does not have increase.
Increasing(s, d) ==
    \A i, j \in 1 .. Len(s) : i < j /\ s[i] \notin d /\ s[j] \notin d => s[i] < s[j]

LEMMA IncreasingWithin ==
    ASSUME NEW s, NEW t, NEW d, NEW e, Increasing(s, d), Within(t, s), d \subseteq e
    PROVE  Increasing(t, e)
<1> SUFFICES ASSUME NEW j \in 1 .. Len(t), NEW k \in 1 .. Len(t), j < k, t[j] \notin e, t[k] \notin e
             PROVE  t[j] < t[k]
  BY DEF Increasing
<1>1. PICK a \in 1 .. Len(s), b \in 1 .. Len(s) : a < b /\ s[a] = t[j] /\ s[b] = t[k]
  BY DEF Within
<1> QED BY <1>1 DEF Increasing

\* A message at the end that is delivered, or newer than all, keeps the order.
LEMMA IncreasingAppend ==
    ASSUME NEW s \in List, NEW m \in Message, NEW d, Increasing(s, d),
           m \in d \/ \A k \in ToSet(s) : k < m
    PROVE  Increasing(Append(s, m), d)
<1> DEFINE t == Append(s, m)
<1>1. /\ Len(t) = Len(s) + 1 /\ Len(s) \in Nat
      /\ \A i \in 1 .. Len(s) : t[i] = s[i]
      /\ t[Len(s) + 1] = m
  BY AppendProperties, SeqSet DEF List
<1>2. \A i \in 1 .. Len(s) : s[i] \in ToSet(s)
  BY SeqSet DEF List
<1> HIDE DEF t
<1>3. ASSUME NEW i \in 1 .. Len(t), NEW j \in 1 .. Len(t), i < j, t[i] \notin d, t[j] \notin d
      PROVE  t[i] < t[j]
  <2>1. i \in 1 .. Len(s)
    BY <1>1, <1>3
  <2>2. CASE j \in 1 .. Len(s)
    BY <1>1, <1>3, <2>1, <2>2 DEF Increasing
  <2>3. CASE j = Len(s) + 1
    BY <1>1, <1>2, <1>3, <2>1, <2>3
  <2>4. j \in 1 .. Len(s) \/ j = Len(s) + 1
    BY <1>1
  <2> QED BY <2>2, <2>3, <2>4
<1> QED BY <1>3 DEF Increasing, t

\* One life of the process, with room for all or not.
LEMMA StepInOrder ==
    ASSUME TypeOK, Accepted, Alone, InOrder, [Next]_vars, ~Stop, ~Crash
    PROVE  InOrder'
<1> USE DEF memory, redis, history, bounds
<1>1. /\ queue \in List /\ ToSet(queue) = InQueue /\ enqueued \in Nat
      /\ InQueue \subseteq 0 .. enqueued - 1 /\ inflight \subseteq delivered
  BY DEF InQueue, TypeOK, Accepted
<1>2. Increasing(queue, delivered) /\ (~Working => stored = <<>>)
  BY DEF InOrder, Increasing
<1>3. ASSUME Increasing(queue', delivered'), ~Working' => stored' = <<>>
      PROVE  InOrder'
  BY <1>3 DEF InOrder, Increasing
<1>4. CASE Enqueue
  <2>1. enqueued \in Message /\ \A k \in ToSet(queue) : k < enqueued
    <3>1. enqueued \in Message
      BY <1>1, <1>4 DEF Enqueue, Message
    <3>2. \A k \in 0 .. enqueued - 1 : k < enqueued
      BY <1>1
    <3> QED BY <1>1, <3>1, <3>2
  <2>2. Increasing(Append(queue, enqueued), delivered)
    BY <1>1, <1>2, <2>1, IncreasingAppend
  <2>3. Increasing(queue', delivered')
    BY <1>4, <2>1, <2>2, AddedOne, IncreasingWithin DEF Enqueue
  <2> QED BY <1>2, <1>3, <1>4, <2>3 DEF Enqueue, Working
<1>5. ASSUME NEW i \in 1 .. Len(queue), Dequeue(i)
      PROVE  InOrder'
  <2>1. Within(queue', queue) /\ delivered \subseteq delivered'
    BY <1>5, DequeuedTo DEF Dequeue
  <2>2. Increasing(queue', delivered')
    BY <1>2, <2>1, IncreasingWithin
  <2> QED BY <1>2, <1>3, <1>5, <2>2 DEF Dequeue, Working
<1>6. CASE DequeueNothing
  <2>1. Increasing(queue', delivered')
    BY <1>6, EmptyIsBare DEF DequeueNothing, Increasing
  <2> QED BY <1>2, <1>3, <1>6, <2>1 DEF DequeueNothing, Working
<1>7. ASSUME NEW m \in inflight, Ack(m)
      PROVE  InOrder'
  BY <1>2, <1>3, <1>7 DEF Ack, Working
<1>8. ASSUME NEW m \in inflight, NEW requeue \in BOOLEAN, Nack(m, requeue)
      PROVE  InOrder'
  <2>1. m \in Message /\ m \in delivered
    BY <1>1 DEF TypeOK
  <2>2. Increasing(Append(queue, m), delivered)
    BY <1>1, <1>2, <2>1, IncreasingAppend
  <2>3. Increasing(Added(m), delivered)
    BY <2>1, <2>2, AddedOne, IncreasingWithin
  <2>4. Increasing(queue', delivered')
    BY <1>2, <1>8, <2>3 DEF Nack
  <2> QED BY <1>2, <1>3, <1>8, <2>4 DEF Nack, Working
<1>9. ASSUME NEW m \in Message, Expire(m)
      PROVE  InOrder'
  BY <1>2, <1>3, <1>9 DEF Expire, Working
<1>10. CASE Cleanup
  <2>1. Increasing(queue', delivered')
    BY <1>2, <1>10, CleanedTo, IncreasingWithin DEF Cleanup
  <2> QED BY <1>2, <1>3, <1>10, <2>1 DEF Cleanup, Working
<1>11. CASE SaveBegin
  BY <1>2, <1>3, <1>11 DEF SaveBegin, Working
<1>12. ASSUME NEW w \in Saver, SaveDelete(w) \/ SavePush(w) \/ SaveFails(w)
       PROVE  InOrder'
  <2>1. saver[w] # Idle
    BY <1>12, Commands DEF SaveDelete, SavePush, SaveFails
  <2>2. Working
    BY <2>1, OnlyTheTask DEF Alone, task
  <2>3. Working' /\ queue' = queue /\ delivered' = delivered
    BY <1>12, <2>2 DEF SaveDelete, SavePush, SaveFails, Working
  <2> QED BY <1>2, <1>3, <2>3
<1>13. CASE Start
  <2>1. ~Working
    BY <1>13 DEF Start, Working
  <2> QED BY <1>2, <1>3, <1>13, <2>1 DEF Start
<1>14. CASE LoadRead
  <2>1. ~Working
    BY <1>14, Commands DEF LoadRead, Working
  <2> QED BY <1>2, <1>3, <1>14, <2>1 DEF LoadRead
<1>15. CASE LoadReply
  <2>1. ~Working /\ loader.list = stored
    BY <1>15, Commands DEF LoadReply, Working, Alone
  <2>2. queue' = queue
    BY <1>2, <1>15, <2>1, Commands, LoadedAll DEF LoadReply
  <2> QED BY <1>2, <1>3, <1>15, <2>1, <2>2 DEF LoadReply
<1>16. CASE LoadFails
  <2>1. Working'
    BY <1>16 DEF LoadFails, Working, Accepted
  <2> QED BY <1>2, <1>3, <1>16, <2>1 DEF LoadFails
<1>17. CASE UNCHANGED vars
  BY <1>2, <1>3, <1>17 DEF vars, Working
<1> QED
  BY <1>4, <1>5, <1>6, <1>7, <1>8, <1>9, <1>10, <1>11, <1>12, <1>13, <1>14, <1>15,
     <1>16, <1>17 DEF Next
-----------------------------------------------------------------------------
LEMMA InitQueueInv == Init => QueueInv
<1> SUFFICES ASSUME Init
             PROVE  QueueInv
  OBVIOUS
<1>1. /\ InQueue = {} /\ ToSet(stored) = {} /\ ToSet(loader.list) = {} /\ loader = Idle
      /\ \A w \in Saver : saver[w] = Idle /\ ToSet(saver[w].list) = {}
      /\ task = Idle /\ task.at = "idle"
  BY EmptyIsBare, Commands DEF Init, InQueue, task, Saver
<1>2. Accepted
  BY <1>1 DEF Init, Accepted
<1>3. Alone
  BY <1>1, EmptyIsBare, Commands DEF Init, Alone, Held, Saver
<1>4. ~Working
  BY DEF Init, Working
<1>5. SavedIsSomewhere
  BY <1>1, <1>4 DEF Init, SavedIsSomewhere
<1>6. NothingLost
  BY DEF Init, NothingLost
<1>7. InOrder
  BY EmptyIsBare DEF Init, InOrder
<1> QED BY <1>2, <1>3, <1>4, <1>5, <1>6, <1>7 DEF QueueInv

LEMMA StepQueueInv == TypeOK /\ QueueInv /\ [Next]_vars => QueueInv'
<1> SUFFICES ASSUME TypeOK, QueueInv, [Next]_vars
             PROVE  QueueInv'
  OBVIOUS
<1>1. /\ stops' = 0 => stops = 0 /\ ~Stop
      /\ crashes' = 0 => crashes = 0 /\ ~Crash
      /\ ~broken' => ~broken
  BY Histories
<1>2. Accepted /\ Accepted'
  BY StepAccepted DEF QueueInv
<1>3. ASSUME stops' = 0
      PROVE  Alone /\ Alone' /\ ~Stop
  BY <1>1, <1>2, <1>3, StepAlone DEF QueueInv
<1>4. stops' = 0 /\ Working' => WaitingIsSaved'
  BY <1>1, <1>2, <1>3, StepWaiting DEF QueueInv
<1>5. stops' = 0 /\ ~broken' /\ MaxMessages <= MaxSize => SavedIsSomewhere'
  BY <1>1, <1>2, <1>3, StepSomewhere DEF QueueInv
<1>6. ASSUME stops' = 0, crashes' = 0, MaxMessages <= MaxSize
      PROVE  (0 .. enqueued - 1)' \subseteq Held' \cup settled' \cup expired'
  <2>1. 0 .. enqueued - 1 \subseteq Held \cup settled \cup expired
    BY <1>1, <1>6 DEF QueueInv, NothingLost
  <2> QED BY <1>1, <1>2, <1>3, <1>6, <2>1, StepNothingLost
<1>7. NothingLost'
  BY <1>6 DEF NothingLost
<1>8. stops' = 0 /\ crashes' = 0 => InOrder'
  BY <1>1, <1>2, <1>3, StepInOrder DEF QueueInv
<1> QED BY <1>2, <1>3, <1>4, <1>5, <1>7, <1>8 DEF QueueInv
-----------------------------------------------------------------------------
\* The type of every variable; the queue never grows past its maxlen.
THEOREM QueueTypeCorrect == Spec => []TypeOK
BY InitTypeOK, StepTypeOK, PTL DEF Spec

\* The inductive invariant.
LEMMA QueueSafe == Spec => [](TypeOK /\ QueueInv)
<1>1. TypeOK /\ QueueInv /\ [Next]_vars => TypeOK' /\ QueueInv'
  BY StepTypeOK, StepQueueInv
<1> QED BY <1>1, InitTypeOK, InitQueueInv, PTL DEF Spec

\* Crashes and restarts never make a second copy of a message in the process.
THEOREM NeverTwoCopies == Spec => []OneCopy
<1>1. QueueInv => OneCopy
  BY DEF QueueInv, Alone, OneCopy
<1> QED BY <1>1, QueueSafe, PTL

\* No save drops a message that waits for its first delivery.
THEOREM SavesKeepWhatWaits == Spec => []SavedIsStored
<1>1. QueueInv => SavedIsStored
  <2> SUFFICES ASSUME QueueInv, stops = 0, ~torn, Working, \A w \in Saver : saver[w] = Idle
               PROVE  \A m \in InQueue : m \in saved /\ m \notin delivered => m \in ToSet(stored)
    BY DEF SavedIsStored
  <2> QED BY DEF QueueInv, WaitingIsSaved
<1> QED BY <1>1, QueueSafe, PTL

\* A message that was once in Redis survives errors of saves, and the crashes that do not
\* find the list deleted and not yet written again.
THEOREM SavedAlwaysSurvives == Spec => []SavedSurvives
<1>1. QueueInv => SavedSurvives
  <2> SUFFICES ASSUME QueueInv, stops = 0, ~broken, MaxMessages <= MaxSize
               PROVE  \A m \in saved : m \in Held \cup ToSet(stored) \cup delivered \cup expired
    BY DEF SavedSurvives
  <2>1. SavedIsSomewhere
    BY DEF QueueInv
  <2>2. CASE ~torn
    BY <2>1, <2>2 DEF SavedIsSomewhere
  <2>3. CASE torn
    BY <2>1, <2>3 DEF SavedIsSomewhere, Held
  <2> QED BY <2>2, <2>3
<1> QED BY <1>1, QueueSafe, PTL

\* One life of the process loses nothing that it has accepted.
THEOREM NothingEverLost == Spec => []NothingLost
<1>1. QueueInv => NothingLost
  BY DEF QueueInv
<1> QED BY <1>1, QueueSafe, PTL

\* One life of the process delivers in the order of enqueue, requeues and expiry aside.
THEOREM FirstDeliveriesInOrder == Spec => FirstInFirstOut
<1> DEFINE Fifo == stops' = 0 /\ crashes' = 0 =>
                      \A m \in delivered' \ delivered : \A k \in ToSet(queue') :
                         k < m => k \in delivered \cup expired
<1>1. ASSUME TypeOK, QueueInv, [Next]_vars
      PROVE  Fifo
  <2> SUFFICES ASSUME stops' = 0, crashes' = 0, NEW m \in delivered' \ delivered,
                      NEW k \in ToSet(queue'), k < m
               PROVE  k \in delivered \cup expired
    OBVIOUS
  <2>1. InOrder
    BY <1>1, Histories DEF QueueInv
  <2>2. PICK i \in 1 .. Len(queue) : Dequeue(i)
    BY <1>1 DEF Next, Enqueue, DequeueNothing, Ack, Nack, Expire, Cleanup, SaveBegin, SaveDelete,
       SavePush, SaveFails, Start, LoadRead, LoadReply, LoadFails, Stop, Crash, vars, history
  <2>3. m = queue[i]
    BY <2>2 DEF Dequeue
  <2>4. PICK j \in i + 1 .. Len(queue) : k = queue[j]
    BY <1>1, <2>2, DequeuedTo
  <2>5. /\ j \in 1 .. Len(queue) /\ i < j /\ Len(queue) \in Nat
        /\ queue[i] \in Nat /\ queue[j] \in Nat
    <3>1. queue \in List
      BY <1>1 DEF TypeOK
    <3>2. Len(queue) \in Nat /\ \A l \in 1 .. Len(queue) : queue[l] \in Message
      BY <3>1, SeqSet DEF List
    <3>3. j \in 1 .. Len(queue) /\ i < j
      BY <3>2
    <3> QED BY <3>2, <3>3 DEF Message
  <2>6. k \notin delivered => queue[i] < queue[j]
    BY <2>1, <2>3, <2>4, <2>5 DEF InOrder
  <2> QED BY <2>3, <2>4, <2>5, <2>6
<1>2. [](TypeOK /\ QueueInv) /\ [][Next]_vars => [][Fifo]_vars
  <2>1. TypeOK /\ QueueInv /\ [Next]_vars => [Fifo]_vars
    BY <1>1
  <2> QED BY <2>1, PTL
<1> QED BY <1>2, QueueSafe, PTL DEF Spec, FirstInFirstOut
=============================================================================
