----------------------------- MODULE LockTable -----------------------------
(***************************************************************************)
(* The rules of src/nodes/lock_manager.py for one resource: which locks    *)
(* are still valid, when a lock can be granted, and which waiting requests *)
(* are served when the resource is freed.                                  *)
(*                                                                         *)
(* Lists are sets here.  A request is numbered in the order of arrival, so *)
(* a wait queue is the set of its requests, its head the oldest; the order *)
(* of the locks in a list is never looked at.                              *)
(***************************************************************************)
EXTENDS Naturals

CONSTANT Caller   \* who asks for locks: the number of a request tells them apart too

LockType == {"shared", "exclusive"}
Request  == [id : Nat, owner : Caller, type : LockType]
Lock     == [id : Nat, owner : Caller, type : LockType, expired : BOOLEAN]

\* The Lock object created for request e.
Grant(e) == [id |-> e.id, owner |-> e.owner, type |-> e.type, expired |-> FALSE]
Grants(q) == {Grant(e) : e \in q}

\* The table once expires_at of lock number i is past.
Lapsed(l) == [id |-> l.id, owner |-> l.owner, type |-> l.type, expired |-> TRUE]
Lapse(ls, i) == {IF l.id = i THEN Lapsed(l) ELSE l : l \in ls}

\* Locks that is_expired() does not drop.
Valid(ls) == {l \in ls : ~l.expired}

\* Mutant: a reader does not look for a writer.
CanGrantReaders(ls, type) == Valid(ls) = {} \/ type = "shared"

\* The answer of _can_grant_lock, which leaves Valid(ls) in the table.
CanGrant(ls, type) ==
    \/ Valid(ls) = {}
    \/ type = "shared" /\ \A l \in Valid(ls) : l.type = "shared"

Oldest(q) == CHOOSE e \in q : \A f \in q : e.id <= f.id

\* Mutants: writers are never served; the loop stops at the first request that
\* cannot be granted.
ServedReaders(ls, q) == {e \in q : e.type = "shared" /\ CanGrant(ls, "shared")}
ServedUpToWriter(ls, q) ==
    IF Valid(ls) = {} /\ q # {} /\ Oldest(q).type = "exclusive"
    THEN {Oldest(q)}
    ELSE {e \in ServedReaders(ls, q) : \A f \in q : f.id < e.id => f.type = "shared"}

\* One iteration of the loop of _process_wait_queue, for entry e: the table, and the
\* entries granted so far.  _can_grant_lock is asked again after each grant.
Serve(acc, e) ==
    IF CanGrant(acc.table, e.type)
    THEN [table |-> Valid(acc.table) \cup {Grant(e)}, granted |-> acc.granted \cup {e}]
    ELSE [table |-> Valid(acc.table), granted |-> acc.granted]

\* The loop over the entries of q in their order of arrival, all numbered below n.
ServeAll(ls, q, n) ==
    LET after[i \in 0 .. n] == IF i = 0 THEN [table |-> ls, granted |-> {}]
                               ELSE IF \E e \in q : e.id = i - 1
                               THEN Serve(after[i - 1], CHOOSE e \in q : e.id = i - 1)
                               ELSE after[i - 1]
    IN  after[n]

(***************************************************************************)
(* What the loop of _process_wait_queue grants out of queue q when the     *)
(* table holds ls, as one set (ServedIsTheLoop compares the two): an       *)
(* exclusive request is served only first and alone, shared ones are       *)
(* served together, past the exclusive ones between them.                  *)
(***************************************************************************)
Served(ls, q) ==
    IF Valid(ls) = {} /\ q # {} /\ Oldest(q).type = "exclusive"
    THEN {Oldest(q)}
    ELSE {e \in q : e.type = "shared" /\ CanGrant(ls, "shared")}

\* Locks that may be held together: readers only, or one writer.
Compatible(ls) == \A l, m \in ls : l # m => l.type = "shared" /\ m.type = "shared"
=============================================================================
