----------------------------- MODULE Leadership -----------------------------
(***************************************************************************)
(* What an election algorithm promises: a term is won by at most one node, *)
(* for ever, and a node leads only in a term it has won.  Nothing is said  *)
(* of votes, messages or of who can win.                                   *)
(***************************************************************************)
EXTENDS Naturals

CONSTANT Node

VARIABLES
    won,    \* the victories so far, [term, node]
    leads   \* the term in which a node leads now, 0 when it does not lead

Init ==
    /\ won = {}
    /\ leads = [n \in Node |-> 0]

\* Some node wins a term that nobody had won.
Win ==
    \E w \in won' :
        /\ \A v \in won : v.term # w.term
        /\ won' = won \cup {w}

\* n learns of one of its victories and leads.
Lead(n) ==
    /\ leads[n] = 0
    /\ \E w \in won : w.node = n /\ leads' = [leads EXCEPT ![n] = w.term]
    /\ UNCHANGED won

Resign(n) == leads' = [leads EXCEPT ![n] = 0]

\* A leader may resign by giving the vote that makes another one win.
Next ==
    \/ \E n \in Node : Lead(n)
    \/ \E n \in Node : Resign(n) /\ UNCHANGED won
    \/ Win /\ (UNCHANGED leads \/ \E n \in Node : Resign(n))

Spec == Init /\ [][Next]_<<won, leads>>

\* What follows: whoever leads in a term is the only one to lead in it.
OneLeaderPerTerm ==
    \A m, n \in Node : leads[m] # 0 /\ leads[m] = leads[n] => m = n
=============================================================================
