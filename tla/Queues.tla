------------------------------- MODULE Queues -------------------------------
(* Terms of the proofs: what a queue holds, and how many elements a set    *)
(* has.  Each proof module has the lemmas about them that it needs.        *)
EXTENDS Integers, Sequences, FiniteSets

Holds(s, X)    == \E i \in DOMAIN s : s[i] \in X
HoldsOne(s, X) == \A i, j \in DOMAIN s : s[i] \in X /\ s[j] \in X => i = j

(* Some x of the queue has no element of X behind it.                      *)
Closes(s, x, X) ==
    \E i \in DOMAIN s : s[i] = x /\ \A j \in DOMAIN s : j > i => s[j] \notin X

(* What is of X comes no later than what is of Y.                          *)
Ordered(s, X, Y) == \A i, j \in DOMAIN s : s[i] \in X /\ s[j] \in Y => i <= j

(* How many: 1 for a condition that holds, 0 for one that does not.        *)
One(b) == IF b THEN 1 ELSE 0

(* The places of a queue where x stands.                                   *)
PlacesOf(q, x) == {n \in DOMAIN q : q[n] = x}
=============================================================================
