----------------------------- MODULE MCShellSend -----------------------------
(* Model-checking instances of ShellSend. *)
EXTENDS ShellSend, TLC

CONSTANTS c1, c2, c3, g1, g2, o1, o2, p1, p2

SymCalls  == Permutations(Calls)
Symmetric == SymCalls \cup Permutations(Prints) \cup Permutations(OpIds)

\* Initially two calls of one grant name the same operation, a third grant's call wants its place.
TwoAgainstOne ==
    /\ Init
    /\ req = [c \in Calls |-> [key |-> <<IF c = c2 THEN g2 ELSE g1, o1>>, print |-> p1]]

\* The host connection and the programs stay, grants do not expire by themselves, only the call of the
\* grant that is alone is cancelled; grants come and go.
FullNext ==
    /\ (\E c \in Calls : Begin(c) \/ Step(c)) \/ Cancel(c2) \/ Host \/ Relay
    /\ UNCHANGED <<hostUp, ended, expired>>
FullSpec == TwoAgainstOne /\ [][FullNext]_vars /\ Fairness
=============================================================================
