---------------------------- MODULE MCCombining ----------------------------
(* Instances of Combining for TLC. *)
EXTENDS Combining

Scenario(n, tc, sc) ==
    [ops |-> [t \in Threads |-> n], tcrash |-> [t \in Threads |-> IF t = 1 THEN tc ELSE 0], scrash |-> sc]

\* Two operations each and a thread that dies; one operation each and a power failure.
Combines == {Scenario(2, 1, 0), Scenario(1, 0, 1)}

\* A combiner that dies twice.
DiesTwice == {Scenario(1, 2, 0)}
=============================================================================
