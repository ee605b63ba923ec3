-------------------------- MODULE MCDetectableCas --------------------------
(***************************************************************************)
(* Programs and clocks for the runs of DetectableCas.                      *)
(***************************************************************************)
EXTENDS DetectableCas

Detectable(l, v) == [loc |-> l, new |-> v, nd |-> FALSE]

Helping(l, v) == [loc |-> l, new |-> v, nd |-> TRUE]

Crashing(n) == [t \in Threads |-> IF t = 1 THEN n ELSE 0]
Scenario(p, tc, sc) == [prog |-> p, tcrash |-> tc, scrash |-> sc]

\* Every thread updates location 1 once.
OnceEach == [t \in Threads |-> <<Detectable(1, 10 * t + 1)>>]

\* Thread 1 dies once against another detectable CAS, twice against a helper.
ThreadsDie ==
    {Scenario(OnceEach, Crashing(1), 0),
     Scenario(<<<<Detectable(1, 11)>>, <<Helping(1, 21)>>>>, Crashing(2), 0)}

PowerFails == {Scenario(OnceEach, Crashing(0), 1)}

\* Thread 1 updates location 1 twice and dies once, thread 2 updates it once.
TwiceOnce == {Scenario(<<<<Detectable(1, 11), Detectable(1, 12)>>, <<Detectable(1, 21)>>>>, Crashing(1), 0)}

NoSkew == [t \in Threads |-> 0]
=============================================================================
