----------------------------- MODULE MCSmoQueue -----------------------------
(* Scenarios for the runs of SmoQueue. *)
EXTENDS SmoQueueFifo

\* A thread enqueues and dequeues, another one the other way round.
Crosswise == <<<<"enq", "deq">>, <<"deq", "enq">>>>
\* While a thread recovers its enqueue, its node is dequeued and then passed.
Overtaken == <<<<"enq">>, <<"enq", "deq", "deq">>>>

Scenario(p, first, power) ==
    [prog |-> p, tcrash |-> [t \in Threads |-> IF t = 1 THEN first ELSE 0], scrash |-> power]

Crashes == {Scenario(Crosswise, 1, 1), Scenario(Overtaken, 1, 0)}
PowerFails == {Scenario(Crosswise, 0, 1)}
=============================================================================
