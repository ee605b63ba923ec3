---------------------------- MODULE SmoQueueFifo ----------------------------
(***************************************************************************)
(* The queues of SmoQueue as the detectable queue of Containers.           *)
(***************************************************************************)
EXTENDS SmoQueue

\* What operation i of t has done, as its memento and the nodes show it.
Shows(t, i) ==
    LET hn == mem[t][i].hn IN
    IF prog[t][i] = "enq"
    THEN IF \E n \in Nodes : next[n] = <<t, i>> THEN <<t, i>> ELSE Null
    ELSE IF hn.ts = 0 THEN Null
    ELSE IF hn.n = Null THEN Sentinel
    ELSE IF repl[hn.h].tid = t THEN hn.n ELSE Null

Effect == [t \in Threads |-> [i \in DOMAIN prog[t] |-> Shows(t, i)]]

Fifo == INSTANCE Containers WITH
            Progs <- {s.prog : s \in Scenarios}, stack <- <<>>, set <- {}, seen <- [t \in Threads |-> {}], effect <- Effect

\* The queue is a durable FIFO queue: every operation takes effect once and
\* returns what it did, also when it is re-executed, and a power failure
\* takes back at most the last effects that were not acknowledged.
FifoSpec == Fifo!Spec
=============================================================================
