----------------------------- MODULE MCPipeline -----------------------------
(* Programs for the runs of Pipeline. *)
EXTENDS Pipeline

\* Replay runs from one object into the other.
Moves == <<<<"push", "deq", "pop">>, <<"enq", "pop">>>>
\* Contention on the stack, and on both ends of the queue.
Stacks == <<<<"pop", "push">>, <<"push">>>>
Queues == <<<<"enq", "deq">>, <<"enq">>>>
\* Two nodes are marked before either is unlinked, and a search passes both.
Deletions == <<<<"ins1", "ins2", "del1">>, <<"del2", "del2">>>>
\* The same key is inserted, and deleted, by two threads.
Insertions == <<<<"ins1", "del1">>, <<"ins1">>>>
SameNode == <<<<"ins1", "del1">>, <<"del1">>>>
All == {Moves, Stacks, Queues, Deletions, Insertions, SameNode}
=============================================================================
