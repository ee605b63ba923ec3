------------------------------ MODULE MCRalloc ------------------------------
(* Scenarios for the runs of Ralloc. *)
EXTENDS Ralloc

\* A superblock of class 1 is a single block; one of class 2 has two.
OneAndTwo == <<1, 2>>

Scenario(p, cr, cl, st) ==
    [prog |-> p, crashes |-> cr, closes |-> cl, stops |-> st]

\* Superblocks go from the free list to one thread and back while the other one pops.
Frees == Scenario(<< <<1, 1, Free, Free>>, <<1, 1, Free, Free, 1>> >>, 0, 0, 0)
\* Superblocks become partial and empty again, and threads take from them.
Partials == Scenario(<< <<2, 2, 2, Free, Free, 2, 2>>, <<2, Free, Free, 2>> >>, 0, 0, 0)
\* Threads end, and the process ends normally.
Ends == Scenario(<< <<2, 2, Free, Free, Free>>, <<2, Free>> >>, 0, 1, 1)
\* The process crashes, also during the collection, and goes on.
Collected == Scenario(<< <<2, 2, 2, Free, 2, 2>>, <<Large>> >>, 2, 0, 0)
LargeOnes == Scenario(<< <<Large, Free>>, <<Large, 1>> >>, 2, 0, 0)
\* The region is used up.
UsedUp == Scenario(<< <<Large, Large, Large, 1, 1, 1, Large>>, <<>> >>, 0, 0, 0)
All == {Frees, Partials, Ends, Collected, LargeOnes, UsedUp}
=============================================================================
