----------------------------- MODULE Allocator -----------------------------
(***************************************************************************)
(* What src/ext/ralloc promises to its user: a block that is handed out    *)
(* overlaps no block in use, a crash of the process keeps what the         *)
(* persistent roots reach, and nothing else takes a block away.            *)
(***************************************************************************)
EXTENDS Integers

VARIABLES
    live,   \* the blocks in use: superblock, index, size class, length, call of malloc
    up      \* there is a process that has recovered

\* The superblocks of a block; the large ones have several.
Span(o) == o.sb .. o.sb + o.n - 1

\* Blocks of one class overlap when they are the same, others when they share a superblock.
Overlap(o, p) ==
    /\ Span(o) \cap Span(p) # {}
    /\ o.cls = p.cls => o.idx = p.idx

Init == live = {} /\ up = TRUE

\* RP_malloc
Alloc(o) ==
    /\ up = TRUE
    /\ \A p \in live : ~Overlap(o, p)
    /\ live' = live \cup {o}
    /\ UNCHANGED up

\* RP_free
Dealloc(o) ==
    /\ up = TRUE
    /\ live' = live \ {o}
    /\ UNCHANGED up

\* The process ends: only what the roots reach stays in use.
End ==
    /\ up = TRUE /\ up' = FALSE
    /\ \E reach \in SUBSET live : live' = reach

\* RP_recover
Recover ==
    /\ up = FALSE /\ up' = TRUE
    /\ UNCHANGED live

Next ==
    \/ \E o \in live' : Alloc(o)
    \/ \E o \in live : Dealloc(o)
    \/ End \/ Recover

Spec == Init /\ [][Next]_<<live, up>>
=============================================================================
