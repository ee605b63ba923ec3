------------------------------ MODULE Mementos ------------------------------
(***************************************************************************)
(* Operations composed of checkpoints and detectable CASes, the way        *)
(* src/ds/treiber_stack.rs, src/ds/queue_general.rs and src/ds/list.rs are *)
(* written: every memento of an operation keeps the time of its last       *)
(* record, and a re-executed thread takes a record for its own step if it is *)
(* later than the last one taken.  Checkpoints and CASes are atomic and    *)
(* durable here (modules Checkpoint with Replay, DetectableCas with        *)
(* CasObject).                                                             *)
(***************************************************************************)
EXTENDS Integers, FiniteSetsExt, SequencesExt

CONSTANTS
    Threads,
    Progs,             \* the programs; prog[t]: the operations of t, in order
    Mortal,            \* the threads that may crash
    MaxCrashes         \* bound on the crashes of threads and of the system

\* The keys that the operations on the list are about.
KeyOf == [ins1 |-> 1, ins2 |-> 2, del1 |-> 1, del2 |-> 2]
Inserts == {"ins1", "ins2"}
Deletes == {"del1", "del2"}

ASSUME ProgAssumption ==
    /\ 0 \notin Threads
    /\ \A p \in Progs, t \in Threads : p[t] \in Seq({"enq", "deq", "push", "pop"} \cup DOMAIN KeyOf)
    /\ MaxCrashes \in Nat

VARIABLES
    prog,     \* the program that is run
    mem,      \* mem[t][i]: the mementos of operation i of t
    clock,    \* clock[t]: the time of the last record of t
    th,       \* local state of the threads
    retired,  \* <<n, t>>: t has deferred the destruction of node n
    tcrash,   \* the number of thread crashes
    scrash,   \* the number of power failures
    res       \* history: res[t][i], what operation i returned

mmtVars == <<mem, clock>>
crashes == <<tcrash, scrash, prog>>

Null == <<>>
Empty == <<0, 0>>
Ops == UNION {{t} \X DOMAIN prog[t] : t \in Threads}
Each(v) == [t \in Threads |-> [i \in DOMAIN prog[t] |-> v]]

\* The mementos of an operation: its node, the pointers it has read, the
\* CAS that makes it take effect, and the CAS on the tail or the one that
\* unlinks; for a delete from the list, the link it is to mark and what the
\* failed CAS has met.
Blank ==
    [node |-> [ts |-> 0, v |-> Null], snap |-> [ts |-> 0, v |-> <<Null, Null>>],
     cas |-> [ts |-> 0, v |-> FALSE], forward |-> [ts |-> 0, v |-> FALSE],
     after |-> [ts |-> 0, v |-> [to |-> Null, tag |-> 0]], fail |-> [to |-> Null, tag |-> 0]]

First(t) == IF prog[t] = <<>> THEN "done" ELSE prog[t][1]
Start(t) == [pc |-> First(t), i |-> 1, rec |-> TRUE, lmax |-> 0, cur |-> Null, next |-> Null,
             prev |-> Null, prev_next |-> Null]

MmtInit ==
    /\ prog \in Progs
    /\ mem = Each(Blank)
    /\ clock = [t \in Threads |-> 0]
    /\ th = [t \in Threads |-> Start(t)]
    /\ retired = {}
    /\ tcrash = 0 /\ scrash = 0
    /\ res = Each(Null)

At(t, pc) == th[t].pc = pc
Goto(t, pc) == th' = [th EXCEPT ![t].pc = pc]
Node(t) == <<t, th[t].i>>
Mem(t, m) == mem[t][th[t].i][m]

\* Variant: a record counts however old it is.
later_always(t, ts) == ts > 0

\* Variant: the records are ignored.
later_never(t, ts) == FALSE

later(t, ts) == ts > th[t].lmax

Replays(t, m) == th[t].rec /\ later(t, Mem(t, m).ts)

Record(t, m, v) ==
    /\ clock' = [clock EXCEPT ![t] = @ + 1]
    /\ mem' = [mem EXCEPT ![t][th[t].i][m] = [ts |-> clock'[t], v |-> v]]

\* A checkpoint: the recorded value, or else the closure is run.
Checkpoint(t, taken, run) ==
    /\ th' = [th EXCEPT ![t] =
          IF Replays(t, "snap")
          THEN [@ EXCEPT !.lmax = Mem(t, "snap").ts, !.cur = Mem(t, "snap").v[1],
                        !.next = Mem(t, "snap").v[2], !.pc = taken]
          ELSE [@ EXCEPT !.rec = FALSE, !.pc = run]]
    /\ UNCHANGED <<mmtVars, retired, crashes, res>>

\* The end of the closure: the pointers it has found are recorded.
Snap(t, cur, nxt, pc) ==
    /\ Record(t, "snap", <<cur, nxt>>)
    /\ th' = [th EXCEPT ![t].cur = cur, ![t].next = nxt, ![t].pc = pc]

MakeNode(t, pc) ==
    /\ \/ /\ Replays(t, "node")
          /\ th' = [th EXCEPT ![t].lmax = Mem(t, "node").ts, ![t].pc = pc]
          /\ UNCHANGED mmtVars
       \/ /\ ~Replays(t, "node")
          /\ Record(t, "node", Node(t))
          /\ th' = [th EXCEPT ![t].rec = FALSE, ![t].pc = pc]
    /\ UNCHANGED <<retired, crashes, res>>

\* A detectable CAS: its recorded outcome, or it is executed.
ReplayCas(t, m, yes, no) ==
    /\ Replays(t, m)
    /\ th' = [th EXCEPT ![t].lmax = Mem(t, m).ts, ![t].pc = IF Mem(t, m).v THEN yes ELSE no]
    /\ UNCHANGED mmtVars

ExecuteCas(t, m, success, yes, no) ==
    /\ ~Replays(t, m)
    /\ Record(t, m, success)
    /\ th' = [th EXCEPT ![t].rec = FALSE, ![t].pc = IF success THEN yes ELSE no]

Return(t, v) ==
    /\ res' = [res EXCEPT ![t][th[t].i] = v]
    /\ th' = [th EXCEPT ![t] =
          [Start(t) EXCEPT !.rec = th[t].rec, !.lmax = th[t].lmax, !.i = th[t].i + 1,
              !.pc = IF th[t].i = Len(prog[t]) THEN "done" ELSE prog[t][th[t].i + 1]]]
    /\ UNCHANGED <<mmtVars, crashes>>

Retire(t, n) == retired' = retired \cup {<<n, t>>}

\* The thread dies and is started again; what it shares stays as it is.
ThreadCrash(t) ==
    /\ t \in Mortal /\ ~At(t, "done")
    /\ tcrash + scrash < MaxCrashes
    /\ tcrash' = tcrash + 1
    /\ th' = [th EXCEPT ![t] = Start(t)]
    /\ UNCHANGED <<mmtVars, retired, scrash, prog, res>>

\* Power fails and the pool is opened again; deferred work is forgotten.
PowerFailure ==
    /\ tcrash + scrash < MaxCrashes
    /\ scrash' = scrash + 1
    /\ th' = [t \in Threads |-> Start(t)]
    /\ retired' = {}
    /\ UNCHANGED <<mmtVars, tcrash, prog, res>>

\* The nodes on the way from n along the links, n included.
Follow(link, n) ==
    LET path[k \in Nat] ==
            IF k = 0 THEN IF n = Null THEN <<>> ELSE <<n>>
            ELSE LET p == path[k - 1] IN
                 IF p = <<>> THEN p
                 ELSE IF link[Last(p)] = Null THEN p ELSE Append(p, link[Last(p)])
    IN path[Cardinality(Ops) + 1]
=============================================================================
