------------------------------ MODULE SmoQueue ------------------------------
(***************************************************************************)
(* The queues of src/ds/queue.rs and src/ds/queue_lp.rs on the Insert and  *)
(* Delete mementos of src/ploc/insert_delete.rs.  These keep no record of  *)
(* success: an insert is recovered by looking for the node in the queue, a *)
(* delete by the name that the deleter has left in the node it removed.    *)
(* queue.rs flushes the links it follows; queue_lp.rs marks a link until   *)
(* it is flushed, and whoever waits too long for a marked one flushes it.  *)
(*                                                                         *)
(* Persistent memory is cached: head, and next and repl of every node, are *)
(* a cache line each.  disk holds the lines as they were last flushed; a   *)
(* power failure leaves of every line that, or something written later.    *)
(* Checkpoints are atomic here (modules Checkpoint and Replay).            *)
(***************************************************************************)
EXTENDS Integers, FiniteSets, Sequences

CONSTANTS
    Threads,
    Scenarios   \* prog[t]: a sequence of "enq" and "deq"; tcrash[t], scrash: bounds on the crashes

ASSUME QueueAssumption ==
    /\ 0 \notin Threads
    /\ \A s \in Scenarios : \A t \in Threads : s.prog[t] \in Seq({"enq", "deq"})

VARIABLES
    scenario,
    lp,           \* TRUE: the link-persist queue
    head, tail,   \* Queue::head, Queue::tail
    next,         \* next[n]: Node::next
    mark,         \* the nodes whose next has the aux bit: not known to be durable
    repl,         \* repl[n]: Node::repl, the next node and the deleter
    disk,         \* head, next and repl as last flushed
    mem,          \* mem[t][i]: the memento of operation i
    clock,        \* clock[t]: the last checkpoint time of t
    th,           \* local state of the threads
    retired,      \* <<n, t>>: t has deferred the destruction of n
    tcrash,
    scrash,
    queue,        \* history: the values that are in the queue
    res           \* history: res[t][i], what operation i returned

vars == <<scenario, lp, head, tail, next, mark, repl, disk, mem, clock, th, retired, tcrash, scrash, queue, res>>
shared == <<head, tail, next, mark, repl, disk, retired, queue>>
crashes == <<tcrash, scrash>>
setup == <<scenario, lp>>
prog == scenario.prog

Null == <<>>
Sentinel == <<0, 0>>
Ops == UNION {{t} \X DOMAIN prog[t] : t \in Threads}
Nodes == {Sentinel} \cup {o \in Ops : prog[o[1]][o[2]] = "enq"}
Kept == [node |-> Null, tid |-> 0]   \* not_deleted()

\* The nodes that a function on nodes leads to from n, n included.
Closed(succ, S) == \A m \in S : succ[m] # Null => succ[m] \in S
Reach(succ, n) == {m \in Nodes : \A S \in SUBSET Nodes : n \in S /\ Closed(succ, S) => m \in S}

\* The same in their order.
End(p) == p[Len(p)]
Follow(succ, n) ==
    LET path[k \in Nat] ==
            IF k = 0 THEN <<n>>
            ELSE LET p == path[k - 1]
                     m == succ[End(p)] IN
                 IF m = Null THEN p ELSE Append(p, m)
    IN path[Cardinality(Nodes)]

\* The queue that the links make: a name in a node removes the node.
Replacement(rp) == [n \in Nodes |-> rp[n].node]
Linked(h, nx, rp) == Tail(Follow(nx, End(Follow(Replacement(rp), h))))

First(t) == IF prog[t] = <<>> THEN "done" ELSE prog[t][1]
Start(t) == [pc |-> First(t), i |-> 1, rec |-> TRUE, lmax |-> 0, tl |-> Null, h |-> Null, n |-> Null]

Init ==
    /\ scenario \in Scenarios /\ lp \in BOOLEAN /\ mark = {}
    /\ head = Sentinel /\ tail = Sentinel
    /\ next = [n \in Nodes |-> Null]
    /\ repl = [n \in Nodes |-> Kept]
    /\ disk = [head |-> head, next |-> next, repl |-> repl]
    /\ mem = [t \in Threads |-> [i \in DOMAIN prog[t] |->
                 [node |-> 0, hn |-> [ts |-> 0, h |-> Null, n |-> Null], failed |-> 0]]]
    /\ clock = [t \in Threads |-> 0]
    /\ th = [t \in Threads |-> Start(t)]
    /\ retired = {}
    /\ tcrash = [t \in Threads |-> 0]
    /\ scrash = 0
    /\ queue = <<>>
    /\ res = [t \in Threads |-> [i \in DOMAIN prog[t] |-> Null]]

-----------------------------------------------------------------------------

At(t, pc) == th[t].pc = pc
Goto(t, pc) == th' = [th EXCEPT ![t].pc = pc]
Mem(t) == mem[t][th[t].i]
Node(t) == <<t, th[t].i>>

\* A record counts in recovery if it is later than what was replayed last.
Replays(t, ts) == th[t].rec /\ ts > th[t].lmax

Return(t, v) ==
    /\ res' = [res EXCEPT ![t][th[t].i] = v]
    /\ th' = [th EXCEPT ![t] = [Start(t) EXCEPT !.rec = th[t].rec, !.lmax = th[t].lmax, !.i = th[t].i + 1,
                     !.pc = IF th[t].i = Len(prog[t]) THEN "done" ELSE prog[t][th[t].i + 1]]]

\* What is on the media matters only while a power failure is to come.
Durable == scrash < scenario.scrash
FlushNext(n) == disk' = IF Durable THEN [disk EXCEPT !.next[n] = next[n]] ELSE disk
FlushRepl(n) == disk' = IF Durable THEN [disk EXCEPT !.repl[n] = repl[n]] ELSE disk

-----------------------------------------------------------------------------
\* enqueue, try_enqueue.

MakeNode(t) ==
    /\ At(t, "enq")
    /\ \/ /\ Replays(t, Mem(t).node)
          /\ th' = [th EXCEPT ![t].lmax = Mem(t).node, ![t].pc = "tail"]
          /\ UNCHANGED <<mem, clock>>
       \/ /\ ~Replays(t, Mem(t).node)
          /\ clock' = [clock EXCEPT ![t] = @ + 1]
          /\ mem' = [mem EXCEPT ![t][th[t].i].node = clock'[t]]
          /\ th' = [th EXCEPT ![t].rec = FALSE, ![t].pc = "tail"]
    /\ UNCHANGED <<shared, crashes, setup, res>>

LoadTail(t) ==
    /\ At(t, "tail")
    /\ th' = [th EXCEPT ![t].tl = tail, ![t].pc = "next"]
    /\ UNCHANGED <<shared, mem, clock, crashes, setup, res>>

\* Variant: the mark is removed and the link is not flushed.
PersistLink_unflushed(n) == UNCHANGED disk

PersistLink(n) == FlushNext(n)

\* load_lp: after PATIENCE a thread that loads a marked link flushes it.
LoadLp(t) ==
    /\ LET n == IF At(t, "dnext") THEN th[t].h ELSE th[t].tl IN
        /\ th[t].pc \in {"next", "cas", "failed", "dnext"}
        /\ n \in mark
        /\ PersistLink(n)
        /\ mark' = mark \ {n}
    /\ UNCHANGED <<head, tail, next, repl, retired, queue, mem, clock, th, crashes, setup, res>>

LoadNext(t) ==
    /\ At(t, "next") /\ th[t].tl \notin mark
    /\ Goto(t, IF next[th[t].tl] # Null THEN "stale" ELSE IF th[t].rec THEN "acked" ELSE "cas")
    /\ UNCHANGED <<shared, mem, clock, crashes, setup, res>>

\* Variant: a stale tail stays where it is.
SwingTail_never(old, new) == UNCHANGED tail

SwingTail(old, new) == tail' = IF tail = old THEN new ELSE tail

\* The tail is stale: the link is flushed before the tail moves past it.
HelpTail(t) ==
    /\ At(t, "stale")
    /\ IF lp THEN UNCHANGED disk ELSE FlushNext(th[t].tl)
    /\ SwingTail(th[t].tl, next[th[t].tl])
    /\ Goto(t, "tail")
    /\ UNCHANGED <<head, next, mark, repl, retired, queue, mem, clock, crashes, setup, res>>

-----------------------------------------------------------------------------
\* insert_result: acked, contains, acked again, check_failed.

acked(t) == repl[Node(t)] # Kept

Acked(t) ==
    /\ At(t, "acked")
    /\ IF acked(t) THEN Return(t, Node(t)) ELSE Goto(t, "contains") /\ UNCHANGED res
    /\ UNCHANGED <<shared, mem, clock, crashes, setup>>

\* The walk from head flushes the links it follows, the marked ones if the
\* queue marks them.  A link never changes and t's own node is linked by t
\* alone, so one step can stand for it.
Traverse(t) ==
    /\ At(t, "contains")
    /\ LET walk == Reach(next, head)
           found == Node(t) \in walk
           seen == {n \in walk : found => n # Node(t) /\ Node(t) \in Reach(next, n)} IN
        /\ disk' = IF Durable
                   THEN [disk EXCEPT !.head = IF lp THEN disk.head ELSE head,
                            !.next = [n \in Nodes |-> IF n \in seen /\ (lp => n \in mark)
                                                      THEN next[n] ELSE disk.next[n]]]
                   ELSE disk
        /\ mark' = mark \ seen
        /\ IF found THEN Return(t, Node(t)) ELSE Goto(t, "recheck") /\ UNCHANGED res
    /\ UNCHANGED <<head, tail, next, repl, retired, queue, mem, clock, crashes, setup>>

Recheck(t) ==
    /\ At(t, "recheck")
    /\ \/ acked(t) /\ Return(t, Node(t))
       \/ /\ ~acked(t)
          /\ th' = [th EXCEPT ![t] =
                IF Mem(t).failed > th[t].lmax THEN [th[t] EXCEPT !.lmax = Mem(t).failed, !.pc = "failed"]
                ELSE [th[t] EXCEPT !.rec = FALSE, !.pc = "cas"]]
          /\ UNCHANGED res
    /\ UNCHANGED <<shared, mem, clock, crashes, setup>>

\* The insert had failed: the link is loaded, and try_enqueue starts again.
Retry(t) ==
    /\ At(t, "failed") /\ th[t].tl \notin mark
    /\ Goto(t, "tail")
    /\ UNCHANGED <<shared, mem, clock, crashes, setup, res>>

-----------------------------------------------------------------------------
\* insert, insert_lp.

\* Failed::record
RecordFailure(t) ==
    /\ clock' = [clock EXCEPT ![t] = @ + 1]
    /\ mem' = [mem EXCEPT ![t][th[t].i].failed = clock'[t]]

\* Variant: the link is stored instead of swapped.
unlinked_always(t) == TRUE

unlinked(t) == next[th[t].tl] = Null

Insert(t) ==
    /\ At(t, "cas")
    /\ \/ /\ unlinked(t)
          /\ next' = [next EXCEPT ![th[t].tl] = Node(t)]
          /\ mark' = IF lp THEN mark \cup {th[t].tl} ELSE mark
          /\ queue' = Append(queue, Node(t))
          /\ Goto(t, "persist")
          /\ UNCHANGED <<mem, clock>>
       \/ /\ ~unlinked(t) /\ th[t].tl \notin mark
          /\ RecordFailure(t)
          /\ Goto(t, "tail")
          /\ UNCHANGED <<next, mark, queue>>
    /\ UNCHANGED <<head, tail, repl, disk, retired, crashes, setup, res>>

Persist(t) ==
    /\ At(t, "persist")
    /\ FlushNext(th[t].tl)
    /\ mark' = mark \ {th[t].tl}
    /\ Goto(t, "advance")
    /\ UNCHANGED <<head, tail, next, repl, retired, queue, mem, clock, crashes, setup, res>>

Advance(t) ==
    /\ At(t, "advance")
    /\ SwingTail(th[t].tl, Node(t))
    /\ Return(t, Node(t))
    /\ UNCHANGED <<head, next, mark, repl, disk, retired, queue, mem, clock, crashes, setup>>

-----------------------------------------------------------------------------
\* dequeue, try_dequeue.

Replay(t) ==
    /\ At(t, "deq")
    /\ LET hn == Mem(t).hn IN
        th' = [th EXCEPT ![t] =
            IF Replays(t, hn.ts) THEN [th[t] EXCEPT !.lmax = hn.ts, !.h = hn.h, !.n = hn.n, !.pc = "delete"]
            ELSE [th[t] EXCEPT !.rec = FALSE, !.pc = "head"]]
    /\ UNCHANGED <<shared, mem, clock, crashes, setup, res>>

\* queue.rs loads head, tail and next in this order, queue_lp.rs head, next
\* and tail.
LoadHead(t) ==
    /\ At(t, "head")
    /\ th' = [th EXCEPT ![t].h = head, ![t].pc = IF lp THEN "dnext" ELSE "dtail"]
    /\ UNCHANGED <<shared, mem, clock, crashes, setup, res>>

\* Variant: the head may pass the tail.
behind_never(t, tl, n) == FALSE

\* The queue has a first node, and the tail has not been moved to it yet.
behind(t, tl, n) == th[t].h = tl /\ n # Null

\* The pair that the closure returns is checkpointed, unless tail is stale.
HeadNext(t, tl, n) ==
    \/ /\ behind(t, tl, n)
       /\ th' = [th EXCEPT ![t].tl = tl, ![t].n = n, ![t].pc = "dstale"]
       /\ UNCHANGED <<mem, clock>>
    \/ /\ ~behind(t, tl, n)
       /\ clock' = [clock EXCEPT ![t] = @ + 1]
       /\ mem' = [mem EXCEPT ![t][th[t].i].hn = [ts |-> clock'[t], h |-> th[t].h, n |-> n]]
       /\ th' = [th EXCEPT ![t].tl = tl, ![t].n = n, ![t].pc = "delete"]

LoadTailToo(t) ==
    /\ At(t, "dtail")
    /\ \/ lp /\ HeadNext(t, tail, th[t].n)
       \/ ~lp /\ th' = [th EXCEPT ![t].tl = tail, ![t].pc = "dnext"] /\ UNCHANGED <<mem, clock>>
    /\ UNCHANGED <<shared, crashes, setup, res>>

\* queue.rs flushes the link if the tail does not show that it was.  Where
\* queue_lp.rs finds no next node, the tail it loads then does not matter.
LoadFirst(t) ==
    /\ At(t, "dnext") /\ th[t].h \notin mark
    /\ LET n == next[th[t].h] IN
        /\ IF ~lp /\ th[t].h = th[t].tl THEN FlushNext(th[t].h) ELSE UNCHANGED disk
        /\ \/ (lp => n = Null) /\ HeadNext(t, th[t].tl, n)
           \/ /\ lp /\ n # Null
              /\ th' = [th EXCEPT ![t].n = n, ![t].pc = "dtail"]
              /\ UNCHANGED <<mem, clock>>
    /\ UNCHANGED <<head, tail, next, mark, repl, retired, queue, crashes, setup, res>>

HelpTailToo(t) ==
    /\ At(t, "dstale")
    /\ SwingTail(th[t].tl, th[t].n)
    /\ Goto(t, "head")
    /\ UNCHANGED <<head, next, mark, repl, disk, retired, queue, mem, clock, crashes, setup, res>>

-----------------------------------------------------------------------------
\* delete, delete_result, load_help.

mine(t) == repl[th[t].h].tid = t

\* The deletion is decided: the name is flushed, the head moves on, and the
\* node is left to the collector.
Unlink(t) ==
    /\ FlushRepl(th[t].h)
    /\ head' = IF head = th[t].h THEN th[t].n ELSE head
    /\ retired' = retired \cup {<<th[t].h, t>>}
    /\ Return(t, th[t].n)
    /\ UNCHANGED <<tail, next, mark, repl, queue, mem, clock, crashes, setup>>

DeleteResult(t) ==
    /\ At(t, "delete")
    /\ \/ /\ th[t].n = Null
          /\ Return(t, Sentinel)
          /\ UNCHANGED <<shared, mem, clock, crashes, setup>>
       \/ /\ th[t].n # Null /\ th[t].rec /\ mine(t)
          /\ Unlink(t)
       \/ /\ th[t].n # Null /\ ~(th[t].rec /\ mine(t))
          /\ th' = [th EXCEPT ![t] =
                IF Replays(t, Mem(t).failed) THEN [th[t] EXCEPT !.lmax = Mem(t).failed, !.pc = "help"]
                ELSE [th[t] EXCEPT !.rec = FALSE, !.pc = "own"]]
          /\ UNCHANGED <<shared, mem, clock, crashes, setup, res>>

free(t) == repl[th[t].h] = Kept

\* The queue after v has left it.
Without(q, v) == IF q # <<>> /\ Head(q) = v THEN Tail(q) ELSE SelectSeq(q, LAMBDA w : w # v)

Own(t) ==
    /\ At(t, "own")
    /\ \/ /\ free(t)
          /\ repl' = [repl EXCEPT ![th[t].h] = [node |-> th[t].n, tid |-> t]]
          /\ queue' = Without(queue, th[t].n)
          /\ Goto(t, "unlink")
          /\ UNCHANGED <<mem, clock>>
       \/ /\ ~free(t)
          /\ RecordFailure(t)
          /\ Goto(t, "help")
          /\ UNCHANGED <<repl, queue>>
    /\ UNCHANGED <<head, tail, next, mark, disk, retired, crashes, setup, res>>

Delete(t) == At(t, "unlink") /\ Unlink(t)

helpable(t) == repl[th[t].h] # Kept /\ head = th[t].h

\* load_help: another thread owns the node; after PATIENCE t moves the head.
LoadHelp(t) ==
    /\ At(t, "help")
    /\ \/ /\ helpable(t)
          /\ FlushRepl(th[t].h)
          /\ head' = repl[th[t].h].node
       \/ ~helpable(t) /\ UNCHANGED <<head, disk>>
    /\ Goto(t, "deq")
    /\ UNCHANGED <<tail, next, mark, repl, retired, queue, mem, clock, crashes, setup, res>>

-----------------------------------------------------------------------------

ThreadCrash(t) ==
    /\ ~At(t, "done")
    /\ tcrash[t] < scenario.tcrash[t]
    /\ tcrash' = [tcrash EXCEPT ![t] = @ + 1]
    /\ th' = [th EXCEPT ![t] = Start(t)]
    /\ UNCHANGED <<shared, mem, clock, scrash, setup, res>>

\* Power fails: every line is on the media as last flushed, or as written
\* back since.  Queue::filter aligns the tail with the head.
SystemCrash ==
    /\ Durable
    /\ scrash' = scrash + 1
    /\ \E N \in SUBSET {n \in Nodes : next[n] # disk.next[n]},
          R \in SUBSET {n \in Nodes : repl[n] # disk.repl[n]},
          h \in {n \in Reach(Replacement(repl), disk.head) : head \in Reach(Replacement(repl), n)} :
        LET nx == [n \in Nodes |-> IF n \in N THEN next[n] ELSE disk.next[n]]
            rp == [n \in Nodes |-> IF n \in R THEN repl[n] ELSE disk.repl[n]] IN
        /\ head' = h /\ tail' = h /\ next' = nx /\ repl' = rp
        /\ disk' = [head |-> h, next |-> nx, repl |-> rp]
        /\ \E M \in SUBSET (IF lp THEN {n \in Nodes : nx[n] # Null} ELSE {}) :
              /\ \A n \in mark : nx[n] # Null => n \in M
              /\ mark' = M
        /\ queue' = Linked(h, nx, rp)
    /\ retired' = {}
    /\ th' = [t \in Threads |-> Start(t)]
    /\ UNCHANGED <<mem, clock, tcrash, setup, res>>

Step(t) ==
    \/ MakeNode(t) \/ LoadTail(t) \/ LoadNext(t) \/ HelpTail(t) \/ Acked(t) \/ Traverse(t)
    \/ Recheck(t) \/ Retry(t) \/ LoadLp(t) \/ Insert(t) \/ Persist(t) \/ Advance(t)
    \/ Replay(t) \/ LoadHead(t) \/ LoadTailToo(t) \/ LoadFirst(t) \/ HelpTailToo(t)
    \/ DeleteResult(t) \/ Own(t) \/ Delete(t) \/ LoadHelp(t)

Next == (\E t \in Threads : Step(t) \/ ThreadCrash(t)) \/ SystemCrash

Spec == Init /\ [][Next]_vars

\* A thread that does not crash keeps running.
FairSpec == Spec /\ \A t \in Threads : WF_vars(Step(t))

-----------------------------------------------------------------------------

\* The values in the queue are, in their order, those that the links lead
\* to from the first node without a deleter's name: no enqueued value hangs
\* off the list, no dequeued one is on it (insert, delete).
Chained(q, n) ==
    /\ next[n] = IF q = <<>> THEN Null ELSE q[1]
    /\ \A k \in DOMAIN q : next[q[k]] = IF k < Len(q) THEN q[k + 1] ELSE Null
QueueFollowsLinks == \E n \in Reach(Replacement(repl), head) : repl[n] = Kept /\ Chained(queue, n)

\* No node is handed to the collector by two threads, and as long as power
\* does not fail one that was handed over can no longer be reached from head
\* or tail (delete defers the destruction of the node that carries its name,
\* try_dequeue moves the tail first).
RetiredByOne == \A r, q \in retired : r[1] = q[1] => r = q
RetiredUnreachable ==
    /\ RetiredByOne
    /\ scrash = 0 => \A r \in retired : r[1] \notin Reach(next, head) \cup Reach(next, tail)

\* Across power failures too, a node handed to the collector is not on the
\* list that starts at head (the comment on defer_persist in delete).
RetiredOffTheList == \A r \in retired : r[1] \notin Reach(next, head)

\* Every operation returns, whoever crashes (load_help and the stale tail
\* are dealt with by whoever meets them).
AllReturn == <>(\A t \in Threads : At(t, "done"))
=============================================================================
