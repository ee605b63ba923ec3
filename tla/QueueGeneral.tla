---------------------------- MODULE QueueGeneral ----------------------------
(***************************************************************************)
(* The detectable queue of src/ds/queue_general.rs: head, tail and the     *)
(* next pointers of the nodes are detectable CAS locations.                *)
(***************************************************************************)
EXTENDS Mementos

VARIABLES
    head, tail,   \* QueueGeneral::head, QueueGeneral::tail
    next,         \* next[n]: Node::next
    queue         \* history: the values in the queue

queueVars == <<head, tail, next, queue>>

Sentinel == <<0, 0>>

QueueInit ==
    /\ head = Sentinel /\ tail = Sentinel
    /\ next = [n \in Ops \cup {Sentinel} |-> Null]
    /\ queue = <<>>

SwingTail(old, new) == tail' = IF tail = old THEN new ELSE tail

\* enqueue: the node is allocated once.
Enqueue(t) == At(t, "enq") /\ MakeNode(t, "try_enq") /\ UNCHANGED queueVars

TryEnqueue(t) == At(t, "try_enq") /\ Checkpoint(t, "append", "tail") /\ UNCHANGED queueVars

LoadTail(t) ==
    /\ At(t, "tail")
    /\ th' = [th EXCEPT ![t].cur = tail, ![t].pc = "last"]
    /\ UNCHANGED <<queueVars, mmtVars, retired, crashes, res>>

LoadLast(t) ==
    /\ At(t, "last")
    /\ LET n == next[th[t].cur] IN
        \/ n = Null /\ Snap(t, th[t].cur, Null, "append")
        \/ n # Null /\ th' = [th EXCEPT ![t].next = n, ![t].pc = "stale"] /\ UNCHANGED mmtVars
    /\ UNCHANGED <<queueVars, retired, crashes, res>>

HelpTail(t) ==
    /\ At(t, "stale")
    /\ SwingTail(th[t].cur, th[t].next)
    /\ Goto(t, "tail")
    /\ UNCHANGED <<head, next, queue, mmtVars, retired, crashes, res>>

unlinked(t) == next[th[t].cur] = Null

InsertLast(t) ==
    /\ At(t, "append")
    /\ \/ ReplayCas(t, "cas", "forward", "try_enq") /\ UNCHANGED queueVars
       \/ /\ ExecuteCas(t, "cas", unlinked(t), "forward", "try_enq")
          /\ next' = IF unlinked(t) THEN [next EXCEPT ![th[t].cur] = Node(t)] ELSE next
          /\ queue' = IF unlinked(t) THEN Append(queue, Node(t)) ELSE queue
          /\ UNCHANGED <<head, tail>>
    /\ UNCHANGED <<retired, crashes, res>>

\* The outcome of the CAS on the tail does not matter.
ForwardTail(t) ==
    /\ At(t, "forward")
    /\ \/ ReplayCas(t, "forward", "enqueued", "enqueued") /\ UNCHANGED tail
       \/ /\ ExecuteCas(t, "forward", tail = th[t].cur, "enqueued", "enqueued")
          /\ SwingTail(th[t].cur, Node(t))
    /\ UNCHANGED <<head, next, queue, retired, crashes, res>>

Enqueued(t) == At(t, "enqueued") /\ Return(t, Node(t)) /\ UNCHANGED <<queueVars, retired>>

TryDequeue(t) == At(t, "deq") /\ Checkpoint(t, "delete", "head") /\ UNCHANGED queueVars

LoadHead(t) ==
    /\ At(t, "head")
    /\ th' = [th EXCEPT ![t].cur = head, ![t].pc = "first"]
    /\ UNCHANGED <<queueVars, mmtVars, retired, crashes, res>>

\* If there is no next node the tail does not matter, and the pair is
\* recorded.
LoadFirst(t) ==
    /\ At(t, "first")
    /\ LET n == next[th[t].cur] IN
        \/ n = Null /\ Snap(t, th[t].cur, n, "delete")
        \/ n # Null /\ th' = [th EXCEPT ![t].next = n, ![t].pc = "dtail"] /\ UNCHANGED mmtVars
    /\ UNCHANGED <<queueVars, retired, crashes, res>>

\* Variant: the head may pass the tail.
behind_never(t) == FALSE

behind(t) == tail = th[t].cur

CompareTail(t) ==
    /\ At(t, "dtail")
    /\ \/ behind(t) /\ Goto(t, "dstale") /\ UNCHANGED mmtVars
       \/ ~behind(t) /\ Snap(t, th[t].cur, th[t].next, "delete")
    /\ UNCHANGED <<queueVars, retired, crashes, res>>

HelpTailToo(t) ==
    /\ At(t, "dstale")
    /\ SwingTail(th[t].cur, th[t].next)
    /\ Goto(t, "head")
    /\ UNCHANGED <<head, next, queue, mmtVars, retired, crashes, res>>

DeleteFirst(t) ==
    /\ At(t, "delete")
    /\ LET h == th[t].cur
           n == th[t].next IN
        \/ n = Null /\ Return(t, Empty) /\ UNCHANGED queueVars
        \/ n # Null /\ ReplayCas(t, "cas", "dequeued", "deq") /\ UNCHANGED <<queueVars, crashes, res>>
        \/ /\ n # Null
           /\ ExecuteCas(t, "cas", head = h, "dequeued", "deq")
           /\ head' = IF head = h THEN n ELSE head
           /\ queue' = IF head = h THEN SelectSeq(queue, LAMBDA v : v # n) ELSE queue
           /\ UNCHANGED <<tail, next, crashes, res>>
    /\ UNCHANGED retired

Dequeued(t) ==
    /\ At(t, "dequeued")
    /\ Retire(t, th[t].cur)
    /\ Return(t, th[t].next)
    /\ UNCHANGED queueVars

QueueStep(t) ==
    \/ Enqueue(t) \/ TryEnqueue(t) \/ LoadTail(t) \/ LoadLast(t) \/ HelpTail(t)
    \/ InsertLast(t) \/ ForwardTail(t) \/ Enqueued(t)
    \/ TryDequeue(t) \/ LoadHead(t) \/ LoadFirst(t) \/ CompareTail(t) \/ HelpTailToo(t)
    \/ DeleteFirst(t) \/ Dequeued(t)

\* QueueGeneral::filter: the tail is aligned with the head.
FilterQueue == tail' = head /\ UNCHANGED <<head, next, queue>>

-----------------------------------------------------------------------------

\* The values enqueued and not dequeued are those that the links from head
\* lead to, in their order.
QueueFollowsLinks == queue = Tail(Follow(next, head))
=============================================================================
