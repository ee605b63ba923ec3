--------------------------- MODULE PoolInvariant ---------------------------
(***************************************************************************)
(* Reclamation is safe (crossbeam-epoch under PoolHandle::execute), for    *)
(* any number of threads and nodes, any programs and any crashes.  The     *)
(* inductive invariant says where a thread is, when its participant is     *)
(* pinned and which epochs it has read (Own), how the epochs that two      *)
(* threads in try_advance have read relate (Anchors), and why no bag with  *)
(* a node that some thread holds can expire (Reclaim).                     *)
(***************************************************************************)
EXTENDS PoolExecute, TLAPS

Bag == UNION {[S -> Nodes] : S \in SUBSET Nat}
Sealed == [epoch : Nat, nodes : Bag]
Result == [op : {"read", "retire"}, node : Nodes \cup {0}]
ThFields == {"pc", "ret", "e", "ge", "todo", "n", "bags", "k"}
LocFields == {"reg", "epoch", "guards", "bag", "pins", "repin"}

Shape ==
    /\ DOMAIN th = Threads /\ DOMAIN loc = Threads /\ DOMAIN mem = Threads
    /\ DOMAIN cleared = Threads /\ DOMAIN clearing = Threads /\ DOMAIN hole = Threads

Types(t) ==
    /\ DOMAIN th[t] = ThFields /\ DOMAIN loc[t] = LocFields
    /\ th[t].e \in Nat /\ th[t].ge \in Nat /\ th[t].k \in Nat \ {0}
    /\ loc[t].epoch \in Nat \cup {None} /\ loc[t].guards \in Nat

Vectors(t) ==
    /\ th[t].bags \in Seq(Bag) /\ loc[t].bag \in Seq(Nodes) /\ mem[t] \in Seq(Result)
    /\ \A k \in DOMAIN mem[t] : mem[t][k].op = "retire" => mem[t][k].node \in Nodes
    /\ th[t].pc = "defer" => th[t].e \in Nodes
    /\ th[t].pc = "sealed" => th[t].bags # <<>>

-----------------------------------------------------------------------------
\* Where a thread is.

Pinning == {"pin", "pin_store"}
Collecting == {"advance", "check", "pop"}
Unpinning == {"unpin", "push", "sealed", "unpin_store"}

\* The thread is at pc, or goes there when it has pinned or collected.
Bound(t, pcs) == th[t].pc \in pcs \/ (th[t].pc \in Pinning \cup Collecting /\ th[t].ret \in pcs)

\* The thread has not looked for its participant yet.
Finding(t) == th[t].pc \in {"off", "find", "find_pin"} \/ (th[t].pc = "clear" /\ th[t].ret = "find")

Returns(t) ==
    /\ th[t].pc \in Pinning => th[t].ret \in {"reset", "barrier", "replay", "repinned"}
    /\ th[t].pc \in Collecting => th[t].ret \in {"found", "registered", "reset", "barrier", "replay", "repinned"}
    /\ th[t].pc \in Unpinning => th[t].ret = "unpinned"
    /\ th[t].pc = "clear" => th[t].ret \in {"find", "repin"}

Clears(t) ==
    /\ clearing[t] => th[t].pc \in {"off", "clear"}
    /\ th[t].pc = "clear" => clearing[t]
    /\ cleared[t] # 0 => clearing[t]

\* A worker never looks for a participant; a root that has looked left a temporary one pinned.
KnowsKind(t) ==
    /\ t \in Roots /\ leaked = {} => Finding(t)
    /\ t \notin Roots =>
           /\ ~Bound(t, {"find", "find_pin", "found", "registered", "reset", "barrier", "wait"})
           /\ th[t].pc = "clear" => th[t].ret = "repin"
           /\ th[t].pc = "off" => ~clearing[t] /\ mem[t] = <<>>
           /\ ~hole[t]

-----------------------------------------------------------------------------
\* When its participant is pinned.

\* The memento is empty while the thread repins, and when a worker starts.
EmptyMemento(t) ==
    \/ th[t].pc \in Unpinning
    \/ Bound(t, {"repin", "unpinned", "repinned"})
    \/ th[t].pc \in Pinning \cup Collecting /\ th[t].ret = "replay"
    => mem[t] = <<>>

\* A participant that is not pinned, although its thread did not die in the hole: nobody counts
\* on it, and the thread is on its way to pin it.
Unsettled(t) ==
    \/ /\ loc[t].guards = 0 /\ ~loc[t].repin
       /\ \/ th[t].pc \in {"off", "find", "find_pin", "found", "registered", "pin"}
          \/ th[t].pc \in Collecting /\ th[t].ret \in {"found", "registered"}
    \/ th[t].pc \in {"pin_store", "unpinned"}
    \/ th[t].pc = "pin" /\ th[t].ret = "repinned"

Pinned(t) ==
    /\ ~loc[t].reg =>
           /\ loc[t].epoch = None /\ loc[t].guards = 0 /\ ~loc[t].repin
           /\ Finding(t) \/ th[t].pc = "found" \/ (th[t].pc \in Collecting /\ th[t].ret = "found")
    /\ EmptyMemento(t)
    /\ th[t].pc \in {"push", "sealed", "unpin_store", "unpinned"} => loc[t].guards = 0
    /\ th[t].pc = "pin" /\ th[t].ret = "repinned" => loc[t].guards = 0
    /\ Bound(t, {"repinned"}) /\ th[t].pc \notin Pinning => loc[t].epoch # None
    /\ loc[t].reg /\ ~hole[t] /\ loc[t].epoch = None => Unsettled(t) /\ ~clearing[t]
    /\ leaked = {} /\ Roots # Threads /\ t \in Roots => mem[t] = <<>>

-----------------------------------------------------------------------------
\* Which epochs it has read.

\* No value that was read from the global epoch is ahead of it.
Behind(t) ==
    /\ loc[t].epoch # None => loc[t].epoch <= epoch
    /\ th[t].pc \in {"pin_store", "find_pin"} => th[t].e <= epoch
    /\ th[t].pc \in {"check", "pop"} => th[t].ge <= epoch

\* A thread in try_advance is pinned itself, or some temporary participant is.
HoldsIt(t) ==
    /\ th[t].pc \in {"advance", "check"} => loc[t].epoch # None \/ leaked # {}
    /\ th[t].pc = "check" /\ loc[t].epoch = None => \E l \in leaked : l[2] = th[t].ge
    /\ th[t].pc = "check" /\ loc[t].epoch # None => t \in th[t].todo \/ loc[t].epoch = th[t].ge

Own(t) == Types(t) /\ Vectors(t) /\ Returns(t) /\ Clears(t) /\ KnowsKind(t) /\ Pinned(t) /\ Behind(t) /\ HoldsIt(t)

\* So the epoch is ahead of the one that such a thread read by at most one, and what another
\* thread read is not ahead, unless that thread will still meet the participant of this one.
Anchored(t) == th[t].pc = "check" /\ loc[t].epoch \in {None, th[t].ge}
Anchors(t) ==
    Anchored(t) =>
        /\ epoch <= th[t].ge + 1
        /\ \A u \in Threads : th[u].pc = "check" =>
               th[u].ge <= th[t].ge \/ (loc[t].epoch # None /\ t \in th[u].todo)

Globals ==
    /\ epoch \in Nat /\ failures \in Nat
    /\ \A l \in leaked : l[2] \in Nat /\ l[2] <= epoch
    /\ queue \in Seq(Sealed)
    /\ linked \subseteq Nodes

-----------------------------------------------------------------------------
\* Why no bag expires too early.

In(n, bag) == \E i \in DOMAIN bag : bag[i] = n

\* The thread has retired n, or is about to.
Retires(t, n) ==
    \/ In(n, loc[t].bag)
    \/ \E i \in DOMAIN th[t].bags : In(n, th[t].bags[i])
    \/ \E k \in DOMAIN mem[t] : mem[t][k].op = "retire" /\ mem[t][k].node = n
    \/ th[t].pc = "defer" /\ th[t].e = n

\* A node of the structure is retired nowhere.
NotRetired(n) ==
    /\ destroyed[n] = 0
    /\ \A i \in DOMAIN queue : ~In(n, queue[i].nodes)
    /\ \A t \in Threads : ~Retires(t, n)

\* A bag sealed with s does not expire as long as t, or a temporary participant, stays pinned:
\* the epoch is at most one ahead, and a thread about to move it further still meets t.
Guarded(t, s) == (loc[t].epoch # None /\ loc[t].epoch <= s) \/ \E l \in leaked : l[2] <= s
Safe(t, s) ==
    /\ epoch <= s + 1
    /\ Guarded(t, s)
    /\ \A u \in Threads : th[u].pc = "check" =>
           th[u].ge <= s \/ (loc[t].epoch # None /\ loc[t].epoch <= s /\ t \in th[u].todo)

\* The bag that is being pushed.
Pushed(t) == th[t].bags[Len(th[t].bags)]

HeldSafely(t, n) ==
    /\ destroyed[n] = 0
    /\ \A i \in DOMAIN queue : In(n, queue[i].nodes) => Safe(t, queue[i].epoch)
    /\ \A u \in Threads : th[u].pc = "sealed" /\ In(n, Pushed(u)) => Safe(t, th[u].e)

Reclaim ==
    /\ \A n \in linked : NotRetired(n)
    /\ \A t \in Threads : \A n \in Held(t) : HeldSafely(t, n)

Inv ==
    /\ Shape /\ Globals
    /\ \A t \in Threads : Own(t) /\ Anchors(t)
    /\ Reclaim

-----------------------------------------------------------------------------
\* Why no node is destroyed twice.

\* A bag that is sealed with s never expires: a temporary participant holds the epoch back.
Frozen(s) ==
    /\ epoch <= s + 1
    /\ \E l \in leaked : l[2] <= s
    /\ \A u \in Threads : th[u].pc = "check" => th[u].ge <= s

Distinct(bag) == \A i, j \in DOMAIN bag : bag[i] = bag[j] => i = j
Queued(n) == \E i \in DOMAIN queue : In(n, queue[i].nodes)

\* The nodes of a bag of the queue are nowhere else.
Lone(i) ==
    /\ Distinct(queue[i].nodes)
    /\ \A n \in Nodes : In(n, queue[i].nodes) =>
           /\ \A k \in DOMAIN queue : In(n, queue[k].nodes) => k = i
           /\ destroyed[n] = 0 /\ \A t \in Threads : ~Retires(t, n)

\* A bag of the queue never expires, or its nodes are nowhere else.
Queues == \A i \in DOMAIN queue : Frozen(queue[i].epoch) \/ Lone(i)

\* A node that was destroyed is nowhere.
Gone ==
    \A n \in Nodes : destroyed[n] = 0 \/ (destroyed[n] = 1 /\ ~Queued(n) /\ \A t \in Threads : ~Retires(t, n))

\* A node is retired by one thread.
Apart == \A n \in Nodes : \A t, u \in Threads : Retires(t, n) /\ Retires(u, n) => t = u

\* A worker, which is never re-executed, retires a node once.
RetiresOnce(t) ==
    /\ Distinct(loc[t].bag)
    /\ \A b \in DOMAIN th[t].bags :
           /\ Distinct(th[t].bags[b])
           /\ \A c \in DOMAIN th[t].bags : \A n \in Nodes : In(n, th[t].bags[b]) /\ In(n, th[t].bags[c]) => b = c
    /\ \A n \in Nodes : Retires(t, n) => ~Queued(n)
    /\ th[t].pc = "replay" => mem[t] = <<>>
    /\ th[t].pc = "defer" => ~In(th[t].e, loc[t].bag)

\* The bags of a thread are what was in the vector; those of a re-executed thread never expire.
Bagged(t) ==
    /\ th[t].bags # <<>> => th[t].pc \in {"push", "sealed"} /\ loc[t].bag = <<>>
    /\ t \in Roots /\ th[t].pc = "sealed" => Frozen(th[t].e)
    /\ t \notin Roots => RetiresOnce(t)

Single == Queues /\ Gone /\ Apart /\ \A t \in Threads : Bagged(t)

-----------------------------------------------------------------------------
\* The facts about Cardinality that the steps use.
Counting ==
    /\ Cardinality({}) = 0 /\ \A x : Cardinality({x}) = 1
    /\ \A m \in Nat : \A S \in SUBSET (1 .. m) : Cardinality(S) \in Nat
=============================================================================
