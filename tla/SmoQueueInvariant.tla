------------------------- MODULE SmoQueueInvariant -------------------------
(***************************************************************************)
(* The inductive invariant of SmoQueue.  Types and names hold always; the  *)
(* rest says what the links, the mementos and the threads are like as long *)
(* as power does not fail, with any number of threads, operations and      *)
(* crashes of threads.                                                     *)
(***************************************************************************)
EXTENDS SmoQueue, TLAPS

\* n has been linked; n carries the name of its deleter; the head has moved past n.
On(n) == n = Sentinel \/ \E m \in Nodes : next[m] = n
Named(n) == repl[n] # Kept
Past(n) == Named(n) /\ n # head

\* n is, or was, the head; the tail has moved past n.
Was(n) == n = head \/ Past(n)
Behind(n) == \E S \in SUBSET Nodes : tail \in S /\ Closed(next, S) /\ n \notin S

\* The first node without a name.
FirstKept == IF Named(head) THEN next[head] ELSE head

-----------------------------------------------------------------------------
\* The list.

LinkTypes(nx) == nx \in [Nodes -> Nodes \cup {Null}]
NameTypes(rp) ==
    /\ DOMAIN rp = Nodes
    /\ \A n \in Nodes : rp[n] = Kept \/ \E m \in Nodes, t \in Threads : rp[n] = [node |-> m, tid |-> t]
ListTypes == head \in Nodes /\ tail \in Nodes /\ LinkTypes(next) /\ NameTypes(repl)

Chain ==
    /\ \A m, n \in Nodes : next[m] # Null /\ next[m] = next[n] => m = n
    /\ \A m \in Nodes : next[m] # Sentinel /\ (next[m] # Null => On(m))
    /\ On(head) /\ On(tail)
    /\ \A m \in Nodes : Named(m) => next[m] # Null /\ repl[m].node = next[m] /\ Behind(m)
    /\ \A m \in Nodes : next[m] # Null => (Past(next[m]) => Past(m)) /\ (next[m] = head => Past(m))

\* Every node that was linked and not passed can be reached from head.
Whole ==
    \A S \in SUBSET Nodes : head \in S /\ Closed(next, S) =>
        \A n \in Nodes : On(n) /\ ~Past(n) => n \in S

Contents == queue \in Seq(Nodes) /\ Chained(queue, FirstKept)

Dead == \A r \in retired : r[1] \in Nodes /\ Past(r[1])

List == Chain /\ Whole /\ Contents /\ Dead

\* What no step undoes while power does not fail.
Grows ==
    \A n \in Nodes :
        /\ next[n] # Null => next'[n] = next[n]
        /\ Named(n) => repl'[n] = repl[n]
        /\ On(n) => On(n)'
        /\ Was(n) => Was(n)'
        /\ Past(n) => Past(n)'
        /\ On(n) /\ Behind(n) => Behind(n)'

-----------------------------------------------------------------------------
\* The threads.

ThFields == {"pc", "i", "rec", "lmax", "tl", "h", "n"}
EnqPcs == {"enq", "tail", "next", "stale", "acked", "contains", "recheck", "failed", "cas", "persist", "advance"}
DeqPcs == {"deq", "head", "dtail", "dnext", "dstale", "delete", "own", "unlink", "help"}

MemTypes(t) ==
    /\ DOMAIN mem[t] = DOMAIN prog[t] /\ DOMAIN res[t] = DOMAIN prog[t] /\ clock[t] \in Nat
    /\ \A j \in DOMAIN prog[t] :
          /\ DOMAIN mem[t][j] = {"node", "hn", "failed"}
          /\ mem[t][j].node \in Nat /\ mem[t][j].failed \in Nat /\ mem[t][j].hn.ts \in Nat
          /\ mem[t][j].hn.ts > 0 => mem[t][j].hn.h \in Nodes /\ mem[t][j].hn.n \in Nodes \cup {Null}

ThTypes(t) ==
    /\ DOMAIN th[t] = ThFields
    /\ th[t].i \in Nat \ {0} /\ th[t].lmax \in Nat /\ th[t].rec \in BOOLEAN /\ th[t].n \in Nodes \cup {Null}
    /\ th[t].pc \in EnqPcs \cup DeqPcs \cup {"done"}
    /\ th[t].pc # "done" => th[t].i \in DOMAIN prog[t]
    /\ th[t].pc \in EnqPcs => prog[t][th[t].i] = "enq"
    /\ th[t].pc \in DeqPcs => prog[t][th[t].i] = "deq"
    /\ th[t].pc \in EnqPcs \ {"enq", "tail"} => th[t].tl \in Nodes
    /\ th[t].pc \in DeqPcs \ {"deq", "head"} => th[t].h \in Nodes
    /\ th[t].pc \in {"dstale", "own", "unlink"} => th[t].n # Null
    /\ th[t].pc = "dstale" => th[t].tl \in Nodes

Shape ==
    /\ scenario \in Scenarios /\ scrash \in Nat
    /\ DOMAIN th = Threads /\ DOMAIN mem = Threads /\ DOMAIN clock = Threads /\ DOMAIN res = Threads

DiskTypes ==
    /\ DOMAIN disk = {"head", "next", "repl"}
    /\ disk.head \in Nodes /\ LinkTypes(disk.next) /\ NameTypes(disk.repl)

Types == Shape /\ ListTypes /\ DiskTypes /\ \A t \in Threads : MemTypes(t) /\ ThTypes(t)

\* A thread retires the nodes that carry its name; the link that made it help is there.
Owner(r) == r[1] \in Nodes /\ r[2] \in Threads /\ r = <<r[1], r[2]>> /\ repl[r[1]].tid = r[2]
Sees(t) ==
    /\ th[t].pc = "unlink" => repl[th[t].h].tid = t
    /\ th[t].pc = "stale" => next[th[t].tl] # Null
Owners == (\A r \in retired : Owner(r)) /\ \A t \in Threads : Sees(t)

\* What a thread knows of the list where it is.
Knows(t) ==
    LET l == th[t] IN
    /\ l.pc \in EnqPcs \ {"enq", "tail"} => On(l.tl)
    /\ l.pc \in {"persist", "advance"} => next[l.tl] = Node(t)
    /\ l.pc \in {"dtail", "dnext", "dstale"} => Was(l.h) /\ repl[l.h].tid # t
    /\ l.pc = "dtail" /\ lp => l.n # Null /\ next[l.h] = l.n
    /\ l.pc = "dnext" /\ ~lp /\ l.h # l.tl => Behind(l.h)
    /\ l.pc = "dstale" => l.tl = l.h /\ next[l.h] = l.n
    /\ l.pc \in {"delete", "own", "unlink", "help"} =>
           mem[t][l.i].hn.ts > 0 /\ l.h = mem[t][l.i].hn.h /\ l.n = mem[t][l.i].hn.n
    /\ l.pc = "help" => l.n # Null

\* The pair of nodes that a dequeue works on: the first was the head, and the tail has passed it.
Paired(t, j) ==
    mem[t][j].hn.ts > 0 =>
        /\ Was(mem[t][j].hn.h)
        /\ mem[t][j].hn.n # Null => next[mem[t][j].hn.h] = mem[t][j].hn.n /\ Behind(mem[t][j].hn.h)
Pairs(t) == \A j \in DOMAIN prog[t] : prog[t][j] = "deq" => Paired(t, j)

-----------------------------------------------------------------------------
\* Exactly once.

\* Operation j of t has taken effect.
Did(t, j) ==
    IF prog[t][j] = "enq" THEN On(<<t, j>>)
    ELSE mem[t][j].hn.ts > 0 /\ (mem[t][j].hn.n = Null \/ repl[mem[t][j].hn.h].tid = t)

Stamps(t, j) == {mem[t][j].node, mem[t][j].hn.ts, mem[t][j].failed}

\* A thread records nothing for an operation before the earlier ones have taken effect, and its
\* records are in the order of time; replay has not gone past the records of later operations.
Unrecorded(t) ==
    \A k \in DOMAIN prog[t] : k > th[t].i => \A b \in Stamps(t, k) : b > 0 => th[t].rec /\ th[t].lmax < b
Ordered(t) ==
    /\ th[t].lmax <= clock[t]
    /\ \A j \in DOMAIN prog[t] : \A a \in Stamps(t, j) : a <= clock[t]
    /\ \A j, k \in DOMAIN prog[t] : j < k => \A b \in Stamps(t, k) : b > 0 =>
           Did(t, j) /\ \A a \in Stamps(t, j) : a < b
    /\ Unrecorded(t)

\* A thread that is about to make an operation take effect has not done so before.
Once(t) ==
    LET l == th[t] IN
    /\ l.pc \in {"acked", "contains", "recheck", "failed"} => l.rec
    /\ l.pc \in {"cas", "persist", "advance", "head", "dtail", "dnext", "dstale", "own", "unlink"} => ~l.rec
    /\ ~l.rec /\ l.pc \in {"enq", "tail", "next", "stale", "cas", "deq", "head", "dtail", "dnext", "dstale"}
           => ~Did(t, l.i)
    /\ l.pc \in {"own", "help"} => ~Did(t, l.i)
    /\ l.pc = "delete" /\ ~l.rec /\ l.n # Null => ~Did(t, l.i)
    /\ l.pc = "enq" /\ l.rec /\ Did(t, l.i) => mem[t][l.i].node > l.lmax
    /\ l.pc = "deq" /\ l.rec /\ Did(t, l.i) => mem[t][l.i].hn.ts > l.lmax
    /\ l.pc = "recheck" /\ On(Node(t)) => Named(Node(t))
    /\ l.pc \in EnqPcs \ {"enq"} => mem[t][l.i].node > 0

\* A node was recorded before it was linked, and a pair before the first was named.
Made(t) == \A j \in DOMAIN prog[t] : prog[t][j] = "enq" /\ On(<<t, j>>) => mem[t][j].node > 0
Left(t) ==
    \A n \in Nodes : repl[n].tid = t =>
        \E j \in DOMAIN prog[t] :
            prog[t][j] = "deq" /\ mem[t][j].hn.ts > 0 /\ mem[t][j].hn.h = n /\ mem[t][j].hn.n # Null

\* What an operation that took effect did.
Deed(t, j) == IF prog[t][j] = "enq" THEN <<t, j>> ELSE IF mem[t][j].hn.n = Null THEN Sentinel ELSE mem[t][j].hn.n

\* What was returned is what was done; the head has passed the nodes that t removed by the
\* operations before the running one.
Returned(t) ==
    /\ \A j \in DOMAIN prog[t] : res[t][j] # Null => Did(t, j) /\ res[t][j] = Deed(t, j)
    /\ \A j \in DOMAIN prog[t] : j < th[t].i =>
           /\ res[t][j] # Null
           /\ prog[t][j] = "deq" /\ mem[t][j].hn.n # Null => Past(mem[t][j].hn.h)

Mementos(t) == Pairs(t) /\ Ordered(t) /\ Returned(t)
Mine(t) == Made(t) /\ Left(t)

Calm == List /\ \A t \in Threads : Mementos(t) /\ Mine(t) /\ Knows(t) /\ Once(t)

Inv == Types /\ Owners /\ (scrash = 0 => Calm)

-----------------------------------------------------------------------------
\* A step of t.

\* Where t goes, with what in its local variables.
Goes(t, pc, rec, lmax, tl, h, n) ==
    /\ DOMAIN th' = Threads /\ (\A u \in Threads \ {t} : th'[u] = th[u])
    /\ DOMAIN th'[t] = ThFields /\ th'[t].i = th[t].i
    /\ th'[t].pc = pc /\ th'[t].rec = rec /\ th'[t].lmax = lmax
    /\ th'[t].tl = tl /\ th'[t].h = h /\ th'[t].n = n

\* The other threads stay where they are.
Others(t) ==
    /\ DOMAIN th' = Threads /\ DOMAIN mem' = Threads /\ DOMAIN clock' = Threads /\ DOMAIN res' = Threads
    /\ \A u \in Threads \ {t} : th'[u] = th[u] /\ mem'[u] = mem[u] /\ clock'[u] = clock[u] /\ res'[u] = res[u]

\* t records something for its operation i, at the next time of its clock.
Records(t, i) ==
    /\ DOMAIN mem' = Threads /\ DOMAIN clock' = Threads
    /\ \A u \in Threads \ {t} : mem'[u] = mem[u] /\ clock'[u] = clock[u]
    /\ clock'[t] = clock[t] + 1
    /\ \A j \in DOMAIN prog[t] : j # i => mem'[t][j] = mem[t][j]
    /\ mem'[t][i].node \in {mem[t][i].node, clock'[t]}
    /\ mem'[t][i].hn.ts \in {mem[t][i].hn.ts, clock'[t]}
    /\ mem'[t][i].failed \in {mem[t][i].failed, clock'[t]}

\* No node of u is linked, and no node gets the name of u.
Unmade(u) == \A n \in Nodes : (n[1] = u /\ On(n)' => On(n)) /\ (repl'[n].tid = u => repl[n].tid = u)

\* What a step of t may do to the list.
ListStep(t) ==
    /\ UNCHANGED <<setup, scrash>> /\ ListTypes'
    /\ \A n \in Nodes : (Named(n) => repl'[n] = repl[n]) /\ (next[n] # Null => next'[n] = next[n])
    /\ \A r \in retired' : r \in retired \/ (r[1] \in Nodes /\ r = <<r[1], t>> /\ repl[r[1]].tid = t)
    /\ scrash = 0 => List' /\ Grows /\ \A u \in Threads \ {t} : Unmade(u)

\* How it may leave t.
ThreadStep(t) ==
    /\ DiskTypes' /\ MemTypes(t)' /\ ThTypes(t)' /\ Sees(t)'
    /\ scrash = 0 => Mementos(t)' /\ Mine(t)' /\ Knows(t)' /\ Once(t)'
=============================================================================
