------------------------- MODULE SmoQueueRefinement -------------------------
(***************************************************************************)
(* As long as power does not fail, SmoQueue implements the FIFO queue of   *)
(* Containers: the successful compare-and-swap of insert is the enqueue,   *)
(* that of delete the dequeue, and the checkpoint of a pair without a next *)
(* node the dequeue that finds nothing.                                    *)
(***************************************************************************)
EXTENDS SmoQueueProofs, SmoQueueFifo

\* The results are kept for every operation.
Results ==
    /\ res = [t \in Threads |-> res[t]]
    /\ \A t \in Threads : res[t] = [j \in DOMAIN prog[t] |-> res[t][j]]

\* What the mementos and the nodes show is what the operations did.
Shown ==
    \A t \in Threads : \A j \in DOMAIN prog[t] : Shows(t, j) = IF Did(t, j) THEN Deed(t, j) ELSE Null

\* The effects that the mementos and the nodes show are those of the operations that took effect.
LEMMA EffectShown == Inv => Shown
<1> SUFFICES ASSUME Inv, NEW t \in Threads, NEW j \in DOMAIN prog[t]
             PROVE  Shows(t, j) = IF Did(t, j) THEN Deed(t, j) ELSE Null
  BY Zenon DEF Shown
<1>1. prog[t][j] \in {"enq", "deq"} /\ mem[t][j].hn.ts \in Nat
  <2>1. prog[t] \in Seq({"enq", "deq"}) /\ mem[t][j].hn.ts \in Nat
    BY QueueAssumption, Zenon DEF Inv, Types, Shape, prog, MemTypes
  <2> QED
    BY <2>1
<1>2. CASE prog[t][j] = "enq"
  <2>1. On(<<t, j>>) <=> \E n \in Nodes : next[n] = <<t, j>>
    BY NodeFacts, Zenon DEF On
  <2> QED
    BY <1>2, <2>1, Zenon DEF Did, Deed, Shows
<1>3. CASE prog[t][j] = "deq"
  <2>1. Did(t, j) <=> mem[t][j].hn.ts # 0 /\ (mem[t][j].hn.n = Null \/ repl[mem[t][j].hn.h].tid = t)
    BY <1>1, <1>3 DEF Did
  <2> QED
    BY <1>3, <2>1 DEF Deed, Shows
<1> QED
  BY <1>1, <1>2, <1>3

\* No step but those that link a node, name a node or record a pair has an effect.
LEMMA EffectStays ==
    ASSUME scenario' = scenario, next' = next, repl' = repl,
           \A t \in Threads : \A j \in DOMAIN prog[t] : mem'[t][j].hn = mem[t][j].hn
    PROVE  Effect' = Effect
<1>1. Nodes' = Nodes /\ prog' = prog
  BY Zenon DEF Nodes, Ops, prog
<1>2. \A t \in Threads : \A j \in DOMAIN prog[t] : Shows(t, j)' = Shows(t, j)
  BY <1>1, Zenon DEF Shows
<1> QED
  BY <1>1, <1>2 DEF Effect

\* A step without effect or result is no step of the abstract queue.
LEMMA QuietIsStutter ==
    ASSUME scenario' = scenario, queue' = queue, res' = res, Effect' = Effect
    PROVE  UNCHANGED Fifo!vars
<1>1. prog' = prog
  BY Zenon DEF prog
<1> QED
  BY <1>1 DEF Fifo!vars

\* Operations on queues never look for keys.
Unseen == \A t \in Threads : Fifo!Sees(t, {}) = {}

\* The programs of SmoQueue have no operations on sets.
LEMMA NothingSeen == scenario \in Scenarios => Unseen
<1> SUFFICES ASSUME scenario \in Scenarios, NEW t \in Threads PROVE Fifo!Sees(t, {}) = {}
  BY Zenon DEF Unseen
<1>1. prog[t] \in Seq({"enq", "deq"})
  BY QueueAssumption, Zenon DEF prog
<1>2. \A i \in DOMAIN prog[t] : prog[t][i] \notin Fifo!Inserts \cup Fifo!Deletes
  BY <1>1 DEF Fifo!Inserts, Fifo!Deletes
<1> QED
  BY <1>2, Zenon DEF Fifo!Sees

\* What holds of every state holds of the next one.
LEMMA InTheNextState == (Inv' => Shown') /\ (scenario' \in Scenarios => Unseen')
<1>1. (scenario \in Scenarios)' => Unseen'
  BY NothingSeen, PTL
<1>2. Inv' => Shown'
  BY EffectShown, PTL
<1> QED
  BY <1>1, <1>2

\* The part of the abstract specification that is about keys has nothing to do.
LEMMA Watching == ASSUME scenario \in Scenarios, scenario' = scenario PROVE Fifo!Watch
<1>1. Unseen'
  BY InTheNextState, Zenon
<1> QED
  BY <1>1 DEF Fifo!Watch, Unseen

-----------------------------------------------------------------------------
\* The steps of the abstract queue.

\* What t is in the middle of, and has not done, is open in the abstract queue.
LEMMA NotDoneIsOpen ==
    ASSUME Inv, scrash = 0, NEW t \in Threads, NEW i \in DOMAIN prog[t], i = th[t].i, ~Did(t, i), NEW o, o = <<t, i>>
    PROVE  o \in Fifo!Ops /\ o[1] = t /\ o[2] = i /\ Fifo!Open(o) /\ Fifo!Kind(o) = prog[t][i]
<1>1. o[1] = t /\ o[2] = i
  OBVIOUS
<1>2. o \in Fifo!Ops
  BY DEF Fifo!Ops
<1>3. Effect[t][i] = Null
  BY EffectShown DEF Shown, Effect
<1>4. Returned(t) /\ prog[t] \in Seq({"enq", "deq"})
  BY QueueAssumption, Zenon DEF Inv, Calm, Mementos, Types, Shape, prog
<1>5. res[t][i] = Null /\ \A j \in DOMAIN prog[t] : j < i => res[t][j] # Null
  BY <1>4, Zenon DEF Returned
<1>6. \A j \in 1..i : res[t][j] = Null <=> j = i
  <2>1. \A j \in 1..i : j = i \/ (j \in DOMAIN prog[t] /\ j < i)
    BY <1>4
  <2> QED
    BY <1>5, <2>1, Zenon
<1>7. Fifo!Open(o)
  BY <1>1, <1>3, <1>6, Zenon DEF Fifo!Open, Fifo!Pending, Null
<1>8. Fifo!Kind(o) = prog[t][i]
  BY <1>1, Zenon DEF Fifo!Kind
<1> QED
  BY <1>1, <1>2, <1>7, <1>8, Zenon

\* Only operation i of t has an effect.
LEMMA EffectTaken ==
    ASSUME scenario' = scenario, NEW t \in Threads, NEW i \in DOMAIN prog[t], NEW v, Shows(t, i)' = v,
           \A u \in Threads : \A j \in DOMAIN prog[u] : u # t \/ j # i => Shows(u, j)' = Shows(u, j)
    PROVE  Effect' = [Effect EXCEPT ![t][i] = v]
<1>1. prog' = prog
  BY Zenon DEF prog
<1>2. Effect' = [u \in Threads |-> [j \in DOMAIN prog[u] |-> Shows(u, j)']]
  BY <1>1, Zenon DEF Effect
<1>3. Effect'[t] = [Effect[t] EXCEPT ![i] = v]
  BY <1>2, Zenon DEF Effect
<1>4. \A u \in Threads : u # t => Effect'[u] = Effect[u]
  BY <1>2 DEF Effect
<1> QED
  BY <1>2, <1>3, <1>4, Zenon DEF Effect

\* A return is the return of the abstract operation, or the repetition of one by a re-execution.
LEMMA ReturnIsReturn ==
    ASSUME Inv, Inv', Results, scrash = 0, scrash' = 0, NEW t \in Threads, th[t].pc # "done", NEW v, v # Null, Return(t, v),
           scenario' = scenario, queue' = queue, Effect' = Effect
    PROVE  [Fifo!Next]_(Fifo!vars)
<1>1. PICK i \in DOMAIN prog[t] : i = th[t].i
  BY Zenon DEF Inv, Types, ThTypes
<1>2. res' = [res EXCEPT ![t][i] = v]
  BY <1>1, Zenon DEF Return
<1>3. DOMAIN res = Threads /\ DOMAIN res[t] = DOMAIN prog[t] /\ prog' = prog /\ scenario \in Scenarios
  BY Zenon DEF Inv, Types, Shape, MemTypes, prog
<1>4. res'[t][i] = v
  BY <1>2, <1>3
<1>5. Returned(t) /\ Returned(t)'
  BY Zenon DEF Inv, Calm, Mementos
<1>6. Shown /\ Shown'
  BY EffectShown, InTheNextState, Zenon
<1>7. Effect[t][i] = Shows(t, i) /\ Effect'[t][i] = Shows(t, i)'
  BY <1>3 DEF Effect
<1>8. Effect[t][i] = v
  <2>1. Did(t, i)' /\ v = Deed(t, i)'
    BY <1>3, <1>4, <1>5, Zenon DEF Returned
  <2> QED
    BY <1>3, <1>6, <1>7, <2>1, Zenon DEF Shown
<1>9. CASE res[t][i] = Null
  <2>1. <<t, i>>[1] = t /\ <<t, i>>[2] = i /\ <<t, i>> \in Fifo!Ops
    BY DEF Fifo!Ops
  <2>2. Fifo!Return(<<t, i>>)
    <3>1. res' = [res EXCEPT ![t][i] = Effect[t][i]]
      BY <1>2, <1>8, Zenon
    <3>2. UNCHANGED <<queue, <<>>, {}, Effect>>
      OBVIOUS
    <3> QED
      BY <1>8, <1>9, <2>1, <3>1, <3>2, Zenon DEF Fifo!Return, Fifo!Pending, Null
  <2>3. Fifo!Watch
    BY <1>3, Watching, Zenon
  <2> QED
    BY <1>3, <2>1, <2>2, <2>3, Zenon DEF Fifo!Next
<1>10. CASE res[t][i] # Null
  <2>1. res[t][i] = v
    BY <1>5, <1>6, <1>8, <1>10, <1>7, Zenon DEF Returned, Shown
  <2>2. res' = res
    BY <1>2, <1>3, <2>1, Zenon DEF Results
  <2> QED
    BY <2>2, QuietIsStutter, Zenon
<1> QED
  BY <1>9, <1>10

\* insert links the node: this is the enqueue.
LEMMA InsertIsEnqueue ==
    ASSUME Inv, scrash = 0, NEW t \in Threads, Insert(t)
    PROVE  [Fifo!Next]_(Fifo!vars)
<1>1. th[t].pc = "cas" /\ th[t].pc \in EnqPcs /\ th[t].pc # "done"
  BY Zenon DEF Insert, At, EnqPcs
<1>2. Types /\ ThTypes(t) /\ MemTypes(t) /\ Once(t) /\ scenario \in Scenarios
  BY <1>1, Running, Zenon DEF Types, Shape
<1>3. PICK i \in DOMAIN prog[t] : i = th[t].i /\ prog[t][i] = "enq"
  BY <1>1, <1>2, Zenon DEF ThTypes
<1>4. PICK l \in Nodes : l = th[t].tl
  BY <1>1, <1>2, Zenon DEF ThTypes, EnqPcs
<1>5. ~Did(t, i)
  BY <1>1, <1>2, <1>3, Zenon DEF Once
<1>6. repl' = repl /\ res' = res /\ scenario' = scenario
  BY Zenon DEF Insert, setup
<1>7. Nodes' = Nodes /\ prog' = prog
  BY <1>6, Zenon DEF Nodes, Ops, prog
<1>8. CASE unlinked(t)
  <2>1. next[l] = Null /\ next' = [next EXCEPT ![l] = <<t, i>>] /\ queue' = Append(queue, <<t, i>>) /\ mem' = mem
    BY <1>3, <1>4, <1>8, Zenon DEF Insert, unlinked, Node
  <2>2. next'[l] = <<t, i>> /\ \A n \in Nodes : n # l => next'[n] = next[n]
    BY <1>2, <1>4, <2>1 DEF Types, ListTypes, LinkTypes
  <2>3. Shows(t, i)' = <<t, i>>
    BY <1>3, <1>4, <1>7, <2>2, Zenon DEF Shows
  <2>4. ASSUME NEW u \in Threads, NEW j \in DOMAIN prog[u], u # t \/ j # i PROVE Shows(u, j)' = Shows(u, j)
    <3>1. <<u, j>> # <<t, i>> /\ <<u, j>> # Null
      BY <2>4 DEF Null
    <3>2. (\E n \in Nodes : next'[n] = <<u, j>>) <=> \E n \in Nodes : next[n] = <<u, j>>
      BY <2>1, <2>2, <3>1, Zenon
    <3>3. CASE prog[u][j] = "enq"
      BY <1>7, <3>2, <3>3, Zenon DEF Shows
    <3>4. CASE prog[u][j] # "enq"
      BY <1>6, <1>7, <2>1, <3>4, Zenon DEF Shows
    <3> QED
      BY <3>3, <3>4
  <2>5. Effect' = [Effect EXCEPT ![t][i] = <<t, i>>]
    BY <1>6, <2>3, <2>4, EffectTaken, ZenonT(40)
  <2>6. PICK o : o = <<t, i>>
    BY Zenon
  <2>7. o \in Fifo!Ops /\ o[1] = t /\ o[2] = i /\ Fifo!Open(o) /\ Fifo!Kind(o) = "enq"
    BY <1>3, <1>5, <2>6, NotDoneIsOpen
  <2>8. Fifo!Enqueue(o)
    <3>1. Fifo!Takes(o, o)
      BY <1>6, <2>5, <2>6, <2>7, Zenon DEF Fifo!Takes
    <3>2. UNCHANGED <<<<>>, {}>>
      OBVIOUS
    <3> QED
      BY <2>1, <2>6, <2>7, <3>1, <3>2, Zenon DEF Fifo!Enqueue
  <2> QED
    BY <1>2, <1>6, <1>7, <2>8, <2>7, Watching, Zenon DEF Fifo!Next
<1>9. CASE ~unlinked(t)
  <2>1. RecordFailure(t) /\ next' = next /\ queue' = queue
    BY <1>9, Zenon DEF Insert
  <2>2. \A u \in Threads : \A j \in DOMAIN prog[u] : mem'[u][j].hn = mem[u][j].hn
    BY <1>2, <1>3, <2>1 DEF RecordFailure, Types, Shape, MemTypes
  <2> QED
    BY <1>6, <2>1, <2>2, EffectStays, QuietIsStutter, Zenon
<1> QED
  BY <1>8, <1>9

\* delete leaves the name of the thread in the head: this is the dequeue.
LEMMA OwnIsDequeue ==
    ASSUME Inv, scrash = 0, NEW t \in Threads, Own(t)
    PROVE  [Fifo!Next]_(Fifo!vars)
<1>1. th[t].pc = "own" /\ th[t].pc \in DeqPcs /\ th[t].pc # "done"
  BY Zenon DEF Own, At, DeqPcs
<1>2. Types /\ ThTypes(t) /\ MemTypes(t) /\ Once(t) /\ Knows(t) /\ Mementos(t) /\ List /\ scenario \in Scenarios
  BY <1>1, Running, Zenon DEF Types, Shape
<1>3. PICK i \in DOMAIN prog[t] : i = th[t].i /\ prog[t][i] = "deq"
  BY <1>1, <1>2, Zenon DEF ThTypes
<1>4. PICK h \in Nodes, n \in Nodes : h = th[t].h /\ n = th[t].n /\ n # Null
  BY <1>1, <1>2, Zenon DEF ThTypes, DeqPcs
<1>5. ~Did(t, i) /\ mem[t][i].hn.ts > 0 /\ mem[t][i].hn.h = h /\ mem[t][i].hn.n = n
  BY <1>1, <1>2, <1>3, <1>4, Zenon DEF Once, Knows
<1>6. next' = next /\ res' = res /\ scenario' = scenario /\ UNCHANGED <<scenario, head, tail, next, retired>>
  BY Zenon DEF Own, setup
<1>7. Nodes' = Nodes /\ prog' = prog
  BY <1>6, Zenon DEF Nodes, Ops, prog
<1>8. CASE free(t)
  <2>1. repl[h] = Kept /\ ~Named(h) /\ repl' = [repl EXCEPT ![h] = [node |-> n, tid |-> t]] /\ queue' = Without(queue, n) /\ mem' = mem
    BY <1>4, <1>8, Zenon DEF Own, free, Named
  <2>2. repl[h].tid = 0 /\ repl'[h].tid = t /\ \A m \in Nodes : m # h => repl'[m] = repl[m]
    BY <1>2, <1>4, <2>1 DEF Types, ListTypes, NameTypes, Kept
  <2>3. queue # <<>> /\ Head(queue) = n /\ queue' = Tail(queue)
    <3>1. Was(h) /\ next[h] = n /\ Behind(h)
      BY <1>2, <1>3, <1>4, <1>5, Zenon DEF Mementos, Pairs, Paired
    <3>2. h = head /\ ListTypes
      BY <1>2, <2>1, <3>1, Zenon DEF Was, Past, Types
    <3> QED
      BY <1>2, <1>4, <1>6, <2>1, <3>1, <3>2, Naming, Zenon
  <2>4. Shows(t, i)' = n
    <3>1. mem[t][i].hn.ts # 0
      BY <1>2, <1>5 DEF MemTypes
    <3> QED
      BY <1>3, <1>4, <1>5, <1>7, <2>1, <2>2, <3>1, Zenon DEF Shows
  <2>5. ASSUME NEW u \in Threads, NEW j \in DOMAIN prog[u], u # t \/ j # i PROVE Shows(u, j)' = Shows(u, j)
    <3>1. CASE prog[u][j] = "enq" \/ mem[u][j].hn.ts = 0 \/ mem[u][j].hn.n = Null
      BY <1>6, <1>7, <2>1, <3>1, Zenon DEF Shows
    <3>2. CASE prog[u][j] # "enq" /\ mem[u][j].hn.ts # 0 /\ mem[u][j].hn.n # Null
      <4>1. mem[u][j].hn.ts > 0 /\ mem[u][j].hn.h \in Nodes /\ prog[u][j] = "deq"
        <5>1. MemTypes(u) /\ prog[u] \in Seq({"enq", "deq"})
          BY <1>2, QueueAssumption, Zenon DEF Types, Shape, prog
        <5>2. mem[u][j].hn.ts > 0
          BY <3>2, <5>1 DEF MemTypes
        <5>3. prog[u][j] = "deq"
          BY <3>2, <5>1
        <5> QED
          BY <5>1, <5>2, <5>3, Zenon DEF MemTypes
      <4>2. CASE mem[u][j].hn.h # h
        BY <1>7, <2>1, <2>2, <4>1, <4>2, Zenon DEF Shows
      <4>3. CASE mem[u][j].hn.h = h
        <5>1. u # t
          <6> SUFFICES ASSUME u = t PROVE FALSE
            OBVIOUS
          <6>1. j \in Nat /\ i \in Nat /\ j # i
            <7>1. prog[t] \in Seq({"enq", "deq"})
              BY <1>2, QueueAssumption, Zenon DEF prog
            <7> QED
              BY <2>5, <7>1
          <6>2. CASE j < i
            BY <1>2, <1>3, <2>1, <3>2, <4>1, <4>3, <6>2, Zenon DEF Mementos, Returned, Past
          <6>3. CASE i < j
            BY <1>2, <1>5, <4>1, <6>3, Zenon DEF Mementos, Ordered, Stamps
          <6> QED
            BY <6>1, <6>2, <6>3
        <5>2. repl[h].tid # u /\ repl'[h].tid # u
          BY <2>2, <5>1, QueueAssumption, Zenon
        <5> QED
          BY <1>7, <2>1, <3>2, <4>3, <5>2, Zenon DEF Shows
      <4> QED
        BY <4>2, <4>3
    <3> QED
      BY <3>1, <3>2
  <2>6. Effect' = [Effect EXCEPT ![t][i] = n]
    BY <1>6, <2>4, <2>5, EffectTaken
  <2>7. PICK o : o = <<t, i>>
    BY Zenon
  <2>8. o \in Fifo!Ops /\ o[1] = t /\ o[2] = i /\ Fifo!Open(o) /\ Fifo!Kind(o) = "deq"
    BY <1>3, <1>5, <2>7, NotDoneIsOpen
  <2>9. Fifo!Dequeue(o)
    <3>1. Fifo!Takes(o, Head(queue))
      BY <1>6, <2>3, <2>6, <2>8, Zenon DEF Fifo!Takes
    <3>2. UNCHANGED <<<<>>, {}>>
      OBVIOUS
    <3> QED
      BY <2>3, <2>8, <3>1, <3>2, Zenon DEF Fifo!Dequeue
  <2> QED
    BY <1>2, <1>6, <1>7, <2>8, <2>9, Watching, Zenon DEF Fifo!Next
<1>9. CASE ~free(t)
  <2>1. RecordFailure(t) /\ repl' = repl /\ queue' = queue
    BY <1>9, Zenon DEF Own
  <2>2. \A u \in Threads : \A j \in DOMAIN prog[u] : mem'[u][j].hn = mem[u][j].hn
    BY <1>2, <1>3, <2>1 DEF RecordFailure, Types, Shape, MemTypes
  <2> QED
    BY <1>6, <2>1, <2>2, EffectStays, QuietIsStutter, Zenon
<1> QED
  BY <1>8, <1>9

\* The pair of nodes is checkpointed: without a next node, the queue is empty and the dequeue finds
\* nothing; with one, nothing has happened yet.
LEMMA HeadNextIsFindEmpty ==
    ASSUME Inv, scrash = 0, NEW t \in Threads, th[t].pc \in {"dtail", "dnext"}, NEW tl, NEW n, HeadNext(t, tl, n),
           n = Null => next[th[t].h] = Null,
           next' = next, repl' = repl, res' = res, scenario' = scenario, queue' = queue
    PROVE  [Fifo!Next]_(Fifo!vars)
<1>1. th[t].pc \in DeqPcs /\ th[t].pc # "done"
  BY Zenon DEF DeqPcs
<1>2. Types /\ ThTypes(t) /\ MemTypes(t) /\ Once(t) /\ Knows(t) /\ List /\ scenario \in Scenarios
  BY <1>1, Running, Zenon DEF Types, Shape
<1>3. PICK i \in DOMAIN prog[t] : i = th[t].i /\ prog[t][i] = "deq"
  BY <1>1, <1>2, Zenon DEF ThTypes
<1>4. PICK h \in Nodes : h = th[t].h
  BY <1>2, Zenon DEF ThTypes, DeqPcs
<1>5. ~Did(t, i) /\ Was(h) /\ repl[h].tid # t
  BY <1>2, <1>3, <1>4, Zenon DEF Once, Knows
<1>6. Nodes' = Nodes /\ prog' = prog
  BY Zenon DEF Nodes, Ops, prog
<1>7. CASE behind(t, tl, n)
  <2>1. mem' = mem
    BY <1>7, Zenon DEF HeadNext
  <2> QED
    BY <2>1, EffectStays, QuietIsStutter, Zenon
<1>8. CASE ~behind(t, tl, n)
  <2>1. PICK c, hn : c = clock'[t] /\ hn = [ts |-> c, h |-> h, n |-> n] /\ mem' = [mem EXCEPT ![t][i].hn = hn]
    BY <1>3, <1>4, <1>8, Zenon DEF HeadNext
  <2>2. hn.ts = c /\ hn.h = h /\ hn.n = n
    BY <2>1
  <2>3. c # 0
    <3>1. clock'[t] = clock[t] + 1
      BY <1>2, <1>8, Zenon DEF HeadNext, Types, Shape
    <3> QED
      BY <1>2, <2>1, <3>1 DEF MemTypes
  <2>4. /\ mem'[t][i].hn = hn
        /\ \A u \in Threads : \A j \in DOMAIN prog[u] : u # t \/ j # i => mem'[u][j] = mem[u][j]
    BY <1>2, <1>3, <2>1 DEF Types, Shape, MemTypes
  <2>5. ASSUME NEW u \in Threads, NEW j \in DOMAIN prog[u], u # t \/ j # i PROVE Shows(u, j)' = Shows(u, j)
    BY <1>6, <2>4, <2>5, Zenon DEF Shows
  <2>6. CASE n # Null
    <3>1. Shows(t, i)' = Null
      BY <1>3, <1>5, <1>6, <2>2, <2>3, <2>4, <2>6, Zenon DEF Shows
    <3>2. Shows(t, i) = Null
      BY <1>3, <1>5, EffectShown, Zenon DEF Shown
    <3>3. \A u \in Threads : \A j \in DOMAIN prog[u] : Shows(u, j)' = Shows(u, j)
      BY <2>5, <3>1, <3>2, Zenon
    <3>4. Effect' = Effect
      BY <1>6, <3>3 DEF Effect
    <3> QED
      BY <3>4, QuietIsStutter, Zenon
  <2>7. CASE n = Null
    <3>1. Shows(t, i)' = Sentinel
      BY <1>3, <1>6, <2>2, <2>3, <2>4, <2>7, Zenon DEF Shows
    <3>2. Effect' = [Effect EXCEPT ![t][i] = Sentinel]
      BY <2>5, <3>1, EffectTaken
    <3>3. queue = <<>>
      <4>1. ~Named(h) /\ h = head
        BY <1>2, <1>4, <1>5, <2>7, Zenon DEF List, Chain, Was, Past
      <4>2. next[h] = IF queue = <<>> THEN Null ELSE queue[1]
        BY <1>2, <4>1, Zenon DEF List, Contents, FirstKept, Chained
      <4>3. queue # <<>> => queue[1] \in Nodes
        BY <1>2 DEF List, Contents
      <4> QED
        BY <1>4, <2>7, <4>2, <4>3, NodeFacts, Zenon
    <3>4. PICK o : o = <<t, i>>
      BY Zenon
    <3>5. o \in Fifo!Ops /\ o[1] = t /\ o[2] = i /\ Fifo!Open(o) /\ Fifo!Kind(o) = "deq"
      BY <1>3, <1>5, <3>4, NotDoneIsOpen
    <3>6. Fifo!FindEmpty(o)
      <4>1. Fifo!Takes(o, Fifo!Empty)
        BY <3>2, <3>5, Zenon DEF Fifo!Takes, Fifo!Empty, Sentinel
      <4>2. UNCHANGED <<queue, <<>>, {}>>
        OBVIOUS
      <4> QED
        BY <3>3, <3>5, <4>1, <4>2, Zenon DEF Fifo!FindEmpty
    <3> QED
      BY <1>2, <1>6, <3>5, <3>6, Watching, Zenon DEF Fifo!Next
  <2> QED
    BY <2>6, <2>7
<1> QED
  BY <1>7, <1>8

-----------------------------------------------------------------------------
\* All steps.

\* A step of t leaves the results alone, or is the return of an operation.
LEMMA ResultsOfStep ==
    ASSUME NEW t \in Threads, Step(t)
    PROVE  scenario' = scenario /\ (res' = res \/ \E v : Return(t, v))
<1>1. CASE MakeNode(t)
  BY <1>1, Zenon DEF MakeNode, setup
<1>2. CASE LoadTail(t)
  BY <1>2, Zenon DEF LoadTail, setup
<1>3. CASE LoadNext(t)
  BY <1>3, Zenon DEF LoadNext, setup
<1>4. CASE HelpTail(t)
  BY <1>4, Zenon DEF HelpTail, setup
<1>5. CASE Acked(t)
  BY <1>5, Zenon DEF Acked, setup
<1>6. CASE Traverse(t)
  BY <1>6, Zenon DEF Traverse, setup
<1>7. CASE Recheck(t)
  BY <1>7, Zenon DEF Recheck, setup
<1>8. CASE Retry(t)
  BY <1>8, Zenon DEF Retry, setup
<1>9. CASE LoadLp(t)
  BY <1>9, Zenon DEF LoadLp, setup
<1>10. CASE Insert(t)
  BY <1>10, Zenon DEF Insert, setup
<1>11. CASE Persist(t)
  BY <1>11, Zenon DEF Persist, setup
<1>12. CASE Advance(t)
  BY <1>12, Zenon DEF Advance, setup
<1>13. CASE Replay(t)
  BY <1>13, Zenon DEF Replay, setup
<1>14. CASE LoadHead(t)
  BY <1>14, Zenon DEF LoadHead, setup
<1>15. CASE LoadTailToo(t)
  BY <1>15, Zenon DEF LoadTailToo, setup
<1>16. CASE LoadFirst(t)
  BY <1>16, Zenon DEF LoadFirst, setup
<1>17. CASE HelpTailToo(t)
  BY <1>17, Zenon DEF HelpTailToo, setup
<1>18. CASE DeleteResult(t)
  BY <1>18, Zenon DEF DeleteResult, setup, Unlink
<1>19. CASE Own(t)
  BY <1>19, Zenon DEF Own, setup
<1>20. CASE Delete(t)
  BY <1>20, Zenon DEF Delete, setup, Unlink
<1>21. CASE LoadHelp(t)
  BY <1>21, Zenon DEF LoadHelp, setup
<1> QED
  BY <1>1, <1>2, <1>3, <1>4, <1>5, <1>6, <1>7, <1>8, <1>9, <1>10, <1>11,
     <1>12, <1>13, <1>14, <1>15, <1>16, <1>17, <1>18, <1>19, <1>20, <1>21, Zenon DEF Step

\* There is a result for every operation and for nothing else.
LEMMA ResultsKept == ASSUME Results, [Next]_vars PROVE Results'
<1>1. scenario' = scenario /\ (res' = res \/ \E t \in Threads : \E v : Return(t, v))
  <2>1. ASSUME NEW t \in Threads, Step(t) PROVE scenario' = scenario /\ (res' = res \/ \E v : Return(t, v))
    BY <2>1, ResultsOfStep, Zenon
  <2>2. ASSUME NEW t \in Threads, ThreadCrash(t) PROVE scenario' = scenario /\ res' = res
    BY <2>2, Zenon DEF ThreadCrash, setup
  <2>3. CASE SystemCrash
    BY <2>3, Zenon DEF SystemCrash, setup
  <2>4. CASE UNCHANGED vars
    BY <2>4, Zenon DEF vars
  <2> QED
    BY <2>1, <2>2, <2>3, <2>4, Zenon DEF Next
<1>2. prog' = prog
  BY <1>1, Zenon DEF prog
<1>3. CASE res' = res
  BY <1>2, <1>3, Zenon DEF Results
<1>4. ASSUME NEW t \in Threads, NEW v, Return(t, v) PROVE Results'
  <2>1. PICK i : res' = [res EXCEPT ![t][i] = v]
    BY <1>4, Zenon DEF Return
  <2>2. DOMAIN res = Threads /\ \A u \in Threads : DOMAIN res[u] = DOMAIN prog[u]
    BY DEF Results
  <2>3. res' = [u \in Threads |-> IF u = t THEN [res[t] EXCEPT ![i] = v] ELSE res[u]]
    BY <2>1, <2>2, Zenon
  <2>4. res' = [u \in Threads |-> res'[u]]
    BY <2>3
  <2>5. ASSUME NEW u \in Threads PROVE res'[u] = [j \in DOMAIN prog[u] |-> res'[u][j]]
    <3>1. CASE u = t
      <4>1. res'[u] = [res[u] EXCEPT ![i] = v]
        BY <2>3, <3>1, Zenon
      <4> QED
        BY <2>2, <4>1
    <3>2. CASE u # t
      BY <2>3, <3>2, Zenon DEF Results
    <3> QED
      BY <3>1, <3>2
  <2> QED
    BY <1>2, <2>4, <2>5, Zenon DEF Results
<1> QED
  BY <1>1, <1>3, <1>4, Zenon

\* A step that links nothing, names nothing and records nothing has no effect.
LEMMA NoEffect ==
    ASSUME scenario' = scenario, next' = next, repl' = repl, mem' = mem, queue' = queue
    PROVE  Effect' = Effect /\ (res' = res => UNCHANGED Fifo!vars)
<1>1. Effect' = Effect
  BY EffectStays, Zenon
<1> QED
  BY <1>1, QuietIsStutter, Zenon

\* Every step of a thread is a step of the abstract queue, or none.
LEMMA StepImplements ==
    ASSUME Inv, Inv', Results, scrash = 0, scrash' = 0, NEW t \in Threads, Step(t)
    PROVE  [Fifo!Next]_(Fifo!vars)
<1>1. Types /\ ThTypes(t) /\ Knows(t) /\ Null # Sentinel /\ Node(t) # Null
  <2>1. Null # Sentinel /\ Node(t) # Null
    BY DEF Null, Sentinel, Node
  <2> QED
    BY <2>1, Zenon DEF Inv, Types, Calm
<1>2. CASE MakeNode(t)
  <2>1. scenario' = scenario /\ next' = next /\ repl' = repl /\ queue' = queue /\ res' = res
    BY <1>2, Zenon DEF MakeNode, setup, shared
  <2>2. PICK i \in DOMAIN prog[t] : i = th[t].i
    BY <1>1, <1>2, Zenon DEF MakeNode, At, ThTypes
  <2>3. mem' = mem \/ \E c : mem' = [mem EXCEPT ![t][i].node = c]
    BY <1>2, <2>2, Zenon DEF MakeNode
  <2>4. \A u \in Threads : \A j \in DOMAIN prog[u] : mem'[u][j].hn = mem[u][j].hn
    <3>1. CASE mem' = mem
      BY <3>1, Zenon
    <3>2. ASSUME NEW c, mem' = [mem EXCEPT ![t][i].node = c]
          PROVE  \A u \in Threads : \A j \in DOMAIN prog[u] : mem'[u][j].hn = mem[u][j].hn
      BY <1>1, <2>2, <3>2 DEF Types, Shape, MemTypes
    <3> QED
      BY <2>3, <3>1, <3>2, Zenon
  <2> QED
    BY <2>1, <2>4, EffectStays, QuietIsStutter, Zenon
<1>3. CASE LoadTail(t)
  <2>1. scenario' = scenario /\ next' = next /\ repl' = repl /\ mem' = mem /\ queue' = queue /\ res' = res
    BY <1>3, Zenon DEF LoadTail, setup, shared
  <2> QED
    BY <2>1, NoEffect, Zenon
<1>4. CASE LoadNext(t)
  <2>1. scenario' = scenario /\ next' = next /\ repl' = repl /\ mem' = mem /\ queue' = queue /\ res' = res
    BY <1>4, Zenon DEF LoadNext, setup, shared
  <2> QED
    BY <2>1, NoEffect, Zenon
<1>5. CASE HelpTail(t)
  <2>1. scenario' = scenario /\ next' = next /\ repl' = repl /\ mem' = mem /\ queue' = queue /\ res' = res
    BY <1>5, Zenon DEF HelpTail, setup
  <2> QED
    BY <2>1, NoEffect, Zenon
<1>6. CASE Acked(t)
  <2>1. /\ scenario' = scenario /\ next' = next /\ repl' = repl /\ mem' = mem /\ queue' = queue /\ th[t].pc # "done"
        /\ res' = res \/ Return(t, Node(t))
    BY <1>6, Zenon DEF Acked, At, setup, shared
  <2> QED
    BY <1>1, <2>1, NoEffect, ReturnIsReturn, Zenon
<1>7. CASE Traverse(t)
  <2>1. /\ scenario' = scenario /\ next' = next /\ repl' = repl /\ mem' = mem /\ queue' = queue /\ th[t].pc # "done"
        /\ res' = res \/ Return(t, Node(t))
    BY <1>7, Zenon DEF Traverse, At, setup
  <2> QED
    BY <1>1, <2>1, NoEffect, ReturnIsReturn, Zenon
<1>8. CASE Recheck(t)
  <2>1. /\ scenario' = scenario /\ next' = next /\ repl' = repl /\ mem' = mem /\ queue' = queue /\ th[t].pc # "done"
        /\ res' = res \/ Return(t, Node(t))
    BY <1>8, Zenon DEF Recheck, At, setup, shared
  <2> QED
    BY <1>1, <2>1, NoEffect, ReturnIsReturn, Zenon
<1>9. CASE Retry(t)
  <2>1. scenario' = scenario /\ next' = next /\ repl' = repl /\ mem' = mem /\ queue' = queue /\ res' = res
    BY <1>9, Zenon DEF Retry, setup, shared
  <2> QED
    BY <2>1, NoEffect, Zenon
<1>10. CASE LoadLp(t)
  <2>1. scenario' = scenario /\ next' = next /\ repl' = repl /\ mem' = mem /\ queue' = queue /\ res' = res
    BY <1>10, Zenon DEF LoadLp, setup
  <2> QED
    BY <2>1, NoEffect, Zenon
<1>11. CASE Insert(t)
  BY <1>11, InsertIsEnqueue, Zenon
<1>12. CASE Persist(t)
  <2>1. scenario' = scenario /\ next' = next /\ repl' = repl /\ mem' = mem /\ queue' = queue /\ res' = res
    BY <1>12, Zenon DEF Persist, setup
  <2> QED
    BY <2>1, NoEffect, Zenon
<1>13. CASE Advance(t)
  <2>1. /\ scenario' = scenario /\ next' = next /\ repl' = repl /\ mem' = mem /\ queue' = queue /\ th[t].pc # "done"
        /\ res' = res \/ Return(t, Node(t))
    BY <1>13, Zenon DEF Advance, At, setup
  <2> QED
    BY <1>1, <2>1, NoEffect, ReturnIsReturn, Zenon
<1>14. CASE Replay(t)
  <2>1. scenario' = scenario /\ next' = next /\ repl' = repl /\ mem' = mem /\ queue' = queue /\ res' = res
    BY <1>14, Zenon DEF Replay, setup, shared
  <2> QED
    BY <2>1, NoEffect, Zenon
<1>15. CASE LoadHead(t)
  <2>1. scenario' = scenario /\ next' = next /\ repl' = repl /\ mem' = mem /\ queue' = queue /\ res' = res
    BY <1>15, Zenon DEF LoadHead, setup, shared
  <2> QED
    BY <2>1, NoEffect, Zenon
<1>16. CASE LoadTailToo(t)
  <2>1. scenario' = scenario /\ next' = next /\ repl' = repl /\ queue' = queue /\ res' = res /\ th[t].pc = "dtail"
    BY <1>16, Zenon DEF LoadTailToo, At, setup, shared
  <2>2. CASE lp /\ HeadNext(t, tail, th[t].n)
    BY <1>1, <2>1, <2>2, HeadNextIsFindEmpty, Zenon DEF Knows
  <2>3. CASE mem' = mem
    BY <2>1, <2>3, NoEffect, Zenon
  <2> QED
    BY <1>16, <2>2, <2>3, Zenon DEF LoadTailToo
<1>17. CASE LoadFirst(t)
  <2>1. scenario' = scenario /\ next' = next /\ repl' = repl /\ queue' = queue /\ res' = res /\ th[t].pc = "dnext"
    BY <1>17, Zenon DEF LoadFirst, At, setup
  <2>2. CASE HeadNext(t, th[t].tl, next[th[t].h])
    BY <2>1, <2>2, HeadNextIsFindEmpty, Zenon
  <2>3. CASE mem' = mem
    BY <2>1, <2>3, NoEffect, Zenon
  <2> QED
    BY <1>17, <2>2, <2>3, Zenon DEF LoadFirst
<1>18. CASE HelpTailToo(t)
  <2>1. scenario' = scenario /\ next' = next /\ repl' = repl /\ mem' = mem /\ queue' = queue /\ res' = res
    BY <1>18, Zenon DEF HelpTailToo, setup
  <2> QED
    BY <2>1, NoEffect, Zenon
<1>19. CASE DeleteResult(t)
  <2>1. /\ scenario' = scenario /\ next' = next /\ repl' = repl /\ mem' = mem /\ queue' = queue /\ th[t].pc # "done"
        /\ res' = res \/ Return(t, Sentinel) \/ (th[t].n # Null /\ Return(t, th[t].n))
    BY <1>19, Zenon DEF DeleteResult, Unlink, At, setup, shared
  <2> QED
    BY <1>1, <2>1, NoEffect, ReturnIsReturn, Zenon
<1>20. CASE Own(t)
  BY <1>20, OwnIsDequeue, Zenon
<1>21. CASE Delete(t)
  <2>1. /\ scenario' = scenario /\ next' = next /\ repl' = repl /\ mem' = mem /\ queue' = queue /\ th[t].pc # "done"
        /\ th[t].n # Null /\ Return(t, th[t].n)
    BY <1>1, <1>21, Zenon DEF Delete, Unlink, At, setup, ThTypes
  <2> QED
    BY <2>1, NoEffect, ReturnIsReturn, Zenon
<1>22. CASE LoadHelp(t)
  <2>1. scenario' = scenario /\ next' = next /\ repl' = repl /\ mem' = mem /\ queue' = queue /\ res' = res
    BY <1>22, Zenon DEF LoadHelp, setup
  <2> QED
    BY <2>1, NoEffect, Zenon
<1> QED
  BY <1>2, <1>3, <1>4, <1>5, <1>6, <1>7, <1>8, <1>9, <1>10, <1>11, <1>12,
     <1>13, <1>14, <1>15, <1>16, <1>17, <1>18, <1>19, <1>20, <1>21, <1>22, Zenon DEF Step

\* The empty queue is the empty abstract queue.
LEMMA InitImplements == ASSUME Init PROVE Fifo!Init /\ Results
<1>1. scenario \in Scenarios /\ prog \in {s.prog : s \in Scenarios} /\ queue = <<>> /\ next = [n \in Nodes |-> Null]
  BY Zenon DEF Init, prog
<1>2. res = [t \in Threads |-> [i \in DOMAIN prog[t] |-> Null]]
  BY Zenon DEF Init
<1>3. Results
  BY <1>2, Zenon DEF Results
<1>4. \A t \in Threads : \A i \in DOMAIN prog[t] : Shows(t, i) = Null
  <2> SUFFICES ASSUME NEW t \in Threads, NEW i \in DOMAIN prog[t] PROVE Shows(t, i) = Null
    BY Zenon
  <2>1. mem[t][i].hn.ts = 0
    BY DEF Init
  <2>2. \A n \in Nodes : next[n] # <<t, i>>
    BY <1>1 DEF Null
  <2> QED
    BY <2>1, <2>2, Zenon DEF Shows
<1>5. Effect = [t \in Threads |-> [i \in DOMAIN prog[t] |-> Null]]
  BY <1>4 DEF Effect
<1>6. [t \in Threads |-> {}] = [t \in Threads |-> Fifo!Sees(t, {})]
  BY <1>1, NothingSeen, Zenon DEF Unseen
<1> QED
  BY <1>1, <1>2, <1>3, <1>5, <1>6, Zenon DEF Fifo!Init, Fifo!Each, Fifo!Pending, Null

\* The detectable queues implement the abstract one: with any threads, programs and crashes of
\* threads, as long as power does not fail, every enqueue and dequeue takes effect exactly once
\* between its start and its return, on a FIFO queue, and every execution of it returns what it did.
THEOREM QueueIsFifo == Spec /\ [](scrash = 0) => FifoSpec
<1>1. Init => Fifo!Init /\ Results
  BY InitImplements
<1>2. Results /\ [Next]_vars => Results'
  BY ResultsKept
<1>3. Inv /\ Inv' /\ Results /\ scrash = 0 /\ (scrash = 0)' /\ [Next]_vars => [Fifo!Next]_(Fifo!vars)
  <2> SUFFICES ASSUME Inv, Inv', Results, scrash = 0, scrash' = 0, [Next]_vars PROVE [Fifo!Next]_(Fifo!vars)
    OBVIOUS
  <2>1. ASSUME NEW t \in Threads, Step(t) PROVE [Fifo!Next]_(Fifo!vars)
    BY <2>1, StepImplements, Zenon
  <2>2. ASSUME NEW t \in Threads, ThreadCrash(t) PROVE [Fifo!Next]_(Fifo!vars)
    <3>1. scenario' = scenario /\ next' = next /\ repl' = repl /\ mem' = mem /\ queue' = queue /\ res' = res
      BY <2>2, Zenon DEF ThreadCrash, setup, shared
    <3> QED
      BY <3>1, NoEffect, Zenon
  <2>3. CASE SystemCrash
    BY <2>3 DEF SystemCrash
  <2>4. CASE UNCHANGED vars
    <3>1. scenario' = scenario /\ next' = next /\ repl' = repl /\ mem' = mem /\ queue' = queue /\ res' = res
      BY <2>4, Zenon DEF vars
    <3> QED
      BY <3>1, NoEffect, Zenon
  <2> QED
    BY <2>1, <2>2, <2>3, <2>4, Zenon DEF Next
<1> QED
  BY <1>1, <1>2, <1>3, Invariance, PTL DEF Spec, FifoSpec, Fifo!Spec
=============================================================================
