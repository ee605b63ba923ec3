--------------------------- MODULE SmoQueueProofs ---------------------------
(***************************************************************************)
(* Every action of SmoQueue keeps the invariant of SmoQueueInvariant; and  *)
(* the theorems about SmoQueue that follow from it.                        *)
(***************************************************************************)
EXTENDS SmoQueueSteps

-----------------------------------------------------------------------------
\* enqueue, try_enqueue.

\* A node that was recorded is taken up again, any other is made.
LEMMA MakeNodeKeeps ==
    ASSUME Inv, NEW t \in Threads, MakeNode(t)
    PROVE  Inv'
<1>1. th[t].pc = "enq" /\ th[t].pc \in EnqPcs /\ th[t].pc # "done"
  BY Zenon DEF MakeNode, At, EnqPcs
<1>2. UNCHANGED <<head, tail, next, repl, retired, queue>> /\ UNCHANGED <<setup, scrash>> /\ UNCHANGED <<repl, res>>
  BY Zenon DEF MakeNode, shared, crashes
<1>3. disk' = disk /\ scenario' = scenario
  BY Zenon DEF MakeNode, shared, setup
<1>4. ListStep(t) /\ Unmade(t)
  BY <1>2, QuietStep, Zenon
<1>5. /\ Types /\ ThTypes(t) /\ MemTypes(t) /\ Sees(t) /\ th[t].i \in DOMAIN prog[t] /\ th[t].rec \in BOOLEAN /\ th[t].lmax \in Nat
      /\ scrash = 0 => List /\ Mementos(t) /\ Mine(t) /\ Knows(t) /\ Once(t)
  BY <1>1, Running, Zenon
<1>6. DiskTypes'
  BY <1>3, <1>5, NodeFacts, Flushing, Zenon
<1>7. PICK i \in DOMAIN prog[t] : i = th[t].i /\ prog[t][i] = "enq"
  BY <1>1, <1>5, Zenon DEF ThTypes
<1>8. mem[t][i].node \in Nat /\ Mem(t) = mem[t][i]
  BY <1>5, <1>7, Zenon DEF MemTypes, Mem
<1>9. CASE Replays(t, Mem(t).node)
  <2>1. Goes(t, "tail", th[t].rec, mem[t][i].node, th[t].tl, th[t].h, th[t].n) /\ UNCHANGED <<mem, clock>>
    BY <1>5, <1>8, <1>9 DEF MakeNode, Types, Shape, ThTypes, ThFields, Goes
  <2>2. ThTypes(t)' /\ Sees(t)'
    BY <1>1, <1>3, <1>5, <1>8, <2>1, EnqTypes, Zenon DEF EnqPcs, Sees, Goes
  <2>3. ASSUME scrash = 0 PROVE Knows(t)' /\ Once(t)'
    <3>1. th[t].rec /\ mem[t][i].node > 0
      BY <1>5, <1>8, <1>9 DEF Replays
    <3>2. Knows(t)'
      BY <2>1, Zenon DEF Knows, Goes, EnqPcs
    <3>3. mem' = mem
      BY <2>1, Zenon
    <3>4. Once(t)'
      BY <1>7, <2>1, <3>1, <3>3, Zenon DEF Once, Goes, EnqPcs
    <3> QED
      BY <3>2, <3>4, Zenon
  <2>4. mem[t][i].node \in Stamps(t, th[t].i) /\ UNCHANGED <<mem, clock, res>>
    BY <1>2, <1>7, <2>1 DEF Stamps
  <2> QED
    BY <1>1, <1>4, <1>5, <1>6, <1>8, <2>1, <2>2, <2>3, <2>4, Moved, Zenon
<1>10. CASE ~Replays(t, Mem(t).node)
  <2>1. Goes(t, "tail", FALSE, th[t].lmax, th[t].tl, th[t].h, th[t].n)
    BY <1>5, <1>10 DEF MakeNode, Types, Shape, ThTypes, ThFields, Goes
  <2>2. /\ DOMAIN clock' = Threads /\ clock'[t] = clock[t] + 1 /\ \A u \in Threads \ {t} : clock'[u] = clock[u]
    BY <1>5, <1>10, Zenon DEF MakeNode, Types, Shape
  <2>3. PICK c : c = clock'[t] /\ mem' = [mem EXCEPT ![t][i].node = c]
    BY <1>7, <1>10, Zenon DEF MakeNode
  <2>4. /\ DOMAIN mem' = Threads /\ DOMAIN mem'[t] = DOMAIN prog[t] /\ (\A u \in Threads \ {t} : mem'[u] = mem[u])
        /\ \A j \in DOMAIN prog[t] : j # i => mem'[t][j] = mem[t][j]
    BY <1>5, <2>3, Zenon DEF Types, Shape, MemTypes
  <2>5. /\ DOMAIN mem'[t][i] = {"node", "hn", "failed"} /\ mem'[t][i].node = c
        /\ mem'[t][i].hn = mem[t][i].hn /\ mem'[t][i].failed = mem[t][i].failed
    BY <1>5, <1>7, <2>3 DEF Types, Shape, MemTypes
  <2>6. Records(t, i)
    BY <2>2, <2>3, <2>4, <2>5, Zenon DEF Records
  <2>7. MemTypes(t)'
    <3>1. clock[t] \in Nat /\ c = clock[t] + 1 /\ c \in Nat /\ c > 0
      BY <1>5, <2>2, <2>3 DEF MemTypes
    <3>2. prog'[t] = prog[t] /\ Nodes' = Nodes /\ res' = res
      BY <1>2, <1>3, Zenon DEF prog, Nodes, Ops
    <3>3. \A j \in DOMAIN prog[t] :
          /\ DOMAIN mem'[t][j] = {"node", "hn", "failed"}
          /\ mem'[t][j].node \in Nat /\ mem'[t][j].failed = mem[t][j].failed /\ mem'[t][j].hn = mem[t][j].hn
      BY <1>5, <2>4, <2>5, <3>1, Zenon DEF MemTypes
    <3>4. \A j \in DOMAIN prog[t] :
          /\ mem'[t][j].failed \in Nat /\ mem'[t][j].hn.ts \in Nat
          /\ mem'[t][j].hn.ts > 0 => mem'[t][j].hn.h \in Nodes' /\ mem'[t][j].hn.n \in Nodes' \cup {Null}
      BY <1>5, <3>2, <3>3, Zenon DEF MemTypes
    <3>5. DOMAIN res'[t] = DOMAIN prog[t] /\ clock'[t] \in Nat
      BY <1>5, <2>3, <3>1, <3>2, Zenon DEF MemTypes
    <3> QED
      BY <2>4, <3>2, <3>3, <3>4, <3>5, Zenon DEF MemTypes
  <2>8. ThTypes(t)' /\ Sees(t)'
    BY <1>1, <1>3, <1>5, <2>1, EnqTypes, Zenon DEF EnqPcs, Sees, Goes
  <2>9. ASSUME scrash = 0 PROVE ~Did(t, i) /\ Knows(t)' /\ Once(t)'
    <3>1. ~Did(t, i)
      BY <1>1, <1>5, <1>7, <1>8, <1>10, <2>9, Zenon DEF Once, Replays
    <3>2. Knows(t)'
      BY <2>1, Zenon DEF Knows, Goes, EnqPcs
    <3>3. Did(t, i)' => Did(t, i)
      BY <1>4, <2>5, <2>9, NotDone, Zenon
    <3>4. c > 0
      BY <1>5, <2>2, <2>3 DEF MemTypes
    <3>5. Once(t)'
      BY <1>7, <2>1, <2>5, <3>1, <3>3, <3>4, Zenon DEF Once, Goes, EnqPcs
    <3> QED
      BY <3>1, <3>2, <3>5, Zenon
  <2> QED
    BY <1>1, <1>2, <1>4, <1>5, <1>6, <1>7, <2>1, <2>5, <2>6, <2>7, <2>8, <2>9, Recorded, Zenon
<1> QED
  BY <1>9, <1>10, Zenon

\* try_enqueue loads the tail, a node that was linked.
LEMMA LoadTailKeeps ==
    ASSUME Inv, NEW t \in Threads, LoadTail(t)
    PROVE  Inv'
<1>1. th[t].pc = "tail" /\ th[t].pc \in EnqPcs /\ th[t].pc # "done"
  BY Zenon DEF LoadTail, At, EnqPcs
<1>2. UNCHANGED <<head, tail, next, repl, retired, queue>> /\ UNCHANGED <<setup, scrash>> /\ UNCHANGED <<mem, clock, res>>
  BY Zenon DEF LoadTail, shared, crashes
<1>3. disk' = disk /\ scenario' = scenario /\ mem' = mem /\ tail' = tail
  BY Zenon DEF LoadTail, shared, setup
<1>4. ListStep(t) /\ Unmade(t)
  BY <1>2, QuietStep, Zenon
<1>5. /\ Types /\ ThTypes(t) /\ MemTypes(t) /\ Sees(t) /\ th[t].i \in DOMAIN prog[t] /\ th[t].rec \in BOOLEAN /\ th[t].lmax \in Nat
      /\ scrash = 0 => List /\ Mementos(t) /\ Mine(t) /\ Knows(t) /\ Once(t)
  BY <1>1, Running, Zenon
<1>6. DiskTypes'
  BY <1>3, <1>5, NodeFacts, Flushing, Zenon
<1>7. Goes(t, "next", th[t].rec, th[t].lmax, tail, th[t].h, th[t].n)
  BY <1>5, Zenon DEF LoadTail, Types, Shape, ThTypes, ThFields, Goes
<1>8. ThTypes(t)' /\ Sees(t)'
  <2>1. tail \in Nodes
    BY <1>5, Zenon DEF Types, ListTypes
  <2> QED
    BY <1>1, <1>3, <1>5, <1>7, <2>1, EnqTypes, Zenon DEF EnqPcs, Sees, Goes
<1>9. ASSUME scrash = 0 PROVE Knows(t)' /\ Once(t)'
  <2>1. PICK i \in DOMAIN prog[t] : i = th[t].i
    BY <1>5, Zenon
  <2>2. On(tail)'
    BY <1>4, <1>9, Zenon DEF ListStep, List, Chain
  <2>3. Knows(t)'
    BY <1>3, <1>7, <2>2, Zenon DEF Knows, Goes, EnqPcs
  <2>4. mem[t][i].node > 0 /\ (~th[t].rec => ~Did(t, i))
    BY <1>1, <1>5, <1>9, <2>1, Zenon DEF Once, EnqPcs
  <2>5. Did(t, i)' => Did(t, i)
    BY <1>3, <1>4, <1>9, NotDone, Zenon
  <2>6. Once(t)'
    BY <1>3, <1>7, <2>1, <2>4, <2>5, Zenon DEF Once, Goes, EnqPcs
  <2> QED
    BY <2>3, <2>6, Zenon
<1> QED
  BY <1>1, <1>2, <1>4, <1>5, <1>6, <1>7, <1>8, <1>9, Moved, Zenon

\* A marked link is flushed by whoever loads it.
LEMMA LoadLpKeeps ==
    ASSUME Inv, NEW t \in Threads, LoadLp(t)
    PROVE  Inv'
<1>1. th[t].pc \in {"next", "cas", "failed", "dnext"} /\ th[t].pc # "done"
  BY Zenon DEF LoadLp
<1>2. UNCHANGED <<head, tail, next, repl, retired, queue>> /\ UNCHANGED <<setup, scrash>>
  BY Zenon DEF LoadLp, crashes
<1>3. scenario' = scenario /\ lp' = lp /\ mem' = mem /\ clock' = clock /\ res' = res /\ th' = th
  BY Zenon DEF LoadLp, setup
<1>4. ListStep(t) /\ Unmade(t)
  BY <1>2, QuietStep, Zenon
<1>5. /\ Types /\ ThTypes(t) /\ MemTypes(t) /\ Sees(t)
      /\ scrash = 0 => List /\ Mementos(t) /\ Mine(t) /\ Knows(t) /\ Once(t)
  BY <1>1, Running, Zenon
<1>6. DiskTypes'
  <2>1. PICK n : n = (IF At(t, "dnext") THEN th[t].h ELSE th[t].tl) /\ FlushNext(n)
    BY Zenon DEF LoadLp, PersistLink
  <2>2. n \in Nodes
    BY <1>1, <1>5, <2>1, Zenon DEF ThTypes, EnqPcs, DeqPcs, At
  <2> QED
    BY <1>3, <1>5, <2>1, <2>2, Flushing, Zenon
<1>7. prog'[t] = prog[t] /\ Nodes' = Nodes /\ next' = next /\ repl' = repl
  BY <1>2, <1>3, Zenon DEF prog, Nodes, Ops
<1>8. MemTypes(t)' /\ ThTypes(t)' /\ Sees(t)'
  <2>1. MemTypes(t)'
    BY <1>3, <1>5, <1>7, Zenon DEF MemTypes
  <2>2. ThTypes(t)'
    BY <1>3, <1>5, <1>7, Zenon DEF ThTypes
  <2>3. Sees(t)'
    BY <1>3, <1>5, <1>7, Zenon DEF Sees
  <2> QED
    BY <2>1, <2>2, <2>3, Zenon
<1>9. ASSUME scrash = 0 PROVE Mementos(t)' /\ Mine(t)' /\ Knows(t)' /\ Once(t)'
  <2>1. Grows
    BY <1>4, <1>9, Zenon DEF ListStep
  <2>2. Mementos(t)' /\ Mine(t)'
    BY <1>3, <1>4, <1>5, <1>9, <2>1, StayMementos, StaysMine, Zenon
  <2>3. Knows(t)' /\ Once(t)'
    BY <1>3, <1>4, <1>5, <1>9, <2>1, StaysKnown, Zenon
  <2> QED
    BY <2>2, <2>3, Zenon
<1>10. Others(t)
  BY <1>3, <1>5, Zenon DEF Others, Types, Shape
<1>11. ThreadStep(t)
  BY <1>6, <1>8, <1>9, Zenon DEF ThreadStep
<1> QED
  BY <1>4, <1>10, <1>11, Assembled, Zenon

\* A thread that sees no link after the tail goes on to insert, or to look for its node.
LEMMA LoadNextKeeps ==
    ASSUME Inv, NEW t \in Threads, LoadNext(t)
    PROVE  Inv'
<1>1. PICK pc \in {"stale", "acked", "cas"} :
            /\ th' = [th EXCEPT ![t].pc = pc]
            /\ pc = "stale" => next[th[t].tl] # Null
            /\ pc = "acked" => th[t].rec
            /\ pc = "cas" => ~th[t].rec
  BY Zenon DEF LoadNext, Goto
<1>2. th[t].pc = "next" /\ th[t].pc \in EnqPcs /\ th[t].pc # "done"
  BY Zenon DEF LoadNext, At, EnqPcs
<1>3. UNCHANGED <<head, tail, next, repl, retired, queue>> /\ UNCHANGED <<setup, scrash>> /\ UNCHANGED <<mem, clock, res>>
  BY Zenon DEF LoadNext, shared, crashes
<1>4. disk' = disk /\ scenario' = scenario /\ mem' = mem
  BY Zenon DEF LoadNext, shared, setup
<1>5. /\ Types /\ ThTypes(t) /\ MemTypes(t) /\ Sees(t) /\ th[t].i \in DOMAIN prog[t] /\ th[t].rec \in BOOLEAN /\ th[t].lmax \in Nat
      /\ scrash = 0 => List /\ Mementos(t) /\ Mine(t) /\ Knows(t) /\ Once(t)
  BY <1>2, Running, Zenon
<1>6. ListStep(t) /\ Unmade(t)
  BY <1>3, QuietStep, Zenon
<1>7. DiskTypes'
  BY <1>4, <1>5, NodeFacts, Flushing, Zenon
<1>8. Goes(t, pc, th[t].rec, th[t].lmax, th[t].tl, th[t].h, th[t].n)
  BY <1>1, <1>5, Zenon DEF Types, Shape, ThTypes, ThFields, Goes
<1>9. ThTypes(t)' /\ Sees(t)'
  <2>1. th[t].tl \in Nodes /\ next' = next
    BY <1>2, <1>3, <1>5 DEF ThTypes, EnqPcs
  <2>2. ThTypes(t)'
    BY <1>2, <1>4, <1>5, <1>8, <2>1, EnqTypes, Zenon DEF EnqPcs
  <2>3. Sees(t)'
    BY <1>1, <1>8, <2>1, Zenon DEF Sees, Goes
  <2> QED
    BY <2>2, <2>3, Zenon
<1>10. ASSUME scrash = 0 PROVE Knows(t)' /\ Once(t)'
  <2>1. PICK i \in DOMAIN prog[t] : i = th[t].i
    BY <1>5, Zenon
  <2>2. On(th[t].tl)
    BY <1>2, <1>5, <1>10, Zenon DEF Knows, EnqPcs
  <2>3. PICK l \in Nodes : l = th[t].tl
    BY <1>2, <1>5, Zenon DEF ThTypes, EnqPcs
  <2>4. On(l)'
    BY <1>6, <1>10, <2>2, <2>3, Zenon DEF ListStep, Grows
  <2>5. Knows(t)'
    BY <1>1, <1>8, <2>3, <2>4, Zenon DEF Knows, Goes, EnqPcs
  <2>6. mem[t][i].node > 0 /\ (~th[t].rec => ~Did(t, i))
    BY <1>2, <1>5, <1>10, <2>1, Zenon DEF Once, EnqPcs
  <2>7. Did(t, i)' => Did(t, i)
    BY <1>4, <1>6, <1>10, NotDone, Zenon
  <2>8. Once(t)'
    BY <1>1, <1>4, <1>8, <2>1, <2>6, <2>7, Zenon DEF Once, Goes, EnqPcs
  <2> QED
    BY <2>5, <2>8, Zenon
<1> QED
  BY <1>2, <1>3, <1>6, <1>5, <1>7, <1>8, <1>9, <1>10, Moved, Zenon

\* A stale tail moves along the link that the thread has seen.
LEMMA HelpTailKeeps ==
    ASSUME Inv, NEW t \in Threads, HelpTail(t)
    PROVE  Inv'
<1>1. th[t].pc = "stale" /\ th[t].pc \in EnqPcs /\ th[t].pc # "done"
  BY Zenon DEF HelpTail, At, EnqPcs
<1>2. UNCHANGED <<head, next, repl, retired, queue>> /\ UNCHANGED <<setup, scrash>> /\ UNCHANGED <<mem, clock, res>>
  BY Zenon DEF HelpTail, shared, crashes
<1>3. (disk' = disk \/ FlushNext(th[t].tl)) /\ scenario' = scenario /\ mem' = mem
  BY Zenon DEF HelpTail, shared, setup
<1>4. /\ Types /\ ThTypes(t) /\ MemTypes(t) /\ Sees(t) /\ th[t].i \in DOMAIN prog[t] /\ th[t].rec \in BOOLEAN /\ th[t].lmax \in Nat
      /\ scrash = 0 => List /\ Mementos(t) /\ Mine(t) /\ Knows(t) /\ Once(t)
  BY <1>1, Running, Zenon
<1>5. ListStep(t) /\ Unmade(t)
  <2>1. th[t].tl \in Nodes /\ next[th[t].tl] # Null
    BY <1>1, <1>4, Zenon DEF ThTypes, Sees, EnqPcs
  <2>2. tail' = IF tail = th[t].tl THEN next[th[t].tl] ELSE tail
    BY Zenon DEF HelpTail, SwingTail
  <2>3. tail' \in Nodes
    BY <1>4, <2>1, <2>2, Zenon DEF Types, ListTypes, LinkTypes
  <2> QED
    BY <1>2, <2>2, <2>3, TailStep, Zenon
<1>6. DiskTypes'
  <2>1. th[t].tl \in Nodes
    BY <1>1, <1>4, Zenon DEF ThTypes, EnqPcs
  <2> QED
    BY <1>3, <1>4, <2>1, Flushing, Zenon
<1>7. Goes(t, "tail", th[t].rec, th[t].lmax, th[t].tl, th[t].h, th[t].n)
  BY <1>4, Zenon DEF HelpTail, Types, Shape, ThTypes, ThFields, Goes, Goto
<1>8. ThTypes(t)' /\ Sees(t)'
  BY <1>1, <1>3, <1>4, <1>7, EnqTypes, Zenon DEF EnqPcs, Sees, Goes
<1>9. ASSUME scrash = 0 PROVE Knows(t)' /\ Once(t)'
  <2>1. PICK i \in DOMAIN prog[t] : i = th[t].i
    BY <1>4, Zenon
  <2>2. Knows(t)'
    BY <1>7, Zenon DEF Knows, Goes, EnqPcs
  <2>3. mem[t][i].node > 0 /\ (~th[t].rec => ~Did(t, i))
    BY <1>1, <1>4, <1>9, <2>1, Zenon DEF Once, EnqPcs
  <2>4. Did(t, i)' => Did(t, i)
    BY <1>3, <1>5, <1>9, NotDone, Zenon
  <2>5. Once(t)'
    BY <1>3, <1>7, <2>1, <2>3, <2>4, Zenon DEF Once, Goes, EnqPcs
  <2> QED
    BY <2>2, <2>5, Zenon
<1> QED
  BY <1>1, <1>2, <1>5, <1>4, <1>6, <1>7, <1>8, <1>9, Moved, Zenon

-----------------------------------------------------------------------------
\* insert_result: acked, contains, acked again, check_failed.

\* A name shows that the node was linked.
LEMMA AckedKeeps ==
    ASSUME Inv, NEW t \in Threads, Acked(t)
    PROVE  Inv'
<1>1. th[t].pc = "acked" /\ th[t].pc \in EnqPcs /\ th[t].pc # "done"
  BY Zenon DEF Acked, At, EnqPcs
<1>2. UNCHANGED <<head, tail, next, repl, retired, queue>> /\ UNCHANGED <<setup, scrash>> /\ UNCHANGED <<mem, clock>>
  BY Zenon DEF Acked, shared, crashes
<1>3. disk' = disk /\ scenario' = scenario /\ mem' = mem
  BY Zenon DEF Acked, shared, setup
<1>4. ListStep(t) /\ Unmade(t)
  BY <1>2, QuietStep, Zenon
<1>5. /\ Types /\ ThTypes(t) /\ MemTypes(t) /\ Sees(t) /\ th[t].i \in DOMAIN prog[t] /\ th[t].rec \in BOOLEAN /\ th[t].lmax \in Nat
      /\ scrash = 0 => List /\ Mementos(t) /\ Mine(t) /\ Knows(t) /\ Once(t)
  BY <1>1, Running, Zenon
<1>6. DiskTypes'
  BY <1>3, <1>5, NodeFacts, Flushing, Zenon
<1>7. PICK i \in DOMAIN prog[t] : i = th[t].i /\ prog[t][i] = "enq"
  BY <1>1, <1>5, Zenon DEF ThTypes
<1>8. <<t, i>> \in Nodes /\ Node(t) = <<t, i>>
  BY <1>7, NodeFacts, Zenon DEF Node
<1>9. CASE acked(t)
  <2>1. Return(t, <<t, i>>)
    BY <1>8, <1>9, Zenon DEF Acked
  <2>2. Deed(t, i) = <<t, i>>
    BY <1>7, Zenon DEF Deed
  <2>3. scrash = 0 => Did(t, i)
    <3>1. Named(<<t, i>>)
      BY <1>8, <1>9, Zenon DEF acked, Named
    <3>2. scrash = 0 => On(<<t, i>>)
      BY <1>5, <1>8, <3>1, ListFacts, Zenon DEF Types, List
    <3> QED
      BY <1>7, <3>2, Zenon DEF Did
  <2> QED
    BY <1>1, <1>2, <1>4, <1>6, <1>7, <2>1, <2>2, <2>3, Returns, Zenon
<1>10. CASE ~acked(t)
  <2>1. Goes(t, "contains", th[t].rec, th[t].lmax, th[t].tl, th[t].h, th[t].n) /\ UNCHANGED <<mem, clock, res>>
    BY <1>2, <1>5, <1>10 DEF Acked, Types, Shape, ThTypes, ThFields, Goes, Goto
  <2>2. PICK l \in Nodes : l = th[t].tl
    BY <1>1, <1>5, Zenon DEF ThTypes, EnqPcs
  <2>3. ThTypes(t)' /\ Sees(t)'
    BY <1>1, <1>3, <1>5, <2>1, <2>2, EnqTypes, Zenon DEF EnqPcs, Sees, Goes
  <2>4. ASSUME scrash = 0 PROVE Knows(t)' /\ Once(t)'
    <3>1. On(l) /\ mem[t][i].node > 0 /\ th[t].rec
      BY <1>1, <1>5, <1>7, <2>2, <2>4, Zenon DEF Knows, Once, EnqPcs
    <3>2. On(l)'
      BY <1>4, <2>4, <3>1, Zenon DEF ListStep, Grows
    <3>3. Knows(t)'
      BY <2>1, <2>2, <3>2, Zenon DEF Knows, Goes, EnqPcs
    <3>4. Once(t)'
      BY <1>3, <1>7, <2>1, <3>1, Zenon DEF Once, Goes, EnqPcs
    <3> QED
      BY <3>3, <3>4, Zenon
  <2> QED
    BY <1>1, <1>4, <1>5, <1>6, <2>1, <2>3, <2>4, Moved, Zenon
<1> QED
  BY <1>9, <1>10, Zenon

\* A walk from head meets linked nodes only, and all of them but those that the head has passed.
LEMMA Walking ==
    ASSUME ListTypes, List, NEW v \in Nodes
    PROVE  /\ v \in Reach(next, head) => On(v)
           /\ v \notin Reach(next, head) /\ On(v) => Named(v)
<1>1. ASSUME v \in Reach(next, head) PROVE On(v)
  <2> DEFINE S == {n \in Nodes : On(n)}
  <2>1. S \in SUBSET Nodes /\ head \in S
    BY Zenon DEF List, Chain, ListTypes
  <2>2. Closed(next, S)
    <3> SUFFICES ASSUME NEW m \in S, next[m] # Null PROVE next[m] \in Nodes /\ On(next[m])
      BY Zenon DEF Closed
    <3>1. m \in Nodes /\ next[m] \in Nodes
      BY Zenon DEF ListTypes, LinkTypes
    <3> QED
      BY <3>1, Zenon DEF On
  <2> HIDE DEF S
  <2>3. v \in S
    BY <1>1, <2>1, <2>2, Zenon DEF Reach
  <2> QED
    BY <2>3, Zenon DEF S
<1>2. ASSUME v \notin Reach(next, head), On(v), ~Named(v) PROVE FALSE
  <2>1. ~Past(v)
    BY <1>2, Zenon DEF Past
  <2>2. \A S \in SUBSET Nodes : head \in S /\ Closed(next, S) => v \in S
    BY <1>2, <2>1, Zenon DEF List, Whole
  <2> QED
    BY <1>2, <2>2, Zenon DEF Reach
<1> QED
  BY <1>1, <1>2, Zenon

\* A node that was linked is found, unless the head has passed it.
LEMMA TraverseKeeps ==
    ASSUME Inv, NEW t \in Threads, Traverse(t)
    PROVE  Inv'
<1>1. th[t].pc = "contains" /\ th[t].pc \in EnqPcs /\ th[t].pc # "done"
  BY Zenon DEF Traverse, At, EnqPcs
<1>2. UNCHANGED <<head, tail, next, repl, retired, queue>> /\ UNCHANGED <<setup, scrash>> /\ UNCHANGED <<mem, clock>>
  BY Zenon DEF Traverse, crashes
<1>3. scenario' = scenario /\ mem' = mem
  BY Zenon DEF Traverse, setup
<1>4. ListStep(t) /\ Unmade(t)
  BY <1>2, QuietStep, Zenon
<1>5. /\ Types /\ ThTypes(t) /\ MemTypes(t) /\ Sees(t) /\ th[t].i \in DOMAIN prog[t] /\ th[t].rec \in BOOLEAN /\ th[t].lmax \in Nat
      /\ scrash = 0 => List /\ Mementos(t) /\ Mine(t) /\ Knows(t) /\ Once(t)
  BY <1>1, Running, Zenon
<1>6. DiskTypes'
  <2>1. PICK seen : disk' = IF Durable
                   THEN [disk EXCEPT !.head = IF lp THEN disk.head ELSE head,
                            !.next = [n \in Nodes |-> IF n \in seen /\ (lp => n \in mark)
                                                      THEN next[n] ELSE disk.next[n]]]
                   ELSE disk
    BY Zenon DEF Traverse
  <2>2. CASE disk' = disk
    BY <1>3, <1>5, <2>2, NodeFacts, Flushing, Zenon
  <2>3. CASE disk' # disk
    <3>1. DiskTypes /\ LinkTypes(next) /\ head \in Nodes /\ Nodes' = Nodes
      BY <1>3, <1>5, Zenon DEF Types, ListTypes, Nodes, Ops, prog
    <3>2. /\ DOMAIN disk' = DOMAIN disk /\ disk'.head = (IF lp THEN disk.head ELSE head) /\ disk'.repl = disk.repl
          /\ disk'.next = [n \in Nodes |-> IF n \in seen /\ (lp => n \in mark) THEN next[n] ELSE disk.next[n]]
      BY <2>1, <2>3, <3>1, Zenon DEF DiskTypes
    <3>3. disk'.head \in Nodes
      BY <3>1, <3>2, Zenon DEF DiskTypes
    <3>4. disk'.next \in [Nodes -> Nodes \cup {Null}]
      BY <3>1, <3>2, Zenon DEF DiskTypes, LinkTypes
    <3>5. LinkTypes(disk.next)'
      BY <3>1, <3>4, Zenon DEF LinkTypes
    <3>6. NameTypes(disk.repl)'
      <4>1. PICK rp : rp = disk.repl /\ disk'.repl = rp
        BY <3>2, Zenon
      <4>2. NameTypes(rp)
        BY <3>1, <4>1, Zenon DEF DiskTypes
      <4> QED
        BY <3>1, <4>1, <4>2 DEF NameTypes, Kept
    <3> QED
      BY <3>1, <3>2, <3>3, <3>5, <3>6, Zenon DEF DiskTypes
  <2> QED
    BY <2>2, <2>3, Zenon
<1>7. PICK i \in DOMAIN prog[t] : i = th[t].i /\ prog[t][i] = "enq"
  BY <1>1, <1>5, Zenon DEF ThTypes
<1>8. <<t, i>> \in Nodes /\ Node(t) = <<t, i>>
  BY <1>7, NodeFacts, Zenon DEF Node
<1>9. CASE Node(t) \in Reach(next, head)
  <2>1. Return(t, <<t, i>>)
    BY <1>8, <1>9, Zenon DEF Traverse
  <2>2. Deed(t, i) = <<t, i>>
    BY <1>7, Zenon DEF Deed
  <2>3. scrash = 0 => Did(t, i)
    BY <1>5, <1>7, <1>8, <1>9, Walking, Zenon DEF Types, Did
  <2> QED
    BY <1>1, <1>2, <1>4, <1>6, <1>7, <2>1, <2>2, <2>3, Returns, Zenon
<1>10. CASE Node(t) \notin Reach(next, head)
  <2>1. Goto(t, "recheck") /\ UNCHANGED res
    BY <1>10, Zenon DEF Traverse
  <2>2. Goes(t, "recheck", th[t].rec, th[t].lmax, th[t].tl, th[t].h, th[t].n) /\ UNCHANGED <<mem, clock, res>>
    BY <1>2, <1>5, <2>1, Zenon DEF Types, Shape, ThTypes, ThFields, Goes, Goto
  <2>3. PICK l \in Nodes : l = th[t].tl
    BY <1>1, <1>5, Zenon DEF ThTypes, EnqPcs
  <2>4. ThTypes(t)' /\ Sees(t)'
    BY <1>1, <1>3, <1>5, <2>2, <2>3, EnqTypes, Zenon DEF EnqPcs, Sees, Goes
  <2>5. ASSUME scrash = 0 PROVE Knows(t)' /\ Once(t)'
    <3>1. On(l) /\ mem[t][i].node > 0 /\ th[t].rec
      BY <1>1, <1>5, <1>7, <2>3, <2>5, Zenon DEF Knows, Once, EnqPcs
    <3>2. On(l)'
      BY <1>4, <2>5, <3>1, Zenon DEF ListStep, Grows
    <3>3. Knows(t)'
      BY <2>2, <2>3, <3>2, Zenon DEF Knows, Goes, EnqPcs
    <3>4. On(<<t, i>>) => Named(<<t, i>>)
      BY <1>5, <1>8, <1>10, <2>5, Walking, Zenon DEF Types
    <3>5. PICK v \in Nodes : v = <<t, i>> /\ v[1] = t
      BY <1>8, Zenon
    <3>6. On(v)' => Named(v)'
      BY <1>4, <2>5, <3>4, <3>5, Zenon DEF Unmade, ListStep, Named
    <3>7. Node(t)' = v
      BY <1>7, <2>2, <3>5, Zenon DEF Node, Goes
    <3>8. Once(t)'
      BY <1>3, <1>7, <2>2, <3>1, <3>6, <3>7, Zenon DEF Once, Goes, EnqPcs
    <3> QED
      BY <3>3, <3>8, Zenon
  <2> QED
    BY <1>1, <1>4, <1>5, <1>6, <2>2, <2>4, <2>5, Moved, Zenon
<1> QED
  BY <1>9, <1>10, Zenon

\* The node was not found: if it has no name now, it was never linked.
LEMMA RecheckKeeps ==
    ASSUME Inv, NEW t \in Threads, Recheck(t)
    PROVE  Inv'
<1>1. th[t].pc = "recheck" /\ th[t].pc \in EnqPcs /\ th[t].pc # "done"
  BY Zenon DEF Recheck, At, EnqPcs
<1>2. UNCHANGED <<head, tail, next, repl, retired, queue>> /\ UNCHANGED <<setup, scrash>> /\ UNCHANGED <<mem, clock>>
  BY Zenon DEF Recheck, shared, crashes
<1>3. disk' = disk /\ scenario' = scenario /\ mem' = mem
  BY Zenon DEF Recheck, shared, setup
<1>4. ListStep(t) /\ Unmade(t)
  BY <1>2, QuietStep, Zenon
<1>5. /\ Types /\ ThTypes(t) /\ MemTypes(t) /\ Sees(t) /\ th[t].i \in DOMAIN prog[t] /\ th[t].rec \in BOOLEAN /\ th[t].lmax \in Nat
      /\ scrash = 0 => List /\ Mementos(t) /\ Mine(t) /\ Knows(t) /\ Once(t)
  BY <1>1, Running
<1>6. DiskTypes'
  BY <1>3, <1>5, NodeFacts, Flushing, Zenon
<1>7. PICK i \in DOMAIN prog[t] : i = th[t].i /\ prog[t][i] = "enq"
  BY <1>1, <1>5, Zenon DEF ThTypes
<1>8. <<t, i>> \in Nodes /\ Node(t) = <<t, i>>
  BY <1>7, NodeFacts, Zenon DEF Node
<1>9. CASE acked(t)
  <2>1. Return(t, <<t, i>>)
    BY <1>8, <1>9, Zenon DEF Recheck
  <2>2. Deed(t, i) = <<t, i>>
    BY <1>7, Zenon DEF Deed
  <2>3. scrash = 0 => Did(t, i)
    <3>1. Named(<<t, i>>)
      BY <1>8, <1>9, Zenon DEF acked, Named
    <3>2. scrash = 0 => On(<<t, i>>)
      BY <1>5, <1>8, <3>1, ListFacts, Zenon DEF Types, List
    <3> QED
      BY <1>7, <3>2, Zenon DEF Did
  <2> QED
    BY <1>1, <1>2, <1>4, <1>6, <1>7, <2>1, <2>2, <2>3, Returns, Zenon
<1>10. CASE ~acked(t)
  <2>1. PICK pc \in {"failed", "cas"}, rec \in BOOLEAN, lmax \in Nat :
            /\ Goes(t, pc, rec, lmax, th[t].tl, th[t].h, th[t].n)
            /\ pc = "failed" => rec = th[t].rec
            /\ pc = "cas" => ~rec
            /\ lmax = th[t].lmax \/ lmax = mem[t][i].failed
    <3>1. CASE Mem(t).failed > th[t].lmax
      <4>1. Goes(t, "failed", th[t].rec, mem[t][i].failed, th[t].tl, th[t].h, th[t].n)
        <5>1. th' = [th EXCEPT ![t] = [th[t] EXCEPT !.lmax = mem[t][i].failed, !.pc = "failed"]]
          BY <1>7, <1>10, <3>1, Zenon DEF Recheck, Mem
        <5> QED
          BY <1>5, <5>1, Zenon DEF Types, Shape, ThTypes, ThFields, Goes
      <4>2. mem[t][i].failed \in Nat
        BY <1>5, <1>7, Zenon DEF MemTypes
      <4> QED
        BY <1>5, <4>1, <4>2, Zenon
    <3>2. CASE ~(Mem(t).failed > th[t].lmax)
      <4>1. Goes(t, "cas", FALSE, th[t].lmax, th[t].tl, th[t].h, th[t].n)
        <5>1. th' = [th EXCEPT ![t] = [th[t] EXCEPT !.rec = FALSE, !.pc = "cas"]]
          BY <1>7, <1>10, <3>2, Zenon DEF Recheck, Mem
        <5> QED
          BY <1>5, <5>1, Zenon DEF Types, Shape, ThTypes, ThFields, Goes
      <4> QED
        BY <1>5, <4>1, Zenon
    <3> QED
      BY <3>1, <3>2, Zenon
  <2>2. UNCHANGED <<mem, clock, res>>
    BY <1>2, <1>10, Zenon DEF Recheck
  <2>3. PICK l \in Nodes : l = th[t].tl
    BY <1>1, <1>5, Zenon DEF ThTypes, EnqPcs
  <2>4. ThTypes(t)' /\ Sees(t)'
    BY <1>1, <1>3, <1>5, <2>1, <2>3, EnqTypes, Zenon DEF EnqPcs, Sees, Goes
  <2>5. ASSUME scrash = 0 PROVE ~Did(t, i) /\ Knows(t)' /\ Once(t)'
    <3>1. On(l) /\ mem[t][i].node > 0 /\ th[t].rec /\ (On(<<t, i>>) => Named(<<t, i>>))
      BY <1>1, <1>5, <1>7, <1>8, <2>3, <2>5, Zenon DEF Knows, Once, EnqPcs
    <3>2. On(l)'
      BY <1>4, <2>5, <3>1, Zenon DEF ListStep, Grows
    <3>3. Knows(t)'
      BY <2>1, <2>3, <3>2, Zenon DEF Knows, Goes, EnqPcs
    <3>4. ~Did(t, i)
      BY <1>7, <1>8, <1>10, <3>1, Zenon DEF Did, Named, acked
    <3>5. Did(t, i)' => Did(t, i)
      BY <1>3, <1>4, <2>5, NotDone, Zenon
    <3>6. Once(t)'
      BY <1>3, <1>7, <2>1, <3>1, <3>4, <3>5, Zenon DEF Once, Goes, EnqPcs
    <3> QED
      BY <3>3, <3>4, <3>6, Zenon
  <2>6. lmax = th[t].lmax \/ lmax \in Stamps(t, th[t].i)
    BY <1>7, <2>1, Zenon DEF Stamps
  <2> QED
    BY <1>1, <1>4, <1>5, <1>6, <1>7, <2>1, <2>2, <2>4, <2>5, <2>6, Moved, Zenon
<1> QED
  BY <1>9, <1>10, Zenon

\* The insert is known to have failed, and try_enqueue starts again.
LEMMA RetryKeeps ==
    ASSUME Inv, NEW t \in Threads, Retry(t)
    PROVE  Inv'
<1>1. th[t].pc = "failed" /\ th[t].pc \in EnqPcs /\ th[t].pc # "done"
  BY Zenon DEF Retry, At, EnqPcs
<1>2. UNCHANGED <<head, tail, next, repl, retired, queue>> /\ UNCHANGED <<setup, scrash>> /\ UNCHANGED <<mem, clock, res>>
  BY Zenon DEF Retry, shared, crashes
<1>3. disk' = disk /\ scenario' = scenario /\ mem' = mem
  BY Zenon DEF Retry, shared, setup
<1>4. /\ Types /\ ThTypes(t) /\ MemTypes(t) /\ Sees(t) /\ th[t].i \in DOMAIN prog[t] /\ th[t].rec \in BOOLEAN /\ th[t].lmax \in Nat
      /\ scrash = 0 => List /\ Mementos(t) /\ Mine(t) /\ Knows(t) /\ Once(t)
  BY <1>1, Running, Zenon
<1>5. ListStep(t) /\ Unmade(t)
  BY <1>2, QuietStep, Zenon
<1>6. DiskTypes'
  BY <1>3, <1>4, NodeFacts, Flushing, Zenon
<1>7. Goes(t, "tail", th[t].rec, th[t].lmax, th[t].tl, th[t].h, th[t].n)
  BY <1>4, Zenon DEF Retry, Types, Shape, ThTypes, ThFields, Goes, Goto
<1>8. ThTypes(t)' /\ Sees(t)'
  BY <1>1, <1>3, <1>4, <1>7, EnqTypes, Zenon DEF EnqPcs, Sees, Goes
<1>9. ASSUME scrash = 0 PROVE Knows(t)' /\ Once(t)'
  <2>1. PICK i \in DOMAIN prog[t] : i = th[t].i
    BY <1>4, Zenon
  <2>2. Knows(t)'
    BY <1>7, Zenon DEF Knows, Goes, EnqPcs
  <2>3. mem[t][i].node > 0 /\ th[t].rec
    BY <1>1, <1>4, <1>9, <2>1, Zenon DEF Once, EnqPcs
  <2>4. Once(t)'
    BY <1>3, <1>7, <2>1, <2>3, Zenon DEF Once, Goes, EnqPcs
  <2> QED
    BY <2>2, <2>4, Zenon
<1> QED
  BY <1>1, <1>2, <1>5, <1>4, <1>6, <1>7, <1>8, <1>9, Moved, Zenon

-----------------------------------------------------------------------------
\* insert, insert_lp.

\* The failure of an insert or a delete is recorded.
LEMMA RecordFailureKeeps ==
    ASSUME Inv, NEW t \in Threads, th[t].pc # "done", RecordFailure(t), UNCHANGED <<scenario, res>>, NEW i \in DOMAIN prog[t], i = th[t].i
    PROVE  /\ Records(t, i) /\ MemTypes(t)'
           /\ mem'[t][i].hn = mem[t][i].hn /\ mem'[t][i].node = mem[t][i].node
<1>1. Types /\ MemTypes(t) /\ scenario' = scenario /\ res' = res
  BY Running, Zenon
<1>2. /\ DOMAIN clock' = Threads /\ clock'[t] = clock[t] + 1 /\ \A u \in Threads \ {t} : clock'[u] = clock[u]
  BY <1>1, Zenon DEF RecordFailure, Types, Shape
<1>3. PICK c : c = clock'[t] /\ mem' = [mem EXCEPT ![t][i].failed = c]
  BY Zenon DEF RecordFailure
<1>4. /\ DOMAIN mem' = Threads /\ DOMAIN mem'[t] = DOMAIN prog[t] /\ (\A u \in Threads \ {t} : mem'[u] = mem[u])
      /\ \A j \in DOMAIN prog[t] : j # i => mem'[t][j] = mem[t][j]
  BY <1>1, <1>3, Zenon DEF Types, Shape, MemTypes
<1>5. /\ DOMAIN mem'[t][i] = {"node", "hn", "failed"} /\ mem'[t][i].failed = c
      /\ mem'[t][i].hn = mem[t][i].hn /\ mem'[t][i].node = mem[t][i].node
  BY <1>1, <1>3, Zenon DEF Types, Shape, MemTypes
<1>6. Records(t, i)
  BY <1>2, <1>3, <1>4, <1>5, Zenon DEF Records
<1>7. MemTypes(t)'
  <2>1. clock[t] \in Nat /\ c = clock[t] + 1 /\ c \in Nat /\ c > 0
    BY <1>1, <1>2, <1>3 DEF MemTypes
  <2>2. prog'[t] = prog[t] /\ Nodes' = Nodes
    BY <1>1, Zenon DEF prog, Nodes, Ops
  <2>3. \A j \in DOMAIN prog[t] :
        /\ DOMAIN mem'[t][j] = {"node", "hn", "failed"}
        /\ mem'[t][j].failed \in Nat /\ mem'[t][j].node = mem[t][j].node /\ mem'[t][j].hn = mem[t][j].hn
    BY <1>1, <1>4, <1>5, <2>1, Zenon DEF MemTypes
  <2>4. \A j \in DOMAIN prog[t] :
        /\ mem'[t][j].node \in Nat /\ mem'[t][j].hn.ts \in Nat
        /\ mem'[t][j].hn.ts > 0 => mem'[t][j].hn.h \in Nodes' /\ mem'[t][j].hn.n \in Nodes' \cup {Null}
    BY <1>1, <2>2, <2>3, Zenon DEF MemTypes
  <2>5. DOMAIN res'[t] = DOMAIN prog[t] /\ clock'[t] \in Nat
    BY <1>1, <1>3, <2>1, Zenon DEF MemTypes
  <2> QED
    BY <1>4, <2>2, <2>3, <2>4, <2>5, Zenon DEF MemTypes
<1> QED
  BY <1>5, <1>6, <1>7, Zenon

\* The node is linked behind the last one, or the tail is stale.
LEMMA InsertKeeps ==
    ASSUME Inv, NEW t \in Threads, Insert(t)
    PROVE  Inv'
<1>1. th[t].pc = "cas" /\ th[t].pc \in EnqPcs /\ th[t].pc # "done"
  BY Zenon DEF Insert, At, EnqPcs
<1>2. UNCHANGED <<head, tail, repl, retired>> /\ UNCHANGED <<setup, scrash>> /\ UNCHANGED <<repl, res>>
  BY Zenon DEF Insert, crashes
<1>3. disk' = disk /\ scenario' = scenario /\ UNCHANGED <<scenario, res>>
  BY Zenon DEF Insert, setup
<1>4. /\ Types /\ ThTypes(t) /\ MemTypes(t) /\ Sees(t) /\ th[t].i \in DOMAIN prog[t] /\ th[t].rec \in BOOLEAN /\ th[t].lmax \in Nat
      /\ scrash = 0 => List /\ Mementos(t) /\ Mine(t) /\ Knows(t) /\ Once(t)
  BY <1>1, Running, Zenon
<1>5. DiskTypes'
  BY <1>3, <1>4, NodeFacts, Flushing, Zenon
<1>6. PICK i \in DOMAIN prog[t] : i = th[t].i /\ prog[t][i] = "enq"
  BY <1>1, <1>4, Zenon DEF ThTypes
<1>7. PICK l \in Nodes : l = th[t].tl
  BY <1>1, <1>4, Zenon DEF ThTypes, EnqPcs
<1>8. PICK v \in Nodes : v = <<t, i>> /\ v = Node(t) /\ v[1] = t
  BY <1>6, NodeFacts, Zenon DEF Node
<1>9. scrash = 0 => On(l) /\ ~th[t].rec /\ mem[t][i].node > 0 /\ ~Did(t, i)
  BY <1>1, <1>4, <1>6, <1>7, Zenon DEF Knows, Once, EnqPcs
<1>10. CASE unlinked(t)
  <2>1. Goes(t, "persist", th[t].rec, th[t].lmax, th[t].tl, th[t].h, th[t].n) /\ UNCHANGED <<mem, clock, res>>
    BY <1>2, <1>4, <1>10 DEF Insert, Types, Shape, ThTypes, ThFields, Goes, Goto, unlinked
  <2>2. next[l] = Null /\ next' = [next EXCEPT ![l] = v] /\ queue' = Append(queue, v)
    BY <1>7, <1>8, <1>10, Zenon DEF Insert, unlinked
  <2>3. next'[l] = v /\ \A n \in Nodes : n # l => next'[n] = next[n]
    BY <1>4, <2>2, Zenon DEF Types, ListTypes, LinkTypes
  <2>4. /\ head' = head /\ tail' = tail /\ repl' = repl /\ retired' = retired /\ Nodes' = Nodes /\ lp' = lp /\ mem' = mem
    BY <1>2, <1>3, <2>1, Zenon DEF Nodes, Ops, prog, setup
  <2>5. ListTypes'
    <3>1. next' \in [Nodes -> Nodes \cup {Null}]
      BY <1>4, <2>2, Zenon DEF Types, ListTypes, LinkTypes
    <3>2. NameTypes(repl)'
      BY <1>4, <2>4 DEF Types, ListTypes, NameTypes, Kept
    <3> QED
      BY <1>4, <2>4, <3>1, <3>2, Zenon DEF Types, ListTypes, LinkTypes
  <2>6. ASSUME scrash = 0 PROVE List' /\ Grows /\ \A n \in Nodes : On(n)' => On(n) \/ n = v
    <3>1. ~On(v) /\ On(l) /\ List /\ ListTypes
      BY <1>4, <1>6, <1>8, <1>9, <2>6, Zenon DEF Did, Types
    <3> QED
      BY <1>2, <1>3, <2>2, <3>1, Linking, Zenon
  <2>7. ListStep(t)
    <3>1. \A n \in Nodes : (Named(n) => repl'[n] = repl[n]) /\ (next[n] # Null => next'[n] = next[n])
      BY <2>2, <2>3, <2>4, Zenon
    <3>2. scrash = 0 => \A u \in Threads \ {t} : Unmade(u)
      BY <1>8, <2>4, <2>6, Zenon DEF Unmade
    <3> QED
      BY <1>2, <2>4, <2>5, <2>6, <3>1, <3>2, Zenon DEF ListStep
  <2>8. ThTypes(t)' /\ Sees(t)'
    BY <1>1, <1>3, <1>4, <1>7, <2>1, EnqTypes, Zenon DEF EnqPcs, Sees, Goes
  <2>9. ASSUME scrash = 0 PROVE Mine(t)' /\ Knows(t)' /\ Once(t)'
    <3>1. Node(t)' = v /\ On(l)'
      BY <1>6, <1>8, <1>9, <2>1, <2>6, <2>9, Zenon DEF Node, Goes, Grows
    <3>2. Knows(t)'
      BY <1>7, <2>1, <2>3, <3>1, Zenon DEF Knows, Goes, EnqPcs
    <3>3. Once(t)'
      BY <1>6, <1>9, <2>1, <2>4, <2>9, Zenon DEF Once, Goes, EnqPcs
    <3>4. Made(t)'
      <4> SUFFICES ASSUME NEW j \in DOMAIN prog[t], prog[t][j] = "enq", On(<<t, j>>)' PROVE mem[t][j].node > 0
        BY <1>3, <2>4, Zenon DEF Made, prog
      <4>1. On(<<t, j>>) \/ <<t, j>> = v
        BY <2>6, <2>9, NodeFacts, Zenon
      <4>2. <<t, j>> = v => j = i
        BY <1>8
      <4> QED
        BY <1>4, <1>9, <2>9, <4>1, <4>2, Zenon DEF Mine, Made
    <3>5. Left(t)'
      <4>1. Left(t) /\ prog'[t] = prog[t]
        BY <1>3, <1>4, <2>9, Zenon DEF Mine, prog
      <4> QED
        BY <2>4, <4>1 DEF Left
    <3> QED
      BY <3>2, <3>3, <3>4, <3>5, Zenon DEF Mine
  <2> QED
    BY <1>1, <1>4, <1>5, <2>1, <2>7, <2>8, <2>9, Moved, Zenon
<1>11. CASE ~unlinked(t)
  <2>1. RecordFailure(t) /\ Goto(t, "tail") /\ UNCHANGED <<head, tail, next, repl, retired, queue>>
    BY <1>2, <1>11, Zenon DEF Insert
  <2>2. Goes(t, "tail", th[t].rec, th[t].lmax, th[t].tl, th[t].h, th[t].n)
    BY <1>4, <2>1, Zenon DEF Types, Shape, ThTypes, ThFields, Goes, Goto
  <2>3. Records(t, i) /\ MemTypes(t)' /\ mem'[t][i].hn = mem[t][i].hn /\ mem'[t][i].node = mem[t][i].node
    BY <1>1, <1>3, <1>6, <2>1, RecordFailureKeeps, Zenon
  <2>4. ListStep(t) /\ Unmade(t)
    BY <1>2, <2>1, QuietStep, Zenon
  <2>5. ThTypes(t)' /\ Sees(t)'
    BY <1>1, <1>3, <1>4, <2>2, EnqTypes, Zenon DEF EnqPcs, Sees, Goes
  <2>6. ASSUME scrash = 0 PROVE Knows(t)' /\ Once(t)'
    <3>1. Knows(t)'
      BY <2>2, Zenon DEF Knows, Goes, EnqPcs
    <3>2. Did(t, i)' => Did(t, i)
      BY <2>3, <2>4, <2>6, NotDone, Zenon
    <3>3. Once(t)'
      BY <1>6, <1>9, <2>2, <2>3, <2>6, <3>2, Zenon DEF Once, Goes, EnqPcs
    <3> QED
      BY <3>1, <3>3, Zenon
  <2> QED
    BY <1>1, <1>2, <1>4, <1>5, <1>6, <1>9, <2>2, <2>3, <2>4, <2>5, <2>6, Recorded, Zenon
<1> QED
  BY <1>10, <1>11, Zenon

\* The link of the new node is flushed.
LEMMA PersistKeeps ==
    ASSUME Inv, NEW t \in Threads, Persist(t)
    PROVE  Inv'
<1>1. th[t].pc = "persist" /\ th[t].pc \in EnqPcs /\ th[t].pc # "done"
  BY Zenon DEF Persist, At, EnqPcs
<1>2. UNCHANGED <<head, tail, next, repl, retired, queue>> /\ UNCHANGED <<setup, scrash>> /\ UNCHANGED <<mem, clock, res>>
  BY Zenon DEF Persist, shared, crashes
<1>3. FlushNext(th[t].tl) /\ scenario' = scenario /\ mem' = mem
  BY Zenon DEF Persist, shared, setup
<1>4. /\ Types /\ ThTypes(t) /\ MemTypes(t) /\ Sees(t) /\ th[t].i \in DOMAIN prog[t] /\ th[t].rec \in BOOLEAN /\ th[t].lmax \in Nat
      /\ scrash = 0 => List /\ Mementos(t) /\ Mine(t) /\ Knows(t) /\ Once(t)
  BY <1>1, Running, Zenon
<1>5. ListStep(t) /\ Unmade(t)
  BY <1>2, QuietStep, Zenon
<1>6. DiskTypes'
  <2>1. th[t].tl \in Nodes
    BY <1>1, <1>4, Zenon DEF ThTypes, EnqPcs
  <2> QED
    BY <1>3, <1>4, <2>1, Flushing, Zenon
<1>7. Goes(t, "advance", th[t].rec, th[t].lmax, th[t].tl, th[t].h, th[t].n)
  BY <1>4, Zenon DEF Persist, Types, Shape, ThTypes, ThFields, Goes, Goto
<1>8. ThTypes(t)' /\ Sees(t)'
  <2>1. th[t].tl \in Nodes
    BY <1>1, <1>4, Zenon DEF ThTypes, EnqPcs
  <2> QED
    BY <1>1, <1>3, <1>4, <1>7, <2>1, EnqTypes, Zenon DEF EnqPcs, Sees, Goes
<1>9. ASSUME scrash = 0 PROVE Knows(t)' /\ Once(t)'
  <2>1. PICK i \in DOMAIN prog[t] : i = th[t].i
    BY <1>4, Zenon
  <2>2. next[th[t].tl] = Node(t) /\ On(th[t].tl) /\ next' = next
    BY <1>1, <1>2, <1>4, <1>9, Zenon DEF Knows, EnqPcs
  <2>3. PICK l \in Nodes : l = th[t].tl
    BY <1>1, <1>4, Zenon DEF ThTypes, EnqPcs
  <2>4. On(l)' /\ Node(t)' = Node(t)
    BY <1>5, <1>7, <1>9, <2>2, <2>3, Zenon DEF ListStep, Grows, Node, Goes
  <2>5. Knows(t)'
    BY <1>7, <2>2, <2>3, <2>4, Zenon DEF Knows, Goes, EnqPcs
  <2>6. mem[t][i].node > 0 /\ ~th[t].rec
    BY <1>1, <1>4, <1>9, <2>1, Zenon DEF Once, EnqPcs
  <2>7. Once(t)'
    BY <1>3, <1>7, <2>1, <2>6, Zenon DEF Once, Goes, EnqPcs
  <2> QED
    BY <2>5, <2>7, Zenon
<1> QED
  BY <1>1, <1>2, <1>5, <1>4, <1>6, <1>7, <1>8, <1>9, Moved, Zenon

\* The tail moves to the new node, and the insert returns it.
LEMMA AdvanceKeeps ==
    ASSUME Inv, NEW t \in Threads, Advance(t)
    PROVE  Inv'
<1>1. th[t].pc = "advance" /\ th[t].pc \in EnqPcs /\ th[t].pc # "done"
  BY Zenon DEF Advance, At, EnqPcs
<1>2. UNCHANGED <<head, next, repl, retired, queue>> /\ UNCHANGED <<setup, scrash>> /\ UNCHANGED <<mem, clock>>
  BY Zenon DEF Advance, crashes
<1>3. disk' = disk /\ scenario' = scenario
  BY Zenon DEF Advance, setup
<1>4. /\ Types /\ ThTypes(t) /\ th[t].i \in DOMAIN prog[t] /\ (scrash = 0 => Knows(t))
  BY <1>1, Running, Zenon
<1>5. DiskTypes'
  BY <1>3, <1>4, NodeFacts, Flushing, Zenon
<1>6. PICK i \in DOMAIN prog[t] : i = th[t].i /\ prog[t][i] = "enq"
  BY <1>1, <1>4, Zenon DEF ThTypes
<1>7. <<t, i>> \in Nodes /\ Node(t) = <<t, i>> /\ Deed(t, i) = <<t, i>>
  BY <1>6, NodeFacts, Zenon DEF Node, Deed
<1>8. th[t].tl \in Nodes /\ (scrash = 0 => next[th[t].tl] = <<t, i>>)
  BY <1>1, <1>4, <1>7, Zenon DEF ThTypes, EnqPcs, Knows
<1>9. ListStep(t) /\ Unmade(t)
  <2>1. tail' = IF tail = th[t].tl THEN <<t, i>> ELSE tail
    BY <1>7, Zenon DEF Advance, SwingTail
  <2>2. tail' \in Nodes
    BY <1>4, <1>7, <2>1, Zenon DEF Types, ListTypes
  <2> QED
    BY <1>2, <1>8, <2>1, <2>2, TailStep, Zenon
<1>10. Return(t, <<t, i>>)
  BY <1>7, Zenon DEF Advance
<1>11. scrash = 0 => Did(t, i)
  BY <1>6, <1>8, Zenon DEF Did, On
<1> QED
  BY <1>1, <1>2, <1>5, <1>6, <1>7, <1>9, <1>10, <1>11, Returns, Zenon

-----------------------------------------------------------------------------
\* dequeue, try_dequeue.

\* A pair that was recorded is taken up again.
LEMMA ReplayKeeps ==
    ASSUME Inv, NEW t \in Threads, Replay(t)
    PROVE  Inv'
<1>1. th[t].pc = "deq" /\ th[t].pc \in DeqPcs /\ th[t].pc # "done"
  BY Zenon DEF Replay, At, DeqPcs
<1>2. UNCHANGED <<head, tail, next, repl, retired, queue>> /\ UNCHANGED <<setup, scrash>> /\ UNCHANGED <<mem, clock, res>>
  BY Zenon DEF Replay, shared, crashes
<1>3. disk' = disk /\ scenario' = scenario /\ mem' = mem
  BY Zenon DEF Replay, shared, setup
<1>4. ListStep(t) /\ Unmade(t)
  BY <1>2, QuietStep, Zenon
<1>5. /\ Types /\ ThTypes(t) /\ MemTypes(t) /\ Sees(t) /\ th[t].i \in DOMAIN prog[t] /\ th[t].rec \in BOOLEAN /\ th[t].lmax \in Nat
      /\ th[t].n \in Nodes \cup {Null}
      /\ scrash = 0 => List /\ Mementos(t) /\ Mine(t) /\ Knows(t) /\ Once(t)
  BY <1>1, Running, Zenon
<1>6. DiskTypes'
  BY <1>3, <1>5, NodeFacts, Flushing, Zenon
<1>7. PICK i \in DOMAIN prog[t] : i = th[t].i /\ prog[t][i] = "deq"
  BY <1>1, <1>5, Zenon DEF ThTypes
<1>8. PICK hn : hn = mem[t][i].hn /\ hn = Mem(t).hn /\ hn.ts \in Nat /\ (hn.ts > 0 => hn.h \in Nodes /\ hn.n \in Nodes \cup {Null})
  BY <1>5, <1>7, Zenon DEF MemTypes, Mem
<1>9. CASE Replays(t, hn.ts)
  <2>1. th' = [th EXCEPT ![t] = [th[t] EXCEPT !.lmax = hn.ts, !.h = hn.h, !.n = hn.n, !.pc = "delete"]]
    BY <1>8, <1>9, Zenon DEF Replay
  <2>2. Goes(t, "delete", th[t].rec, hn.ts, th[t].tl, hn.h, hn.n)
    BY <1>5, <2>1, Zenon DEF Types, Shape, ThTypes, ThFields, Goes
  <2>3. th[t].rec /\ hn.ts > 0
    BY <1>5, <1>8, <1>9 DEF Replays
  <2>4. ThTypes(t)' /\ Sees(t)'
    <3>1. hn.h \in Nodes /\ hn.n \in Nodes \cup {Null} /\ "delete" \in DeqPcs
      BY <1>8, <2>3, Zenon DEF DeqPcs
    <3>2. ThTypes(t)'
      BY <1>1, <1>3, <1>5, <1>8, <2>2, <3>1, DeqTypes, Zenon
    <3>3. Sees(t)'
      BY <2>2, Zenon DEF Sees, Goes
    <3> QED
      BY <3>2, <3>3, Zenon
  <2>5. Knows(t)'
    BY <1>3, <1>7, <1>8, <2>2, <2>3, Zenon DEF Knows, Goes, EnqPcs
  <2>6. Once(t)'
    BY <2>2, <2>3, Zenon DEF Once, Goes, EnqPcs
  <2>7. hn.ts \in Stamps(t, th[t].i)
    BY <1>7, <1>8, Zenon DEF Stamps
  <2> QED
    BY <1>1, <1>2, <1>4, <1>5, <1>6, <1>8, <2>2, <2>4, <2>5, <2>6, <2>7, Moved, Zenon
<1>10. CASE ~Replays(t, hn.ts)
  <2>1. th' = [th EXCEPT ![t] = [th[t] EXCEPT !.rec = FALSE, !.pc = "head"]]
    BY <1>8, <1>10, Zenon DEF Replay
  <2>2. Goes(t, "head", FALSE, th[t].lmax, th[t].tl, th[t].h, th[t].n)
    BY <1>5, <2>1 DEF Types, Shape, ThTypes, ThFields, Goes
  <2>3. ThTypes(t)' /\ Sees(t)'
    BY <1>1, <1>3, <1>5, <2>2, DeqTypes, Zenon DEF DeqPcs, Sees, Goes
  <2>4. ASSUME scrash = 0 PROVE ~Did(t, i) /\ Knows(t)' /\ Once(t)'
    <3>1. ~Did(t, i)
      BY <1>1, <1>5, <1>7, <1>8, <1>10, <2>4, Zenon DEF Once, Replays
    <3>2. Did(t, i)' => Did(t, i)
      BY <1>3, <1>4, <2>4, NotDone, Zenon
    <3>3. Knows(t)'
      BY <2>2, Zenon DEF Knows, Goes, EnqPcs
    <3>4. Once(t)'
      BY <1>7, <2>2, <3>1, <3>2, Zenon DEF Once, Goes, EnqPcs
    <3> QED
      BY <3>1, <3>3, <3>4, Zenon
  <2> QED
    BY <1>1, <1>2, <1>4, <1>5, <1>6, <1>7, <2>2, <2>3, <2>4, Moved, Zenon
<1> QED
  BY <1>9, <1>10, Zenon

\* What t has not done in this operation, it has not named: the earlier ones have moved the head on.
LEMMA HeadIsNotMine ==
    ASSUME Inv, NEW t \in Threads, th[t].pc # "done", scrash = 0, NEW i \in DOMAIN prog[t], i = th[t].i, ~Did(t, i), prog[t][i] = "deq"
    PROVE  repl[head].tid # t
<1>1. /\ Types /\ prog[t] \in Seq({"enq", "deq"}) /\ List /\ Mementos(t) /\ Mine(t)
  BY Running, Zenon
<1> SUFFICES ASSUME repl[head].tid = t PROVE FALSE
  BY Zenon
<1>2. PICK j \in DOMAIN prog[t] : prog[t][j] = "deq" /\ mem[t][j].hn.ts > 0 /\ mem[t][j].hn.h = head /\ mem[t][j].hn.n # Null
  <2>1. head \in Nodes /\ Left(t)
    BY <1>1, Zenon DEF Types, ListTypes, Mine
  <2> QED
    BY <2>1, Zenon DEF Left
<1>3. j # i
  BY <1>2, Zenon DEF Did
<1>4. ~(j < i)
  BY <1>1, <1>2, Zenon DEF Mementos, Returned, Past
<1>5. ~(i < j)
  <2>1. mem[t][j].hn.ts \in Stamps(t, j)
    BY Zenon DEF Stamps
  <2> QED
    BY <1>1, <1>2, <2>1, Zenon DEF Mementos, Ordered
<1> QED
  BY <1>1, <1>3, <1>4, <1>5

\* try_dequeue loads the head, which does not carry the name of the thread.
LEMMA LoadHeadKeeps ==
    ASSUME Inv, NEW t \in Threads, LoadHead(t)
    PROVE  Inv'
<1>1. PICK pc \in {"dnext", "dtail"} : pc = (IF lp' THEN "dnext" ELSE "dtail") /\ th' = [th EXCEPT ![t].h = head, ![t].pc = pc]
  BY Zenon DEF LoadHead, setup
<1>2. th[t].pc = "head" /\ th[t].pc \in DeqPcs /\ th[t].pc # "done"
  BY Zenon DEF LoadHead, At, DeqPcs
<1>3. UNCHANGED <<head, tail, next, repl, retired, queue>> /\ UNCHANGED <<setup, scrash>> /\ UNCHANGED <<mem, clock, res>>
  BY Zenon DEF LoadHead, shared, crashes
<1>4. disk' = disk /\ scenario' = scenario /\ mem' = mem
  BY Zenon DEF LoadHead, shared, setup
<1>5. /\ Types /\ ThTypes(t) /\ MemTypes(t) /\ Sees(t) /\ th[t].i \in DOMAIN prog[t] /\ th[t].rec \in BOOLEAN /\ th[t].lmax \in Nat
      /\ scrash = 0 => List /\ Mementos(t) /\ Mine(t) /\ Knows(t) /\ Once(t)
  BY <1>2, Running, Zenon
<1>6. ListStep(t) /\ Unmade(t)
  BY <1>3, QuietStep, Zenon
<1>7. DiskTypes'
  BY <1>4, <1>5, NodeFacts, Flushing, Zenon
<1>8. Goes(t, pc, th[t].rec, th[t].lmax, th[t].tl, head, th[t].n)
  BY <1>1, <1>5, Zenon DEF Types, Shape, ThTypes, ThFields, Goes
<1>9. ThTypes(t)' /\ Sees(t)'
  <2>1. head \in Nodes /\ th[t].n \in Nodes \cup {Null}
    BY <1>5, Zenon DEF Types, ListTypes, ThTypes
  <2>2. pc \in DeqPcs /\ pc \notin {"dstale", "own", "unlink"} /\ pc # "dstale"
    BY <1>1, Zenon DEF DeqPcs
  <2>3. ThTypes(t)'
    BY <1>2, <1>4, <1>5, <1>8, <2>1, <2>2, DeqTypes, Zenon
  <2>4. Sees(t)'
    BY <1>1, <1>8, Zenon DEF Sees, Goes
  <2> QED
    BY <2>3, <2>4, Zenon
<1>10. ASSUME scrash = 0 PROVE Knows(t)' /\ Once(t)'
  <2>1. PICK i \in DOMAIN prog[t] : i = th[t].i
    BY <1>5, Zenon
  <2>2. ~th[t].rec /\ ~Did(t, i) /\ prog[t][i] = "deq"
    BY <1>2, <1>5, <1>10, <2>1, Zenon DEF Once, ThTypes
  <2>3. repl[head].tid # t /\ repl' = repl /\ head' = head
    BY <1>2, <1>3, <1>10, <2>1, <2>2, HeadIsNotMine, Zenon
  <2>4. Did(t, i)' => Did(t, i)
    BY <1>4, <1>6, <1>10, NotDone, Zenon
  <2>5. Was(head)'
    BY Zenon DEF Was
  <2>6. Knows(t)'
    BY <1>1, <1>8, <2>3, <2>5, Zenon DEF Knows, Goes, EnqPcs
  <2>7. Once(t)'
    BY <1>1, <1>8, <2>1, <2>2, <2>4, Zenon DEF Once, Goes, EnqPcs
  <2> QED
    BY <2>6, <2>7, Zenon
<1> QED
  BY <1>2, <1>3, <1>6, <1>5, <1>7, <1>8, <1>9, <1>10, Moved, Zenon

\* The pair of head and next node, with the tail that was loaded.
LEMMA HeadNextKeeps ==
    ASSUME Inv, NEW t \in Threads, th[t].pc \in {"dtail", "dnext"}, NEW tl, NEW n \in Nodes \cup {Null}, HeadNext(t, tl, n),
           UNCHANGED <<head, tail, next, repl, retired, queue>>, UNCHANGED <<setup, scrash>>, UNCHANGED <<repl, res>>, DiskTypes',
           scrash = 0 =>
              /\ n # Null => next[th[t].h] = n
              /\ n # Null /\ th[t].h # tl => Behind(th[t].h)
    PROVE  Inv'
<1>1. th[t].pc \in DeqPcs /\ th[t].pc # "done"
  BY Zenon DEF DeqPcs
<1>2. scenario' = scenario /\ next' = next /\ repl' = repl /\ Nodes' = Nodes /\ res' = res
  <2>1. scenario' = scenario /\ next' = next /\ repl' = repl /\ res' = res
    BY Zenon DEF setup
  <2> QED
    BY <2>1, Zenon DEF Nodes, Ops, prog
<1>3. ListStep(t) /\ Unmade(t)
  BY QuietStep, Zenon
<1>4. /\ Types /\ ThTypes(t) /\ MemTypes(t) /\ Sees(t) /\ th[t].i \in DOMAIN prog[t] /\ th[t].rec \in BOOLEAN /\ th[t].lmax \in Nat
      /\ scrash = 0 => List /\ Mementos(t) /\ Mine(t) /\ Knows(t) /\ Once(t)
  BY <1>1, Running, Zenon
<1>5. PICK i \in DOMAIN prog[t] : i = th[t].i /\ prog[t][i] = "deq"
  BY <1>1, <1>4, Zenon DEF ThTypes
<1>6. PICK h \in Nodes : h = th[t].h
  BY <1>4, Zenon DEF ThTypes, DeqPcs
<1>7. scrash = 0 => Was(h) /\ repl[h].tid # t /\ ~th[t].rec /\ ~Did(t, i)
  BY <1>4, <1>5, <1>6, Zenon DEF Knows, Once
<1>8. CASE behind(t, tl, n)
  <2>1. Goes(t, "dstale", th[t].rec, th[t].lmax, tl, h, n) /\ UNCHANGED <<mem, clock>>
    BY <1>4, <1>6, <1>8 DEF HeadNext, Types, Shape, ThTypes, ThFields, Goes
  <2>2. h = tl /\ n # Null /\ mem' = mem /\ UNCHANGED <<mem, clock, res>>
    BY <1>2, <1>6, <1>8, <2>1, Zenon DEF behind
  <2>3. ThTypes(t)' /\ Sees(t)'
    <3>1. ThTypes(t)'
      <4>1. "dstale" \in DeqPcs /\ tl \in Nodes
        BY <1>6, <2>2, Zenon DEF DeqPcs
      <4> QED
        BY <1>1, <1>2, <1>4, <2>1, <2>2, <4>1, DeqTypes, Zenon
    <3>2. Sees(t)'
      BY <2>1, Zenon DEF Sees, Goes
    <3> QED
      BY <3>1, <3>2, Zenon
  <2>4. ASSUME scrash = 0 PROVE Knows(t)' /\ Once(t)'
    <3>1. Was(h)' /\ next'[h] = n
      BY <1>2, <1>3, <1>6, <1>7, <2>2, <2>4, Zenon DEF ListStep, Grows
    <3>2. Knows(t)'
      BY <1>2, <1>7, <2>1, <2>2, <2>4, <3>1, Zenon DEF Knows, Goes, EnqPcs
    <3>3. Did(t, i)' => Did(t, i)
      BY <1>3, <2>2, <2>4, NotDone, Zenon
    <3>4. Once(t)'
      BY <1>5, <1>7, <2>1, <2>4, <3>3, Zenon DEF Once, Goes, EnqPcs
    <3> QED
      BY <3>2, <3>4, Zenon
  <2> QED
    BY <1>1, <1>3, <1>4, <2>1, <2>2, <2>3, <2>4, Moved, ZenonT(40)
<1>9. CASE ~behind(t, tl, n)
  <2>1. Goes(t, "delete", th[t].rec, th[t].lmax, tl, h, n)
    BY <1>4, <1>6, <1>9 DEF HeadNext, Types, Shape, ThTypes, ThFields, Goes
  <2>2. /\ DOMAIN clock' = Threads /\ clock'[t] = clock[t] + 1 /\ \A u \in Threads \ {t} : clock'[u] = clock[u]
    BY <1>4, <1>9, Zenon DEF HeadNext, Types, Shape
  <2>3. PICK c, hn : c = clock'[t] /\ hn = [ts |-> c, h |-> h, n |-> n] /\ mem' = [mem EXCEPT ![t][i].hn = hn]
    BY <1>5, <1>6, <1>9, Zenon DEF HeadNext
  <2>4. /\ DOMAIN mem' = Threads /\ DOMAIN mem'[t] = DOMAIN prog[t] /\ (\A u \in Threads \ {t} : mem'[u] = mem[u])
        /\ \A j \in DOMAIN prog[t] : j # i => mem'[t][j] = mem[t][j]
    BY <1>4, <2>3, Zenon DEF Types, Shape, MemTypes
  <2>5. /\ DOMAIN mem'[t][i] = {"node", "hn", "failed"} /\ mem'[t][i].hn = hn
        /\ mem'[t][i].node = mem[t][i].node /\ mem'[t][i].failed = mem[t][i].failed
    BY <1>4, <1>5, <2>3, Zenon DEF Types, Shape, MemTypes
  <2>6. hn.ts = c /\ hn.h = h /\ hn.n = n /\ c \in Nat /\ c > 0 /\ c = clock[t] + 1
    BY <1>4, <2>2, <2>3 DEF MemTypes
  <2>7. Records(t, i)
    BY <2>2, <2>3, <2>4, <2>5, <2>6, Zenon DEF Records
  <2>8. MemTypes(t)'
    <3>1. \A j \in DOMAIN prog[t] :
          /\ DOMAIN mem'[t][j] = {"node", "hn", "failed"}
          /\ mem'[t][j].node \in Nat /\ mem'[t][j].failed \in Nat
      BY <1>4, <2>4, <2>5, Zenon DEF MemTypes
    <3>2. \A j \in DOMAIN prog[t] :
          /\ mem'[t][j].hn.ts \in Nat
          /\ mem'[t][j].hn.ts > 0 => mem'[t][j].hn.h \in Nodes' /\ mem'[t][j].hn.n \in Nodes' \cup {Null}
      BY <1>2, <1>4, <1>6, <2>4, <2>5, <2>6, Zenon DEF MemTypes
    <3>3. DOMAIN res'[t] = DOMAIN prog[t] /\ clock'[t] \in Nat /\ prog'[t] = prog[t]
      BY <1>2, <1>4, <2>3, <2>6, Zenon DEF MemTypes, prog
    <3> QED
      BY <2>4, <3>1, <3>2, <3>3, Zenon DEF MemTypes
  <2>9. ThTypes(t)' /\ Sees(t)'
    <3>1. ThTypes(t)'
      <4>1. "delete" \in DeqPcs
        BY Zenon DEF DeqPcs
      <4> QED
        BY <1>1, <1>2, <1>4, <1>6, <2>1, <4>1, DeqTypes, Zenon
    <3>2. Sees(t)'
      BY <2>1, Zenon DEF Sees, Goes
    <3> QED
      BY <3>1, <3>2, Zenon
  <2>10. ASSUME scrash = 0 PROVE Paired(t, i)' /\ Knows(t)' /\ Once(t)'
    <3>1. Was(h)' /\ (n # Null => next'[h] = n /\ Behind(h)')
      <4>1. n # Null => next[h] = n /\ Behind(h)
        BY <1>6, <1>9, <2>10, Zenon DEF behind
      <4>2. On(h)
        BY <1>4, <1>7, <2>10, ListFacts, Zenon DEF Types, List
      <4> QED
        BY <1>2, <1>3, <1>7, <2>10, <4>1, <4>2, Zenon DEF ListStep, Grows
    <3>2. Paired(t, i)'
      BY <2>5, <2>6, <3>1, Zenon DEF Paired
    <3>3. Knows(t)'
      BY <1>5, <2>1, <2>5, <2>6, Zenon DEF Knows, Goes, EnqPcs
    <3>4. n # Null => ~Did(t, i)'
      <4>1. prog'[t] = prog[t] /\ repl'[h].tid # t
        BY <1>2, <1>7, <2>10, Zenon DEF prog
      <4> QED
        BY <1>5, <2>5, <2>6, <4>1, Zenon DEF Did
    <3>5. Once(t)'
      BY <1>5, <1>7, <2>1, <2>10, <3>4, Zenon DEF Once, Goes, EnqPcs
    <3> QED
      BY <3>2, <3>3, <3>5
  <2> QED
    BY <1>1, <1>3, <1>4, <1>5, <1>7, <2>1, <2>7, <2>8, <2>9, <2>10, Recorded, Zenon
<1> QED
  BY <1>8, <1>9, Zenon

\* The tail is ahead of a node that was the head, unless it is that node.
LEMMA TailAheadOf ==
    ASSUME ListTypes, List, NEW h \in Nodes, Was(h), h # tail
    PROVE  Behind(h)
<1>1. CASE h = head
  BY <1>1, TailAhead, Zenon DEF List
<1>2. CASE h # head
  BY <1>2, Zenon DEF Was, Past, List, Chain
<1> QED
  BY <1>1, <1>2, Zenon

\* The tail is loaded: if it is not the head, it has passed it.
LEMMA LoadTailTooKeeps ==
    ASSUME Inv, NEW t \in Threads, LoadTailToo(t)
    PROVE  Inv'
<1>1. th[t].pc = "dtail" /\ th[t].pc \in DeqPcs /\ th[t].pc # "done"
  BY Zenon DEF LoadTailToo, At, DeqPcs
<1>2. UNCHANGED <<head, tail, next, repl, retired, queue>> /\ UNCHANGED <<setup, scrash>> /\ UNCHANGED <<repl, res>>
  BY Zenon DEF LoadTailToo, shared, crashes
<1>3. disk' = disk /\ scenario' = scenario /\ lp' = lp /\ repl' = repl
  BY Zenon DEF LoadTailToo, shared, setup
<1>4. /\ Types /\ ThTypes(t) /\ MemTypes(t) /\ Sees(t) /\ th[t].i \in DOMAIN prog[t] /\ th[t].rec \in BOOLEAN /\ th[t].lmax \in Nat
      /\ th[t].n \in Nodes \cup {Null}
      /\ scrash = 0 => List /\ Mementos(t) /\ Mine(t) /\ Knows(t) /\ Once(t)
  BY <1>1, Running, Zenon
<1>5. DiskTypes'
  BY <1>3, <1>4, NodeFacts, Flushing, Zenon
<1>6. PICK h \in Nodes : h = th[t].h
  BY <1>1, <1>4, Zenon DEF ThTypes, DeqPcs
<1>7. scrash = 0 => Was(h) /\ repl[h].tid # t /\ (h # tail => Behind(h))
  <2>1. scrash = 0 => Was(h) /\ repl[h].tid # t
    BY <1>1, <1>4, <1>6, Zenon DEF Knows
  <2> QED
    BY <1>4, <2>1, TailAheadOf, Zenon DEF Types
<1>8. CASE lp
  <2>1. HeadNext(t, tail, th[t].n)
    BY <1>8, Zenon DEF LoadTailToo
  <2>2. scrash = 0 => next[th[t].h] = th[t].n
    BY <1>1, <1>4, <1>8, Zenon DEF Knows
  <2> QED
    BY <1>1, <1>2, <1>4, <1>5, <1>6, <1>7, <2>1, <2>2, HeadNextKeeps, Zenon
<1>9. CASE ~lp
  <2>1. Goes(t, "dnext", th[t].rec, th[t].lmax, tail, h, th[t].n) /\ UNCHANGED <<mem, clock, res>>
    BY <1>2, <1>4, <1>6, <1>9 DEF LoadTailToo, Types, Shape, ThTypes, ThFields, Goes
  <2>2. ListStep(t) /\ Unmade(t) /\ mem' = mem
    BY <1>2, <2>1, QuietStep, Zenon
  <2>3. ThTypes(t)' /\ Sees(t)'
    <3>1. ThTypes(t)'
      <4>1. "dnext" \in DeqPcs
        BY Zenon DEF DeqPcs
      <4> QED
        BY <1>1, <1>3, <1>4, <1>6, <2>1, <4>1, DeqTypes, Zenon
    <3>2. Sees(t)'
      BY <2>1, Zenon DEF Sees, Goes
    <3> QED
      BY <3>1, <3>2, Zenon
  <2>4. ASSUME scrash = 0 PROVE Knows(t)' /\ Once(t)'
    <3>1. On(h)
      BY <1>4, <1>7, <2>4, ListFacts, Zenon DEF Types, List
    <3>2. Was(h)' /\ repl'[h].tid # t /\ (h # tail => Behind(h)')
      BY <1>3, <1>7, <2>2, <2>4, <3>1, Zenon DEF ListStep, Grows
    <3>3. Knows(t)'
      BY <1>3, <1>9, <2>1, <3>2, Zenon DEF Knows, Goes, EnqPcs
    <3>4. PICK i \in DOMAIN prog[t] : i = th[t].i
      BY <1>4, Zenon
    <3>5. ~th[t].rec /\ ~Did(t, i)
      BY <1>1, <1>4, <2>4, <3>4, Zenon DEF Once
    <3>6. Did(t, i)' => Did(t, i)
      BY <2>2, <2>4, NotDone, Zenon
    <3>7. Once(t)'
      BY <2>1, <3>4, <3>5, <3>6, Zenon DEF Once, Goes, EnqPcs
    <3> QED
      BY <3>3, <3>7, Zenon
  <2> QED
    BY <1>1, <1>4, <1>5, <2>1, <2>2, <2>3, <2>4, Moved, ZenonT(40)
<1> QED
  BY <1>8, <1>9, Zenon

\* The first node is loaded.
LEMMA LoadFirstKeeps ==
    ASSUME Inv, NEW t \in Threads, LoadFirst(t)
    PROVE  Inv'
<1>1. th[t].pc = "dnext" /\ th[t].pc \in DeqPcs /\ th[t].pc # "done"
  BY Zenon DEF LoadFirst, At, DeqPcs
<1>2. UNCHANGED <<head, tail, next, repl, retired, queue>> /\ UNCHANGED <<setup, scrash>> /\ UNCHANGED <<repl, res>>
  BY Zenon DEF LoadFirst, crashes
<1>3. (disk' = disk \/ FlushNext(th[t].h)) /\ scenario' = scenario /\ lp' = lp /\ repl' = repl /\ next' = next
  BY Zenon DEF LoadFirst, setup
<1>4. /\ Types /\ ThTypes(t) /\ MemTypes(t) /\ Sees(t) /\ th[t].i \in DOMAIN prog[t] /\ th[t].rec \in BOOLEAN /\ th[t].lmax \in Nat
      /\ scrash = 0 => List /\ Mementos(t) /\ Mine(t) /\ Knows(t) /\ Once(t)
  BY <1>1, Running, Zenon
<1>5. PICK h \in Nodes : h = th[t].h
  BY <1>1, <1>4, Zenon DEF ThTypes, DeqPcs
<1>6. DiskTypes'
  BY <1>3, <1>4, <1>5, Flushing, Zenon
<1>7. PICK n \in Nodes \cup {Null} : n = next[h]
  BY <1>4, <1>5 DEF Types, ListTypes, LinkTypes
<1>8. CASE (lp => n = Null) /\ HeadNext(t, th[t].tl, n)
  <2>1. scrash = 0 => (n # Null /\ h # th[t].tl => Behind(h))
    BY <1>1, <1>4, <1>5, <1>8, Zenon DEF Knows
  <2> QED
    BY <1>1, <1>2, <1>5, <1>6, <1>7, <1>8, <2>1, HeadNextKeeps, Zenon
<1>9. CASE lp /\ n # Null /\ th' = [th EXCEPT ![t].n = n, ![t].pc = "dtail"] /\ UNCHANGED <<mem, clock>>
  <2>1. Goes(t, "dtail", th[t].rec, th[t].lmax, th[t].tl, h, n) /\ UNCHANGED <<mem, clock, res>>
    BY <1>2, <1>4, <1>5, <1>9, Zenon DEF Types, Shape, ThTypes, ThFields, Goes
  <2>2. ListStep(t) /\ Unmade(t) /\ mem' = mem
    BY <1>2, <2>1, QuietStep, Zenon
  <2>3. ThTypes(t)' /\ Sees(t)'
    <3>1. ThTypes(t)'
      <4>1. "dtail" \in DeqPcs
        BY Zenon DEF DeqPcs
      <4> QED
        BY <1>1, <1>3, <1>4, <1>5, <2>1, <4>1, DeqTypes, Zenon
    <3>2. Sees(t)'
      BY <2>1, Zenon DEF Sees, Goes
    <3> QED
      BY <3>1, <3>2, Zenon
  <2>4. ASSUME scrash = 0 PROVE Knows(t)' /\ Once(t)'
    <3>1. Was(h) /\ repl[h].tid # t
      BY <1>1, <1>4, <1>5, <2>4, Zenon DEF Knows
    <3>2. Was(h)' /\ repl'[h].tid # t /\ next'[h] = n
      BY <1>3, <1>7, <2>2, <2>4, <3>1, Zenon DEF ListStep, Grows
    <3>3. Knows(t)'
      BY <1>9, <2>1, <3>2, Zenon DEF Knows, Goes, EnqPcs
    <3>4. PICK i \in DOMAIN prog[t] : i = th[t].i
      BY <1>4, Zenon
    <3>5. ~th[t].rec /\ ~Did(t, i)
      BY <1>1, <1>4, <2>4, <3>4, Zenon DEF Once
    <3>6. Did(t, i)' => Did(t, i)
      BY <2>2, <2>4, NotDone, Zenon
    <3>7. Once(t)'
      BY <2>1, <3>4, <3>5, <3>6, Zenon DEF Once, Goes, EnqPcs
    <3> QED
      BY <3>3, <3>7, Zenon
  <2> QED
    BY <1>1, <1>4, <1>6, <2>1, <2>2, <2>3, <2>4, Moved, Zenon
<1> QED
  BY <1>5, <1>7, <1>8, <1>9, Zenon DEF LoadFirst

\* The tail moves off the head before the head is passed.
LEMMA HelpTailTooKeeps ==
    ASSUME Inv, NEW t \in Threads, HelpTailToo(t)
    PROVE  Inv'
<1>1. th[t].pc = "dstale" /\ th[t].pc \in DeqPcs /\ th[t].pc # "done"
  BY Zenon DEF HelpTailToo, At, DeqPcs
<1>2. UNCHANGED <<head, next, repl, retired, queue>> /\ UNCHANGED <<setup, scrash>> /\ UNCHANGED <<mem, clock, res>>
  BY Zenon DEF HelpTailToo, shared, crashes
<1>3. disk' = disk /\ scenario' = scenario /\ mem' = mem
  BY Zenon DEF HelpTailToo, shared, setup
<1>4. /\ Types /\ ThTypes(t) /\ MemTypes(t) /\ Sees(t) /\ th[t].i \in DOMAIN prog[t] /\ th[t].rec \in BOOLEAN /\ th[t].lmax \in Nat
      /\ scrash = 0 => List /\ Mementos(t) /\ Mine(t) /\ Knows(t) /\ Once(t)
  BY <1>1, Running, Zenon
<1>5. ListStep(t) /\ Unmade(t)
  <2>1. tail' = IF tail = th[t].tl THEN th[t].n ELSE tail
    BY Zenon DEF HelpTailToo, SwingTail
  <2>2. th[t].n \in Nodes /\ (scrash = 0 => next[th[t].tl] = th[t].n)
    BY <1>1, <1>4, Zenon DEF ThTypes, Knows
  <2>3. tail' \in Nodes
    BY <1>4, <2>1, <2>2, Zenon DEF Types, ListTypes
  <2> QED
    BY <1>2, <2>1, <2>2, <2>3, TailStep, Zenon
<1>6. DiskTypes'
  BY <1>3, <1>4, NodeFacts, Flushing, Zenon
<1>7. Goes(t, "head", th[t].rec, th[t].lmax, th[t].tl, th[t].h, th[t].n)
  BY <1>4, Zenon DEF HelpTailToo, Types, Shape, ThTypes, ThFields, Goes, Goto
<1>8. ThTypes(t)' /\ Sees(t)'
  <2>1. "head" \in DeqPcs /\ th[t].n \in Nodes \cup {Null}
    BY <1>4, Zenon DEF DeqPcs, ThTypes
  <2>2. ThTypes(t)'
    BY <1>1, <1>3, <1>4, <1>7, <2>1, DeqTypes, Zenon
  <2>3. Sees(t)'
    BY <1>7, Zenon DEF Sees, Goes
  <2> QED
    BY <2>2, <2>3, Zenon
<1>9. ASSUME scrash = 0 PROVE Knows(t)' /\ Once(t)'
  <2>1. PICK i \in DOMAIN prog[t] : i = th[t].i
    BY <1>4, Zenon
  <2>2. ~th[t].rec /\ ~Did(t, i)
    BY <1>1, <1>4, <1>9, <2>1, Zenon DEF Once
  <2>3. Did(t, i)' => Did(t, i)
    BY <1>3, <1>5, <1>9, NotDone, Zenon
  <2>4. Knows(t)'
    BY <1>7, Zenon DEF Knows, Goes, EnqPcs
  <2>5. Once(t)'
    BY <1>7, <2>1, <2>2, <2>3, Zenon DEF Once, Goes, EnqPcs
  <2> QED
    BY <2>4, <2>5, Zenon
<1> QED
  BY <1>1, <1>2, <1>5, <1>4, <1>6, <1>7, <1>8, <1>9, Moved, Zenon

-----------------------------------------------------------------------------
\* delete, delete_result, load_help.

\* The node that carries the name of t is unlinked.
LEMMA UnlinkKeeps ==
    ASSUME Inv, NEW t \in Threads, th[t].pc \in {"delete", "unlink"}, th[t].n # Null, repl[th[t].h].tid = t, Unlink(t)
    PROVE  Inv'
<1>1. th[t].pc \in DeqPcs /\ th[t].pc # "done"
  BY Zenon DEF DeqPcs
<1>2. UNCHANGED <<tail, next, repl, queue>> /\ UNCHANGED <<setup, scrash>> /\ UNCHANGED <<mem, clock>> /\ scenario' = scenario
  BY Zenon DEF Unlink, crashes, setup
<1>3. /\ Types /\ ThTypes(t) /\ MemTypes(t) /\ Sees(t) /\ th[t].i \in DOMAIN prog[t] /\ th[t].n \in Nodes \cup {Null}
      /\ scrash = 0 => List /\ Mementos(t) /\ Mine(t) /\ Knows(t) /\ Once(t)
  BY <1>1, Running, Zenon
<1>4. PICK i \in DOMAIN prog[t] : i = th[t].i /\ prog[t][i] = "deq"
  BY <1>1, <1>3, Zenon DEF ThTypes
<1>5. PICK h \in Nodes : h = th[t].h
  BY <1>3, Zenon DEF ThTypes, DeqPcs
<1>6. PICK n \in Nodes : n = th[t].n /\ n # Null
  BY <1>3, Zenon
<1>7. DiskTypes'
  BY <1>2, <1>3, <1>5, Flushing, Zenon DEF Unlink
<1>8. Named(h) /\ repl[h].tid = t
  BY <1>5, QueueAssumption DEF Named, Kept
<1>9. scrash = 0 => mem[t][i].hn.ts > 0 /\ mem[t][i].hn.h = h /\ mem[t][i].hn.n = n
  BY <1>3, <1>4, <1>5, <1>6, Zenon DEF Knows
<1>10. scrash = 0 => Was(h) /\ next[h] = n
  BY <1>3, <1>4, <1>6, <1>9, Zenon DEF Mementos, Pairs, Paired
<1>11. ListStep(t) /\ Unmade(t) /\ (scrash = 0 => Past(h)')
  <2>1. head' = (IF head = h THEN n ELSE head) /\ retired' = retired \cup {<<h, t>>}
    BY <1>5, <1>6, Zenon DEF Unlink
  <2>2. head' \in Nodes
    BY <1>3, <2>1, Zenon DEF Types, ListTypes
  <2> QED
    BY <1>2, <1>8, <1>10, <2>1, <2>2, HeadStep, Zenon
<1>12. Return(t, n)
  BY <1>6, Zenon DEF Unlink
<1>13. scrash = 0 => Did(t, i) /\ n = Deed(t, i)
  BY <1>4, <1>6, <1>8, <1>9, Zenon DEF Did, Deed
<1> QED
  BY <1>1, <1>2, <1>4, <1>7, <1>9, <1>11, <1>12, <1>13, Returns, ZenonT(40)

\* The name in the node tells whether the dequeue was done; if so it is finished, otherwise tried again.
LEMMA DeleteResultKeeps ==
    ASSUME Inv, NEW t \in Threads, DeleteResult(t)
    PROVE  Inv'
<1>1. th[t].pc = "delete" /\ th[t].pc \in DeqPcs /\ th[t].pc # "done"
  BY Zenon DEF DeleteResult, At, DeqPcs
<1>2. /\ Types /\ ThTypes(t) /\ MemTypes(t) /\ Sees(t) /\ th[t].i \in DOMAIN prog[t] /\ th[t].rec \in BOOLEAN /\ th[t].lmax \in Nat
      /\ th[t].n \in Nodes \cup {Null}
      /\ scrash = 0 => List /\ Mementos(t) /\ Mine(t) /\ Knows(t) /\ Once(t)
  BY <1>1, Running, Zenon
<1>3. PICK i \in DOMAIN prog[t] : i = th[t].i /\ prog[t][i] = "deq"
  BY <1>1, <1>2, Zenon DEF ThTypes
<1>4. PICK h \in Nodes : h = th[t].h
  BY <1>1, <1>2, Zenon DEF ThTypes, DeqPcs
<1>5. scrash = 0 => mem[t][i].hn.ts > 0 /\ mem[t][i].hn.h = h /\ mem[t][i].hn.n = th[t].n
  BY <1>1, <1>2, <1>3, <1>4, Zenon DEF Knows
<1>6. CASE th[t].n # Null /\ th[t].rec /\ mine(t)
  <2>1. Unlink(t) /\ repl[th[t].h].tid = t
    BY <1>6, Zenon DEF DeleteResult, mine
  <2> QED
    BY <1>1, <1>6, <2>1, UnlinkKeeps, Zenon
<1>7. CASE ~(th[t].n # Null /\ th[t].rec /\ mine(t))
  <2>1. UNCHANGED <<shared, mem, clock, crashes, setup>>
    BY <1>7, Zenon DEF DeleteResult
  <2>2. UNCHANGED <<head, tail, next, repl, retired, queue>> /\ UNCHANGED <<setup, scrash>> /\ UNCHANGED <<mem, clock>>
    BY <2>1, Zenon DEF shared, crashes
  <2>3. disk' = disk /\ scenario' = scenario /\ mem' = mem
    BY <2>1, Zenon DEF shared, setup
  <2>4. ListStep(t) /\ Unmade(t)
    BY <2>2, QuietStep, Zenon
  <2>5. DiskTypes'
    BY <1>2, <2>3, NodeFacts, Flushing, Zenon
  <2>6. CASE th[t].n = Null
    <3>1. Return(t, Sentinel)
      BY <2>6, Zenon DEF DeleteResult
    <3>2. scrash = 0 => Did(t, i) /\ Sentinel = Deed(t, i) /\ mem[t][i].hn.n = Null
      BY <1>3, <1>5, <2>6, Zenon DEF Did, Deed
    <3> QED
      BY <1>1, <1>3, <2>2, <2>4, <2>5, <3>1, <3>2, Returns, Zenon
  <2>7. CASE th[t].n # Null
    <3>1. th' = [th EXCEPT ![t] =
                IF Replays(t, Mem(t).failed) THEN [th[t] EXCEPT !.lmax = Mem(t).failed, !.pc = "help"]
                ELSE [th[t] EXCEPT !.rec = FALSE, !.pc = "own"]] /\ UNCHANGED res
      BY <1>7, <2>7, Zenon DEF DeleteResult
    <3>2. PICK f \in Nat : f = mem[t][i].failed /\ f = Mem(t).failed
      BY <1>2, <1>3, Zenon DEF MemTypes, Mem
    <3>3. PICK pc \in {"help", "own"}, rec \in BOOLEAN, lmax \in Nat :
            /\ Goes(t, pc, rec, lmax, th[t].tl, h, th[t].n)
            /\ pc = "own" => ~rec
            /\ lmax = th[t].lmax \/ lmax = f
      <4>1. CASE Replays(t, f)
        <5>1. th' = [th EXCEPT ![t] = [th[t] EXCEPT !.lmax = f, !.pc = "help"]]
          BY <3>1, <3>2, <4>1, Zenon
        <5>2. Goes(t, "help", th[t].rec, f, th[t].tl, h, th[t].n)
          BY <1>2, <1>4, <5>1, Zenon DEF Types, Shape, ThTypes, ThFields, Goes
        <5> QED
          BY <1>2, <5>2, Zenon
      <4>2. CASE ~Replays(t, f)
        <5>1. th' = [th EXCEPT ![t] = [th[t] EXCEPT !.rec = FALSE, !.pc = "own"]]
          BY <3>1, <3>2, <4>2, Zenon
        <5>2. Goes(t, "own", FALSE, th[t].lmax, th[t].tl, h, th[t].n)
          BY <1>2, <1>4, <5>1, Zenon DEF Types, Shape, ThTypes, ThFields, Goes
        <5> QED
          BY <1>2, <5>2, Zenon
      <4> QED
        BY <4>1, <4>2, Zenon
    <3>4. UNCHANGED <<mem, clock, res>>
      BY <2>2, <3>1, Zenon
    <3>5. ThTypes(t)' /\ Sees(t)'
      <4>1. pc \in DeqPcs /\ pc # "dstale" /\ pc # "unlink" /\ pc # "stale"
        BY <3>3, Zenon DEF DeqPcs
      <4>2. ThTypes(t)'
        BY <1>1, <1>2, <1>4, <2>3, <2>7, <3>3, <4>1, DeqTypes, Zenon
      <4>3. Sees(t)'
        BY <3>3, <4>1, Zenon DEF Sees, Goes
      <4> QED
        BY <4>2, <4>3, Zenon
    <3>6. ASSUME scrash = 0 PROVE ~Did(t, i) /\ Knows(t)' /\ Once(t)'
      <4>1. ~Did(t, i)
        <5>1. CASE th[t].rec
          BY <1>3, <1>4, <1>5, <1>7, <2>7, <3>6, <5>1, Zenon DEF Did, mine
        <5>2. CASE ~th[t].rec
          BY <1>1, <1>2, <1>3, <2>7, <3>6, <5>2, Zenon DEF Once
        <5> QED
          BY <5>1, <5>2, Zenon
      <4>2. Did(t, i)' => Did(t, i)
        BY <2>3, <2>4, <3>6, NotDone, Zenon
      <4>3. Knows(t)'
        BY <1>3, <1>5, <2>3, <2>7, <3>3, <3>6, Zenon DEF Knows, Goes, EnqPcs
      <4>4. Once(t)'
        BY <1>3, <3>3, <4>1, <4>2, Zenon DEF Once, Goes, EnqPcs
      <4> QED
        BY <4>1, <4>3, <4>4, Zenon
    <3>7. lmax = th[t].lmax \/ lmax \in Stamps(t, th[t].i)
      BY <1>3, <3>2, <3>3, Zenon DEF Stamps
    <3> QED
      BY <1>1, <1>3, <2>4, <2>5, <3>3, <3>4, <3>5, <3>6, <3>7, Moved, Zenon
  <2> QED
    BY <2>6, <2>7, Zenon
<1> QED
  BY <1>6, <1>7, Zenon

\* The name is left in the node that is still the head, or another thread has been faster.
LEMMA OwnKeeps ==
    ASSUME Inv, NEW t \in Threads, Own(t)
    PROVE  Inv'
<1>1. th[t].pc = "own" /\ th[t].pc \in DeqPcs /\ th[t].pc # "done"
  BY Zenon DEF Own, At, DeqPcs
<1>2. UNCHANGED <<head, tail, next, retired>> /\ UNCHANGED <<setup, scrash>> /\ UNCHANGED <<scenario, res>>
  BY Zenon DEF Own, crashes, setup
<1>3. disk' = disk /\ scenario' = scenario /\ next' = next /\ head' = head /\ tail' = tail /\ retired' = retired
  BY Zenon DEF Own, setup
<1>4. /\ Types /\ ThTypes(t) /\ MemTypes(t) /\ Sees(t) /\ th[t].i \in DOMAIN prog[t] /\ th[t].rec \in BOOLEAN /\ th[t].lmax \in Nat
      /\ th[t].n \in Nodes \cup {Null}
      /\ scrash = 0 => List /\ Mementos(t) /\ Mine(t) /\ Knows(t) /\ Once(t)
  BY <1>1, Running, Zenon
<1>5. DiskTypes'
  BY <1>3, <1>4, NodeFacts, Flushing, Zenon
<1>6. PICK i \in DOMAIN prog[t] : i = th[t].i /\ prog[t][i] = "deq"
  BY <1>1, <1>4, Zenon DEF ThTypes
<1>7. PICK h \in Nodes : h = th[t].h
  BY <1>1, <1>4, Zenon DEF ThTypes, DeqPcs
<1>8. PICK n \in Nodes : n = th[t].n /\ n # Null
  BY <1>1, <1>4, Zenon DEF ThTypes
<1>9. scrash = 0 => mem[t][i].hn.ts > 0 /\ mem[t][i].hn.h = h /\ mem[t][i].hn.n = n /\ ~th[t].rec /\ ~Did(t, i)
  BY <1>1, <1>4, <1>6, <1>7, <1>8, Zenon DEF Knows, Once
<1>10. scrash = 0 => Was(h) /\ next[h] = n /\ Behind(h)
  BY <1>4, <1>6, <1>8, <1>9, Zenon DEF Mementos, Pairs, Paired
<1>11. CASE free(t)
  <2>1. Goes(t, "unlink", th[t].rec, th[t].lmax, th[t].tl, h, n) /\ UNCHANGED <<mem, clock, res>>
    BY <1>2, <1>4, <1>7, <1>8, <1>11 DEF Own, Types, Shape, ThTypes, ThFields, Goes, Goto, free
  <2>2. repl[h] = Kept /\ ~Named(h) /\ repl' = [repl EXCEPT ![h] = [node |-> n, tid |-> t]] /\ queue' = Without(queue, n) /\ mem' = mem
    BY <1>7, <1>8, <1>11, <2>1, Zenon DEF Own, free, Named
  <2>3. /\ DOMAIN repl' = Nodes /\ repl'[h] = [node |-> n, tid |-> t] /\ repl'[h].tid = t
        /\ \A m \in Nodes : m # h => repl'[m] = repl[m]
    BY <1>4, <2>2, Zenon DEF Types, ListTypes, NameTypes
  <2>4. Nodes' = Nodes /\ prog'[t] = prog[t]
    BY <1>3, Zenon DEF Nodes, Ops, prog
  <2>5. ListTypes'
    <3>1. \A m \in Nodes : repl'[m] = Kept \/ \E k \in Nodes, u \in Threads : repl'[m] = [node |-> k, tid |-> u]
      BY <1>4, <2>3 DEF Types, ListTypes, NameTypes
    <3>2. NameTypes(repl)'
      BY <2>3, <2>4, <3>1, Zenon DEF NameTypes
    <3> QED
      BY <1>3, <1>4, <2>4, <3>2, Zenon DEF Types, ListTypes, LinkTypes
  <2>6. ASSUME scrash = 0 PROVE List' /\ Grows
    <3>1. h = head
      BY <1>10, <2>2, <2>6, Zenon DEF Was, Past
    <3>2. ListTypes /\ List /\ UNCHANGED <<scenario, head, tail, next, retired>>
      BY <1>2, <1>4, <2>6, Zenon DEF Types
    <3> QED
      BY <1>10, <2>2, <2>6, <3>1, <3>2, Naming, Zenon
  <2>7. ListStep(t)
    <3>1. \A m \in Nodes : (Named(m) => repl'[m] = repl[m]) /\ (next[m] # Null => next'[m] = next[m])
      BY <1>3, <2>2, <2>3, Zenon
    <3>2. \A m : On(m)' = On(m)
      BY <1>3, <2>4, Zenon DEF On
    <3>3. \A u \in Threads \ {t} : Unmade(u)
      BY <2>3, <3>2, Zenon DEF Unmade
    <3> QED
      BY <1>2, <1>3, <2>5, <2>6, <3>1, <3>3, Zenon DEF ListStep
  <2>8. ThTypes(t)' /\ Sees(t)'
    <3>1. "unlink" \in DeqPcs
      BY Zenon DEF DeqPcs
    <3>2. ThTypes(t)'
      BY <1>1, <1>3, <1>4, <1>8, <2>1, <3>1, DeqTypes, ZenonT(40)
    <3>3. Sees(t)'
      BY <2>1, <2>3, Zenon DEF Sees, Goes
    <3> QED
      BY <3>2, <3>3, Zenon
  <2>9. ASSUME scrash = 0 PROVE Mine(t)' /\ Knows(t)' /\ Once(t)'
    <3>1. Knows(t)'
      BY <1>6, <1>9, <2>1, <2>2, <2>9, Zenon DEF Knows, Goes, EnqPcs
    <3>2. Once(t)'
      BY <1>9, <2>1, <2>9, Zenon DEF Once, Goes, EnqPcs
    <3>3. Made(t)'
      <4>1. Made(t) /\ \A m : On(m)' = On(m)
        BY <1>3, <1>4, <2>4, <2>9, Zenon DEF Mine, On
      <4> QED
        BY <2>2, <2>4, <4>1, Zenon DEF Made
    <3>4. Left(t)'
      <4>1. Left(t)
        BY <1>4, <2>9, Zenon DEF Mine
      <4>2. \A m \in Nodes : repl'[m].tid = t => m = h \/ repl[m].tid = t
        BY <2>3, Zenon
      <4>3. \A m \in Nodes : repl'[m].tid = t =>
              \E j \in DOMAIN prog[t] :
                prog[t][j] = "deq" /\ mem[t][j].hn.ts > 0 /\ mem[t][j].hn.h = m /\ mem[t][j].hn.n # Null
        BY <1>6, <1>8, <1>9, <2>9, <4>1, <4>2, Zenon DEF Left
      <4> QED
        BY <2>2, <2>4, <4>3 DEF Left
    <3> QED
      BY <3>1, <3>2, <3>3, <3>4, Zenon DEF Mine
  <2> QED
    BY <1>1, <1>4, <1>5, <2>1, <2>7, <2>8, <2>9, Moved, ZenonT(40)
<1>12. CASE ~free(t)
  <2>1. RecordFailure(t) /\ Goto(t, "help") /\ UNCHANGED <<head, tail, next, repl, retired, queue>> /\ UNCHANGED <<repl, res>>
    BY <1>2, <1>12, Zenon DEF Own
  <2>2. Goes(t, "help", th[t].rec, th[t].lmax, th[t].tl, h, n)
    BY <1>4, <1>7, <1>8, <2>1, Zenon DEF Types, Shape, ThTypes, ThFields, Goes, Goto
  <2>3. Records(t, i) /\ MemTypes(t)' /\ mem'[t][i].hn = mem[t][i].hn /\ mem'[t][i].node = mem[t][i].node
    BY <1>1, <1>2, <1>6, <2>1, RecordFailureKeeps, Zenon
  <2>4. ListStep(t) /\ Unmade(t)
    BY <1>2, <2>1, QuietStep
  <2>5. ThTypes(t)' /\ Sees(t)'
    <3>1. "help" \in DeqPcs
      BY Zenon DEF DeqPcs
    <3>2. ThTypes(t)'
      BY <1>1, <1>3, <1>4, <1>8, <2>2, <3>1, DeqTypes, Zenon
    <3>3. Sees(t)'
      BY <2>2, Zenon DEF Sees, Goes
    <3> QED
      BY <3>2, <3>3, Zenon
  <2>6. ASSUME scrash = 0 PROVE Knows(t)' /\ Once(t)'
    <3>1. Knows(t)'
      BY <1>6, <1>8, <1>9, <2>2, <2>3, <2>6, Zenon DEF Knows, Goes, EnqPcs
    <3>2. Did(t, i)' => Did(t, i)
      BY <2>3, <2>4, <2>6, NotDone, Zenon
    <3>3. Once(t)'
      BY <1>6, <1>9, <2>2, <2>6, <3>2, Zenon DEF Once, Goes, EnqPcs
    <3> QED
      BY <3>1, <3>3, Zenon
  <2> QED
    BY <1>1, <1>4, <1>5, <1>6, <1>9, <2>1, <2>2, <2>3, <2>4, <2>5, <2>6, Recorded, Zenon
<1> QED
  BY <1>11, <1>12, Zenon

\* The node that carries the name of the thread is passed and retired.
LEMMA DeleteKeeps ==
    ASSUME Inv, NEW t \in Threads, Delete(t)
    PROVE  Inv'
<1>1. th[t].pc = "unlink" /\ th[t].pc # "done" /\ Unlink(t)
  BY Zenon DEF Delete, At
<1>2. ThTypes(t) /\ Sees(t)
  BY <1>1, Running, Zenon
<1>3. th[t].n # Null /\ repl[th[t].h].tid = t
  BY <1>1, <1>2, Zenon DEF ThTypes, Sees
<1> QED
  BY <1>1, <1>3, UnlinkKeeps, Zenon

\* Another thread owns the node: t may move the head for it, and starts again.
LEMMA LoadHelpKeeps ==
    ASSUME Inv, NEW t \in Threads, LoadHelp(t)
    PROVE  Inv'
<1>1. th[t].pc = "help" /\ th[t].pc \in DeqPcs /\ th[t].pc # "done"
  BY Zenon DEF LoadHelp, At, DeqPcs
<1>2. UNCHANGED <<tail, next, repl, queue>> /\ UNCHANGED <<setup, scrash>> /\ UNCHANGED <<mem, clock, res>>
  BY Zenon DEF LoadHelp, crashes
<1>3. scenario' = scenario /\ mem' = mem /\ retired' = retired /\ (disk' = disk \/ FlushRepl(th[t].h))
  BY Zenon DEF LoadHelp, setup
<1>4. /\ Types /\ ThTypes(t) /\ MemTypes(t) /\ Sees(t) /\ th[t].i \in DOMAIN prog[t] /\ th[t].rec \in BOOLEAN /\ th[t].lmax \in Nat
      /\ th[t].n \in Nodes \cup {Null}
      /\ scrash = 0 => List /\ Mementos(t) /\ Mine(t) /\ Knows(t) /\ Once(t)
  BY <1>1, Running, Zenon
<1>5. PICK h \in Nodes : h = th[t].h
  BY <1>1, <1>4, Zenon DEF ThTypes, DeqPcs
<1>6. DiskTypes'
  BY <1>3, <1>4, <1>5, Flushing, Zenon
<1>7. ListStep(t) /\ Unmade(t)
  <2>1. CASE helpable(t)
    <3>1. Named(h) /\ head = h /\ head' = repl[h].node
      BY <1>5, <2>1, Zenon DEF LoadHelp, helpable, Named
    <3>2. head' \in Nodes
      BY <1>4, <3>1 DEF Types, ListTypes, NameTypes, Named
    <3>3. scrash = 0 => Was(h) /\ head' = IF head = h THEN next[h] ELSE head
      BY <1>4, <3>1, Zenon DEF Was, List, Chain
    <3> QED
      BY <1>2, <1>3, <3>1, <3>2, <3>3, HeadStep, Zenon
  <2>2. CASE ~helpable(t)
    <3>1. UNCHANGED <<head, tail, next, repl, retired, queue>>
      BY <1>2, <1>3, <2>2, Zenon DEF LoadHelp
    <3> QED
      BY <1>2, <3>1, QuietStep, Zenon
  <2> QED
    BY <2>1, <2>2
<1>8. Goes(t, "deq", th[t].rec, th[t].lmax, th[t].tl, th[t].h, th[t].n)
  BY <1>4, Zenon DEF LoadHelp, Types, Shape, ThTypes, ThFields, Goes, Goto
<1>9. ThTypes(t)' /\ Sees(t)'
  <2>1. "deq" \in DeqPcs
    BY Zenon DEF DeqPcs
  <2>2. ThTypes(t)'
    BY <1>1, <1>3, <1>4, <1>8, <2>1, DeqTypes, Zenon
  <2>3. Sees(t)'
    BY <1>8, Zenon DEF Sees, Goes
  <2> QED
    BY <2>2, <2>3, Zenon
<1>10. ASSUME scrash = 0 PROVE Knows(t)' /\ Once(t)'
  <2>1. PICK i \in DOMAIN prog[t] : i = th[t].i
    BY <1>4, Zenon
  <2>2. ~Did(t, i)
    BY <1>1, <1>4, <1>10, <2>1, Zenon DEF Once
  <2>3. Did(t, i)' => Did(t, i)
    BY <1>3, <1>7, <1>10, NotDone, Zenon
  <2>4. Knows(t)'
    BY <1>8, Zenon DEF Knows, Goes, EnqPcs
  <2>5. Once(t)'
    BY <1>8, <2>1, <2>2, <2>3, Zenon DEF Once, Goes, EnqPcs
  <2> QED
    BY <2>4, <2>5, Zenon
<1> QED
  BY <1>1, <1>2, <1>4, <1>6, <1>7, <1>8, <1>9, <1>10, Moved, Zenon

-----------------------------------------------------------------------------
\* Crashes.

\* A crash of t: all of its records count again.
LEMMA ThreadCrashKeeps ==
    ASSUME Inv, NEW t \in Threads, ThreadCrash(t)
    PROVE  Inv'
<1>1. scenario' = scenario /\ mem' = mem /\ clock' = clock /\ res' = res /\ disk' = disk /\ Nodes' = Nodes
  <2>1. scenario' = scenario /\ mem' = mem /\ clock' = clock /\ res' = res /\ disk' = disk
    BY Zenon DEF ThreadCrash, setup, shared
  <2> QED
    BY <2>1, Zenon DEF Nodes, Ops, prog
<1>2. ListStep(t) /\ Unmade(t)
  <2>1. UNCHANGED <<head, tail, next, repl, retired, queue>> /\ UNCHANGED <<setup, scrash>>
    BY Zenon DEF ThreadCrash, shared
  <2> QED
    BY <2>1, QuietStep, Zenon
<1>3. Types /\ prog'[t] = prog[t] /\ MemTypes(t) /\ ThTypes(t)
  BY <1>1, Zenon DEF Inv, Types, prog
<1>4. prog[t] \in Seq({"enq", "deq"})
  BY QueueAssumption, Zenon DEF Inv, Types, Shape, prog
<1>5. /\ DOMAIN th' = Threads /\ (\A u \in Threads \ {t} : th'[u] = th[u]) /\ DOMAIN th'[t] = ThFields
      /\ th'[t].i = 1 /\ th'[t].rec = TRUE /\ th'[t].lmax = 0 /\ th'[t].pc = First(t) /\ th'[t].n = Null
  BY <1>3, Zenon DEF ThreadCrash, Types, Shape, Start, ThFields
<1>6. th'[t].pc \in {"enq", "deq", "done"} /\ (th'[t].pc # "done" => 1 \in DOMAIN prog[t] /\ prog[t][1] = th'[t].pc)
  BY <1>4, <1>5, EmptySequence DEF First
<1>7. DiskTypes'
  BY <1>1, <1>3, NodeFacts, Flushing, Zenon
<1>8. MemTypes(t)'
  BY <1>1, <1>3, Zenon DEF MemTypes
<1>9. ThTypes(t)' /\ Sees(t)'
  <2>1. ThTypes(t)'
    <3>1. th'[t].i \in Nat \ {0} /\ th'[t].lmax \in Nat
      BY <1>5
    <3>2. th'[t].rec \in BOOLEAN /\ th'[t].n \in Nodes' \cup {Null}
      BY <1>1, <1>5, Zenon
    <3> QED
      BY <1>3, <1>5, <1>6, <3>1, <3>2, Zenon DEF ThTypes, EnqPcs, DeqPcs
  <2>2. Sees(t)'
    BY <1>6, Zenon DEF Sees
  <2> QED
    BY <2>1, <2>2, Zenon
<1>10. Others(t)
  BY <1>1, <1>3, <1>5, Zenon DEF Others, Types, Shape
<1>11. ASSUME scrash = 0 PROVE Mementos(t)' /\ Mine(t)' /\ Knows(t)' /\ Once(t)'
  <2>1. List /\ Grows /\ Mementos(t) /\ Mine(t)
    BY <1>2, <1>11, Zenon DEF Inv, Calm, ListStep
  <2>2. Mine(t)' /\ Pairs(t)'
    BY <1>1, <1>2, <1>3, <2>1, StaysMine, StaysPaired, Zenon DEF Mementos
  <2>3. \A j \in DOMAIN prog[t] : ~(j < 1) /\ \A b \in Stamps(t, j) : b > 0 => 0 < b
    <3>1. \A j \in DOMAIN prog[t] : ~(j < 1)
      BY <1>4
    <3>2. \A j \in DOMAIN prog[t] : \A b \in Stamps(t, j) : b \in Nat
      BY <1>3, Zenon DEF Stamps, MemTypes
    <3> QED
      BY <3>1, <3>2, Zenon
  <2>4. Unrecorded(t)'
    BY <1>1, <1>3, <1>5, <2>3, Zenon DEF Unrecorded, Stamps
  <2>5. th'[t].lmax <= clock[t]
    BY <1>3, <1>5 DEF MemTypes
  <2>6. Ordered(t)' /\ Returned(t)'
    BY <1>1, <1>3, <1>5, <2>1, <2>3, <2>4, <2>5, StaysOrdered, StaysReturned, Zenon DEF Mementos
  <2>7. Knows(t)' /\ Once(t)'
    <3>1. 1 \in DOMAIN prog[t] => \A b \in Stamps(t, 1) : b > 0 => th'[t].rec /\ th'[t].lmax < b
      BY <1>5, <2>3, Zenon
    <3>2. th'[t].lmax \in Nat
      BY <1>5
    <3> QED
      BY <1>1, <1>2, <1>3, <1>5, <1>6, <2>1, <3>1, <3>2, Starting, Zenon
  <2> QED
    BY <2>2, <2>6, <2>7, Zenon DEF Mementos
<1>12. ThreadStep(t)
  BY <1>7, <1>8, <1>9, <1>11, Zenon DEF ThreadStep
<1> QED
  BY <1>2, <1>10, <1>12, Assembled, Zenon

\* A power failure keeps the types, and the collector has lost what it was given.
LEMMA SystemCrashKeeps == ASSUME Inv, SystemCrash PROVE Inv'
<1>1. Types
  BY Zenon DEF Inv
<1>2. /\ scenario' = scenario /\ mem' = mem /\ clock' = clock /\ res' = res
      /\ scrash' = scrash + 1 /\ retired' = {} /\ th' = [t \in Threads |-> Start(t)]
  BY Zenon DEF SystemCrash, setup
<1>3. Nodes' = Nodes /\ prog' = prog
  BY <1>2, Zenon DEF Nodes, Ops, prog
<1>4. Shape' /\ scrash' # 0
  BY <1>1, <1>2 DEF Types, Shape
<1>5. PICK N \in SUBSET {n \in Nodes : next[n] # disk.next[n]},
           R \in SUBSET {n \in Nodes : repl[n] # disk.repl[n]},
           h \in {n \in Reach(Replacement(repl), disk.head) : head \in Reach(Replacement(repl), n)} :
        /\ head' = h /\ tail' = h
        /\ next' = [n \in Nodes |-> IF n \in N THEN next[n] ELSE disk.next[n]]
        /\ repl' = [n \in Nodes |-> IF n \in R THEN repl[n] ELSE disk.repl[n]]
        /\ disk' = [head |-> h, next |-> [n \in Nodes |-> IF n \in N THEN next[n] ELSE disk.next[n]],
                    repl |-> [n \in Nodes |-> IF n \in R THEN repl[n] ELSE disk.repl[n]]]
  BY ZenonT(60) DEF SystemCrash
<1>6. h \in Nodes /\ disk' = [head |-> h, next |-> next', repl |-> repl']
  BY <1>5, Zenon DEF Reach
<1>7. LinkTypes(next) /\ NameTypes(repl) /\ LinkTypes(disk.next) /\ NameTypes(disk.repl)
  BY <1>1, Zenon DEF Types, ListTypes, DiskTypes
<1>8. LinkTypes(next)'
  <2>1. next' \in [Nodes -> Nodes \cup {Null}]
    BY <1>5, <1>7, Zenon DEF LinkTypes
  <2> QED
    BY <1>3, <2>1, Zenon DEF LinkTypes
<1>9. NameTypes(repl)'
  <2>1. DOMAIN repl' = Nodes /\ \A n \in Nodes : repl'[n] = repl[n] \/ repl'[n] = disk.repl[n]
    BY <1>5, Zenon
  <2>2. \A n \in Nodes : repl'[n] = Kept \/ \E m \in Nodes, t \in Threads : repl'[n] = [node |-> m, tid |-> t]
    <3> SUFFICES ASSUME NEW n \in Nodes PROVE repl'[n] = Kept \/ \E m \in Nodes, t \in Threads : repl'[n] = [node |-> m, tid |-> t]
      BY Zenon
    <3>1. CASE repl'[n] = repl[n]
      BY <1>7, <3>1 DEF NameTypes
    <3>2. CASE repl'[n] = disk.repl[n]
      <4>1. disk.repl[n] = Kept \/ \E m \in Nodes, t \in Threads : disk.repl[n] = [node |-> m, tid |-> t]
        BY <1>7, Zenon DEF NameTypes
      <4> QED
        BY <3>2, <4>1, Zenon
    <3> QED
      BY <2>1, <3>1, <3>2, Zenon
  <2> QED
    BY <1>3, <2>1, <2>2, Zenon DEF NameTypes
<1>10. ListTypes'
  BY <1>3, <1>5, <1>8, <1>9, <1>6, Zenon DEF ListTypes
<1>11. DiskTypes'
  <2>1. DOMAIN disk' = {"head", "next", "repl"} /\ disk'.head = h /\ disk'.next = next' /\ disk'.repl = repl'
    BY <1>6, Zenon
  <2>2. LinkTypes(disk.next)' /\ NameTypes(disk.repl)'
    BY <1>8, <1>9, <2>1 DEF LinkTypes, NameTypes, Kept
  <2> QED
    BY <1>3, <1>6, <2>1, <2>2, Zenon DEF DiskTypes
<1>12. ASSUME NEW t \in Threads PROVE MemTypes(t)' /\ ThTypes(t)' /\ Sees(t)'
  <2>1. prog'[t] = prog[t] /\ MemTypes(t) /\ prog[t] \in Seq({"enq", "deq"})
    BY <1>1, <1>3, <1>12, QueueAssumption, Zenon DEF Types, Shape, prog
  <2>2. MemTypes(t)'
    BY <1>2, <1>3, <2>1, Zenon DEF MemTypes
  <2>3. /\ DOMAIN th'[t] = ThFields /\ th'[t].i = 1 /\ th'[t].rec = TRUE /\ th'[t].lmax = 0
        /\ th'[t].pc = First(t) /\ th'[t].n = Null
    BY <1>2, <1>12, Zenon DEF Start, ThFields
  <2>4. th'[t].pc \in {"enq", "deq", "done"} /\ (th'[t].pc # "done" => 1 \in DOMAIN prog[t] /\ prog[t][1] = th'[t].pc)
    BY <2>1, <2>3, EmptySequence DEF First
  <2>5. th'[t].i \in Nat \ {0} /\ th'[t].lmax \in Nat
    BY <2>3
  <2>6. th'[t].rec \in BOOLEAN /\ th'[t].n \in Nodes' \cup {Null}
    BY <2>3, Zenon
  <2>7. ThTypes(t)'
    BY <2>1, <2>3, <2>4, <2>5, <2>6, Zenon DEF ThTypes, EnqPcs, DeqPcs
  <2>8. Sees(t)'
    BY <2>4, Zenon DEF Sees
  <2> QED
    BY <2>2, <2>7, <2>8, Zenon
<1>13. Owners'
  BY <1>2, <1>12, Zenon DEF Owners
<1> QED
  BY <1>4, <1>10, <1>11, <1>12, <1>13, Zenon DEF Inv, Types

-----------------------------------------------------------------------------
\* The theorems.

\* The empty queue, and threads that have recorded nothing.
LEMMA InitInv == ASSUME Init PROVE Inv
<1>1. /\ scenario \in Scenarios /\ head = Sentinel /\ tail = Sentinel /\ scrash = 0 /\ retired = {} /\ queue = <<>>
      /\ next = [n \in Nodes |-> Null] /\ repl = [n \in Nodes |-> Kept]
      /\ disk = [head |-> head, next |-> next, repl |-> repl]
  BY Zenon DEF Init
<1>2. \A n \in Nodes : next[n] = Null /\ repl[n] = Kept /\ ~Named(n) /\ ~Past(n) /\ repl[n].tid = 0
  BY <1>1, Zenon DEF Named, Past, Kept
<1>3. ListTypes
  <2>1. LinkTypes(next)
    BY <1>1, Zenon DEF LinkTypes
  <2>2. NameTypes(repl)
    BY <1>1, <1>2, Zenon DEF NameTypes
  <2> QED
    BY <1>1, <2>1, <2>2, NodeFacts, Zenon DEF ListTypes
<1>4. DiskTypes
  <2>1. DOMAIN disk = {"head", "next", "repl"} /\ disk.head = head /\ disk.next = next /\ disk.repl = repl
    BY <1>1, Zenon
  <2> QED
    BY <1>3, <2>1, Zenon DEF ListTypes, DiskTypes
<1>5. \A n \in Nodes : On(n) <=> n = Sentinel
  BY <1>2, NodeFacts, Zenon DEF On
<1>6. List
  <2>1. Chain
    BY <1>1, <1>2, <1>5, NodeFacts, Zenon DEF Chain
  <2>2. Whole
    BY <1>1, <1>5, Zenon DEF Whole
  <2>3. FirstKept = Sentinel
    BY <1>1, <1>2, NodeFacts, Zenon DEF FirstKept
  <2>4. Contents
    <3>1. queue \in Seq(Nodes) /\ DOMAIN queue = {}
      BY <1>1
    <3> QED
      BY <1>1, <1>2, <2>3, <3>1, NodeFacts, Zenon DEF Contents, Chained
  <2>5. Dead
    BY <1>1, Zenon DEF Dead
  <2> QED
    BY <2>1, <2>2, <2>4, <2>5, Zenon DEF List
<1>7. Shape
  BY <1>1 DEF Init, Shape
<1>8. ASSUME NEW t \in Threads
      PROVE  MemTypes(t) /\ ThTypes(t) /\ Sees(t) /\ Mementos(t) /\ Mine(t) /\ Knows(t) /\ Once(t)
  <2>1. prog[t] \in Seq({"enq", "deq"})
    BY <1>1, <1>8, QueueAssumption, Zenon DEF prog
  <2>2. /\ mem[t] = [i \in DOMAIN prog[t] |-> [node |-> 0, hn |-> [ts |-> 0, h |-> Null, n |-> Null], failed |-> 0]]
        /\ res[t] = [i \in DOMAIN prog[t] |-> Null] /\ clock[t] = 0 /\ th[t] = Start(t)
    BY <1>8, Zenon DEF Init
  <2>3. /\ DOMAIN mem[t] = DOMAIN prog[t] /\ DOMAIN res[t] = DOMAIN prog[t] /\ clock[t] \in Nat
        /\ \A j \in DOMAIN prog[t] :
              /\ DOMAIN mem[t][j] = {"node", "hn", "failed"} /\ res[t][j] = Null
              /\ mem[t][j].node = 0 /\ mem[t][j].failed = 0 /\ mem[t][j].hn.ts = 0
              /\ j \in Nat \ {0}
    BY <2>1, <2>2
  <2>4. /\ DOMAIN th[t] = ThFields /\ th[t].i = 1 /\ th[t].rec = TRUE /\ th[t].lmax = 0
        /\ th[t].pc = First(t) /\ th[t].n = Null
    BY <2>2 DEF Start, ThFields
  <2>5. th[t].pc \in {"enq", "deq", "done"} /\ (th[t].pc # "done" => 1 \in DOMAIN prog[t] /\ prog[t][1] = th[t].pc)
    BY <2>1, <2>4, EmptySequence DEF First
  <2>6. th[t].i \in Nat \ {0} /\ th[t].lmax \in Nat
    BY <2>4
  <2>7. th[t].rec \in BOOLEAN /\ th[t].n \in Nodes \cup {Null}
    BY <2>4, Zenon
  <2>8. ThTypes(t) /\ Sees(t)
    BY <2>4, <2>5, <2>6, <2>7, Zenon DEF ThTypes, Sees, EnqPcs, DeqPcs
  <2>9. ~(0 > 0) /\ 0 \in Nat
    OBVIOUS
  <2>10. MemTypes(t)
    BY <2>3, <2>9, Zenon DEF MemTypes
  <2>11. ~On(<<t, th[t].i>>) /\ \A j \in DOMAIN prog[t] : ~Did(t, j) /\ (prog[t][j] = "enq" => ~On(<<t, j>>))
    <3>1. \A j : ~On(<<t, j>>)
      BY <1>2, <1>8, NodeFacts DEF On, Null
    <3> QED
      BY <2>3, <2>9, <3>1, Zenon DEF Did
  <2>12. Pairs(t) /\ Made(t)
    BY <2>3, <2>9, <2>11, Zenon DEF Pairs, Paired, Made
  <2>13. Left(t)
    BY <1>2, <1>8, QueueAssumption, Zenon DEF Left
  <2>14. Ordered(t)
    <3>1. \A j \in DOMAIN prog[t] : \A a \in Stamps(t, j) : a = 0
      BY <2>3, Zenon DEF Stamps
    <3>2. 0 <= 0
      OBVIOUS
    <3> QED
      BY <2>2, <2>4, <2>9, <3>1, <3>2, Zenon DEF Ordered, Unrecorded
  <2>15. Returned(t)
    <3>1. \A j \in DOMAIN prog[t] : ~(j < 1)
      BY <2>3
    <3> QED
      BY <2>3, <2>4, <3>1, Zenon DEF Returned
  <2>16. Knows(t)
    BY <2>5, Zenon DEF Knows, EnqPcs
  <2>17. Once(t)
    BY <2>4, <2>5, <2>11, Zenon DEF Once, Node, EnqPcs
  <2> QED
    BY <2>8, <2>10, <2>12, <2>13, <2>14, <2>15, <2>16, <2>17, Zenon DEF Mementos, Mine
<1>9. Owners
  BY <1>1, <1>8, Zenon DEF Owners
<1> QED
  BY <1>3, <1>4, <1>6, <1>7, <1>8, <1>9, Zenon DEF Inv, Types, Calm

\* Every step of a thread keeps the invariant.
LEMMA StepKeeps == ASSUME Inv, NEW t \in Threads, Step(t) PROVE Inv'
<1>1. CASE MakeNode(t) BY <1>1, MakeNodeKeeps, Zenon
<1>2. CASE LoadTail(t) BY <1>2, LoadTailKeeps, Zenon
<1>3. CASE LoadNext(t) BY <1>3, LoadNextKeeps, Zenon
<1>4. CASE HelpTail(t) BY <1>4, HelpTailKeeps
<1>5. CASE Acked(t) BY <1>5, AckedKeeps, Zenon
<1>6. CASE Traverse(t) BY <1>6, TraverseKeeps, Zenon
<1>7. CASE Recheck(t) BY <1>7, RecheckKeeps, Zenon
<1>8. CASE Retry(t) BY <1>8, RetryKeeps, Zenon
<1>9. CASE LoadLp(t) BY <1>9, LoadLpKeeps, Zenon
<1>10. CASE Insert(t) BY <1>10, InsertKeeps, Zenon
<1>11. CASE Persist(t) BY <1>11, PersistKeeps, Zenon
<1>12. CASE Advance(t) BY <1>12, AdvanceKeeps, Zenon
<1>13. CASE Replay(t) BY <1>13, ReplayKeeps, Zenon
<1>14. CASE LoadHead(t) BY <1>14, LoadHeadKeeps, Zenon
<1>15. CASE LoadTailToo(t) BY <1>15, LoadTailTooKeeps, Zenon
<1>16. CASE LoadFirst(t) BY <1>16, LoadFirstKeeps, Zenon
<1>17. CASE HelpTailToo(t) BY <1>17, HelpTailTooKeeps, Zenon
<1>18. CASE DeleteResult(t) BY <1>18, DeleteResultKeeps, Zenon
<1>19. CASE Own(t) BY <1>19, OwnKeeps, Zenon
<1>20. CASE Delete(t) BY <1>20, DeleteKeeps, Zenon
<1>21. CASE LoadHelp(t) BY <1>21, LoadHelpKeeps, Zenon
<1> QED
  BY <1>1, <1>2, <1>3, <1>4, <1>5, <1>6, <1>7, <1>8, <1>9, <1>10, <1>11, <1>12, <1>13, <1>14,
     <1>15, <1>16, <1>17, <1>18, <1>19, <1>20, <1>21, Zenon DEF Step

\* Nothing changes.
LEMMA StutterKeeps == ASSUME Inv, UNCHANGED vars PROVE Inv'
<1>1. /\ scenario' = scenario /\ lp' = lp /\ head' = head /\ tail' = tail /\ next' = next /\ repl' = repl /\ disk' = disk
      /\ mem' = mem /\ clock' = clock /\ th' = th /\ retired' = retired /\ scrash' = scrash /\ queue' = queue /\ res' = res
  BY Zenon DEF vars
<1>2. Nodes' = Nodes /\ prog' = prog
  BY <1>1, Zenon DEF Nodes, Ops, prog
<1>3. /\ \A n : On(n)' = On(n) /\ Named(n)' = Named(n) /\ Past(n)' = Past(n) /\ Was(n)' = Was(n)
      /\ \A n : Behind(n)' = Behind(n)
  BY <1>1, <1>2 DEF On, Named, Past, Was, Behind, Closed
<1>4. Types'
  <2>1. Shape' /\ ListTypes'
    BY <1>1, <1>2 DEF Inv, Types, Shape, ListTypes, LinkTypes, NameTypes
  <2>2. DiskTypes'
    BY <1>1, NodeFacts, Flushing, Zenon DEF Inv
  <2>3. \A t \in Threads : MemTypes(t)' /\ ThTypes(t)'
    BY <1>1, <1>2 DEF Inv, Types, MemTypes, ThTypes
  <2> QED
    BY <2>1, <2>3, <2>2, Zenon DEF Types
<1>5. Owners'
  BY <1>1, <1>2, Zenon DEF Inv, Owners, Owner, Sees
<1>6. ASSUME scrash = 0 PROVE Calm'
  <2>1. List'
    <3>1. List /\ FirstKept' = FirstKept
      BY <1>1, <1>3, <1>6, Zenon DEF Inv, Calm, FirstKept
    <3>2. Chain' /\ Dead'
      BY <1>1, <1>2, <1>3, <3>1, Zenon DEF List, Chain, Dead
    <3>3. Whole' /\ Contents'
      BY <1>1, <1>2, <1>3, <3>1, Zenon DEF List, Whole, Closed, Contents, Chained
    <3> QED
      BY <3>2, <3>3, Zenon DEF List
  <2>2. ASSUME NEW t \in Threads PROVE Mementos(t)' /\ Mine(t)' /\ Knows(t)' /\ Once(t)'
    <3>1. Mementos(t) /\ Mine(t) /\ Knows(t) /\ Once(t)
      BY <1>6, <2>2, Zenon DEF Inv, Calm
    <3>2. \A j : Did(t, j)' = Did(t, j) /\ Stamps(t, j)' = Stamps(t, j) /\ Deed(t, j)' = Deed(t, j)
      BY <1>1, <1>2, <1>3, Zenon DEF Did, Stamps, Deed
    <3>3. Pairs(t)'
      BY <1>1, <1>2, <1>3, <3>1, Zenon DEF Mementos, Pairs, Paired
    <3>4. Ordered(t)'
      BY <1>1, <1>2, <3>1, <3>2, ZenonT(40) DEF Mementos, Ordered, Unrecorded
    <3>5. Returned(t)'
      BY <1>1, <1>2, <1>3, <3>1, <3>2, Zenon DEF Mementos, Returned
    <3>6. Mine(t)' /\ Knows(t)'
      BY <1>1, <1>2, <1>3, <3>1, Zenon DEF Mine, Made, Left, Knows, Node
    <3>7. Once(t)'
      BY <1>1, <1>2, <1>3, <3>1, <3>2, Zenon DEF Once, Node
    <3> QED
      BY <3>3, <3>6, <3>7, <3>4, <3>5, Zenon DEF Mementos
  <2> QED
    BY <2>1, <2>2, Zenon DEF Calm
<1> QED
  BY <1>1, <1>4, <1>5, <1>6, Zenon DEF Inv

\* The inductive invariant: with any threads, programs and crashes, the types and names of the
\* queues of queue.rs and queue_lp.rs are right, and without a power failure so are their links,
\* their mementos and what their threads know of them.
THEOREM Invariance == Spec => []Inv
<1>1. Init => Inv
  BY InitInv, Zenon
<1>2. Inv /\ [Next]_vars => Inv'
  <2> SUFFICES ASSUME Inv, [Next]_vars PROVE Inv'
    BY Zenon
  <2>1. ASSUME NEW t \in Threads, Step(t) PROVE Inv'
    BY <2>1, StepKeeps, Zenon
  <2>2. ASSUME NEW t \in Threads, ThreadCrash(t) PROVE Inv'
    BY <2>2, ThreadCrashKeeps, Zenon
  <2>3. CASE SystemCrash
    BY <2>3, SystemCrashKeeps, Zenon
  <2>4. CASE UNCHANGED vars
    BY <2>4, StutterKeeps, Zenon
  <2> QED
    BY <2>1, <2>2, <2>3, <2>4, Zenon DEF Next
<1> QED
  BY <1>1, <1>2, PTL DEF Spec

\* delete hands a node to the collector once and for good: no two threads retire the same node,
\* however they crash and whether or not power fails, and as long as it does not fail a retired
\* node cannot be reached from head or tail.
THEOREM RetiredSafely == Spec => []RetiredUnreachable
<1>1. Inv => RetiredUnreachable
  <2> SUFFICES ASSUME Inv PROVE RetiredUnreachable
    BY Zenon
  <2>1. \A r \in retired : Owner(r)
    BY Zenon DEF Inv, Owners
  <2>2. RetiredByOne
    <3> SUFFICES ASSUME NEW r \in retired, NEW q \in retired, r[1] = q[1] PROVE r = q
      BY Zenon DEF RetiredByOne
    <3>1. r = <<r[1], r[2]>> /\ q = <<q[1], q[2]>> /\ r[2] = q[2]
      BY <2>1, Zenon DEF Owner
    <3> QED
      BY <3>1, Zenon
  <2>3. ASSUME scrash = 0, NEW r \in retired PROVE r[1] \notin Reach(next, head) \cup Reach(next, tail)
    <3>1. ListTypes /\ Chain /\ r[1] \in Nodes /\ Past(r[1])
      BY <2>3, Zenon DEF Inv, Types, Calm, List, Dead
    <3>2. PICK n \in Nodes : n = r[1]
      BY <3>1, Zenon
    <3>3. n \notin Reach(next, head)
      <4> DEFINE S == {m \in Nodes : ~Past(m)}
      <4>1. head \in S
        BY <3>1, Zenon DEF Past, ListTypes
      <4>2. Closed(next, S)
        <5> SUFFICES ASSUME NEW m \in S, next[m] # Null PROVE next[m] \in S
          BY Zenon DEF Closed
        <5>1. next[m] \in Nodes
          BY <3>1, Zenon DEF ListTypes, LinkTypes
        <5> QED
          BY <3>1, <5>1, Zenon DEF Chain
      <4>3. S \in SUBSET Nodes /\ n \notin S
        BY <3>1, <3>2, Zenon
      <4> HIDE DEF S
      <4> QED
        BY <4>1, <4>2, <4>3, Zenon DEF Reach
    <3>4. n \notin Reach(next, tail)
      BY <3>1, <3>2, Zenon DEF Chain, Past, Behind, Reach
    <3> QED
      BY <3>2, <3>3, <3>4, Zenon
  <2> QED
    BY <2>2, <2>3, Zenon DEF RetiredUnreachable
<1> QED
  BY <1>1, Invariance, PTL

\* As long as power does not fail, the queue is what the links say: from the first node without a
\* deleter's name they lead through the values that are in the queue, in their order, and end.
THEOREM LinksMakeTheQueue == Spec => [](scrash = 0 => QueueFollowsLinks)
<1>1. Inv => (scrash = 0 => QueueFollowsLinks)
  <2> SUFFICES ASSUME Inv, scrash = 0 PROVE QueueFollowsLinks
    BY Zenon
  <2>1. ListTypes /\ Chain /\ Contents
    BY Zenon DEF Inv, Types, Calm, List
  <2>2. FirstKept \in Nodes /\ ~Named(FirstKept) /\ (FirstKept # head => Named(head) /\ FirstKept = repl[head].node)
    BY <2>1, ListFacts, Zenon DEF FirstKept, ListTypes
  <2>3. FirstKept \in Reach(Replacement(repl), head)
    <3> SUFFICES ASSUME NEW S \in SUBSET Nodes, head \in S, Closed(Replacement(repl), S) PROVE FirstKept \in S
      BY <2>2, Zenon DEF Reach
    <3>1. CASE FirstKept = head
      BY <3>1, Zenon
    <3>2. CASE FirstKept # head
      <4>1. Replacement(repl)[head] = FirstKept /\ FirstKept # Null
        BY <2>1, <2>2, <3>2, NodeFacts, Zenon DEF Replacement, ListTypes
      <4> QED
        BY <4>1, Zenon DEF Closed
    <3> QED
      BY <3>1, <3>2, Zenon
  <2> QED
    BY <2>1, <2>2, <2>3, Zenon DEF QueueFollowsLinks, Contents, Named
<1> QED
  BY <1>1, Invariance, PTL
=============================================================================
