--------------------------- MODULE SmoQueueSteps ---------------------------
(***************************************************************************)
(* What the steps of SmoQueue have in common: how the list changes when    *)
(* the tail or the head moves, a node is linked or gets a name, and what   *)
(* the invariant of SmoQueueInvariant says afterwards of the thread that   *)
(* made the step and of the others.                                        *)
(***************************************************************************)
EXTENDS SmoQueueInvariant

-----------------------------------------------------------------------------
\* The list.

\* Only the empty sequence has no elements.
LEMMA EmptySequence == ASSUME NEW S, NEW s \in Seq(S) PROVE s = <<>> <=> Len(s) = 0
  OBVIOUS

\* The sentinel is a node, no node is the null pointer, and no operation makes the sentinel.
LEMMA NodeFacts ==
    /\ Sentinel \in Nodes /\ Null \notin Nodes
    /\ \A t \in Threads : \A i \in DOMAIN prog[t] : prog[t][i] = "enq" => <<t, i>> \in Nodes
    /\ \A t \in Threads : \A i : <<t, i>> # Sentinel
<1>1. Sentinel \in Nodes
  BY Zenon DEF Nodes
<1>2. Null \notin Nodes
  BY DEF Nodes, Ops, Null, Sentinel
<1>3. ASSUME NEW t \in Threads, NEW i \in DOMAIN prog[t], prog[t][i] = "enq" PROVE <<t, i>> \in Nodes
  BY <1>3 DEF Nodes, Ops
<1>4. ASSUME NEW t \in Threads, NEW i PROVE <<t, i>> # Sentinel
  BY QueueAssumption, Zenon DEF Sentinel
<1> QED
  BY <1>1, <1>2, <1>3, <1>4, Zenon

\* A node with a name was linked, and so were the head and what it was; the tail has no name.
LEMMA ListFacts ==
    ASSUME ListTypes, Chain
    PROVE  /\ \A n \in Nodes : Named(n) \/ Was(n) => On(n)
           /\ \A n \in Nodes : ~Named(n) <=> repl[n].tid = 0
           /\ ~Named(tail) /\ ~Past(head)
           /\ \A n \in Nodes : Named(n) => repl[n].node = next[n] /\ next[n] \in Nodes /\ repl[n].tid \in Threads
           /\ Named(head) => ~Named(next[head])
<1>1. ASSUME NEW n \in Nodes, Named(n) PROVE On(n)
  BY <1>1, Zenon DEF Chain
<1>2. ASSUME NEW n \in Nodes, Was(n) PROVE On(n)
  BY <1>1, <1>2, Zenon DEF Was, Past, Chain
<1>3. ASSUME NEW n \in Nodes PROVE ~Named(n) <=> repl[n].tid = 0
  BY QueueAssumption DEF ListTypes, NameTypes, Kept, Named
<1>4. ~Past(head)
  BY Zenon DEF Past
<1>5. ~Named(tail)
  BY Zenon DEF Chain, Behind, ListTypes
<1>6. ASSUME NEW n \in Nodes, Named(n) PROVE repl[n].node = next[n] /\ next[n] \in Nodes /\ repl[n].tid \in Threads
  <2>1. repl[n].tid \in Threads
    BY <1>6 DEF ListTypes, NameTypes, Named
  <2>2. repl[n].node = next[n] /\ next[n] # Null
    BY <1>6, Zenon DEF Chain
  <2>3. next[n] \in Nodes
    BY <2>2, Zenon DEF ListTypes, LinkTypes
  <2> QED
    BY <2>1, <2>2, <2>3, Zenon
<1>7. Named(head) => ~Named(next[head])
  <2> SUFFICES ASSUME Named(head) PROVE ~Named(next[head])
    BY Zenon
  <2>1. next[head] # Null /\ head \in Nodes
    BY Zenon DEF Chain, ListTypes
  <2>2. next[head] # head /\ ~Past(next[head])
    BY <1>4, <2>1, Zenon DEF Chain
  <2> QED
    BY <2>2, Zenon DEF Past
<1> QED
  BY <1>1, <1>2, <1>3, <1>4, <1>5, <1>6, <1>7, Zenon

\* The tail is not the head: then it has moved past the head.
LEMMA TailAhead ==
    ASSUME ListTypes, Chain, tail # head
    PROVE  Behind(head)
<1> DEFINE S == {n \in Nodes : ~Past(n) /\ n # head}
<1>1. tail \in S
  BY ListFacts, Zenon DEF ListTypes, Past
<1>2. Closed(next, S)
  <2> SUFFICES ASSUME NEW m \in S, next[m] # Null PROVE next[m] \in S
    BY Zenon DEF Closed
  <2>1. next[m] \in Nodes
    BY Zenon DEF ListTypes, LinkTypes
  <2> QED
    BY <2>1, Zenon DEF Chain
<1>3. head \notin S /\ S \in SUBSET Nodes
  BY Zenon
<1> QED
  BY <1>1, <1>2, <1>3, Zenon DEF Behind

\* The tail is moved over a link.
LEMMA TailMoves ==
    ASSUME ListTypes, List, UNCHANGED <<scenario, head, next, repl, queue, retired>>,
           tail' \in Nodes, tail' \in {tail, next[tail]}
    PROVE  ListTypes' /\ List' /\ Grows
<1>1. Nodes' = Nodes
  BY Zenon DEF Nodes, Ops, prog
<1>2. ListTypes'
  <2>1. LinkTypes(next)' /\ NameTypes(repl)'
    BY <1>1 DEF ListTypes, LinkTypes, NameTypes, Kept, Null
  <2> QED
    BY <1>1, <2>1, Zenon DEF ListTypes
<1>3. ASSUME NEW n \in Nodes PROVE (On(n)' <=> On(n)) /\ (Named(n)' <=> Named(n)) /\ (Past(n)' <=> Past(n)) /\ (Was(n)' <=> Was(n))
  BY <1>1, Zenon DEF On, Named, Past, Was
<1>4. ASSUME NEW n \in Nodes, Behind(n) PROVE Behind(n)'
  <2>1. PICK S \in SUBSET Nodes : tail \in S /\ Closed(next, S) /\ n \notin S
    BY <1>4, Zenon DEF Behind
  <2>2. tail' \in S
    BY <2>1, NodeFacts, Zenon DEF Closed
  <2>3. Closed(next', S)
    BY <2>1, Zenon DEF Closed
  <2> QED
    BY <1>1, <2>1, <2>2, <2>3, Zenon DEF Behind
<1>5. On(tail')
  BY Zenon DEF List, Chain, On, ListTypes
<1>6. Chain'
  <2>1. \A m, n \in Nodes' : next'[m] # Null /\ next'[m] = next'[n] => m = n
    BY <1>1, Zenon DEF List, Chain
  <2>2. \A m \in Nodes' : next'[m] # Sentinel /\ (next'[m] # Null => On(m)')
    BY <1>1, <1>3, Zenon DEF List, Chain
  <2>3. On(head)' /\ On(tail)'
    BY <1>3, <1>5, Zenon DEF List, Chain, ListTypes
  <2>4. \A m \in Nodes' : Named(m)' => next'[m] # Null /\ repl'[m].node = next'[m] /\ Behind(m)'
    BY <1>1, <1>3, <1>4, Zenon DEF List, Chain
  <2>5. ASSUME NEW m \in Nodes, next'[m] # Null PROVE (Past(next[m])' => Past(m)') /\ (next'[m] = head' => Past(m)')
    <3>1. next[m] \in Nodes /\ next[m] # Null
      BY <2>5, Zenon DEF ListTypes, LinkTypes
    <3> QED
      BY <1>3, <3>1, Zenon DEF List, Chain
  <2> QED
    BY <1>1, <2>1, <2>2, <2>3, <2>4, <2>5, Zenon DEF Chain
<1>7. Whole'
  BY <1>1, <1>3, Zenon DEF List, Whole, Closed
<1>8. Contents' /\ Dead'
  BY <1>1, <1>3, Zenon DEF List, Contents, Chained, FirstKept, Named, Dead
<1>9. Grows
  BY <1>3, <1>4, Zenon DEF Grows
<1> QED
  BY <1>2, <1>6, <1>7, <1>8, <1>9, Zenon DEF List

\* Nothing happens to the list, but nodes may be retired that the head has passed.
LEMMA Retiring ==
    ASSUME ListTypes, List, UNCHANGED <<scenario, head, tail, next, repl, queue>>,
           \A r \in retired' : r \in retired \/ (r[1] \in Nodes /\ Past(r[1]))
    PROVE  ListTypes' /\ List' /\ Grows
<1>1. Nodes' = Nodes
  BY Zenon DEF Nodes, Ops, prog
<1>2. ListTypes'
  <2>1. LinkTypes(next)' /\ NameTypes(repl)'
    BY <1>1 DEF ListTypes, LinkTypes, NameTypes, Kept, Null
  <2> QED
    BY <1>1, <2>1, Zenon DEF ListTypes
<1>3. ASSUME NEW n \in Nodes
      PROVE  /\ (On(n)' <=> On(n)) /\ (Named(n)' <=> Named(n)) /\ (Past(n)' <=> Past(n)) /\ (Was(n)' <=> Was(n))
             /\ Behind(n)' <=> Behind(n)
  BY <1>1, Zenon DEF On, Named, Past, Was, Behind, Closed
<1>4. Chain'
  <2>1. \A m, n \in Nodes' : next'[m] # Null /\ next'[m] = next'[n] => m = n
    BY <1>1, Zenon DEF List, Chain
  <2>2. \A m \in Nodes' : next'[m] # Sentinel /\ (next'[m] # Null => On(m)')
    BY <1>1, <1>3, Zenon DEF List, Chain
  <2>3. On(head)' /\ On(tail)'
    BY <1>3, Zenon DEF List, Chain, ListTypes
  <2>4. \A m \in Nodes' : Named(m)' => next'[m] # Null /\ repl'[m].node = next'[m] /\ Behind(m)'
    BY <1>1, <1>3, Zenon DEF List, Chain
  <2>5. ASSUME NEW m \in Nodes, next'[m] # Null PROVE (Past(next[m])' => Past(m)') /\ (next'[m] = head' => Past(m)')
    <3>1. next[m] \in Nodes /\ next[m] # Null
      BY <2>5, Zenon DEF ListTypes, LinkTypes
    <3> QED
      BY <1>3, <3>1, Zenon DEF List, Chain
  <2> QED
    BY <1>1, <2>1, <2>2, <2>3, <2>4, <2>5, Zenon DEF Chain
<1>5. Whole'
  BY <1>1, <1>3, Zenon DEF List, Whole, Closed
<1>6. Contents'
  BY <1>1, <1>3, Zenon DEF List, Contents, Chained, FirstKept, Named
<1>7. Dead'
  BY <1>1, <1>3, Zenon DEF List, Dead
<1>8. Grows
  BY <1>3, Zenon DEF Grows
<1> QED
  BY <1>2, <1>4, <1>5, <1>6, <1>7, <1>8, Zenon DEF List

\* The head has a name and is moved over its link; it may be retired.
LEMMA HeadMoves ==
    ASSUME ListTypes, List, UNCHANGED <<scenario, tail, next, repl, queue>>,
           Named(head), head' = next[head],
           \A r \in retired' : r \in retired \/ r[1] = head
    PROVE  ListTypes' /\ List' /\ Grows /\ \A n \in Nodes : n = head => Past(n)'
<1>1. Nodes' = Nodes
  BY Zenon DEF Nodes, Ops, prog
<1>2. head \in Nodes /\ Chain /\ Whole /\ next[head] \in Nodes /\ next[head] # Null /\ ~Past(head)
  BY ListFacts, NodeFacts, Zenon DEF ListTypes, List
<1>3. ListTypes'
  <2>1. LinkTypes(next)' /\ NameTypes(repl)'
    BY <1>1 DEF ListTypes, LinkTypes, NameTypes, Kept, Null
  <2> QED
    BY <1>2, <1>1, <2>1, Zenon DEF ListTypes
<1>a. next[head] # head /\ ~Named(next[head])
  BY <1>2, ListFacts, Zenon DEF Chain
<1>4. ASSUME NEW n \in Nodes
      PROVE  /\ (On(n)' <=> On(n)) /\ (Named(n)' <=> Named(n)) /\ (Past(n)' <=> Past(n) \/ n = head)
             /\ Was(n) => Was(n)'
             /\ Behind(n)' <=> Behind(n)
  <2>1. (On(n)' <=> On(n)) /\ (Named(n)' <=> Named(n)) /\ (Behind(n)' <=> Behind(n))
    BY <1>1, Zenon DEF On, Named, Behind, Closed
  <2>2. Past(n)' <=> Past(n) \/ n = head
    BY <1>a, <2>1, Zenon DEF Past
  <2> QED
    BY <2>1, <2>2, Zenon DEF Was
<1>5. Chain'
  <2>1. \A m, n \in Nodes : next[m] # Null /\ next[m] = next[n] => m = n
    BY <1>2, Zenon DEF Chain
  <2>2. \A m, n \in Nodes' : next'[m] # Null /\ next'[m] = next'[n] => m = n
    BY <1>1, <2>1, Zenon
  <2>3. \A m \in Nodes' : next'[m] # Sentinel /\ (next'[m] # Null => On(m)')
    BY <1>2, <1>1, <1>4, Zenon DEF Chain
  <2>4. On(head)' /\ On(tail)'
    <3>1. On(head)'
      BY <1>2, <1>1, Zenon DEF On
    <3>2. On(tail)'
      BY <1>2, <1>4, Zenon DEF Chain, ListTypes
    <3> QED
      BY <3>1, <3>2, Zenon
  <2>5. \A m \in Nodes' : Named(m)' => next'[m] # Null /\ repl'[m].node = next'[m] /\ Behind(m)'
    BY <1>2, <1>1, <1>4, Zenon DEF Chain
  <2>6. ASSUME NEW m \in Nodes, next'[m] # Null PROVE (Past(next[m])' => Past(m)') /\ (next'[m] = head' => Past(m)')
    <3>1. next[m] \in Nodes /\ next[m] # Null
      BY <2>6, Zenon DEF ListTypes, LinkTypes
    <3>2. (Past(next[m]) => Past(m)) /\ (next[m] = head => Past(m)) /\ (next[m] = next[head] => m = head)
      BY <1>2, <3>1, Zenon DEF Chain
    <3>3. PICK n \in Nodes : n = next[m]
      BY <3>1, Zenon
    <3>4. Past(n)' => Past(m)'
      BY <1>4, <3>2, <3>3, Zenon
    <3>5. Past(next[m])' => Past(m)'
      BY <3>3, <3>4, Zenon DEF Past, Named
    <3> QED
      BY <1>4, <3>2, <3>5, Zenon
  <2> QED
    BY <1>1, <2>2, <2>3, <2>4, <2>5, <2>6, Zenon DEF Chain
<1>6. Whole'
  <2> SUFFICES ASSUME NEW S \in SUBSET Nodes, head' \in S, Closed(next', S), NEW n \in Nodes, On(n)', ~Past(n)'
               PROVE  n \in S
    BY <1>1, Zenon DEF Whole
  <2>1. S \cup {head} \in SUBSET Nodes /\ Closed(next, S \cup {head})
    BY <1>2, Zenon DEF Closed
  <2>2. On(n) /\ ~Past(n) /\ n # head
    BY <1>4, Zenon
  <2> QED
    BY <1>2, <2>1, <2>2, Zenon DEF Whole
<1>7. Contents'
  <2>1. FirstKept' = FirstKept
    BY <1>a, Zenon DEF FirstKept, Named
  <2> QED
    BY <1>1, <2>1, Zenon DEF List, Contents, Chained
<1>8. Dead'
  <2> SUFFICES ASSUME NEW r \in retired' PROVE r[1] \in Nodes /\ Past(r[1])'
    BY <1>1, Zenon DEF Dead
  <2>1. r[1] \in Nodes /\ (Past(r[1]) \/ r[1] = head)
    BY <1>2, Zenon DEF List, Dead
  <2>2. PICK n \in Nodes : n = r[1]
    BY <2>1, Zenon
  <2>3. Past(n)'
    BY <1>4, <2>1, <2>2, Zenon
  <2> QED
    BY <2>2, <2>3, Zenon DEF Past
<1>9. Grows
  BY <1>4, Zenon DEF Grows
<1> QED
  BY <1>3, <1>4, <1>5, <1>6, <1>7, <1>8, <1>9, Zenon DEF List

\* A deleter leaves its name in the head, which has none yet: the first value leaves the queue.
LEMMA Naming ==
    ASSUME ListTypes, List, UNCHANGED <<scenario, head, tail, next, retired>>, NEW t \in Threads, NEW n \in Nodes,
           ~Named(head), next[head] = n, Behind(head),
           repl' = [repl EXCEPT ![head] = [node |-> n, tid |-> t]], queue' = Without(queue, n)
    PROVE  ListTypes' /\ List' /\ Grows /\ queue # <<>> /\ Head(queue) = n /\ queue' = Tail(queue)
<1>1. Nodes' = Nodes
  BY Zenon DEF Nodes, Ops, prog
<1>2. head \in Nodes /\ Chain /\ Whole /\ n # Null /\ DOMAIN repl = Nodes
  BY NodeFacts, Zenon DEF ListTypes, List, NameTypes
<1>3. ListTypes'
  <2>1. LinkTypes(next)'
    BY <1>1, Zenon DEF ListTypes, LinkTypes, Null
  <2>2. NameTypes(repl)'
    <3>1. DOMAIN repl' = Nodes
      BY <1>2, Zenon
    <3>2. ASSUME NEW m \in Nodes PROVE repl'[m] = Kept \/ \E k \in Nodes, u \in Threads : repl'[m] = [node |-> k, tid |-> u]
      <4>1. CASE m = head
        BY <1>2, <4>1, Zenon
      <4>2. CASE m # head
        BY <1>2, <4>2, Zenon DEF ListTypes, NameTypes
      <4> QED
        BY <4>1, <4>2, Zenon
    <3> QED
      BY <1>1, <3>1, <3>2, Zenon DEF NameTypes, Kept, Null
  <2> QED
    BY <1>1, <2>1, <2>2, Zenon DEF ListTypes
<1>b. Named(head)' /\ repl'[head].node = n
  BY <1>2, QueueAssumption, Zenon DEF Named, Kept
<1>4. ASSUME NEW m \in Nodes
      PROVE  /\ (On(m)' <=> On(m)) /\ (Named(m)' <=> Named(m) \/ m = head) /\ (Past(m)' <=> Past(m))
             /\ Was(m)' <=> Was(m)
             /\ Behind(m)' <=> Behind(m)
             /\ m # head => repl'[m] = repl[m]
  <2>1. (On(m)' <=> On(m)) /\ (Behind(m)' <=> Behind(m))
    BY <1>1, Zenon DEF On, Behind, Closed
  <2>2. m # head => repl'[m] = repl[m]
    BY <1>2, Zenon
  <2>3. Named(m)' <=> Named(m) \/ m = head
    BY <1>b, <2>2, Zenon DEF Named
  <2>4. Past(m)' <=> Past(m)
    BY <2>3, Zenon DEF Past
  <2> QED
    BY <2>1, <2>2, <2>3, <2>4, Zenon DEF Was
<1>5. Chain'
  <2>1. \A m, k \in Nodes : next[m] # Null /\ next[m] = next[k] => m = k
    BY <1>2, Zenon DEF Chain
  <2>2. \A m, k \in Nodes' : next'[m] # Null /\ next'[m] = next'[k] => m = k
    BY <1>1, <2>1, Zenon
  <2>3. \A m \in Nodes' : next'[m] # Sentinel /\ (next'[m] # Null => On(m)')
    BY <1>2, <1>1, <1>4, Zenon DEF Chain
  <2>4. On(head)' /\ On(tail)'
    BY <1>2, <1>4, Zenon DEF Chain, ListTypes
  <2>5. ASSUME NEW m \in Nodes, Named(m)' PROVE next'[m] # Null /\ repl'[m].node = next'[m] /\ Behind(m)'
    <3>1. CASE m = head
      BY <1>2, <1>4, <1>b, <3>1, Zenon
    <3>2. CASE m # head
      BY <1>2, <1>4, <2>5, <3>2, Zenon DEF Chain
    <3> QED
      BY <3>1, <3>2, Zenon
  <2>6. ASSUME NEW m \in Nodes, next'[m] # Null PROVE (Past(next[m])' => Past(m)') /\ (next'[m] = head' => Past(m)')
    <3>1. next[m] \in Nodes /\ next[m] # Null
      BY <2>6, Zenon DEF ListTypes, LinkTypes
    <3> QED
      BY <1>2, <1>4, <3>1, Zenon DEF Chain
  <2> QED
    BY <1>1, <2>2, <2>3, <2>4, <2>5, <2>6, Zenon DEF Chain
<1>6. Whole'
  BY <1>2, <1>1, <1>4, Zenon DEF Whole, Closed
<1>c. queue \in Seq(Nodes) /\ queue # <<>> /\ queue[1] = n /\ Chained(queue, head)
  BY <1>2, Zenon DEF List, Contents, Chained, FirstKept
<1>d. Head(queue) = n /\ queue' = Tail(queue)
  BY <1>c DEF Without
<1>7. Contents'
  <2>1. FirstKept' = n
    BY <1>b, Zenon DEF FirstKept
  <2>2. /\ Tail(queue) \in Seq(Nodes) /\ Len(Tail(queue)) = Len(queue) - 1 /\ Len(queue) \in Nat /\ Len(queue) >= 1
        /\ DOMAIN queue = 1 .. Len(queue) /\ DOMAIN Tail(queue) = 1 .. (Len(queue) - 1)
        /\ \A k \in DOMAIN Tail(queue) : k + 1 \in DOMAIN queue /\ Tail(queue)[k] = queue[k + 1]
        /\ Tail(queue) = <<>> <=> Len(queue) = 1
    <3>1. Tail(queue) \in Seq(Nodes) /\ Len(Tail(queue)) = Len(queue) - 1 /\ Len(queue) \in Nat /\ Len(queue) >= 1
      BY <1>c
    <3>2. DOMAIN queue = 1 .. Len(queue) /\ DOMAIN Tail(queue) = 1 .. (Len(queue) - 1)
      BY <1>c, <3>1
    <3>3. \A k \in DOMAIN Tail(queue) : k + 1 \in DOMAIN queue /\ Tail(queue)[k] = queue[k + 1]
      BY <1>c, <3>1, <3>2
    <3>4. Tail(queue) = <<>> <=> Len(Tail(queue)) = 0
      BY <3>1, EmptySequence, Zenon
    <3>5. Len(Tail(queue)) = 0 <=> Len(queue) = 1
      BY <3>1
    <3> QED
      BY <3>1, <3>2, <3>3, <3>4, <3>5, Zenon
  <2>3. \A k \in DOMAIN queue : next[queue[k]] = IF k < Len(queue) THEN queue[k + 1] ELSE Null
    BY <1>c, Zenon DEF Chained
  <2>4. next[n] = IF Tail(queue) = <<>> THEN Null ELSE Tail(queue)[1]
    <3>1. 1 \in DOMAIN queue
      BY <1>c, <2>2
    <3>2. next[n] = IF 1 < Len(queue) THEN queue[1 + 1] ELSE Null
      BY <1>c, <2>3, <3>1, Zenon
    <3> QED
      BY <2>2, <3>2
  <2>5. ASSUME NEW k \in DOMAIN Tail(queue)
        PROVE  next[Tail(queue)[k]] = IF k < Len(Tail(queue)) THEN Tail(queue)[k + 1] ELSE Null
    BY <2>2, <2>3
  <2> QED
    BY <1>1, <1>d, <2>1, <2>2, <2>4, <2>5, Zenon DEF Contents, Chained, Null
<1>8. Dead'
  BY <1>1, <1>4, Zenon DEF List, Dead
<1>9. Grows
  BY <1>4, Zenon DEF Grows
<1> QED
  BY <1>3, <1>5, <1>6, <1>7, <1>8, <1>9, <1>c, <1>d, Zenon DEF List

\* A node is linked to one without a successor: the latter is the last node of the queue.
LEMMA Linking ==
    ASSUME ListTypes, List, UNCHANGED <<scenario, head, tail, repl, retired>>, NEW v \in Nodes, NEW l \in Nodes,
           ~On(v), On(l), next[l] = Null, next' = [next EXCEPT ![l] = v], queue' = Append(queue, v)
    PROVE  ListTypes' /\ List' /\ Grows /\ \A n \in Nodes : On(n)' => On(n) \/ n = v
<1>1. Nodes' = Nodes
  BY Zenon DEF Nodes, Ops, prog
<1>2. /\ head \in Nodes /\ tail \in Nodes /\ Chain /\ Whole /\ v # Null /\ DOMAIN next = Nodes /\ v # l /\ v # head /\ v # Sentinel
      /\ next[v] = Null /\ ~Named(v) /\ ~Named(l) /\ next'[l] = v
      /\ \A m \in Nodes : m # l => next'[m] = next[m]
  BY NodeFacts, Zenon DEF ListTypes, List, LinkTypes, Chain, On
<1>3. ListTypes'
  <2>1. LinkTypes(next)'
    BY <1>1, Zenon DEF ListTypes, LinkTypes, Null
  <2>2. NameTypes(repl)'
    BY <1>1 DEF ListTypes, NameTypes, Kept, Null
  <2> QED
    BY <1>2, <1>1, <2>1, <2>2, Zenon DEF ListTypes
<1>4. ASSUME NEW n \in Nodes
      PROVE  (On(n)' <=> On(n) \/ n = v) /\ (Named(n)' <=> Named(n)) /\ (Past(n)' <=> Past(n)) /\ (Was(n)' <=> Was(n))
  BY <1>2, <1>1, Zenon DEF On, Named, Past, Was
<1>5. ASSUME NEW n \in Nodes, n # v, Behind(n) PROVE Behind(n)'
  <2>1. PICK S \in SUBSET Nodes : tail \in S /\ Closed(next, S) /\ n \notin S
    BY <1>5, Zenon DEF Behind
  <2>2. Closed(next', S \cup {v})
    BY <1>2, <2>1, Zenon DEF Closed
  <2>3. S \cup {v} \in SUBSET Nodes /\ tail' \in S \cup {v} /\ n \notin S \cup {v}
    BY <1>5, <2>1, Zenon
  <2> QED
    BY <1>1, <2>2, <2>3, Zenon DEF Behind
<1>6. Chain'
  <2>1. \A m, k \in Nodes : next[m] # Null /\ next[m] = next[k] => m = k
    BY <1>2, Zenon DEF Chain
  <2>a. \A m \in Nodes : next[m] # v
    BY Zenon DEF On
  <2>2. \A m, k \in Nodes' : next'[m] # Null /\ next'[m] = next'[k] => m = k
    BY <1>2, <1>1, <2>1, <2>a, Zenon
  <2>3. \A m \in Nodes' : next'[m] # Sentinel /\ (next'[m] # Null => On(m)')
    BY <1>2, <1>1, <1>4, Zenon DEF Chain
  <2>4. On(head)' /\ On(tail)'
    BY <1>2, <1>4, Zenon DEF Chain
  <2>5. ASSUME NEW m \in Nodes, Named(m)' PROVE next'[m] # Null /\ repl'[m].node = next'[m] /\ Behind(m)'
    BY <1>2, <1>4, <1>5, <2>5, Zenon DEF Chain
  <2>6. ASSUME NEW m \in Nodes, next'[m] # Null PROVE (Past(next[m])' => Past(m)') /\ (next'[m] = head' => Past(m)')
    <3>1. next'[m] \in Nodes /\ (m # l => next'[m] = next[m])
      BY <1>2, <2>6, Zenon DEF ListTypes, LinkTypes
    <3>2. PICK k \in Nodes : k = next'[m]
      BY <3>1, Zenon
    <3>3. (Past(k) => Past(m)) /\ (k = head => Past(m))
      <4>1. CASE m = l
        BY <1>2, <3>2, <4>1, Zenon DEF Past
      <4>2. CASE m # l
        BY <1>2, <2>6, <3>1, <3>2, <4>2, Zenon DEF Chain
      <4> QED
        BY <4>1, <4>2, Zenon
    <3>4. (Past(k)' => Past(m)') /\ (k = head' => Past(m)')
      BY <1>4, <3>3, Zenon
    <3>5. Past(next[m])' => Past(m)'
      BY <3>2, <3>4, Zenon DEF Past, Named
    <3> QED
      BY <3>2, <3>4, <3>5, Zenon
  <2> QED
    BY <1>1, <2>2, <2>3, <2>4, <2>5, <2>6, Zenon DEF Chain
<1>7. Whole'
  <2> SUFFICES ASSUME NEW S \in SUBSET Nodes, head' \in S, Closed(next', S), NEW n \in Nodes, On(n)', ~Past(n)'
               PROVE  n \in S
    BY <1>1, Zenon DEF Whole
  <2>1. Closed(next, S)
    BY <1>2, Zenon DEF Closed
  <2>2. l \in S
    BY <1>2, <2>1, Zenon DEF Whole, Past
  <2>3. v \in S
    BY <1>2, <2>2, Zenon DEF Closed
  <2> QED
    BY <1>2, <1>4, <2>1, <2>3, Zenon DEF Whole
<1>8. Contents'
  <2>1. FirstKept' = FirstKept
    BY <1>2, Zenon DEF FirstKept, Named, Chain
  <2>2. queue \in Seq(Nodes) /\ Chained(queue, FirstKept) /\ FirstKept \in Nodes /\ (FirstKept = head \/ (next[head] = FirstKept /\ next[head] # Null))
    <3>1. queue \in Seq(Nodes) /\ Chained(queue, FirstKept)
      BY Zenon DEF List, Contents
    <3>2. CASE Named(head)
      <4>1. next[head] \in Nodes /\ next[head] # Null
        BY <1>2, <3>2, Zenon DEF Chain, ListTypes, LinkTypes
      <4> QED
        BY <3>1, <3>2, <4>1, Zenon DEF FirstKept
    <3>3. CASE ~Named(head)
      BY <1>2, <3>1, <3>3, Zenon DEF FirstKept
    <3> QED
      BY <3>2, <3>3, Zenon
  <2> DEFINE f == FirstKept
  <2> DEFINE S == {head, f} \cup {queue[k] : k \in DOMAIN queue}
  <2>3. S \in SUBSET Nodes
    BY <1>2, <2>2
  <2>4. /\ next[f] = IF queue = <<>> THEN Null ELSE queue[1]
        /\ \A k \in DOMAIN queue : next[queue[k]] = IF k < Len(queue) THEN queue[k + 1] ELSE Null
        /\ DOMAIN queue = 1 .. Len(queue) /\ Len(queue) \in Nat /\ \A k \in DOMAIN queue : queue[k] \in Nodes
        /\ queue # <<>> => 1 \in DOMAIN queue /\ Len(queue) \in DOMAIN queue
        /\ \A k \in DOMAIN queue : k < Len(queue) => k + 1 \in DOMAIN queue
    BY <2>2 DEF Chained
  <2>5. Closed(next, S)
    <3> SUFFICES ASSUME NEW m \in S, next[m] # Null PROVE next[m] \in S
      BY Zenon DEF Closed
    <3>1. CASE m = f
      BY <2>4, <3>1, Zenon
    <3>2. CASE m = head
      BY <2>2, <3>1, <3>2, Zenon
    <3>3. ASSUME NEW k \in DOMAIN queue, m = queue[k] PROVE next[m] \in S
      BY <2>4, <3>3, Zenon
    <3> QED
      BY <3>1, <3>2, <3>3, Zenon
  <2>6. l \in S
    BY <1>2, <2>3, <2>5, Zenon DEF Whole, Past
  <2>7. (queue = <<>> => l = f) /\ (queue # <<>> => l = queue[Len(queue)])
    <3>1. CASE l = f
      BY <2>4, <3>1, NodeFacts, Zenon
    <3>2. CASE l = head
      BY <2>2, <3>1, <3>2, Zenon
    <3>3. ASSUME NEW k \in DOMAIN queue, l = queue[k] PROVE queue # <<>> /\ l = queue[Len(queue)]
      <4>1. ~(k < Len(queue))
        BY <2>4, <3>3, NodeFacts, Zenon
      <4> QED
        BY <2>4, <3>3, <4>1
    <3> QED
      BY <2>6, <3>1, <3>2, <3>3, Zenon
  <2> HIDE DEF f, S
  <2>8. /\ queue' \in Seq(Nodes) /\ queue' # <<>> /\ Len(queue') = Len(queue) + 1 /\ queue'[Len(queue) + 1] = v
        /\ DOMAIN queue' = 1 .. (Len(queue) + 1)
        /\ \A k \in DOMAIN queue : queue'[k] = queue[k]
    BY <2>2
  <2>9. next'[f] = queue'[1]
    <3>1. CASE queue = <<>>
      BY <1>2, <2>7, <2>8, <3>1
    <3>2. CASE queue # <<>>
      BY <1>2, <2>2, <2>4, <2>8, <3>2, NodeFacts DEF f
    <3> QED
      BY <3>1, <3>2, Zenon
  <2>10. ASSUME NEW k \in DOMAIN queue' PROVE next'[queue'[k]] = IF k < Len(queue') THEN queue'[k + 1] ELSE Null
    <3>1. CASE k = Len(queue) + 1
      BY <1>2, <2>4, <2>8, <3>1
    <3>2. CASE k = Len(queue)
      <4>1. queue # <<>> /\ k \in DOMAIN queue
        BY <2>4, <2>8, <3>2
      <4> QED
        BY <1>2, <2>4, <2>7, <2>8, <3>2, <4>1
    <3>3. CASE k < Len(queue)
      <4>1. k \in DOMAIN queue /\ k + 1 \in DOMAIN queue
        BY <2>4, <2>8, <3>3
      <4>2. next[queue[k]] = queue[k + 1] /\ queue[k + 1] # Null /\ queue[k] # l
        BY <2>4, <3>3, <4>1, NodeFacts, Zenon
      <4> QED
        BY <1>2, <2>4, <2>8, <3>3, <4>1, <4>2
    <3> QED
      BY <2>4, <2>8, <3>1, <3>2, <3>3
  <2> QED
    BY <1>1, <2>1, <2>8, <2>9, <2>10, Zenon DEF Contents, Chained, f
<1>9. Dead'
  BY <1>1, <1>4, Zenon DEF List, Dead
<1>10. Grows
  BY <1>2, <1>4, <1>5, Zenon DEF Grows
<1> QED
  BY <1>3, <1>4, <1>6, <1>7, <1>8, <1>9, <1>10, Zenon DEF List

-----------------------------------------------------------------------------
\* The mementos and the threads while other threads move.

\* The records of t, when the list grows.
LEMMA DidStays ==
    ASSUME Types, Grows, scenario' = scenario, NEW t \in Threads, NEW j \in DOMAIN prog[t],
           mem'[t][j].hn = mem[t][j].hn
    PROVE  /\ Did(t, j) => Did(t, j)'
           /\ Unmade(t) => (Did(t, j)' => Did(t, j))
           /\ prog[t][j] = "enq" => (On(<<t, j>>) => On(<<t, j>>)') /\ (Unmade(t) /\ On(<<t, j>>)' => On(<<t, j>>))
<1>1. prog'[t] = prog[t]
  BY Zenon DEF prog
<1>2. CASE prog[t][j] = "enq"
  <2>1. <<t, j>> \in Nodes /\ <<t, j>>[1] = t
    BY <1>2, NodeFacts, Zenon
  <2>2. (On(<<t, j>>) => On(<<t, j>>)') /\ (Unmade(t) /\ On(<<t, j>>)' => On(<<t, j>>))
    BY <2>1, Zenon DEF Grows, Unmade
  <2> QED
    BY <1>1, <1>2, <2>2, Zenon DEF Did
<1>3. CASE prog[t][j] # "enq"
  <2>1. CASE mem[t][j].hn.ts > 0 /\ mem[t][j].hn.n # Null
    <3>1. PICK n \in Nodes : n = mem[t][j].hn.h
      BY <2>1, Zenon DEF Types, MemTypes
    <3>2. repl[n].tid = t => Named(n)
      BY QueueAssumption DEF Types, ListTypes, NameTypes, Named, Kept
    <3>3. (repl[n].tid = t => repl'[n].tid = t) /\ (Unmade(t) /\ repl'[n].tid = t => repl[n].tid = t)
      BY <3>2, Zenon DEF Grows, Unmade
    <3> QED
      BY <1>1, <1>3, <2>1, <3>1, <3>3, Zenon DEF Did
  <2>2. CASE ~(mem[t][j].hn.ts > 0 /\ mem[t][j].hn.n # Null)
    BY <1>1, <1>3, <2>2, Zenon DEF Did
  <2> QED
    BY <2>1, <2>2, Zenon
<1> QED
  BY <1>2, <1>3, Zenon

\* Stamps stay in order when t records nothing.
LEMMA StaysOrdered ==
    ASSUME Types, Grows, scenario' = scenario, NEW t \in Threads, mem'[t] = mem[t], clock'[t] = clock[t], Ordered(t),
           th'[t].lmax <= clock[t], Unrecorded(t)'
    PROVE  Ordered(t)'
<1>1. prog'[t] = prog[t] /\ \A j : Stamps(t, j)' = Stamps(t, j)
  BY Zenon DEF prog, Stamps
<1>2. \A j \in DOMAIN prog[t] : Did(t, j) => Did(t, j)'
  BY DidStays, Zenon
<1>3. \A j, k \in DOMAIN prog[t] : j < k => \A b \in Stamps(t, k) : b > 0 => Did(t, j) /\ \A a \in Stamps(t, j) : a < b
  BY Zenon DEF Ordered
<1>4. \A j, k \in DOMAIN prog'[t] : j < k => \A b \in Stamps(t, k)' : b > 0 => Did(t, j)' /\ \A a \in Stamps(t, j)' : a < b
  BY <1>1, <1>2, <1>3, Zenon
<1>5. \A j \in DOMAIN prog'[t] : \A a \in Stamps(t, j)' : a <= clock'[t]
  BY <1>1, Zenon DEF Ordered
<1> QED
  BY <1>4, <1>5, Zenon DEF Ordered

\* The pairs of t stay.
LEMMA StaysPaired ==
    ASSUME Types, List, Grows, scenario' = scenario, NEW t \in Threads, mem'[t] = mem[t], Pairs(t)
    PROVE  Pairs(t)'
<1>1. prog'[t] = prog[t]
  BY Zenon DEF prog
<1> SUFFICES ASSUME NEW j \in DOMAIN prog[t], prog[t][j] = "deq", mem[t][j].hn.ts > 0, NEW n, n = mem[t][j].hn.h
             PROVE  Was(n)' /\ (mem[t][j].hn.n # Null => next'[n] = mem[t][j].hn.n /\ Behind(n)')
  BY <1>1, ZenonT(40) DEF Pairs, Paired, Was, Past, Named, Behind
<1>2. n \in Nodes /\ Was(n) /\ (mem[t][j].hn.n # Null => next[n] = mem[t][j].hn.n /\ Behind(n))
  BY Zenon DEF Pairs, Paired, Types, MemTypes
<1>3. On(n)
  BY <1>2, ListFacts, Zenon DEF Types, List
<1> QED
  BY <1>2, <1>3, Zenon DEF Grows

\* What t returned stays done.
LEMMA StaysReturned ==
    ASSUME Types, Grows, scenario' = scenario, NEW t \in Threads, mem'[t] = mem[t], res'[t] = res[t],
           \A j \in DOMAIN prog[t] : j < th'[t].i => j < th[t].i, Returned(t)
    PROVE  Returned(t)'
<1>1. prog'[t] = prog[t]
  BY Zenon DEF prog
<1>2. \A j \in DOMAIN prog[t] : res[t][j] # Null => Did(t, j)' /\ res[t][j] = Deed(t, j)
  BY DidStays, Zenon DEF Returned
<1>3. ASSUME NEW j \in DOMAIN prog[t], j < th[t].i, prog[t][j] = "deq", mem[t][j].hn.n # Null, NEW n, n = mem[t][j].hn.h PROVE Past(n)'
  <2>1. Past(n) /\ res[t][j] # Null
    BY <1>3, Zenon DEF Returned
  <2>2. Did(t, j)
    BY <2>1, Zenon DEF Returned
  <2>3. n \in Nodes
    BY <1>3, <2>2, Zenon DEF Did, Types, MemTypes
  <2> QED
    BY <2>1, <2>3, Zenon DEF Grows
<1>4. \A j \in DOMAIN prog[t] : j < th[t].i => res[t][j] # Null
  BY Zenon DEF Returned
<1>5. \A j \in DOMAIN prog[t] : Deed(t, j)' = Deed(t, j)
  BY <1>1, Zenon DEF Deed
<1> QED
  BY <1>1, <1>2, <1>3, <1>4, <1>5, Zenon DEF Returned, Past, Named

\* All records of a thread that does nothing to them.
LEMMA StayMementos ==
    ASSUME Types, List, Grows, scenario' = scenario, NEW t \in Threads, mem'[t] = mem[t], clock'[t] = clock[t], res'[t] = res[t],
           th'[t].i = th[t].i, th'[t].rec = th[t].rec, th'[t].lmax = th[t].lmax, Mementos(t)
    PROVE  Mementos(t)'
<1>1. prog'[t] = prog[t] /\ \A j : Stamps(t, j)' = Stamps(t, j)
  BY Zenon DEF prog, Stamps
<1>2. Unrecorded(t)' /\ th'[t].lmax <= clock[t]
  BY <1>1, Zenon DEF Mementos, Ordered, Unrecorded
<1> QED
  BY <1>2, StaysOrdered, StaysPaired, StaysReturned, Zenon DEF Mementos

\* Nobody else makes a node of t or leaves its name.
LEMMA StaysMine ==
    ASSUME Types, Grows, scenario' = scenario, NEW t \in Threads, mem'[t] = mem[t], Unmade(t), Mine(t)
    PROVE  Mine(t)'
<1>1. prog'[t] = prog[t] /\ Nodes' = Nodes
  BY Zenon DEF prog, Nodes, Ops
<1>2. Made(t)'
  BY <1>1, DidStays, Zenon DEF Mine, Made
<1>3. Left(t)'
  <2>1. \A n \in Nodes : repl'[n].tid = t =>
            \E j \in DOMAIN prog[t] :
                prog[t][j] = "deq" /\ mem[t][j].hn.ts > 0 /\ mem[t][j].hn.h = n /\ mem[t][j].hn.n # Null
    BY Zenon DEF Mine, Left, Unmade
  <2> QED
    BY <1>1, <2>1 DEF Left
<1> QED
  BY <1>2, <1>3, Zenon DEF Mine

\* What t knows where it is stays true.
LEMMA StaysKnown ==
    ASSUME Types, List, Grows, scenario' = scenario, lp' = lp, NEW t \in Threads, mem'[t] = mem[t], th'[t] = th[t], Unmade(t),
           Knows(t), Once(t)
    PROVE  Knows(t)' /\ Once(t)'
<1>1. prog'[t] = prog[t] /\ Nodes' = Nodes /\ Node(t)' = Node(t)
  BY Zenon DEF prog, Nodes, Ops, Node
<1>2. ThTypes(t) /\ \A n \in Nodes : Was(n) => On(n)
  BY ListFacts, Zenon DEF Types, List
<1>3. ASSUME NEW n \in Nodes PROVE /\ On(n) => On(n)'
                                   /\ Was(n) => Was(n)'
                                   /\ Was(n) /\ Behind(n) => Behind(n)'
                                   /\ next[n] # Null => next'[n] = next[n]
                                   /\ repl'[n].tid = t => repl[n].tid = t
                                   /\ Named(n) => Named(n)'
  BY <1>2, Zenon DEF Grows, Unmade, Named
<1>4. Knows(t)'
  <2> DEFINE l == th[t]
  <2>1. l.pc \in EnqPcs \ {"enq", "tail"} => On(l.tl)'
    BY <1>2, <1>3, Zenon DEF Knows, ThTypes
  <2>2. l.pc \in {"persist", "advance"} => next'[l.tl] = Node(t)
    <3>1. Node(t) # Null
      BY Zenon DEF Node, Null
    <3> QED
      BY <1>2, <1>3, <3>1, Zenon DEF Knows, ThTypes, EnqPcs
  <2>3. l.pc \in {"dtail", "dnext", "dstale"} => Was(l.h)' /\ repl'[l.h].tid # t
    BY <1>2, <1>3, Zenon DEF Knows, ThTypes, DeqPcs
  <2>4. l.pc = "dtail" /\ lp => l.n # Null /\ next'[l.h] = l.n
    BY <1>2, <1>3, Zenon DEF Knows, ThTypes, DeqPcs
  <2>5. l.pc = "dnext" /\ ~lp /\ l.h # l.tl => Behind(l.h)'
    BY <1>2, <1>3, Zenon DEF Knows, ThTypes, DeqPcs
  <2>6. l.pc = "dstale" => l.tl = l.h /\ next'[l.h] = l.n
    BY <1>2, <1>3, Zenon DEF Knows, ThTypes, DeqPcs
  <2>7. l.pc \in {"delete", "own", "unlink", "help"} =>
           mem[t][l.i].hn.ts > 0 /\ l.h = mem[t][l.i].hn.h /\ l.n = mem[t][l.i].hn.n
    BY Zenon DEF Knows
  <2>8. l.pc = "help" => l.n # Null
    BY Zenon DEF Knows
  <2> QED
    BY <1>1, <2>1, <2>2, <2>3, <2>4, <2>5, <2>6, <2>7, <2>8, Zenon DEF Knows
<1>5. Once(t)'
  <2>1. th[t].i \in DOMAIN prog[t] => Did(t, th[t].i)' = Did(t, th[t].i)
    <3>1. Did(t, th[t].i) \in BOOLEAN
      BY Zenon DEF Did, On
    <3>2. Did(t, th[t].i)' \in BOOLEAN
      BY Zenon DEF Did, On
    <3> QED
      BY <1>1, <3>1, <3>2, DidStays, Zenon
  <2>2. th[t].pc = "recheck" /\ On(Node(t))' => Named(Node(t))'
    <3> SUFFICES ASSUME th[t].pc = "recheck", On(Node(t))' PROVE Named(Node(t))'
      BY Zenon
    <3>1. th[t].i \in DOMAIN prog[t] /\ prog[t][th[t].i] = "enq"
      BY <1>2, Zenon DEF ThTypes, EnqPcs
    <3>2. PICK n \in Nodes : n = Node(t) /\ n[1] = t
      BY <3>1, NodeFacts, Zenon DEF Node
    <3>3. On(n)'
      BY <3>2, <1>1, Zenon DEF On
    <3>4. On(n)
      BY <3>3, <3>2, Zenon DEF Unmade
    <3>5. Named(n)
      BY <3>4, <3>2, Zenon DEF Once
    <3> QED
      BY <3>5, <3>2, <1>1, <1>3, Zenon DEF Named
  <2>3. th[t].pc # "done" => th[t].i \in DOMAIN prog[t]
    BY <1>2, Zenon DEF ThTypes
  <2> QED
    BY <1>1, <2>1, <2>2, <2>3, Zenon DEF Once, EnqPcs
<1> QED
  BY <1>4, <1>5, Zenon

\* The steps of t are put together.
LEMMA Assembled ==
    ASSUME Inv, NEW t \in Threads, Others(t), ListStep(t), ThreadStep(t)
    PROVE  Inv'
<1>1. scenario' = scenario /\ lp' = lp /\ scrash' = scrash /\ Nodes' = Nodes /\ \A u : prog'[u] = prog[u]
  <2>1. scenario' = scenario /\ lp' = lp /\ scrash' = scrash
    BY Zenon DEF ListStep, setup
  <2> QED
    BY <2>1, Zenon DEF prog, Nodes, Ops
<1>2. Shape'
  BY <1>1, Zenon DEF Inv, Types, Shape, Others
<1>3. ASSUME NEW u \in Threads \ {t} PROVE MemTypes(u)' /\ ThTypes(u)' /\ Sees(u)'
  <2>1. MemTypes(u) /\ ThTypes(u) /\ Sees(u) /\ th'[u] = th[u] /\ mem'[u] = mem[u] /\ clock'[u] = clock[u] /\ res'[u] = res[u]
    BY Zenon DEF Inv, Types, Others, Owners
  <2>2. MemTypes(u)'
    BY <2>1, <1>1, Zenon DEF MemTypes
  <2>3. ThTypes(u)'
    BY <2>1, <1>1, Zenon DEF ThTypes
  <2>4. th[u].pc = "unlink" => repl'[th[u].h].tid = u
    <3> SUFFICES ASSUME th[u].pc = "unlink" PROVE repl'[th[u].h].tid = u
      BY Zenon
    <3>1. th[u].h \in Nodes
      BY <2>1, Zenon DEF ThTypes, DeqPcs
    <3>2. repl[th[u].h].tid = u
      BY <2>1, Zenon DEF Sees
    <3>3. Named(th[u].h)
      BY <3>1, <3>2, QueueAssumption DEF Named, Kept
    <3> QED
      BY <3>1, <3>2, <3>3, Zenon DEF ListStep
  <2>5. th[u].pc = "stale" => next'[th[u].tl] # Null
    <3> SUFFICES ASSUME th[u].pc = "stale" PROVE next'[th[u].tl] # Null
      BY Zenon
    <3>1. th[u].tl \in Nodes
      BY <2>1, Zenon DEF ThTypes, EnqPcs
    <3> QED
      BY <3>1, <2>1, Zenon DEF ListStep, Sees
  <2> QED
    BY <2>1, <2>2, <2>3, <2>4, <2>5, Zenon DEF Sees
<1>4. Types'
  BY <1>2, <1>3, Zenon DEF Types, ListStep, ThreadStep
<1>5. Owners'
  <2>1. ASSUME NEW r \in retired' PROVE Owner(r)'
    <3>1. CASE r \in retired
      <4>1. r[1] \in Nodes /\ r[2] \in Threads /\ r = <<r[1], r[2]>> /\ repl[r[1]].tid = r[2]
        BY <3>1, Zenon DEF Inv, Owners, Owner
      <4>2. Named(r[1])
        BY <4>1, QueueAssumption DEF Named, Kept
      <4> QED
        BY <1>1, <4>1, <4>2, Zenon DEF ListStep, Owner
    <3>2. CASE r[1] \in Nodes /\ r = <<r[1], t>> /\ repl[r[1]].tid = t
      <4>1. Named(r[1]) /\ r[2] = t
        BY <3>2, QueueAssumption DEF Named, Kept
      <4> QED
        BY <1>1, <3>2, <4>1, Zenon DEF ListStep, Owner
    <3> QED
      BY <3>1, <3>2, Zenon DEF ListStep
  <2> QED
    BY <2>1, <1>3, Zenon DEF Owners, ThreadStep
<1>6. scrash = 0 => Calm'
  <2> SUFFICES ASSUME scrash = 0, NEW u \in Threads \ {t} PROVE Mementos(u)' /\ Mine(u)' /\ Knows(u)' /\ Once(u)'
    BY Zenon DEF Calm, ListStep, ThreadStep
  <2>1. Types /\ List /\ Grows /\ Unmade(u) /\ Mementos(u) /\ Mine(u) /\ Knows(u) /\ Once(u)
    BY Zenon DEF Inv, Calm, ListStep
  <2>2. th'[u] = th[u] /\ mem'[u] = mem[u] /\ clock'[u] = clock[u] /\ res'[u] = res[u]
    BY Zenon DEF Others
  <2>3. Mementos(u)'
    BY <1>1, <2>1, <2>2, StayMementos, Zenon
  <2>4. Mine(u)'
    BY <1>1, <2>1, <2>2, StaysMine, Zenon
  <2>5. Knows(u)' /\ Once(u)'
    BY <1>1, <2>1, <2>2, StaysKnown, Zenon
  <2> QED
    BY <2>3, <2>4, <2>5, Zenon
<1> QED
  BY <1>1, <1>4, <1>5, <1>6, Zenon DEF Inv

-----------------------------------------------------------------------------
\* The kinds of steps.

\* Names that stay, links that stay: what a list step has in common.
LEMMA NoNodeMade ==
    ASSUME ListTypes, scenario' = scenario, next' = next, repl' = repl, head' \in Nodes, tail' \in Nodes
    PROVE  ListTypes' /\ \A u : Unmade(u)
<1>1. Nodes' = Nodes
  BY Zenon DEF Nodes, Ops, prog
<1>2. \A n : On(n)' = On(n)
  BY <1>1, Zenon DEF On
<1>3. LinkTypes(next)'
  BY <1>1, Zenon DEF ListTypes, LinkTypes
<1>4. NameTypes(repl)'
  BY <1>1 DEF ListTypes, NameTypes, Kept
<1> QED
  BY <1>1, <1>2, <1>3, <1>4, Zenon DEF Unmade, ListTypes

\* A step that leaves the list alone.
LEMMA QuietStep ==
    ASSUME Inv, NEW t \in Threads, UNCHANGED <<head, tail, next, repl, retired, queue>>, UNCHANGED <<setup, scrash>>
    PROVE  ListStep(t) /\ Unmade(t)
<1>1. scenario' = scenario /\ head' = head /\ tail' = tail /\ next' = next /\ repl' = repl /\ retired' = retired /\ queue' = queue
  BY Zenon DEF setup
<1>2. ListTypes' /\ \A u : Unmade(u)
  BY <1>1, NoNodeMade, Zenon DEF Inv, Types, ListTypes
<1>3. scrash = 0 => List' /\ Grows
  BY <1>1, Retiring, Zenon DEF Inv, Types, Calm
<1> QED
  BY <1>1, <1>2, <1>3, Zenon DEF ListStep

\* The tail moves.
LEMMA TailStep ==
    ASSUME Inv, NEW t \in Threads, UNCHANGED <<head, next, repl, retired, queue>>, UNCHANGED <<setup, scrash>>, tail' \in Nodes,
           scrash = 0 => tail' = tail \/ tail' = next[tail]
    PROVE  ListStep(t) /\ Unmade(t)
<1>1. scenario' = scenario /\ head' = head /\ next' = next /\ repl' = repl /\ retired' = retired /\ queue' = queue
  BY Zenon DEF setup
<1>2. ListTypes' /\ \A u : Unmade(u)
  BY <1>1, NoNodeMade, Zenon DEF Inv, Types, ListTypes
<1>3. scrash = 0 => List' /\ Grows
  BY <1>1, TailMoves, Zenon DEF Inv, Types, Calm
<1> QED
  BY <1>1, <1>2, <1>3, Zenon DEF ListStep

\* The head moves past a node with a name, or does not; t may retire a node that carries its own name.
LEMMA HeadStep ==
    ASSUME Inv, NEW t \in Threads, UNCHANGED <<tail, next, repl, queue>>, UNCHANGED <<setup, scrash>>, head' \in Nodes,
           NEW h \in Nodes, Named(h), scrash = 0 => Was(h) /\ head' = IF head = h THEN next[h] ELSE head,
           retired' = retired \/ (repl[h].tid = t /\ retired' = retired \cup {<<h, t>>})
    PROVE  ListStep(t) /\ Unmade(t) /\ (scrash = 0 => Past(h)')
<1>1. scenario' = scenario /\ tail' = tail /\ next' = next /\ repl' = repl /\ queue' = queue
  BY Zenon DEF setup
<1>2. ListTypes' /\ \A u : Unmade(u)
  BY <1>1, NoNodeMade, Zenon DEF Inv, Types, ListTypes
<1>3. \A r \in retired' : r \in retired \/ (r[1] \in Nodes /\ r = <<r[1], t>> /\ repl[r[1]].tid = t)
  BY DEF Owner
<1>4. \A r \in retired' : r \in retired \/ r[1] = h
  BY DEF Owner
<1>5. scrash = 0 => List' /\ Grows /\ Past(h)'
  <2> SUFFICES ASSUME scrash = 0 PROVE List' /\ Grows /\ Past(h)'
    BY Zenon
  <2>1. ListTypes /\ List /\ Was(h) /\ head' = IF head = h THEN next[h] ELSE head
    BY Zenon DEF Inv, Types, Calm
  <2>2. CASE head = h
    BY <1>1, <1>4, <2>1, <2>2, HeadMoves, Zenon
  <2>3. CASE head # h
    <3>1. Past(h)
      BY <2>1, <2>3, Zenon DEF Was
    <3>2. List' /\ Grows
      BY <1>1, <1>4, <2>1, <2>3, <3>1, Retiring, Zenon
    <3> QED
      BY <3>1, <3>2, Zenon DEF Grows
  <2> QED
    BY <2>2, <2>3, Zenon
<1> QED
  BY <1>1, <1>2, <1>3, <1>5, Zenon DEF ListStep

\* A flush keeps the media well formed.
LEMMA Flushing ==
    ASSUME Types, scenario' = scenario, NEW n \in Nodes, UNCHANGED disk \/ FlushNext(n) \/ FlushRepl(n)
    PROVE  DiskTypes'
<1>1. Nodes' = Nodes
  BY Zenon DEF Nodes, Ops, prog
<1>2. DiskTypes /\ LinkTypes(next) /\ NameTypes(repl)
  BY Zenon DEF Types, ListTypes
<1>3. CASE disk' = disk
  BY <1>1, <1>2, <1>3 DEF DiskTypes, LinkTypes, NameTypes
<1>4. CASE disk' = [disk EXCEPT !.next[n] = next[n]]
  <2>1. DOMAIN disk' = DOMAIN disk /\ disk'.head = disk.head /\ disk'.repl = disk.repl /\ disk'.next = [disk.next EXCEPT ![n] = next[n]]
    BY <1>2, <1>4, Zenon DEF DiskTypes
  <2>2. disk'.next \in [Nodes -> Nodes \cup {Null}]
    BY <1>2, <2>1, Zenon DEF DiskTypes, LinkTypes
  <2>3. LinkTypes(disk.next)'
    BY <1>1, <2>2, Zenon DEF LinkTypes
  <2>4. NameTypes(disk.repl)'
    BY <1>1, <1>2, <2>1 DEF NameTypes, DiskTypes, Kept
  <2> QED
    BY <1>1, <1>2, <2>1, <2>3, <2>4, Zenon DEF DiskTypes
<1>5. CASE disk' = [disk EXCEPT !.repl[n] = repl[n]]
  <2>1. DOMAIN disk' = DOMAIN disk /\ disk'.head = disk.head /\ disk'.next = disk.next /\ disk'.repl = [disk.repl EXCEPT ![n] = repl[n]]
    BY <1>2, <1>5, Zenon DEF DiskTypes
  <2>2. DOMAIN disk'.repl = Nodes /\ disk'.repl[n] = repl[n] /\ \A m \in Nodes : m # n => disk'.repl[m] = disk.repl[m]
    BY <1>2, <2>1, Zenon DEF DiskTypes, NameTypes
  <2>3. \A m \in Nodes : disk'.repl[m] = Kept \/ \E k \in Nodes, t \in Threads : disk'.repl[m] = [node |-> k, tid |-> t]
    BY <1>2, <2>2 DEF DiskTypes, NameTypes
  <2>4. LinkTypes(disk.next)'
    BY <1>1, <1>2, <2>1, Zenon DEF LinkTypes, DiskTypes
  <2>5. NameTypes(disk.repl)'
    BY <1>1, <2>2, <2>3, Zenon DEF NameTypes
  <2> QED
    BY <1>1, <1>2, <2>1, <2>4, <2>5, Zenon DEF DiskTypes
<1> QED
  BY <1>3, <1>4, <1>5, Zenon DEF FlushNext, FlushRepl

\* Where the replay of t is relative to the records of later operations.
LEMMA Replaying ==
    ASSUME Types, scenario' = scenario, NEW t \in Threads, mem'[t] = mem[t], Ordered(t), th'[t].i = th[t].i, th[t].i \in DOMAIN prog[t],
           \/ th'[t].rec = th[t].rec /\ th'[t].lmax = th[t].lmax
           \/ th'[t].rec = th[t].rec /\ th'[t].lmax \in Stamps(t, th[t].i)
           \/ ~Did(t, th[t].i) /\ th'[t].lmax = th[t].lmax
           \/ ~Did(t, th[t].i) /\ th'[t].lmax \in Stamps(t, th[t].i)
    PROVE  Unrecorded(t)' /\ th'[t].lmax <= clock[t]
<1>1. prog'[t] = prog[t] /\ \A j : Stamps(t, j)' = Stamps(t, j)
  BY Zenon DEF prog, Stamps
<1>2. th'[t].lmax <= clock[t]
  BY Zenon DEF Ordered
<1>3. prog[t] \in Seq({"enq", "deq"})
  BY QueueAssumption, Zenon DEF Types, Shape, prog
<1>4. ASSUME NEW k \in DOMAIN prog[t], k > th[t].i, NEW b \in Stamps(t, k), b > 0 PROVE th'[t].rec /\ th'[t].lmax < b
  <2>1. th[t].i < k
    BY <1>3, <1>4, Zenon
  <2>2. Did(t, th[t].i) /\ \A a \in Stamps(t, th[t].i) : a < b
    BY <1>4, <2>1, Zenon DEF Ordered
  <2>3. th[t].rec /\ th[t].lmax < b
    BY <1>4, Zenon DEF Ordered, Unrecorded
  <2> QED
    BY <2>2, <2>3, Zenon
<1> QED
  BY <1>1, <1>2, <1>4, Zenon DEF Unrecorded

\* A step of t that records and returns nothing.
LEMMA Moved ==
    ASSUME Inv, NEW t \in Threads, ListStep(t), UNCHANGED <<mem, clock, res>>,
           NEW pc, NEW rec \in BOOLEAN, NEW lmax \in Nat, NEW tl, NEW h, NEW n, Goes(t, pc, rec, lmax, tl, h, n),
           th[t].pc # "done", DiskTypes', ThTypes(t)', Sees(t)',
           scrash = 0 =>
              /\ (rec = th[t].rec \/ ~Did(t, th[t].i)) /\ (lmax = th[t].lmax \/ lmax \in Stamps(t, th[t].i))
              /\ Unmade(t) \/ Mine(t)'
              /\ Knows(t)' /\ Once(t)'
    PROVE  Inv'
<1>1. scenario' = scenario /\ mem' = mem /\ clock' = clock /\ res' = res
  BY Zenon DEF ListStep, setup
<1>2. Types /\ th[t].i \in DOMAIN prog[t] /\ prog'[t] = prog[t]
  BY <1>1, Zenon DEF Inv, Types, ThTypes, prog
<1>3. Others(t)
  BY <1>1, <1>2, Zenon DEF Others, Goes, Types, Shape
<1>4. MemTypes(t)'
  <2>1. MemTypes(t) /\ Nodes' = Nodes
    BY <1>1, Zenon DEF Inv, Types, Nodes, Ops, prog
  <2> QED
    BY <2>1, <1>1, <1>2, Zenon DEF MemTypes
<1>5. ASSUME scrash = 0 PROVE Mementos(t)' /\ Mine(t)'
  <2>1. List /\ Grows /\ Mementos(t) /\ Mine(t)
    BY <1>5, Zenon DEF Inv, Calm, ListStep
  <2>2. Mine(t)'
    BY <1>1, <1>2, <1>5, <2>1, StaysMine, Zenon
  <2>3. Unrecorded(t)' /\ th'[t].lmax <= clock[t]
    BY <1>1, <1>2, <1>5, <2>1, Replaying, Zenon DEF Mementos, Goes
  <2>4. Ordered(t)'
    BY <1>1, <1>2, <2>1, <2>3, StaysOrdered, Zenon DEF Mementos
  <2>5. Pairs(t)'
    BY <1>1, <1>2, <2>1, StaysPaired, Zenon DEF Mementos
  <2>6. Returned(t)'
    BY <1>1, <1>2, <2>1, StaysReturned, Zenon DEF Mementos, Goes
  <2> QED
    BY <2>2, <2>4, <2>5, <2>6, Zenon DEF Mementos
<1>6. ThreadStep(t)
  BY <1>4, <1>5, Zenon DEF ThreadStep
<1> QED
  BY <1>3, <1>6, Assembled, Zenon

\* What t records for its operation i: the time comes after all times of t.
LEMMA Recorded ==
    ASSUME Inv, NEW t \in Threads, NEW i, i = th[t].i, ListStep(t), Unmade(t), Records(t, i), UNCHANGED <<repl, res>>,
           NEW pc, NEW rec, NEW lmax \in Nat, NEW tl, NEW h, NEW n, Goes(t, pc, rec, lmax, tl, h, n),
           lmax = th[t].lmax, th[t].pc # "done", DiskTypes', MemTypes(t)', ThTypes(t)', Sees(t)',
           scrash = 0 =>
              /\ ~Did(t, i)
              /\ mem'[t][i].hn # mem[t][i].hn => prog[t][i] = "deq" /\ Paired(t, i)'
              /\ Knows(t)' /\ Once(t)'
    PROVE  Inv'
<1>1. scenario' = scenario /\ repl' = repl /\ res' = res /\ Nodes' = Nodes
  <2>1. scenario' = scenario /\ repl' = repl /\ res' = res
    BY Zenon DEF ListStep, setup
  <2> QED
    BY <2>1, Zenon DEF Nodes, Ops, prog
<1>2. Types /\ i \in DOMAIN prog[t] /\ prog'[t] = prog[t] /\ MemTypes(t) /\ ThTypes(t)
  BY <1>1, Zenon DEF Inv, Types, ThTypes, prog
<1>3. Others(t)
  BY <1>1, <1>2, Zenon DEF Others, Goes, Types, Shape, Records
<1>4. prog[t] \in Seq({"enq", "deq"})
  BY QueueAssumption, Zenon DEF Inv, Types, Shape, prog
<1>5. ASSUME scrash = 0 PROVE Mementos(t)' /\ Mine(t)'
  <2>1. List /\ Grows /\ Mementos(t) /\ Mine(t) /\ ~Did(t, i)
    BY <1>5, Zenon DEF Inv, Calm, ListStep
  <2>2. \A k \in DOMAIN prog[t] : i < k => \A b \in Stamps(t, k) : ~(b > 0)
    BY <1>2, <2>1, Zenon DEF Mementos, Ordered
  <2>3. \A j \in DOMAIN prog[t] : j # i => mem'[t][j] = mem[t][j] /\ Stamps(t, j)' = Stamps(t, j) /\ (Did(t, j) => Did(t, j)')
    <3>1. \A j \in DOMAIN prog[t] : j # i => mem'[t][j] = mem[t][j]
      BY Zenon DEF Records
    <3>2. \A j \in DOMAIN prog[t] : j # i => (Did(t, j) => Did(t, j)')
      BY <1>1, <1>2, <2>1, <3>1, DidStays, Zenon
    <3> QED
      BY <3>1, <3>2, Zenon DEF Stamps
  <2>4. clock[t] \in Nat /\ clock'[t] = clock[t] + 1 /\ \A b \in Stamps(t, i)' : b \in Stamps(t, i) \/ b = clock[t] + 1
    BY <1>2, Zenon DEF MemTypes, Records, Stamps
  <2>5. \A j \in DOMAIN prog[t] : Stamps(t, j) \subseteq Nat /\ \A a \in Stamps(t, j) : a <= clock[t]
    BY <1>2, <2>1, ZenonT(40) DEF MemTypes, Stamps, Mementos, Ordered
  <2>6. Ordered(t)'
    <3>1. th'[t].lmax <= clock'[t]
      <4>1. th[t].lmax <= clock[t] /\ th[t].lmax \in Nat /\ th'[t].lmax = th[t].lmax
        BY <1>2, <2>1, Zenon DEF Mementos, Ordered, ThTypes, Goes
      <4> QED
        BY <4>1, <2>4
    <3>2. \A j \in DOMAIN prog[t] : \A a \in Stamps(t, j)' : a <= clock'[t]
      <4>1. \A j \in DOMAIN prog[t] : \A a \in Stamps(t, j)' : a \in Stamps(t, j) \/ a = clock[t] + 1
        BY <2>3, <2>4, Zenon
      <4> QED
        BY <4>1, <2>4, <2>5
    <3>3. ASSUME NEW j \in DOMAIN prog[t], NEW k \in DOMAIN prog[t], j < k, NEW b \in Stamps(t, k)', b > 0
          PROVE  Did(t, j)' /\ \A a \in Stamps(t, j)' : a < b
      <4>1. CASE b \in Stamps(t, k)
        <5>1. Did(t, j) /\ \A a \in Stamps(t, j) : a < b
          BY <3>3, <4>1, <2>1, Zenon DEF Mementos, Ordered
        <5>2. j # i
          BY <5>1, <2>1, Zenon
        <5> QED
          BY <5>1, <5>2, <2>3, Zenon
      <4>2. CASE b = clock[t] + 1 /\ k = i
        <5>1. j # i
          BY <4>2, <3>3, <1>4
        <5>2. Did(t, j)
          BY <4>2, <3>3, <2>1, Zenon DEF Mementos, Returned
        <5>3. \A a \in Stamps(t, j) : a < b
          BY <4>2, <2>4, <2>5
        <5> QED
          BY <5>1, <5>2, <5>3, <2>3, Zenon
      <4> QED
        BY <3>3, <4>1, <4>2, <2>3, <2>4, Zenon
    <3>4. Unrecorded(t)'
      <4> SUFFICES ASSUME NEW k \in DOMAIN prog[t], k > i, NEW b \in Stamps(t, k)' PROVE ~(b > 0)
        BY <1>2, Zenon DEF Unrecorded, Goes
      <4>1. i < k /\ k # i
        BY <1>2, <1>4
      <4> QED
        BY <4>1, <2>2, <2>3, Zenon
    <3> QED
      BY <1>2, <3>1, <3>2, <3>3, <3>4, Zenon DEF Ordered
  <2>7. Pairs(t)'
    <3>1. ASSUME NEW j \in DOMAIN prog[t], prog[t][j] = "deq", mem'[t][j].hn = mem[t][j].hn PROVE Paired(t, j)'
      <4> SUFFICES ASSUME mem[t][j].hn.ts > 0, NEW m, m = mem[t][j].hn.h
                   PROVE  Was(m)' /\ (mem[t][j].hn.n # Null => next'[m] = mem[t][j].hn.n /\ Behind(m)')
        BY <3>1, Zenon DEF Paired, Was, Past, Named, Behind
      <4>1. m \in Nodes /\ Was(m) /\ (mem[t][j].hn.n # Null => next[m] = mem[t][j].hn.n /\ Behind(m))
        BY <1>2, <2>1, <3>1, Zenon DEF Mementos, Pairs, Paired, MemTypes
      <4>2. On(m)
        BY <1>2, <2>1, <4>1, ListFacts, Zenon DEF Types, List
      <4> QED
        BY <2>1, <4>1, <4>2, Zenon DEF Grows
    <3>2. \A j \in DOMAIN prog[t] : prog[t][j] = "deq" => Paired(t, j)'
      BY <1>5, <3>1, <2>3, Zenon
    <3> QED
      BY <1>2, <3>2, Zenon DEF Pairs
  <2>8. Returned(t)'
    <3>1. res[t][i] = Null /\ \A j \in DOMAIN prog[t] : j < th'[t].i => j < i /\ j # i
      BY <1>2, <1>4, <2>1, Zenon DEF Mementos, Returned, Goes
    <3>2. \A j \in DOMAIN prog[t] : res[t][j] # Null => Did(t, j)' /\ res[t][j] = Deed(t, j)'
      <4>1. \A j \in DOMAIN prog[t] : j # i => Deed(t, j)' = Deed(t, j)
        BY <1>2, <2>3, Zenon DEF Deed
      <4> QED
        BY <2>1, <2>3, <3>1, <4>1, Zenon DEF Mementos, Returned
    <3>3. ASSUME NEW j \in DOMAIN prog[t], j < th'[t].i, prog[t][j] = "deq", mem[t][j].hn.n # Null, NEW m, m = mem[t][j].hn.h
          PROVE  Past(m)'
      <4>1. Past(m) /\ Did(t, j)
        BY <3>1, <3>3, <2>1, Zenon DEF Mementos, Returned
      <4>2. m \in Nodes
        BY <3>3, <4>1, <1>2, Zenon DEF Did, MemTypes
      <4> QED
        BY <4>1, <4>2, <2>1, Zenon DEF Grows
    <3>4. \A j \in DOMAIN prog[t] : j < th'[t].i => res[t][j] # Null
      BY <2>1, <3>1, Zenon DEF Mementos, Returned
    <3> QED
      BY <1>1, <1>2, <2>3, <3>1, <3>2, <3>3, <3>4, Zenon DEF Returned, Past, Named
  <2>9. Made(t)'
    <3>1. \A j \in DOMAIN prog[t] : prog[t][j] = "enq" => (On(<<t, j>>)' => On(<<t, j>>))
      BY NodeFacts, Zenon DEF Unmade
    <3>2. mem'[t][i].node = mem[t][i].node \/ mem'[t][i].node > 0
      <4>1. mem'[t][i].node = mem[t][i].node \/ mem'[t][i].node = clock[t] + 1
        BY <2>4, Zenon DEF Records
      <4>2. clock[t] + 1 > 0
        BY <2>4
      <4> QED
        BY <4>1, <4>2, Zenon
    <3> QED
      BY <1>2, <2>1, <2>3, <3>1, <3>2, Zenon DEF Made, Mine
  <2>10. Left(t)'
    <3>1. ASSUME NEW m \in Nodes, repl[m].tid = t
          PROVE  \E j \in DOMAIN prog[t] :
                     prog[t][j] = "deq" /\ mem'[t][j].hn.ts > 0 /\ mem'[t][j].hn.h = m /\ mem'[t][j].hn.n # Null
      <4>1. PICK j \in DOMAIN prog[t] : prog[t][j] = "deq" /\ mem[t][j].hn.ts > 0 /\ mem[t][j].hn.h = m /\ mem[t][j].hn.n # Null
        BY <2>1, <3>1, Zenon DEF Left, Mine
      <4>2. j # i
        BY <2>1, <3>1, <4>1, Zenon DEF Did
      <4> QED
        BY <2>3, <4>1, <4>2, Zenon
    <3> QED
      BY <1>1, <1>2, <3>1 DEF Left
  <2> QED
    BY <2>6, <2>7, <2>8, <2>9, <2>10, Zenon DEF Mementos, Mine
<1>6. ThreadStep(t)
  BY <1>4, <1>5, Zenon DEF ThreadStep
<1> QED
  BY <1>3, <1>6, Assembled, Zenon

\* At the start of an operation t knows nothing; what it has recorded for the operation counts.
LEMMA Starting ==
    ASSUME Types, Grows, scenario' = scenario, NEW t \in Threads, mem'[t] = mem[t], Unmade(t), Mine(t),
           NEW i, th'[t].i = i, th'[t].pc \in {"enq", "deq", "done"}, th'[t].lmax \in Nat,
           th'[t].pc # "done" => i \in DOMAIN prog[t] /\ prog[t][i] = th'[t].pc,
           i \in DOMAIN prog[t] => \A b \in Stamps(t, i) : b > 0 => th'[t].rec /\ th'[t].lmax < b
    PROVE  Knows(t)' /\ Once(t)'
<1>1. prog'[t] = prog[t] /\ Node(t)' = <<t, i>>
  BY Zenon DEF prog, Node
<1>2. Knows(t)'
  BY Zenon DEF Knows, EnqPcs
<1>3. th'[t].pc = "enq" => (Did(t, i)' => mem[t][i].node > 0)
  <2>1. th'[t].pc = "enq" => (Did(t, i)' => Did(t, i))
    BY DidStays, Zenon
  <2> QED
    BY <2>1, Zenon DEF Did, Mine, Made
<1>4. th'[t].pc = "deq" => (Did(t, i)' => mem[t][i].hn.ts > 0)
  BY <1>1, Zenon DEF Did
<1>5. th'[t].pc = "enq" => (Did(t, i)' => th'[t].rec /\ th'[t].lmax < mem[t][i].node)
  BY <1>3, Zenon DEF Stamps
<1>6. th'[t].pc = "deq" => (Did(t, i)' => th'[t].rec /\ th'[t].lmax < mem[t][i].hn.ts)
  BY <1>4, Zenon DEF Stamps
<1>7. th'[t].pc # "done" => mem[t][i].node \in Nat /\ mem[t][i].hn.ts \in Nat
  BY Zenon DEF Types, MemTypes
<1>8. Once(t)'
  <2>1. th'[t].pc = "enq" => (Did(t, i)' => th'[t].rec /\ mem[t][i].node > th'[t].lmax)
    BY <1>5, <1>7, Zenon
  <2>2. th'[t].pc = "deq" => (Did(t, i)' => th'[t].rec /\ mem[t][i].hn.ts > th'[t].lmax)
    BY <1>6, <1>7, Zenon
  <2> QED
    BY <2>1, <2>2, Zenon DEF Once, EnqPcs
<1> QED
  BY <1>2, <1>8, Zenon

\* t returns what its operation did, and goes on to the next.
LEMMA Returns ==
    ASSUME Inv, NEW t \in Threads, NEW i, i = th[t].i, ListStep(t), Unmade(t), UNCHANGED <<mem, clock>>, NEW v, Return(t, v),
           th[t].pc # "done", DiskTypes',
           scrash = 0 =>
              /\ Did(t, i) /\ v = Deed(t, i)
              /\ prog[t][i] = "deq" /\ mem[t][i].hn.n # Null => \A m \in Nodes : m = mem[t][i].hn.h => Past(m)'
    PROVE  Inv'
<1>1. scenario' = scenario /\ mem' = mem /\ clock' = clock /\ Nodes' = Nodes
  <2>1. scenario' = scenario /\ mem' = mem /\ clock' = clock
    BY Zenon DEF ListStep, setup
  <2> QED
    BY <2>1, Zenon DEF Nodes, Ops, prog
<1>2. Types /\ i \in DOMAIN prog[t] /\ prog'[t] = prog[t] /\ MemTypes(t) /\ ThTypes(t)
  BY <1>1, Zenon DEF Inv, Types, ThTypes, prog
<1>3. prog[t] \in Seq({"enq", "deq"})
  BY QueueAssumption, Zenon DEF Inv, Types, Shape, prog
<1>4. /\ DOMAIN res' = Threads /\ (\A u \in Threads \ {t} : res'[u] = res[u])
      /\ DOMAIN res'[t] = DOMAIN prog[t] /\ res'[t][i] = v /\ \A j \in DOMAIN prog[t] : j # i => res'[t][j] = res[t][j]
  BY <1>2, Zenon DEF Return, Types, Shape, MemTypes
<1>5. /\ DOMAIN th' = Threads /\ (\A u \in Threads \ {t} : th'[u] = th[u]) /\ DOMAIN th'[t] = ThFields
      /\ th'[t].i = i + 1 /\ th'[t].rec = th[t].rec /\ th'[t].lmax = th[t].lmax
      /\ th'[t].pc = (IF i = Len(prog[t]) THEN "done" ELSE prog[t][i + 1]) /\ th'[t].n = Null
  BY <1>2, Zenon DEF Return, Types, Shape, Start, ThFields
<1>6. i \in Nat /\ i + 1 \in Nat \ {0} /\ (i # Len(prog[t]) => i + 1 \in DOMAIN prog[t] /\ prog[t][i + 1] \in {"enq", "deq"})
  BY <1>2, <1>3
<1>7. PICK k \in Nat \ {0} : k = i + 1
  BY <1>6, Zenon
<1>8. th'[t].pc \in {"enq", "deq", "done"} /\ (th'[t].pc # "done" => k \in DOMAIN prog[t] /\ prog[t][k] = th'[t].pc)
  BY <1>5, <1>6, <1>7, Zenon
<1>9. MemTypes(t)'
  BY <1>1, <1>2, <1>4, Zenon DEF MemTypes
<1>10. ThTypes(t)' /\ Sees(t)'
  <2>1. ThTypes(t)'
    <3>1. th'[t].i \in Nat \ {0} /\ th'[t].lmax \in Nat /\ th'[t].rec \in BOOLEAN /\ th'[t].i = k
      BY <1>2, <1>5, <1>7, Zenon DEF ThTypes
    <3>2. th'[t].n \in Nodes' \cup {Null}
      BY <1>1, <1>5, Zenon
    <3> QED
      BY <1>2, <1>5, <1>8, <3>1, <3>2, Zenon DEF ThTypes, EnqPcs, DeqPcs
  <2>2. Sees(t)'
    BY <1>8, Zenon DEF Sees
  <2> QED
    BY <2>1, <2>2, Zenon
<1>11. Others(t)
  BY <1>1, <1>2, <1>4, <1>5, Zenon DEF Others, Types, Shape
<1>12. ASSUME scrash = 0 PROVE Mementos(t)' /\ Mine(t)' /\ Knows(t)' /\ Once(t)'
  <2>1. List /\ Grows /\ Mementos(t) /\ Mine(t) /\ Did(t, i)
    BY <1>12, Zenon DEF Inv, Calm, ListStep
  <2>2. Mine(t)' /\ Pairs(t)'
    BY <1>1, <1>2, <2>1, StaysMine, StaysPaired, ZenonT(40) DEF Mementos
  <2>3. \A m \in DOMAIN prog[t] : (m > k => m > i) /\ (m < k <=> m < i \/ m = i) /\ k > i
    BY <1>3, <1>6, <1>7
  <2>4. Unrecorded(t) /\ Ordered(t)
    BY <2>1, Zenon DEF Mementos, Ordered
  <2>5. Unrecorded(t)' /\ th'[t].lmax <= clock[t]
    <3>1. \A j : Stamps(t, j)' = Stamps(t, j)
      BY <1>1, Zenon DEF Stamps
    <3>2. th'[t].lmax <= clock[t]
      BY <1>5, <2>4, Zenon DEF Ordered
    <3>3. \A m \in DOMAIN prog[t] : m > k => \A b \in Stamps(t, m) : b > 0 => th'[t].rec /\ th'[t].lmax < b
      BY <1>5, <2>3, <2>4, Zenon DEF Unrecorded
    <3>4. th'[t].i = k
      BY <1>5, <1>7, Zenon
    <3> QED
      BY <1>2, <3>1, <3>2, <3>3, <3>4, Zenon DEF Unrecorded
  <2>6. Ordered(t)'
    BY <1>1, <1>2, <2>1, <2>4, <2>5, StaysOrdered, Zenon
  <2>7. Knows(t)' /\ Once(t)'
    <3>1. k \in DOMAIN prog[t] => \A b \in Stamps(t, k) : b > 0 => th'[t].rec /\ th'[t].lmax < b
      BY <1>5, <2>3, <2>4, Zenon DEF Unrecorded
    <3>2. th'[t].lmax \in Nat /\ th'[t].i = k
      BY <1>2, <1>5, <1>7, Zenon DEF ThTypes
    <3> QED
      BY <1>1, <1>2, <1>8, <2>1, <3>1, <3>2, Starting, Zenon
  <2>8. Returned(t)'
    <3>1. \A j \in DOMAIN prog[t] : res'[t][j] # Null => Did(t, j)' /\ res'[t][j] = Deed(t, j)'
      <4>1. \A j \in DOMAIN prog[t] : Did(t, j) => Did(t, j)'
        BY <1>1, <1>2, <2>1, DidStays, Zenon
      <4>2. \A j \in DOMAIN prog[t] : Deed(t, j)' = Deed(t, j)
        BY <1>1, <1>2, Zenon DEF Deed
      <4> QED
        BY <1>4, <1>12, <2>1, <4>1, <4>2, Zenon DEF Mementos, Returned
    <3>2. ASSUME NEW j \in DOMAIN prog[t], j < k PROVE res'[t][j] # Null
      <4>1. Deed(t, i) # Null
        BY NodeFacts, <1>2, <2>1, Zenon DEF Deed, Null, Sentinel
      <4> QED
        BY <1>4, <1>12, <2>1, <2>3, <3>2, <4>1, Zenon DEF Mementos, Returned
    <3>3. ASSUME NEW j \in DOMAIN prog[t], j < k, prog[t][j] = "deq", mem[t][j].hn.n # Null, NEW m, m = mem[t][j].hn.h PROVE Past(m)'
      <4>1. Did(t, j)
        BY <2>1, <2>3, <3>3, Zenon DEF Mementos, Returned
      <4>2. m \in Nodes
        BY <3>3, <4>1, <1>2, Zenon DEF Did, MemTypes
      <4>3. CASE j = i
        BY <1>12, <3>3, <4>2, <4>3, Zenon
      <4>4. CASE j < i
        <5>1. Past(m)
          BY <3>3, <4>4, <2>1, Zenon DEF Mementos, Returned
        <5> QED
          BY <5>1, <4>2, <2>1, Zenon DEF Grows
      <4> QED
        BY <3>3, <4>3, <4>4, <2>3, Zenon
    <3> QED
      BY <1>1, <1>2, <1>5, <1>7, <3>1, <3>2, <3>3, Zenon DEF Returned, Past, Named
  <2> QED
    BY <2>2, <2>6, <2>7, <2>8, Zenon DEF Mementos
<1>13. ThreadStep(t)
  BY <1>9, <1>10, <1>12, Zenon DEF ThreadStep
<1> QED
  BY <1>11, <1>13, Assembled, Zenon

\* The local variables of a thread that stays in enqueue, and in dequeue.
LEMMA EnqTypes ==
    ASSUME Types, scenario' = scenario, NEW t \in Threads, th[t].pc \in EnqPcs,
           NEW pc \in EnqPcs, NEW rec \in BOOLEAN, NEW lmax \in Nat, NEW tl, NEW h, Goes(t, pc, rec, lmax, tl, h, th[t].n),
           pc \in EnqPcs \ {"enq", "tail"} => tl \in Nodes
    PROVE  ThTypes(t)'
<1>1. prog'[t] = prog[t] /\ Nodes' = Nodes /\ ThTypes(t)
  BY Zenon DEF Types, prog, Nodes, Ops
<1>2. pc \notin DeqPcs /\ pc # "done" /\ th[t].pc # "done"
  BY Zenon DEF EnqPcs, DeqPcs
<1>3. pc \notin {"dstale", "own", "unlink"}
  BY Zenon DEF EnqPcs
<1> QED
  BY <1>1, <1>2, <1>3, Zenon DEF ThTypes, Goes

\* The same for a dequeue.
LEMMA DeqTypes ==
    ASSUME Types, scenario' = scenario, NEW t \in Threads, th[t].pc \in DeqPcs,
           NEW pc \in DeqPcs, NEW rec \in BOOLEAN, NEW lmax \in Nat, NEW tl, NEW h, NEW n \in Nodes \cup {Null}, Goes(t, pc, rec, lmax, tl, h, n),
           pc \in DeqPcs \ {"deq", "head"} => h \in Nodes, pc \in {"dstale", "own", "unlink"} => n # Null,
           pc = "dstale" => tl \in Nodes
    PROVE  ThTypes(t)'
<1>1. prog'[t] = prog[t] /\ Nodes' = Nodes /\ ThTypes(t)
  BY Zenon DEF Types, prog, Nodes, Ops
<1>2. pc \notin EnqPcs /\ pc # "done" /\ th[t].pc # "done"
  BY Zenon DEF EnqPcs, DeqPcs
<1> QED
  BY <1>1, <1>2, Zenon DEF ThTypes, Goes

\* What the invariant says of a running thread.
LEMMA Running ==
    ASSUME Inv, NEW t \in Threads, th[t].pc # "done"
    PROVE  /\ Types /\ ThTypes(t) /\ MemTypes(t) /\ Sees(t) /\ th[t].i \in DOMAIN prog[t] /\ prog[t] \in Seq({"enq", "deq"})
           /\ th[t].rec \in BOOLEAN /\ th[t].lmax \in Nat /\ th[t].n \in Nodes \cup {Null}
           /\ scrash = 0 => List /\ Mementos(t) /\ Mine(t) /\ Knows(t) /\ Once(t)
<1>1. Types /\ Owners /\ (scrash = 0 => Calm)
  BY Zenon DEF Inv
<1>2. ThTypes(t) /\ MemTypes(t) /\ Sees(t)
  BY <1>1, Zenon DEF Types, Owners
<1>3. prog[t] \in Seq({"enq", "deq"})
  BY <1>1, QueueAssumption, Zenon DEF Types, Shape, prog
<1> QED
  BY <1>1, <1>2, <1>3, Zenon DEF ThTypes, Calm

\* What t has not done, it has not done after a step that makes no node of t.
LEMMA NotDone ==
    ASSUME Inv, NEW t \in Threads, ListStep(t), Unmade(t), NEW i \in DOMAIN prog[t], mem'[t][i].hn = mem[t][i].hn, scrash = 0
    PROVE  Did(t, i)' => Did(t, i)
<1>1. Types /\ Grows /\ scenario' = scenario
  BY Zenon DEF Inv, ListStep, setup
<1> QED
  BY <1>1, DidStays, Zenon
=============================================================================
