------------------------------ MODULE Pipeline ------------------------------
(***************************************************************************)
(* Threads whose operations go to a TreiberStack, a QueueGeneral and a     *)
(* List, all composed of the same kinds of mementos, so that replay runs   *)
(* through finished operations on one object into the other.               *)
(***************************************************************************)
EXTENDS TreiberStack, QueueGeneral, List

VARIABLE seen   \* history: what the operations on the list could see of their keys

vars == <<mmtVars, th, retired, crashes, res, stackVars, queueVars, listVars, seen>>

-----------------------------------------------------------------------------

\* What the operations have done, as their mementos show it.
Effect ==
    [t \in Threads |-> [i \in DOMAIN prog[t] |->
        LET m == mem[t][i]
            op == prog[t][i]
            found == m.snap.v[IF op \in Deletes \cup {"deq"} THEN 2 ELSE 1]
            hit == m.snap.v[2] # Null /\ NodeKey(m.snap.v[2]) = KeyOf[op] IN
        CASE m.cas.v -> IF op \in Inserts \cup {"enq", "push"} THEN <<t, i>> ELSE found
          [] ~m.cas.v /\ m.snap.ts > 0 /\ op \in {"deq", "pop"} /\ found = Null -> Empty
          [] ~m.cas.v /\ m.snap.ts > 0 /\ op \in Inserts /\ hit -> Empty
          [] ~m.cas.v /\ m.snap.ts > 0 /\ op \in Deletes /\ ~hit -> Empty
          [] OTHER -> Null]]

Abstract == INSTANCE Containers WITH effect <- Effect

Init == MmtInit /\ StackInit /\ QueueInit /\ ListInit /\ seen = [t \in Threads |-> Abstract!Sees(t, {})]

Step(t) ==
    /\ \/ StackStep(t) /\ UNCHANGED <<queueVars, listVars>>
       \/ QueueStep(t) /\ UNCHANGED <<stackVars, listVars>>
       \/ ListStep(t) /\ UNCHANGED <<stackVars, queueVars>>
    /\ Abstract!Watch

Next ==
    \/ \E t \in Threads : Step(t)
    \/ \E t \in Threads : ThreadCrash(t) /\ UNCHANGED <<stackVars, queueVars, listVars, seen>>
    \/ PowerFailure /\ FilterQueue /\ UNCHANGED <<stackVars, listVars, seen>>

Spec == Init /\ [][Next]_vars

\* A thread that does not crash keeps running.
FairSpec == Spec /\ \A t \in Threads : WF_vars(Step(t))

-----------------------------------------------------------------------------

\* The queue is FIFO, the stack LIFO, the list a set of keys, and every operation takes effect
\* once and returns what it did, whatever is re-executed after crashes (push, pop, enqueue,
\* dequeue, insert, delete).
ContainerSpec == Abstract!Spec

\* What the containers hold is what their links lead to, in order.
ContentsFollowLinks == StackFollowsLinks /\ QueueFollowsLinks /\ ListFollowsLinks

Reachable == Range(Follow(below, top)) \cup Range(Follow(next, head)) \cup Range(Follow(next, tail)) \cup Range(Path)

\* No node is handed to the collector by two threads, and until power fails one that was handed
\* over cannot be reached from top, head, tail or the head of the list (defer_pdestroy in
\* try_pop, try_dequeue, try_insert, try_delete and help).
RetiredUnreachable ==
    /\ \A r, q \in retired : r[1] = q[1] => r = q
    /\ scrash = 0 => \A r \in retired : r[1] \notin Reachable

\* Without a crash every node that was taken out, or never put in, has been handed to the
\* collector in the end, though help unlinks nodes of other threads.  (A thread that crashes in
\* help after the CAS loses the nodes it unlinked until the pool is opened again.)
AllRetired ==
    (\A t \in Threads : At(t, "done")) /\ tcrash + scrash = 0 =>
        \A n \in {Sentinel} \cup {o \in Ops : prog[o[1]][o[2]] \in Inserts \cup {"enq", "push"}} :
            n \in Reachable \/ \E t \in Threads : <<n, t>> \in retired

\* Every operation returns.
AllReturn == <>(\A t \in Threads : At(t, "done"))
=============================================================================
