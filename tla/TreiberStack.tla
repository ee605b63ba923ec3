---------------------------- MODULE TreiberStack ----------------------------
(***************************************************************************)
(* The detectable stack of src/ds/treiber_stack.rs.                        *)
(***************************************************************************)
EXTENDS Mementos

VARIABLES
    top,     \* TreiberStack::top
    below,   \* below[n]: Node::next
    stack    \* history: the values in the stack, top first

stackVars == <<top, below, stack>>

StackInit == top = Null /\ below = [o \in Ops |-> Null] /\ stack = <<>>

\* push: the node is allocated once.
Push(t) == At(t, "push") /\ MakeNode(t, "try_push") /\ UNCHANGED stackVars

TryPush(t) == At(t, "try_push") /\ Checkpoint(t, "insert", "link") /\ UNCHANGED stackVars

\* top is read, the node is linked to it and flushed, and top is recorded.
\* The node is not shared yet, so this is one step.
Link(t) ==
    /\ At(t, "link")
    /\ below' = [below EXCEPT ![Node(t)] = top]
    /\ Snap(t, top, Null, "insert")
    /\ UNCHANGED <<top, stack, retired, crashes, res>>

unmoved(t) == top = th[t].cur

InsertTop(t) ==
    /\ At(t, "insert")
    /\ \/ ReplayCas(t, "cas", "pushed", "try_push") /\ UNCHANGED stackVars
       \/ /\ ExecuteCas(t, "cas", unmoved(t), "pushed", "try_push")
          /\ top' = IF unmoved(t) THEN Node(t) ELSE top
          /\ stack' = IF unmoved(t) THEN <<Node(t)>> \o stack ELSE stack
          /\ UNCHANGED below
    /\ UNCHANGED <<retired, crashes, res>>

Pushed(t) == At(t, "pushed") /\ Return(t, Node(t)) /\ UNCHANGED <<stackVars, retired>>

TryPop(t) == At(t, "pop") /\ Checkpoint(t, "under", "top") /\ UNCHANGED stackVars

LoadTop(t) ==
    /\ At(t, "top")
    /\ Snap(t, top, Null, "under")
    /\ UNCHANGED <<stackVars, retired, crashes, res>>

LoadBelow(t) ==
    /\ At(t, "under")
    /\ \/ th[t].cur = Null /\ Return(t, Empty)
       \/ /\ th[t].cur # Null
          /\ th' = [th EXCEPT ![t].next = below[th[t].cur], ![t].pc = "remove"]
          /\ UNCHANGED <<mmtVars, crashes, res>>
    /\ UNCHANGED <<stackVars, retired>>

RemoveTop(t) ==
    /\ At(t, "remove")
    /\ \/ ReplayCas(t, "cas", "popped", "pop") /\ UNCHANGED stackVars
       \/ /\ ExecuteCas(t, "cas", unmoved(t), "popped", "pop")
          /\ top' = IF unmoved(t) THEN th[t].next ELSE top
          /\ stack' = IF unmoved(t) THEN SelectSeq(stack, LAMBDA v : v # th[t].cur) ELSE stack
          /\ UNCHANGED below
    /\ UNCHANGED <<retired, crashes, res>>

Popped(t) == At(t, "popped") /\ Retire(t, th[t].cur) /\ Return(t, th[t].cur) /\ UNCHANGED stackVars

StackStep(t) ==
    \/ Push(t) \/ TryPush(t) \/ Link(t) \/ InsertTop(t) \/ Pushed(t)
    \/ TryPop(t) \/ LoadTop(t) \/ LoadBelow(t) \/ RemoveTop(t) \/ Popped(t)

-----------------------------------------------------------------------------

\* The values pushed and not popped are those that the links from top lead
\* to, in their order.
StackFollowsLinks == stack = Follow(below, top)
=============================================================================
