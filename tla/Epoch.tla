------------------------------- MODULE Epoch -------------------------------
(***************************************************************************)
(* The epoch-based collector of crossbeam-persistency (crossbeam-epoch, a  *)
(* fork whose participants survive the crash of their thread).  A thread   *)
(* that is pinned in an epoch holds the global epoch back; what a thread   *)
(* retires is put into bags that are sealed with the global epoch and      *)
(* destroyed two epochs later.                                             *)
(*                                                                         *)
(* The steps are written as subroutines: th[t].pc says where thread t is   *)
(* and th[t].ret where it goes on.  Dropping a guard does nothing in this  *)
(* fork (guard.rs:430), so a participant is unpinned only by repin_after;  *)
(* the temporary participant of Local::find and the one of a thread that   *)
(* ends stay pinned for ever.  Handle counts and deferred persists are     *)
(* left out; the one participant whose handle count drops to zero, which   *)
(* HANDLE holds before old_guard replaces it, is pinned no earlier than    *)
(* that of Local::find and so holds back nothing more: only the collection *)
(* that its removal makes is kept.                                         *)
(***************************************************************************)
EXTENDS Integers, Sequences, FiniteSets

CONSTANTS
    Threads, Nodes,
    MaxObjects,       \* MAX_OBJECTS: the capacity of a bag, and when bags are made
    PinsPerCollect,   \* PINNINGS_BETWEEN_COLLECT
    CollectSteps      \* COLLECT_STEPS

None == -1            \* Epoch::starting(), not pinned

VARIABLES
    epoch,            \* Global::epoch
    loc,              \* loc[t]: the Local that t owns
    leaked,           \* the temporary participants that were pinned, with their epochs
    queue,            \* Global::queue, of sealed bags
    th,               \* where the threads are, and their local variables
    destroyed         \* history: how often a node was destroyed

epochVars == <<epoch, loc, leaked, queue, destroyed>>

NewLocal == [reg |-> FALSE, epoch |-> None, guards |-> 0, bag |-> <<>>, pins |-> 0, repin |-> FALSE]
NewThread(pc) == [pc |-> pc, ret |-> "", e |-> 0, ge |-> 0, todo |-> {}, n |-> 0, bags |-> <<>>, k |-> 1]

EpochInit ==
    /\ epoch = 0
    /\ loc = [t \in Threads |-> NewLocal]
    /\ leaked = {} /\ queue = <<>>
    /\ destroyed = [n \in Nodes |-> 0]

At(t, pc) == th[t].pc = pc
Goto(t, pc) == th' = [th EXCEPT ![t].pc = pc]
Call(t, pc, ret) == th' = [th EXCEPT ![t].pc = pc, ![t].ret = ret]
Return(t) == Goto(t, th[t].ret)

-----------------------------------------------------------------------------
\* Local::pin.  The epoch that is stored may be old by then.

PinLoad(t) ==
    /\ At(t, "pin")
    /\ loc' = [loc EXCEPT ![t].guards = @ + 1]
    /\ \/ loc[t].guards = 0 /\ th' = [th EXCEPT ![t].e = epoch, ![t].pc = "pin_store"]
       \/ loc[t].guards > 0 /\ Return(t)
    /\ UNCHANGED <<epoch, leaked, queue, destroyed>>

PinStore(t) ==
    /\ At(t, "pin_store")
    /\ loc' = [loc EXCEPT ![t].epoch = IF @ = None THEN th[t].e ELSE @, ![t].pins = (@ + 1) % PinsPerCollect]
    /\ IF loc[t].pins = 0 THEN Goto(t, "advance") ELSE Return(t)
    /\ UNCHANGED <<epoch, leaked, queue, destroyed>>

-----------------------------------------------------------------------------
\* Global::collect, Global::try_advance.

\* Participants that are registered later are not met by the iteration.
AdvanceLoad(t) ==
    /\ At(t, "advance")
    /\ th' = [th EXCEPT ![t].ge = epoch, ![t].n = 0,
                        ![t].todo = {u \in Threads : loc[u].reg},
                        ![t].pc = IF \A l \in leaked : l[2] = epoch THEN "check" ELSE "pop"]
    /\ UNCHANGED epochVars

\* Variant: only participants ahead of the epoch hold it back.
HoldsBackAhead(u, ge) == loc[u].epoch > ge

HoldsBack(u, ge) == loc[u].epoch \notin {None, ge}

AdvanceCheck(t) ==
    \E u \in th[t].todo :
        /\ At(t, "check")
        /\ th' = IF HoldsBack(u, th[t].ge) THEN [th EXCEPT ![t].pc = "pop"]
                 ELSE [th EXCEPT ![t].todo = @ \ {u}]
        /\ UNCHANGED epochVars

AdvanceStore(t) ==
    /\ At(t, "check") /\ th[t].todo = {}
    /\ epoch' = th[t].ge + 1
    /\ th' = [th EXCEPT ![t].ge = @ + 1, ![t].pc = "pop"]
    /\ UNCHANGED <<loc, leaked, queue, destroyed>>

\* Variant: one epoch later is late enough.
ExpiredEarly(bag, ge) == ge - bag.epoch >= 1

Expired(bag, ge) == ge - bag.epoch >= 2

Poppable(t) == th[t].n < CollectSteps /\ queue # <<>> /\ Expired(Head(queue), th[t].ge)

\* A bag is popped and dropped.
Pop(t) ==
    /\ At(t, "pop") /\ Poppable(t)
    /\ queue' = Tail(queue)
    /\ destroyed' = [n \in Nodes |-> destroyed[n] + Cardinality({i \in DOMAIN Head(queue).nodes : Head(queue).nodes[i] = n})]
    /\ th' = [th EXCEPT ![t].n = @ + 1]
    /\ UNCHANGED <<epoch, loc, leaked>>

PopDone(t) ==
    /\ At(t, "pop") /\ ~Poppable(t)
    /\ Return(t)
    /\ UNCHANGED epochVars

-----------------------------------------------------------------------------
\* Local::unpin.

\* The functions that dedup_by keeps, by position; it compares neighbours only.
Dedup(bag) == {i \in DOMAIN bag : i = 1 \/ bag[i] # bag[i - 1]}

\* They are popped from the end into bags, which are functions from positions to nodes.
DedupAsBags(bag) ==
    LET kept == Dedup(bag)
        popped(i) == Cardinality({j \in kept : j > i})
    IN  [b \in 1 .. (Cardinality(kept) + MaxObjects - 1) \div MaxObjects |->
            [i \in {j \in kept : popped(j) \div MaxObjects = b - 1} |-> bag[i]]]

\* Variant: the vector keeps what was moved to the bags.
LeftInBag(bag) == bag

\* What is left in the vector that the bags are made from.
LeftOver(bag) == <<>>

\* A thread has one guard.
Unpin(t) ==
    LET full == Len(loc[t].bag) >= MaxObjects IN
    /\ At(t, "unpin") /\ loc[t].guards = 1
    /\ \/ /\ full
          /\ loc' = [loc EXCEPT ![t].guards = 0, ![t].bag = LeftOver(@)]
          /\ th' = [th EXCEPT ![t].bags = DedupAsBags(loc[t].bag), ![t].pc = "push"]
       \/ /\ ~full
          /\ loc' = [loc EXCEPT ![t].guards = 0]
          /\ Goto(t, "unpin_store")
    /\ UNCHANGED <<epoch, leaked, queue, destroyed>>

\* Global::push_bag: the epoch is read, and the bag is pushed.
Seal(t) ==
    /\ At(t, "push")
    /\ \/ th[t].bags = <<>> /\ Goto(t, "unpin_store")
       \/ th[t].bags # <<>> /\ th' = [th EXCEPT ![t].e = epoch, ![t].pc = "sealed"]
    /\ UNCHANGED epochVars

PushBag(t) ==
    /\ At(t, "sealed")
    /\ queue' = Append(queue, [epoch |-> th[t].e, nodes |-> th[t].bags[Len(th[t].bags)]])
    /\ th' = [th EXCEPT ![t].bags = SubSeq(@, 1, Len(@) - 1), ![t].pc = "push"]
    /\ UNCHANGED <<epoch, loc, leaked, destroyed>>

UnpinStore(t) ==
    /\ At(t, "unpin_store")
    /\ loc' = [loc EXCEPT ![t].epoch = None]
    /\ Return(t)
    /\ UNCHANGED <<epoch, leaked, queue, destroyed>>

-----------------------------------------------------------------------------
\* old_guard: the participant that t left behind is found and taken over.

\* Local::find pins a temporary participant to walk the list, and that collects; dropping the
\* guard when find returns does not unpin it.
Find(t) ==
    /\ At(t, "find")
    /\ th' = [th EXCEPT ![t].e = epoch, ![t].pc = "find_pin"]
    /\ UNCHANGED epochVars

FindPin(t) ==
    /\ At(t, "find_pin")
    /\ leaked' = leaked \cup {<<t, th[t].e>>}
    /\ Call(t, "advance", "found")
    /\ UNCHANGED <<epoch, loc, queue, destroyed>>

\* Variant: a thread always gets a new participant.
OwnerNeverFound(t) == FALSE

\* The participant of the thread that ran under this id before.
OwnerFound(t) == loc[t].reg

\* It is pinned again, and counts as pinned if it died during repin; or else a new one is made.
Found(t) ==
    /\ At(t, "found")
    /\ \/ /\ OwnerFound(t)
          /\ loc' = [loc EXCEPT ![t].guards = IF loc[t].repin THEN 1 ELSE @]
          /\ Call(t, "pin", "reset")
       \/ /\ ~OwnerFound(t)
          /\ loc' = [loc EXCEPT ![t] = [NewLocal EXCEPT !.reg = TRUE]]
          /\ Call(t, "advance", "registered")
    /\ UNCHANGED <<epoch, leaked, queue, destroyed>>

Registered(t, next) ==
    /\ At(t, "registered")
    /\ Call(t, "pin", next)
    /\ UNCHANGED epochVars

\* Variant: the epoch is reset too.
ResetLikeNew(l) == [l EXCEPT !.guards = 1, !.pins = 1 % PinsPerCollect, !.repin = FALSE, !.epoch = None]

\* reset_count, set_guard_count(1)
ResetLocal(l) == [l EXCEPT !.guards = 1, !.pins = 1 % PinsPerCollect, !.repin = FALSE]

Reset(t, next) ==
    /\ At(t, "reset")
    /\ loc' = [loc EXCEPT ![t] = ResetLocal(@)]
    /\ Call(t, "advance", next)
    /\ UNCHANGED <<epoch, leaked, queue, destroyed>>

EpochStep(t) ==
    \/ PinLoad(t) \/ PinStore(t)
    \/ AdvanceLoad(t) \/ AdvanceCheck(t) \/ AdvanceStore(t) \/ Pop(t) \/ PopDone(t)
    \/ Unpin(t) \/ Seal(t) \/ PushBag(t) \/ UnpinStore(t)
    \/ Find(t) \/ FindPin(t) \/ Found(t)
=============================================================================
