---------------------------- MODULE PoolExecute ----------------------------
(***************************************************************************)
(* The threads of a pool (src/src/pmem/pool.rs): execute starts one for    *)
(* every root memento, starts it again when it dies, and lets them begin   *)
(* together; each runs operations, clears its memento and repins.  Other   *)
(* threads ("worker") use a pool through a guard of epoch::pin().          *)
(*                                                                         *)
(* An operation reads a pointer to a node, or unlinks a node and retires   *)
(* it; its result is in the memento until the memento is cleared, so a     *)
(* re-executed thread goes through it again, with the same pointers.       *)
(***************************************************************************)
EXTENDS Epoch

CONSTANTS Scenarios   \* kind[t]; prog[t]: iterations, sequences of "read" and "retire"; crashes, failures: bounds

ASSUME PoolAssumption ==
    /\ {MaxObjects, PinsPerCollect, CollectSteps} \subseteq Nat \ {0}
    /\ Nodes \subseteq Nat \ {0}
    /\ \A z \in Scenarios : \A t \in Threads :
           z.kind[t] \in {"root", "worker"} /\ z.prog[t] \in Seq(Seq({"read", "retire"}))

VARIABLES
    scenario,
    linked,     \* the nodes of the data structure
    mem,        \* mem[t]: the results recorded in the memento
    cleared,    \* cleared[t]: how many of them are cleared
    clearing,   \* m_is_clearing
    iter,       \* the iteration that a thread is in
    barrier,    \* BARRIER_WAIT
    hole,       \* history: the thread died while its participant was not pinned but counted as pinned
    crashes, failures

poolVars == <<scenario, linked, mem, cleared, clearing, iter, barrier, hole, crashes, failures>>
vars == <<epochVars, th, poolVars>>

Roots == {t \in Threads : scenario.kind[t] = "root"}
AllOf(v) == [t \in Threads |-> v]

Init ==
    /\ EpochInit
    /\ th = AllOf(NewThread("off"))
    /\ scenario \in Scenarios
    /\ linked = Nodes
    /\ mem = AllOf(<<>>) /\ cleared = AllOf(0) /\ clearing = AllOf(FALSE)
    /\ iter = AllOf(1) /\ barrier = AllOf(FALSE) /\ hole = AllOf(FALSE)
    /\ crashes = 0 /\ failures = 0

-----------------------------------------------------------------------------
\* PoolHandle::execute

\* Variant: a memento that was being cleared is used.
ResumesClearingNever(t) == FALSE

ResumesClearing(t) == clearing[t]

Start(t) ==
    /\ At(t, "off")
    /\ \/ /\ t \in Roots
          /\ IF ResumesClearing(t) THEN Call(t, "clear", "find") ELSE Goto(t, "find")
          /\ UNCHANGED epochVars
       \/ /\ t \notin Roots
          /\ loc' = [loc EXCEPT ![t].reg = TRUE]
          /\ Call(t, "pin", "replay")
          /\ UNCHANGED <<epoch, leaked, queue, destroyed>>
    /\ UNCHANGED poolVars

OldGuard(t) == (Registered(t, "barrier") \/ Reset(t, "barrier")) /\ UNCHANGED poolVars

\* barrier_wait; the flags are never lowered.
Barrier(t) ==
    /\ At(t, "barrier")
    /\ barrier' = [barrier EXCEPT ![t] = TRUE]
    /\ Goto(t, "wait")
    /\ UNCHANGED <<epochVars, scenario, linked, mem, cleared, clearing, iter, hole, crashes, failures>>

\* Variant: a thread waits for the others to be waiting.
EveryoneIsHereNow(t) == \A u \in Roots : barrier[u] /\ th[u].pc \notin {"off", "done"}

EveryoneIsHere(t) == \A u \in Roots : barrier[u]

BarrierPass(t) ==
    /\ At(t, "wait")
    /\ EveryoneIsHere(t)
    /\ Goto(t, "replay")
    /\ UNCHANGED <<epochVars, poolVars>>

\* The operations in the memento are gone through; a retirement is deferred again.
DeferNode(t, n) == loc' = [loc EXCEPT ![t].bag = Append(@, n)]

Replay(t) ==
    LET k == th[t].k IN
    /\ At(t, "replay")
    /\ \/ /\ k > Len(mem[t])
          /\ Goto(t, "run")
          /\ UNCHANGED loc
       \/ /\ k <= Len(mem[t])
          /\ IF mem[t][k].op = "retire" THEN DeferNode(t, mem[t][k].node) ELSE UNCHANGED loc
          /\ th' = [th EXCEPT ![t].k = @ + 1]
    /\ UNCHANGED <<epoch, leaked, queue, destroyed, poolVars>>

\* The next operation of the iteration; "end" after the last iteration.
Op(t) ==
    LET p == scenario.prog[t] IN
    IF iter[t] > Len(p) THEN "end"
    ELSE IF Len(mem[t]) >= Len(p[iter[t]]) THEN "repin"
    ELSE p[iter[t]][Len(mem[t]) + 1]
Record(t, op, n) == mem' = [mem EXCEPT ![t] = Append(@, [op |-> op, node |-> n])]

\* What a thread may find in the structure, 0 if that is empty.
Reachable == IF linked = {} THEN {0} ELSE linked

Read(t) ==
    /\ At(t, "run") /\ Op(t) = "read"
    /\ \E n \in Reachable : Record(t, "read", n)
    /\ UNCHANGED <<epochVars, th, scenario, linked, cleared, clearing, iter, barrier, hole, crashes, failures>>

Unlink(t) ==
    /\ At(t, "run") /\ Op(t) = "retire"
    /\ \/ \E n \in linked :
              /\ linked' = linked \ {n}
              /\ Record(t, "retire", n)
              /\ th' = [th EXCEPT ![t].e = n, ![t].pc = "defer"]
       \/ /\ linked = {}
          /\ Record(t, "read", 0)
          /\ UNCHANGED <<linked, th>>
    /\ UNCHANGED <<epochVars, scenario, cleared, clearing, iter, barrier, hole, crashes, failures>>

\* defer_pdestroy
Defer(t) ==
    /\ At(t, "defer")
    /\ DeferNode(t, th[t].e)
    /\ Goto(t, "run")
    /\ UNCHANGED <<epoch, leaked, queue, destroyed, poolVars>>

\* The thread ends; its participant stays pinned.
Exit(t) ==
    /\ At(t, "run") /\ Op(t) = "end"
    /\ Goto(t, "done")
    /\ UNCHANGED <<epochVars, poolVars>>

-----------------------------------------------------------------------------
\* Handle::repin_guard: clear_mmt, and then repin_after.

ClearBegin(t) ==
    /\ At(t, "run") /\ Op(t) = "repin"
    /\ clearing' = [clearing EXCEPT ![t] = TRUE]
    /\ Call(t, "clear", "repin")
    /\ UNCHANGED <<epochVars, scenario, linked, mem, cleared, iter, barrier, hole, crashes, failures>>

ClearSlot(t) ==
    /\ At(t, "clear") /\ cleared[t] < Len(mem[t])
    /\ cleared' = [cleared EXCEPT ![t] = @ + 1]
    /\ UNCHANGED <<epochVars, th, scenario, linked, mem, clearing, iter, barrier, hole, crashes, failures>>

ClearEnd(t) ==
    /\ At(t, "clear") /\ cleared[t] = Len(mem[t])
    /\ clearing' = [clearing EXCEPT ![t] = FALSE]
    /\ mem' = [mem EXCEPT ![t] = <<>>]
    /\ cleared' = [cleared EXCEPT ![t] = 0]
    /\ iter' = [iter EXCEPT ![t] = @ + 1]
    /\ Return(t)
    /\ UNCHANGED <<epochVars, scenario, linked, barrier, hole, crashes, failures>>

\* Guard::repin_after
Repin(t) ==
    /\ At(t, "repin")
    /\ loc' = [loc EXCEPT ![t].repin = TRUE]
    /\ Call(t, "unpin", "unpinned")
    /\ UNCHANGED <<epoch, leaked, queue, destroyed, poolVars>>

Unpinned(t) ==
    /\ At(t, "unpinned")
    /\ Call(t, "pin", "repinned")
    /\ UNCHANGED <<epochVars, poolVars>>

Repinned(t) ==
    /\ At(t, "repinned")
    /\ loc' = [loc EXCEPT ![t].repin = FALSE]
    /\ hole' = [hole EXCEPT ![t] = FALSE]
    /\ Goto(t, "run")
    /\ UNCHANGED <<epoch, leaked, queue, destroyed, scenario, linked, mem, cleared, clearing, iter, barrier, crashes, failures>>

-----------------------------------------------------------------------------
\* Crashes.

\* A root thread dies, and its participant is left as it is.
ThreadCrash(t) ==
    /\ t \in Roots /\ th[t].pc \notin {"off", "done"}
    /\ crashes < scenario.crashes
    /\ crashes' = crashes + 1
    /\ th' = [th EXCEPT ![t] = NewThread("off")]
    /\ hole' = [hole EXCEPT ![t] = @ \/ (loc[t].epoch = None /\ (loc[t].guards > 0 \/ loc[t].repin))]
    /\ UNCHANGED <<epochVars, scenario, linked, mem, cleared, clearing, iter, barrier, failures>>

\* The nodes that the memento of t, and with it the stack of t, points to.
Held(t) == {mem[t][k].node : k \in DOMAIN mem[t]} \ {0}

\* The process dies.  The next one collects what neither the structure nor a memento reaches.
SystemCrash ==
    /\ Roots = Threads /\ failures < scenario.failures
    /\ failures' = failures + 1
    /\ th' = AllOf(NewThread("off"))
    /\ epoch' = 0 /\ loc' = AllOf(NewLocal) /\ leaked' = {} /\ queue' = <<>>
    /\ LET reached == linked \cup UNION {Held(t) : t \in Threads} IN
       destroyed' = [n \in Nodes |-> IF n \in reached THEN destroyed[n] ELSE 1]
    /\ barrier' = AllOf(FALSE) /\ hole' = AllOf(FALSE)
    /\ UNCHANGED <<scenario, linked, mem, cleared, clearing, iter, crashes>>

-----------------------------------------------------------------------------

Step(t) ==
    \/ EpochStep(t) /\ UNCHANGED poolVars
    \/ Start(t) \/ OldGuard(t) \/ Barrier(t) \/ BarrierPass(t)
    \/ Replay(t) \/ Read(t) \/ Unlink(t) \/ Defer(t) \/ Exit(t)
    \/ ClearBegin(t) \/ ClearSlot(t) \/ ClearEnd(t)
    \/ Repin(t) \/ Unpinned(t) \/ Repinned(t)

Next ==
    \/ \E t \in Threads : Step(t) \/ ThreadCrash(t)
    \/ SystemCrash

Spec == Init /\ [][Next]_vars

\* The threads are scheduled; execute starts a thread that died again.
FairSpec == Spec /\ \A t \in Threads : WF_vars(Step(t))

-----------------------------------------------------------------------------
\* Properties.

\* No node is destroyed while a memento or the stack of a thread still points to it, through
\* stale pins, bags sealed late, thread crashes and re-executions.
NotWhileHeld == \A t \in Threads : \A n \in Held(t) : destroyed[n] = 0

\* No node is destroyed twice, although a re-executed thread retires its nodes again.
DestroyedOnce == \A n \in Nodes : destroyed[n] <= 1

\* No thread goes through its operations unpinned; the exception is one that died in pin or repin
\* between the count of its guards and the store of its epoch, until it repins.
RunsPinned ==
    \A t \in Threads :
        th[t].pc \in {"barrier", "wait", "replay", "run", "defer", "clear"} /\ loc[t].reg /\ ~hole[t] => loc[t].epoch # None

\* As long as the memento of a thread points to nodes its pin does not move, although the thread
\* may die and another one takes its participant over.
PinKept ==
    [][\A t \in Threads : Held(t) # {} /\ Held(t)' # {} /\ loc[t].epoch # None /\ failures' = failures
                              => loc'[t].epoch = loc[t].epoch]_vars

\* The global epoch never goes back, although try_advance stores a value it read long before.
EpochNeverBack == [][epoch' >= epoch \/ failures' # failures]_vars

\* No operation runs on a memento that is half cleared.
WholeMemento == \A t \in Threads : th[t].pc \in {"replay", "run", "defer"} => cleared[t] = 0 /\ ~clearing[t]

\* Every thread gets through the barrier and to its end, whatever thread died before.
AllFinish == <>(\A t \in Threads : th[t].pc = "done")
=============================================================================
