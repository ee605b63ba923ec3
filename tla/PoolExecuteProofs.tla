------------------------- MODULE PoolExecuteProofs -------------------------
(***************************************************************************)
(* The operations of the threads of a pool and the power failure keep the  *)
(* invariant of PoolInvariant; and the theorems about PoolExecute.         *)
(***************************************************************************)
EXTENDS PoolSteps, FiniteSetTheorems

\* What the steps use of Cardinality.
LEMMA CardinalityFacts == Counting
<1>1. ASSUME NEW m \in Nat, NEW S \in SUBSET (1 .. m) PROVE Cardinality(S) \in Nat
  <2>1. IsFiniteSet(1 .. m)
    BY FS_Interval, 1 \in Int, m \in Int, Zenon
  <2>2. IsFiniteSet(S)
    BY <2>1, FS_Subset, Zenon
  <2> QED
    BY <2>2, FS_CardinalityType, Zenon
<1> QED
  BY <1>1, FS_EmptySet, FS_Singleton, Zenon DEF Counting

-----------------------------------------------------------------------------
\* The initial state, and the one after the process died.

\* The record of a participant that is not registered.
LEMMA NewLocalFields ==
    /\ DOMAIN NewLocal = LocFields
    /\ NewLocal.reg = FALSE /\ NewLocal.epoch = None /\ NewLocal.guards = 0
    /\ NewLocal.repin = FALSE /\ NewLocal.bag = <<>>
<1>1. DOMAIN NewLocal = LocFields
  BY Zenon DEF NewLocal, LocFields
<1> QED
  BY <1>1, Zenon DEF NewLocal

\* All threads are to start, and their participants are gone.
Fresh ==
    /\ DOMAIN th = Threads /\ DOMAIN loc = Threads
    /\ \A t \in Threads : th[t] = NewThread("off") /\ loc[t] = NewLocal
    /\ epoch = 0 /\ leaked = {} /\ queue = <<>>

\* The mementos are in order.
Orderly ==
    /\ DOMAIN mem = Threads /\ DOMAIN cleared = Threads /\ DOMAIN clearing = Threads /\ DOMAIN hole = Threads
    /\ \A t \in Threads :
           /\ mem[t] \in Seq(Result)
           /\ \A k \in DOMAIN mem[t] : mem[t][k].op = "retire" => mem[t][k].node \in Nodes \ linked
           /\ cleared[t] # 0 => clearing[t]
           /\ t \notin Roots => ~clearing[t] /\ mem[t] = <<>> /\ ~hole[t]
           /\ Roots # Threads => mem[t] = <<>>

\* Nothing that is reached was destroyed.
ReachedIsThere ==
    /\ failures \in Nat /\ linked \subseteq Nodes
    /\ \A n \in linked : destroyed[n] = 0
    /\ \A t \in Threads : \A n \in Held(t) : destroyed[n] = 0

\* Then the invariant holds.
LEMMA FreshStart == Fresh /\ Orderly /\ ReachedIsThere => Inv
<1> SUFFICES ASSUME Fresh, Orderly, ReachedIsThere PROVE Inv
  BY Zenon
<1>1. Shape
  BY Zenon DEF Fresh, Orderly, Shape
<1>2. <<>> \in Seq(Sealed) /\ <<>> \in Seq(Bag) /\ <<>> \in Seq(Nodes)
  OBVIOUS
<1>3. Globals
  BY <1>2, Zenon DEF Fresh, ReachedIsThere, Globals
<1>4. ASSUME NEW t \in Threads
      PROVE  /\ DOMAIN th[t] = ThFields /\ th[t].pc = "off" /\ th[t].e = 0 /\ th[t].ge = 0
             /\ th[t].k = 1 /\ th[t].bags = <<>>
             /\ DOMAIN loc[t] = LocFields /\ loc[t].reg = FALSE /\ loc[t].epoch = None /\ loc[t].guards = 0
             /\ loc[t].repin = FALSE /\ loc[t].bag = <<>>
  BY NewThreadFields, NewLocalFields, Zenon DEF Fresh
<1>5. ASSUME NEW t \in Threads PROVE Own(t)
  <2>0. th[t].e \in Nat /\ th[t].ge \in Nat /\ th[t].k \in Nat \ {0} /\ loc[t].guards \in Nat
    <3>1. th[t].e = 0 /\ th[t].ge = 0 /\ th[t].k = 1 /\ loc[t].guards = 0
      BY <1>4, Zenon
    <3> QED
      BY <3>1
  <2>1. Types(t)
    BY <1>4, <2>0, Zenon DEF Types
  <2>2. Vectors(t)
    BY <1>2, <1>4, Zenon DEF Orderly, Vectors
  <2>3. Returns(t) /\ Clears(t) /\ KnowsKind(t)
    BY <1>4, Zenon DEF Orderly, Returns, Clears, KnowsKind, Finding, Bound, Pinning, Collecting, Unpinning
  <2>4. Pinned(t)
    BY <1>4, Zenon DEF Orderly, Pinned, EmptyMemento, Finding, Bound, Pinning, Collecting, Unpinning
  <2>5. Behind(t) /\ HoldsIt(t)
    BY <1>4, Zenon DEF Behind, HoldsIt
  <2> QED
    BY <2>1, <2>2, <2>3, <2>4, <2>5, Zenon DEF Own
<1>6. \A t \in Threads : Anchors(t)
  BY <1>4, Zenon DEF Anchors, Anchored
<1>7. ASSUME NEW n \in linked PROVE NotRetired(n)
  <2>1. \A bag : bag = <<>> => ~In(n, bag)
    BY DEF In
  <2>2. ASSUME NEW t \in Threads PROVE ~Retires(t, n)
    <3>1. th[t].bags = <<>> /\ loc[t].bag = <<>> /\ th[t].pc = "off"
      BY <1>4, Zenon
    <3>2. ~(\E i \in DOMAIN th[t].bags : In(n, th[t].bags[i]))
      BY <3>1
    <3> QED
      BY <2>1, <3>1, <3>2, Zenon DEF Orderly, Retires
  <2> QED
    BY <2>2 DEF Fresh, ReachedIsThere, NotRetired
<1>8. ASSUME NEW t \in Threads, NEW n \in Held(t) PROVE HeldSafely(t, n)
  <2>1. \A u \in Threads : th[u].pc = "off"
    BY <1>4, Zenon
  <2>2. DOMAIN queue = {}
    BY DEF Fresh
  <2> QED
    BY <2>1, <2>2, Zenon DEF ReachedIsThere, HeldSafely
<1> QED
  BY <1>1, <1>3, <1>5, <1>6, <1>7, <1>8, Zenon DEF Inv, Reclaim

\* And so it does in a next state that is like this.
LEMMA FreshRestart == (Fresh /\ Orderly /\ ReachedIsThere)' => Inv'
  BY FreshStart, PTL

\* The invariant holds initially.
LEMMA InitInv == Init => Inv
<1> SUFFICES ASSUME Init PROVE Inv
  BY Zenon
<1>1. Fresh
  BY Zenon DEF Init, EpochInit, AllOf, Fresh
<1>2. \A t \in Threads : mem[t] = <<>> /\ cleared[t] = 0 /\ clearing[t] = FALSE /\ hole[t] = FALSE
  BY Zenon DEF Init, AllOf
<1>3. DOMAIN mem = Threads /\ DOMAIN cleared = Threads /\ DOMAIN clearing = Threads /\ DOMAIN hole = Threads
  BY Zenon DEF Init, AllOf
<1>4. <<>> \in Seq(Result) /\ \A t \in Threads : Held(t) = {}
  BY <1>2 DEF Held
<1>5. linked = Nodes /\ failures = 0 /\ \A n \in linked : destroyed[n] = 0
  BY Zenon DEF Init, EpochInit
<1>6. Orderly
  <2>1. ASSUME NEW t \in Threads PROVE mem[t] \in Seq(Result) /\ DOMAIN mem[t] = {}
    <3>1. mem[t] = <<>> /\ <<>> \in Seq(Result)
      BY <1>2, <1>4, Zenon
    <3> QED
      BY <3>1
  <2> QED
    BY <1>2, <1>3, <2>1, Zenon DEF Orderly
<1>7. ReachedIsThere
  BY <1>4, <1>5, Zenon DEF ReachedIsThere
<1> QED
  BY <1>1, <1>6, <1>7, FreshStart, Zenon

\* The process dies, and the collection of the allocator keeps what is reached.
LEMMA SystemCrashKeeps == ASSUME Inv, SystemCrash PROVE Inv'
<1>0. Shape /\ Globals /\ \A t \in Threads : Own(t)
  BY Zenon DEF Inv
<1>1. Fresh'
  BY Zenon DEF SystemCrash, AllOf, Fresh
<1>2. UNCHANGED <<scenario, linked, mem, cleared, clearing>> /\ failures' \in Nat /\ Roots = Threads /\ Roots' = Roots
  BY <1>0 DEF SystemCrash, Globals, Roots
<1>3. DOMAIN hole' = Threads
  BY Zenon DEF SystemCrash, AllOf
<1>4. DOMAIN mem' = Threads /\ DOMAIN cleared' = Threads /\ DOMAIN clearing' = Threads /\ linked' \subseteq Nodes
  BY <1>0, <1>2, Zenon DEF Shape, Globals
<1>5. ASSUME NEW n \in Nodes, n \in linked \/ (\E t \in Threads : n \in Held(t)), destroyed[n] = 0
      PROVE  destroyed'[n] = 0
  <2>1. n \in linked \cup UNION {Held(t) : t \in Threads}
    BY <1>5, Zenon
  <2> QED
    BY <1>5, <2>1, Zenon DEF SystemCrash
<1>6. \A n \in linked' : destroyed'[n] = 0
  BY <1>0, <1>2, <1>5, Zenon DEF Inv, Reclaim, NotRetired, Globals
<1>7. ASSUME NEW t \in Threads, NEW n \in Held(t)' PROVE destroyed'[n] = 0
  <2>1. n \in Held(t) /\ n \in Nodes
    BY <1>2, <1>7, HeldNodes, Zenon DEF Held
  <2>2. destroyed[n] = 0
    BY <2>1, Zenon DEF Inv, Reclaim, HeldSafely
  <2> QED
    BY <1>5, <2>1, <2>2, Zenon
<1>8. ASSUME NEW t \in Threads
      PROVE  /\ mem'[t] \in Seq(Result)
             /\ \A k \in DOMAIN mem'[t] : mem'[t][k].op = "retire" => mem'[t][k].node \in Nodes \ linked'
             /\ cleared'[t] # 0 => clearing'[t]
  <2>1. \A n \in linked : ~Retires(t, n)
    BY NoneRetired, Zenon
  <2> QED
    BY <1>0, <1>2, <2>1, Zenon DEF Own, Vectors, Clears, Retires
<1>9. Orderly'
  BY <1>2, <1>3, <1>4, <1>8, Zenon DEF Orderly
<1>10. ReachedIsThere'
  BY <1>2, <1>4, <1>6, <1>7, Zenon DEF ReachedIsThere
<1> QED
  BY <1>1, <1>9, <1>10, FreshRestart, Zenon

-----------------------------------------------------------------------------
\* Every step keeps the invariant.

\* The steps of the collector.
LEMMA EpochStepKeeps == ASSUME Inv, NEW t \in Threads, EpochStep(t), UNCHANGED poolVars PROVE Inv'
<1>1. CASE PinLoad(t)
  BY <1>1, PinLoadKeeps, Zenon
<1>2. CASE PinStore(t)
  BY <1>2, PinStoreKeeps, Zenon
<1>3. CASE AdvanceLoad(t)
  BY <1>3, AdvanceLoadKeeps, Zenon
<1>4. CASE AdvanceCheck(t)
  BY <1>4, AdvanceCheckKeeps, Zenon
<1>5. CASE AdvanceStore(t)
  BY <1>5, AdvanceStoreKeeps, Zenon
<1>6. CASE Pop(t)
  BY <1>6, CardinalityFacts, PopKeeps, Zenon
<1>7. CASE PopDone(t)
  BY <1>7, PopDoneKeeps, Zenon
<1>8. CASE Unpin(t)
  BY <1>8, CardinalityFacts, UnpinKeeps, Zenon
<1>9. CASE Seal(t)
  BY <1>9, SealKeeps, SealDoneKeeps, Zenon
<1>10. CASE PushBag(t)
  BY <1>10, PushBagKeeps, Zenon
<1>11. CASE UnpinStore(t)
  BY <1>11, UnpinStoreKeeps, Zenon
<1>12. CASE Find(t)
  BY <1>12, FindKeeps, Zenon
<1>13. CASE FindPin(t)
  BY <1>13, FindPinKeeps, Zenon
<1>14. CASE Found(t)
  BY <1>14, TakeOverKeeps, NewParticipantKeeps, Zenon
<1> QED
  BY <1>1, <1>2, <1>3, <1>4, <1>5, <1>6, <1>7, <1>8, <1>9, <1>10, <1>11, <1>12, <1>13, <1>14, Zenon DEF EpochStep

\* The steps of a thread.
LEMMA StepKeeps == ASSUME Inv, NEW t \in Threads, Step(t) PROVE Inv'
<1>1. CASE EpochStep(t) /\ UNCHANGED poolVars
  BY <1>1, EpochStepKeeps, Zenon
<1>2. CASE Start(t)
  BY <1>2, StartKeeps, Zenon
<1>3. CASE OldGuard(t)
  BY <1>3, RegisteredKeeps, ResetKeeps, Zenon DEF OldGuard
<1>4. CASE Barrier(t)
  BY <1>4, BarrierKeeps, Zenon
<1>5. CASE BarrierPass(t)
  BY <1>5, BarrierPassKeeps, Zenon
<1>6. CASE Replay(t)
  BY <1>6, ReplayKeeps, Zenon
<1>7. CASE Read(t)
  BY <1>7, ReadKeeps, Zenon
<1>8. CASE Unlink(t)
  BY <1>8, UnlinkKeeps, Zenon
<1>9. CASE Defer(t)
  BY <1>9, DeferKeeps, Zenon
<1>10. CASE Exit(t)
  BY <1>10, ExitKeeps, Zenon
<1>11. CASE ClearBegin(t)
  BY <1>11, ClearBeginKeeps, Zenon
<1>12. CASE ClearSlot(t)
  BY <1>12, ClearSlotKeeps, Zenon
<1>13. CASE ClearEnd(t)
  BY <1>13, ClearEndKeeps, Zenon
<1>14. CASE Repin(t)
  BY <1>14, RepinKeeps, Zenon
<1>15. CASE Unpinned(t)
  BY <1>15, UnpinnedKeeps, Zenon
<1>16. CASE Repinned(t)
  BY <1>16, RepinnedKeeps, Zenon
<1> QED
  BY <1>1, <1>2, <1>3, <1>4, <1>5, <1>6, <1>7, <1>8, <1>9, <1>10, <1>11, <1>12, <1>13, <1>14, <1>15, <1>16, Zenon DEF Step

\* A step that changes nothing.
LEMMA StutterKeeps == ASSUME Inv, UNCHANGED vars PROVE Inv'
<1>1. UNCHANGED <<epoch, loc, leaked, queue, destroyed, th, scenario, linked, mem, cleared, clearing, hole, failures>>
  BY Zenon DEF vars, epochVars, poolVars
<1>2. Roots' = Roots /\ Shape' /\ Globals'
  BY <1>1, Zenon DEF Roots, Inv, Shape, Globals
<1>3. ASSUME NEW t \in Threads PROVE Own(t)' /\ Anchors(t)'
  <2>1. Own(t) /\ Anchors(t)
    BY Zenon DEF Inv
  <2>2. Types(t)' /\ Vectors(t)' /\ Returns(t)' /\ Clears(t)'
    BY <1>1, <2>1, Zenon DEF Own, Types, Vectors, Returns, Clears
  <2>3. KnowsKind(t)'
    BY <1>1, <1>2, <2>1, Zenon DEF Own, KnowsKind, Finding, Bound
  <2>4. Pinned(t)'
    BY <1>1, <1>2, <2>1, Zenon DEF Own, Pinned, EmptyMemento, Unsettled, Finding, Bound
  <2>5. Behind(t)' /\ HoldsIt(t)'
    BY <1>1, <2>1, Zenon DEF Own, Behind, HoldsIt
  <2>6. Anchors(t)'
    BY <1>1, <2>1, Zenon DEF Anchors, Anchored
  <2> QED
    BY <2>2, <2>3, <2>4, <2>5, <2>6, Zenon DEF Own
<1>4. Reclaim'
  BY <1>1 DEF Inv, Reclaim, NotRetired, Retires, In, Held, HeldSafely, Safe, Guarded, Pushed
<1> QED
  BY <1>2, <1>3, <1>4, Zenon DEF Inv

\* The invariant is inductive.
LEMMA NextInv == Inv /\ [Next]_vars => Inv'
<1> SUFFICES ASSUME Inv, [Next]_vars PROVE Inv'
  BY Zenon
<1>1. CASE SystemCrash
  BY <1>1, SystemCrashKeeps, Zenon
<1>2. CASE UNCHANGED vars
  BY <1>2, StutterKeeps, Zenon
<1>3. ASSUME NEW t \in Threads, Step(t) \/ ThreadCrash(t) PROVE Inv'
  BY <1>3, StepKeeps, ThreadCrashKeeps, Zenon
<1> QED
  BY <1>1, <1>2, <1>3, Zenon DEF Next

-----------------------------------------------------------------------------
\* Theorems.

\* The invariant holds in every state, whatever the threads do and whoever dies.
THEOREM Invariant == Spec => []Inv
  BY InitInv, NextInv, PTL DEF Spec

\* No node is destroyed while a memento or the stack of a thread still points to it
\* (defer_pdestroy, Global::collect): however late bags are sealed and epochs are stored, and
\* although a re-executed thread relies on the pin of the thread that died.
THEOREM Reclamation == Spec => []NotWhileHeld
<1>1. Inv => NotWhileHeld
  BY Zenon DEF Inv, Reclaim, HeldSafely, NotWhileHeld
<1> QED
  BY <1>1, Invariant, PTL

\* No thread that PoolHandle::execute starts, or that pins a guard, goes through its operations
\* unpinned, except one that died between the count of its guards and the store of its epoch.
THEOREM AlwaysPinned == Spec => []RunsPinned
<1>1. Inv => RunsPinned
  BY Zenon DEF Inv, Own, Pinned, Unsettled, Pinning, Collecting, RunsPinned
<1> QED
  BY <1>1, Invariant, PTL

\* No operation runs on a memento that is half cleared: a thread that died in clear_mmt is
\* re-executed from there (PoolHandle::execute, Handle::repin_guard).
THEOREM MementoWhole == Spec => []WholeMemento
<1>1. Inv => WholeMemento
  BY Zenon DEF Inv, Own, Clears, WholeMemento
<1> QED
  BY <1>1, Invariant, PTL

\* A step leaves an epoch that holds nodes in place, or is a power failure.
LEMMA PinStays ==
    ASSUME Inv, [Next]_vars, NEW t \in Threads, Held(t) # {}, Held(t)' # {}, loc[t].epoch # None, failures' = failures
    PROVE  loc'[t].epoch = loc[t].epoch
<1>0. Shape /\ Own(t) /\ mem[t] # <<>> /\ mem'[t] # <<>>
  BY DEF Inv, Held
<1>1. CASE loc' = loc
  BY <1>1, Zenon
<1>2. ASSUME NEW u \in Threads, u # t, \A v \in Threads \ {u} : loc'[v] = loc[v]
      PROVE  loc'[t].epoch = loc[t].epoch
  BY <1>2, Zenon
<1>3. ASSUME NEW u \in Threads, PinLoad(u) \/ PinStore(u) \/ Unpin(u) \/ Reset(u, "barrier") \/ Replay(u)
                                    \/ Defer(u) \/ Repin(u) \/ Repinned(u) \/ Start(u)
      PROVE  loc'[t].epoch = loc[t].epoch
  <2>0. DOMAIN loc = Threads /\ DOMAIN loc[t] = LocFields
    BY <1>0, Zenon DEF Shape, Own, Types
  <2>1. CASE PinLoad(u)
    BY <2>0, <2>1, Zenon DEF PinLoad, LocFields
  <2>2. CASE PinStore(u)
    BY <2>0, <2>2, Zenon DEF PinStore, LocFields
  <2>3. CASE Unpin(u)
    BY <2>0, <2>3 DEF Unpin, LeftOver, LocFields
  <2>4. CASE Reset(u, "barrier")
    BY <2>0, <2>4, Zenon DEF Reset, ResetLocal, LocFields
  <2>5. CASE Replay(u)
    BY <2>0, <2>5 DEF Replay, DeferNode, LocFields
  <2>6. CASE Defer(u)
    BY <2>0, <2>6, Zenon DEF Defer, DeferNode, LocFields
  <2>7. CASE Repin(u)
    BY <2>0, <2>7, Zenon DEF Repin, LocFields
  <2>8. CASE Repinned(u)
    BY <2>0, <2>8, Zenon DEF Repinned, LocFields
  <2>9. CASE Start(u)
    BY <2>0, <2>9, Zenon DEF Start, epochVars, LocFields
  <2> QED
    BY <1>3, <2>1, <2>2, <2>3, <2>4, <2>5, <2>6, <2>7, <2>8, <2>9, Zenon
<1>4. ASSUME NEW u \in Threads, UnpinStore(u) PROVE loc'[t].epoch = loc[t].epoch
  <2>1. u # t
    BY <1>0, <1>4, Zenon DEF UnpinStore, At, Own, Pinned, EmptyMemento, Unpinning
  <2> QED
    BY <1>0, <1>4, <2>1, Zenon DEF UnpinStore, Shape
<1>5. ASSUME NEW u \in Threads, Found(u) PROVE loc'[t].epoch = loc[t].epoch
  <2>1. CASE u # t
    BY <1>0, <1>5, <2>1, Zenon DEF Found, Shape
  <2>2. CASE u = t
    <3>1. OwnerFound(t)
      BY <1>0, Zenon DEF Own, Pinned, OwnerFound
    <3> QED
      BY <1>0, <1>5, <2>2, <3>1 DEF Found, Shape, Own, Types, LocFields
  <2> QED
    BY <2>1, <2>2, Zenon
<1>6. ASSUME NEW u \in Threads, Step(u) \/ ThreadCrash(u) PROVE loc'[t].epoch = loc[t].epoch
  <2>1. CASE \/ AdvanceLoad(u) \/ AdvanceCheck(u) \/ AdvanceStore(u) \/ Pop(u) \/ PopDone(u) \/ Seal(u)
             \/ PushBag(u) \/ Find(u) \/ FindPin(u) \/ Registered(u, "barrier") \/ Barrier(u) \/ BarrierPass(u)
             \/ Read(u) \/ Unlink(u) \/ Exit(u) \/ ClearBegin(u) \/ ClearSlot(u) \/ ClearEnd(u) \/ Unpinned(u)
             \/ ThreadCrash(u)
    <3>1. loc' = loc
      BY <2>1, Zenon DEF AdvanceLoad, AdvanceCheck, AdvanceStore, Pop, PopDone, Seal, PushBag, Find, FindPin, Registered,
                  Barrier, BarrierPass, Read, Unlink, Exit, ClearBegin, ClearSlot, ClearEnd, Unpinned, ThreadCrash,
                  epochVars
    <3> QED
      BY <3>1, Zenon
  <2> QED
    BY <1>3, <1>4, <1>5, <1>6, <2>1, Zenon DEF Step, EpochStep, OldGuard
<1>7. ~SystemCrash
  <2>1. failures \in Nat
    BY Zenon DEF Inv, Globals
  <2>2. SystemCrash => failures' = failures + 1
    BY Zenon DEF SystemCrash
  <2> QED
    BY <2>1, <2>2
<1> QED
  BY <1>1, <1>6, <1>7, Zenon DEF Next, vars, epochVars

\* As long as the memento of a thread points to nodes, the pin of its participant does not move
\* (old_guard, reset_count), until the process dies.
THEOREM PinStaysPut == Spec => PinKept
<1>1. Inv /\ [Next]_vars => \A t \in Threads : Held(t) # {} /\ Held(t)' # {} /\ loc[t].epoch # None /\ failures' = failures
                                                   => loc'[t].epoch = loc[t].epoch
  BY PinStays, Zenon
<1>2. Inv /\ [Next]_vars
      => [\A t \in Threads : Held(t) # {} /\ Held(t)' # {} /\ loc[t].epoch # None /\ failures' = failures
                                 => loc'[t].epoch = loc[t].epoch]_vars
  BY <1>1, Zenon
<1> QED
  BY <1>2, Invariant, PTL DEF Spec, PinKept

\* Only try_advance moves the epoch, and not back.
LEMMA EpochMovesOn == ASSUME Inv, [Next]_vars PROVE epoch' >= epoch \/ failures' # failures
<1>0. epoch \in Nat
  BY Zenon DEF Inv, Globals
<1>1. CASE epoch' = epoch
  BY <1>0, <1>1
<1>2. ASSUME NEW t \in Threads, AdvanceStore(t), UNCHANGED poolVars PROVE epoch' >= epoch
  BY <1>2, AdvanceStoreKeeps, Zenon
<1>3. ASSUME NEW t \in Threads, Step(t) \/ ThreadCrash(t), epoch' # epoch PROVE AdvanceStore(t) /\ UNCHANGED poolVars
  BY <1>3, Zenon DEF Step, EpochStep, PinLoad, PinStore, AdvanceLoad, AdvanceCheck, Pop, PopDone, Unpin, Seal, PushBag,
              UnpinStore, Find, FindPin, Found, OldGuard, Registered, Reset, Start, Barrier, BarrierPass, Replay,
              Read, Unlink, Defer, Exit, ClearBegin, ClearSlot, ClearEnd, Repin, Unpinned, Repinned, ThreadCrash,
              epochVars
<1>4. SystemCrash => failures' # failures
  BY DEF SystemCrash, Inv, Globals
<1> QED
  BY <1>1, <1>2, <1>3, <1>4, Zenon DEF Next, vars, epochVars

\* The global epoch never goes back while the process lives, although try_advance stores a value
\* that it computed from what it read long before, and several threads may be in it.
THEOREM EpochMonotone == Spec => EpochNeverBack
<1>1. Inv /\ [Next]_vars => [epoch' >= epoch \/ failures' # failures]_vars
  BY EpochMovesOn, Zenon
<1> QED
  BY <1>1, Invariant, PTL DEF Spec, EpochNeverBack

-----------------------------------------------------------------------------
\* Destroyed once: initially, and after the process died.

\* What is retired is then in the mementos only.
LEMMA FreshSingle ==
    ASSUME Fresh, NEW t \in Threads
    PROVE  /\ th[t].bags = <<>> /\ loc[t].bag = <<>> /\ th[t].pc = "off" /\ DOMAIN queue = {}
           /\ \A n : ~Queued(n)
           /\ \A n : Retires(t, n) => \E k \in DOMAIN mem[t] : mem[t][k].op = "retire" /\ mem[t][k].node = n
<1>1. th[t].bags = <<>> /\ loc[t].bag = <<>> /\ th[t].pc = "off" /\ queue = <<>>
  BY NewThreadFields, NewLocalFields, Zenon DEF Fresh
<1>2. DOMAIN queue = {} /\ DOMAIN th[t].bags = {} /\ DOMAIN loc[t].bag = {}
  BY <1>1
<1> QED
  BY <1>1, <1>2, Zenon DEF Queued, Retires, In

\* Nothing is retired yet.
LEMMA InitSingle == Init => Single
<1> SUFFICES ASSUME Init PROVE Single
  BY Zenon
<1>1. Fresh
  BY Zenon DEF Init, EpochInit, AllOf, Fresh
<1>2. /\ \A n \in Nodes : destroyed[n] = 0
      /\ \A t \in Threads : mem[t] = <<>>
  BY Zenon DEF Init, EpochInit, AllOf
<1>3. \A t \in Threads : \A n : ~Retires(t, n)
  <2>1. \A t \in Threads : DOMAIN mem[t] = {}
    BY <1>2
  <2> QED
    BY <1>1, <2>1, FreshSingle, Zenon
<1>4. ASSUME NEW t \in Threads PROVE Bagged(t)
  <2>1. th[t].bags = <<>> /\ loc[t].bag = <<>> /\ th[t].pc = "off"
    BY <1>1, FreshSingle, Zenon
  <2>2. Distinct(loc[t].bag) /\ DOMAIN th[t].bags = {}
    BY <2>1 DEF Distinct
  <2> QED
    BY <1>3, <2>1, <2>2, Zenon DEF Bagged, RetiresOnce
<1>5. queue = <<>>
  BY <1>1, Zenon DEF Fresh
<1>6. DOMAIN queue = {}
  BY <1>5
<1> QED
  BY <1>2, <1>3, <1>4, <1>6, Zenon DEF Single, Queues, Gone, Apart

\* The process dies: the allocator collects what no memento reaches, and the mementos retire the
\* rest again.
LEMMA SystemCrashOnce == ASSUME Inv, Single, SystemCrash PROVE Single'
<1>1. Fresh' /\ mem' = mem /\ Roots' = Roots /\ Roots = Threads
  BY Zenon DEF SystemCrash, AllOf, Fresh, Roots
<1>2. ASSUME NEW t \in Threads
      PROVE  /\ th'[t].bags = <<>> /\ loc'[t].bag = <<>> /\ th'[t].pc = "off" /\ DOMAIN queue' = {}
             /\ \A n : ~Queued(n)'
             /\ \A n : Retires(t, n)' => \E k \in DOMAIN mem[t] : mem[t][k].op = "retire" /\ mem[t][k].node = n
  <2>1. th'[t] = NewThread("off") /\ loc'[t] = NewLocal /\ queue' = <<>>
    BY <1>1, Zenon DEF Fresh
  <2>2. th'[t].bags = <<>> /\ loc'[t].bag = <<>> /\ th'[t].pc = "off"
    BY <2>1, NewThreadFields, NewLocalFields, Zenon
  <2>3. DOMAIN queue' = {} /\ DOMAIN th'[t].bags = {} /\ DOMAIN loc'[t].bag = {}
    BY <2>1, <2>2
  <2> QED
    BY <1>1, <2>2, <2>3, Zenon DEF Queued, Retires, In
<1>3. ASSUME NEW t \in Threads, NEW n \in Nodes, Retires(t, n)' PROVE Retires(t, n) /\ n \in Held(t)
  <2>1. n # 0
    BY PoolAssumption, Zenon
  <2> QED
    BY <1>2, <1>3, <2>1, Zenon DEF Retires, Held
<1>4. ASSUME NEW n \in Nodes, destroyed'[n] # 0
      PROVE  destroyed'[n] = 1 /\ ~Queued(n)' /\ \A t \in Threads : ~Retires(t, n)'
  <2>1. ~Queued(n)'
    BY <1>1, <1>2 DEF Queued, Fresh
  <2>2. CASE n \in linked \cup UNION {Held(t) : t \in Threads}
    <3>1. destroyed'[n] = destroyed[n]
      BY <2>2, Zenon DEF SystemCrash
    <3> QED
      BY <1>3, <1>4, <2>1, <3>1, Zenon DEF Single, Gone
  <2>3. CASE n \notin linked \cup UNION {Held(t) : t \in Threads}
    <3>1. destroyed'[n] = 1 /\ \A t \in Threads : n \notin Held(t)
      BY <2>3, Zenon DEF SystemCrash
    <3> QED
      BY <1>3, <2>1, <3>1, Zenon
  <2> QED
    BY <2>2, <2>3, Zenon
<1>5. Apart'
  BY <1>3, Zenon DEF Single, Apart
<1>6. \A t \in Threads : Bagged(t)'
  BY <1>1, <1>2, Zenon DEF Bagged
<1>7. Queues'
  <2>1. queue' = <<>>
    BY Zenon DEF SystemCrash
  <2>2. DOMAIN queue' = {}
    BY <2>1
  <2> QED
    BY <2>2, Zenon DEF Queues
<1> QED
  BY <1>4, <1>5, <1>6, <1>7, Zenon DEF Single, Gone

\* A step that changes nothing.
LEMMA StutterOnce == ASSUME Inv, Single, UNCHANGED vars PROVE Single'
<1>1. UNCHANGED <<epoch, loc, leaked, queue, destroyed, th, scenario, mem>>
  BY Zenon DEF vars, epochVars, poolVars
<1>2. (\A s : Frozen(s)' <=> Frozen(s)) /\ Roots' = Roots
  BY <1>1, Zenon DEF Frozen, Roots
<1>3. \A t \in Threads : \A n : Retires(t, n)' <=> Retires(t, n)
  BY <1>1, Zenon DEF Retires
<1>4. \A n : Queued(n)' <=> Queued(n)
  BY <1>1, Zenon DEF Queued
<1>5. Queues'
  BY <1>1, <1>3 DEF Single, Queues, Lone, Frozen
<1>6. Gone' /\ Apart'
  BY <1>1, <1>3, <1>4, Zenon DEF Single, Gone, Apart
<1>7. ASSUME NEW t \in Threads PROVE Bagged(t)'
  <2>1. Bagged(t)
    BY Zenon DEF Single
  <2>2. RetiresOnce(t) => RetiresOnce(t)'
    BY <1>1, <1>3, <1>4, Zenon DEF RetiresOnce
  <2>3. Frozen(th[t].e) => Frozen(th[t].e)'
    BY <1>1, Zenon DEF Frozen
  <2> QED
    BY <1>1, <1>2, <2>1, <2>2, <2>3, Zenon DEF Bagged
<1> QED
  BY <1>5, <1>6, <1>7, Zenon DEF Single

-----------------------------------------------------------------------------
\* Every step.

\* Every step keeps the invariant of the retired nodes.
LEMMA NextSingle == Inv /\ Single /\ [Next]_vars => Single'
<1> SUFFICES ASSUME Inv, Single, [Next]_vars PROVE Single'
  BY Zenon
<1>1. ASSUME NEW t \in Threads, EpochStep(t), UNCHANGED poolVars PROVE Single'
  BY <1>1, EpochPlain, AdvanceOnce, CardinalityFacts, PopOnce, UnpinOnce, SealOnce, PushBagOnce, Zenon DEF EpochStep
<1>2. ASSUME NEW t \in Threads, OldGuard(t) PROVE Single'
  BY <1>2, EpochPlain, Zenon DEF OldGuard
<1>3. ASSUME NEW t \in Threads, Step(t) \/ ThreadCrash(t) PROVE Single'
  BY <1>1, <1>2, <1>3, PoolPlain, ReplayOnce, UnlinkOnce, DeferOnce, Zenon DEF Step
<1> QED
  BY <1>3, SystemCrashOnce, StutterOnce, Zenon DEF Next

\* No node is destroyed twice (Global::collect, Deferred::call), although a thread that is
\* re-executed defers the nodes of its memento again (defer_pdestroy), also after the bag that
\* the thread that died had put them into was sealed and pushed.
THEOREM DestroyedAtMostOnce == Spec => []DestroyedOnce
<1>1. Single => DestroyedOnce
  <2>1. Single => \A n \in Nodes : destroyed[n] \in {0, 1}
    BY Zenon DEF Single, Gone
  <2> QED
    BY <2>1 DEF DestroyedOnce
<1> QED
  BY <1>1, InitSingle, NextSingle, Invariant, PTL DEF Spec
=============================================================================
