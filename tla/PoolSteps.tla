----------------------------- MODULE PoolSteps -----------------------------
(***************************************************************************)
(* What a step of one thread leaves to the others, and the steps of the    *)
(* collector and of the threads of a pool that keep the invariant of       *)
(* PoolInvariant.                                                          *)
(***************************************************************************)
EXTENDS PoolInvariant

-----------------------------------------------------------------------------
\* Frames.

\* What is in the queue was sealed.
LEMMA QueueTypes == ASSUME Inv PROVE \A i \in DOMAIN queue : queue[i] \in Sealed /\ queue[i].epoch \in Nat
<1>1. queue \in Seq(Sealed)
  BY Zenon DEF Inv, Globals
<1>2. \A i \in DOMAIN queue : queue[i] \in Sealed
  BY <1>1
<1> QED
  BY <1>2, Zenon DEF Sealed

Others(t) ==
    \A u \in Threads \ {t} :
        /\ th'[u] = th[u] /\ loc'[u] = loc[u] /\ mem'[u] = mem[u]
        /\ cleared'[u] = cleared[u] /\ clearing'[u] = clearing[u] /\ hole'[u] = hole[u]

\* What holds of the other threads still holds when one thread moves.
LEMMA OwnFrame ==
    ASSUME Inv, NEW t \in Threads, Others(t), scenario' = scenario, leaked \subseteq leaked',
           epoch' \in Nat, epoch <= epoch', NEW u \in Threads \ {t}
    PROVE  Own(u)'
<1>1. Own(u) /\ epoch \in Nat
  BY Zenon DEF Inv, Globals
<1>2. /\ th'[u] = th[u] /\ loc'[u] = loc[u] /\ mem'[u] = mem[u]
      /\ cleared'[u] = cleared[u] /\ clearing'[u] = clearing[u] /\ hole'[u] = hole[u]
  BY Zenon DEF Others
<1>3. Roots' = Roots
  BY Zenon DEF Roots
<1>4. Types(u)' /\ Vectors(u)' /\ Returns(u)' /\ Clears(u)'
  BY <1>1, <1>2, Zenon DEF Own, Types, Vectors, Returns, Clears
<1>5. KnowsKind(u)'
  BY <1>1, <1>2, <1>3, Zenon DEF Own, KnowsKind, Finding, Bound
<1>6. Pinned(u)'
  <2>1. (EmptyMemento(u)' <=> EmptyMemento(u)) /\ (Unsettled(u)' <=> Unsettled(u)) /\ (Finding(u)' <=> Finding(u))
    BY <1>2, Zenon DEF EmptyMemento, Unsettled, Finding, Bound
  <2> QED
    BY <1>1, <1>2, <1>3, <2>1, Zenon DEF Own, Pinned, Bound
<1>7. Behind(u)'
  BY <1>1, <1>2 DEF Own, Types, Behind, None
<1>8. HoldsIt(u)'
  BY <1>1, <1>2, Zenon DEF Own, HoldsIt
<1> QED
  BY <1>4, <1>5, <1>6, <1>7, <1>8, Zenon DEF Own

\* A step of t that neither moves the epoch nor seals, pushes or pops a bag nor looks at the
\* others, and does not unpin t as long as it holds nodes.
Quiet(t) ==
    /\ Shape' /\ Others(t)
    /\ UNCHANGED <<epoch, queue, destroyed, scenario, linked>> /\ failures' \in Nat
    /\ leaked \subseteq leaked' /\ \A l \in leaked' : l[2] \in Nat /\ l[2] <= epoch
    /\ th'[t].pc \notin {"check", "sealed"}
    /\ Held(t)' \subseteq Held(t)
    /\ loc'[t].epoch = loc[t].epoch \/ loc[t].epoch = None \/ Held(t)' = {}
    /\ \A n \in linked : ~Retires(t, n)'

\* Such a step keeps what is safe.
LEMMA QuietSafe ==
    ASSUME Inv, NEW t \in Threads, Quiet(t), NEW v \in Threads, Held(v)' # {}, NEW s \in Nat, Safe(v, s)
    PROVE  Safe(v, s)'
<1>1. epoch' = epoch /\ leaked \subseteq leaked' /\ th'[t].pc # "check"
  BY Zenon DEF Quiet
<1>2. \A u \in Threads : u # t => th'[u] = th[u]
  BY Zenon DEF Quiet, Others
<1>3. loc[v].epoch # None => loc'[v].epoch = loc[v].epoch
  <2>1. CASE v = t
    BY <2>1, Zenon DEF Quiet
  <2>2. CASE v # t
    BY <2>2, Zenon DEF Quiet, Others
  <2> QED
    BY <2>1, <2>2, Zenon
<1>4. Guarded(v, s)'
  BY <1>1, <1>3, Zenon DEF Safe, Guarded
<1>5. ASSUME NEW u \in Threads, th'[u].pc = "check"
      PROVE  th'[u].ge <= s \/ (loc'[v].epoch # None /\ loc'[v].epoch <= s /\ v \in th'[u].todo)
  BY <1>1, <1>2, <1>3, <1>5, Zenon DEF Safe
<1> QED
  BY <1>1, <1>4, <1>5, Zenon DEF Safe

\* Reclamation stays safe if t retires no node of the structure, the queue stays as it is, and
\* what is safe for a thread that holds nodes stays safe.
LEMMA ReclaimFrame ==
    ASSUME Inv, NEW t \in Threads, Others(t), UNCHANGED <<queue, destroyed, linked>>,
           th'[t].pc # "sealed", Held(t)' \subseteq Held(t), \A n \in linked : ~Retires(t, n)',
           \A v \in Threads : \A s \in Nat : Held(v)' # {} /\ Safe(v, s) => Safe(v, s)'
    PROVE  Reclaim'
<1>1. queue' = queue /\ destroyed' = destroyed /\ linked' = linked
  BY Zenon
<1>2. \A u \in Threads : u # t => th'[u] = th[u] /\ loc'[u] = loc[u] /\ mem'[u] = mem[u]
  BY Zenon DEF Others
<1>3. \A n \in linked' : NotRetired(n)'
  <2> SUFFICES ASSUME NEW n \in linked PROVE NotRetired(n)'
    BY <1>1, Zenon
  <2>1. NotRetired(n)
    BY Zenon DEF Inv, Reclaim
  <2>2. \A u \in Threads : u # t => ~Retires(u, n)'
    BY <1>2, <2>1 DEF NotRetired, Retires
  <2> QED
    BY <1>1, <2>1, <2>2, Zenon DEF NotRetired
<1>4. ASSUME NEW v \in Threads, NEW n \in Held(v)' PROVE HeldSafely(v, n)'
  <2>1. n \in Held(v)
    <3>1. CASE v = t
      BY <1>4, <3>1, Zenon
    <3>2. CASE v # t
      BY <1>2, <1>4, <3>2, Zenon DEF Held
    <3> QED
      BY <3>1, <3>2, Zenon
  <2>2. HeldSafely(v, n)
    BY <2>1, Zenon DEF Inv, Reclaim
  <2>3. ASSUME NEW i \in DOMAIN queue', In(n, queue'[i].nodes)
        PROVE  Safe(v, queue[i].epoch)'
    <3>1. PICK s \in Nat : s = queue[i].epoch
      BY <1>1, QueueTypes, Zenon
    <3>2. Safe(v, s)
      BY <1>1, <2>2, <2>3, <3>1, Zenon DEF HeldSafely
    <3>3. Safe(v, s)'
      BY <1>4, <3>2, Zenon
    <3> QED
      BY <1>1, <3>1, <3>3, Zenon DEF Safe, Guarded
  <2>4. ASSUME NEW u \in Threads, th'[u].pc = "sealed", In(n, Pushed(u)')
        PROVE  Safe(v, th[u].e)'
    <3>1. u # t
      BY <2>4, Zenon
    <3>2. th'[u] = th[u] /\ th[u].e \in Nat
      BY <1>2, <3>1, Zenon DEF Inv, Own, Types
    <3>3. PICK s \in Nat : s = th[u].e
      BY <3>2, Zenon
    <3>4. Safe(v, s)
      BY <2>2, <2>4, <3>2, <3>3, Zenon DEF HeldSafely, Pushed
    <3>5. Safe(v, s)'
      BY <1>4, <3>4, Zenon
    <3> QED
      BY <3>2, <3>3, <3>5, Zenon DEF Safe, Guarded
  <2> QED
    BY <1>1, <2>2, <2>3, <2>4, Zenon DEF HeldSafely
<1> QED
  BY <1>3, <1>4, Zenon DEF Reclaim

\* A quiet step keeps the invariant if it keeps what is about its thread.
LEMMA QuietKeeps ==
    ASSUME Inv, NEW t \in Threads, Quiet(t), Own(t)'
    PROVE  Inv'
<1>1. epoch \in Nat /\ epoch' = epoch /\ queue' = queue /\ linked' = linked
  BY Zenon DEF Inv, Globals, Quiet
<1>2. Shape' /\ Globals'
  BY <1>1, Zenon DEF Quiet, Inv, Globals
<1>3. \A u \in Threads : Own(u)'
  BY <1>1, OwnFrame DEF Quiet
<1>4. \A u \in Threads : u # t => th'[u] = th[u] /\ loc'[u] = loc[u]
  BY Zenon DEF Quiet, Others
<1>5. \A u \in Threads : Anchors(u)'
  BY <1>1, <1>4, Zenon DEF Quiet, Inv, Anchors, Anchored
<1>6. Reclaim'
  BY QuietSafe, ReclaimFrame, Zenon DEF Quiet
<1> QED
  BY <1>2, <1>3, <1>5, <1>6, Zenon DEF Inv

\* A node of the structure is not retired.
LEMMA NoneRetired == ASSUME Inv, NEW t \in Threads, NEW n \in linked PROVE ~Retires(t, n)
  BY Zenon DEF Inv, Reclaim, NotRetired

\* A step that moves only t, retires nothing, and unpins t only when its memento is empty.
Moves(t) ==
    /\ Shape' /\ Others(t)
    /\ UNCHANGED <<epoch, queue, destroyed, scenario, linked, failures>>
    /\ leaked \subseteq leaked' /\ \A l \in leaked' : l[2] \in Nat /\ l[2] <= epoch
    /\ mem'[t] \in {mem[t], <<>>} /\ loc'[t].bag \in {loc[t].bag, <<>>} /\ th'[t].bags \in {th[t].bags, <<>>}
    /\ loc'[t].epoch = loc[t].epoch \/ loc[t].epoch = None \/ mem'[t] = <<>>
    /\ th'[t].pc \notin {"check", "sealed", "defer"}

\* Such a step is quiet.
LEMMA MovesKeeps ==
    ASSUME Inv, NEW t \in Threads, Moves(t), Own(t)'
    PROVE  Inv'
<1>1. /\ mem'[t] = mem[t] \/ mem'[t] = <<>>
      /\ loc'[t].bag = loc[t].bag \/ loc'[t].bag = <<>>
      /\ th'[t].bags = th[t].bags \/ th'[t].bags = <<>>
      /\ th'[t].pc \notin {"check", "sealed", "defer"}
  BY Zenon DEF Moves
<1>2. \A n \in linked : ~Retires(t, n)'
  BY <1>1, NoneRetired DEF Retires, In
<1>3. Held(t)' \subseteq Held(t) /\ (mem'[t] = <<>> => Held(t)' = {})
  BY <1>1 DEF Held
<1>4. failures \in Nat
  BY Zenon DEF Inv, Globals
<1>5. Quiet(t)
  BY <1>2, <1>3, <1>4, Zenon DEF Moves, Quiet
<1> QED
  BY <1>5, QuietKeeps, Zenon

-----------------------------------------------------------------------------
\* Steps.

\* Where t goes, with what it reads.
Goes(t, pc, ret, e) ==
    /\ DOMAIN th' = Threads /\ DOMAIN th'[t] = ThFields
    /\ \A u \in Threads \ {t} : th'[u] = th[u]
    /\ th'[t].pc = pc /\ th'[t].ret = ret /\ th'[t].e = e /\ th'[t].k \in Nat \ {0}
    /\ th'[t].ge = th[t].ge /\ th'[t].todo = th[t].todo /\ th'[t].bags = th[t].bags

\* What its participant becomes.
Becomes(t, reg, ep, guards, repin) ==
    /\ DOMAIN loc' = Threads /\ DOMAIN loc'[t] = LocFields
    /\ \A u \in Threads \ {t} : loc'[u] = loc[u]
    /\ loc'[t].reg = reg /\ loc'[t].epoch = ep /\ loc'[t].guards = guards /\ loc'[t].repin = repin
    /\ loc'[t].bag = loc[t].bag

\* What a step that changes only t has to show.
LEMMA Assembled ==
    ASSUME Inv, NEW t \in Threads, Moves(t), Types(t)', Returns(t)', Clears(t)', KnowsKind(t)',
           Pinned(t)', Behind(t)', HoldsIt(t)'
    PROVE  Inv'
<1>1. Vectors(t)
  BY Zenon DEF Inv, Own
<1>2. <<>> \in Seq(Bag) /\ <<>> \in Seq(Nodes) /\ <<>> \in Seq(Result)
  OBVIOUS
<1>3. th'[t].bags \in Seq(Bag) /\ loc'[t].bag \in Seq(Nodes) /\ mem'[t] \in Seq(Result)
  BY <1>1, <1>2, Zenon DEF Moves, Vectors
<1>4. \A k \in DOMAIN mem'[t] : mem'[t][k].op = "retire" => mem'[t][k].node \in Nodes
  BY <1>1 DEF Moves, Vectors
<1>5. Vectors(t)'
  BY <1>3, <1>4, Zenon DEF Vectors, Moves
<1> QED
  BY <1>5, MovesKeeps, Zenon DEF Own

\* Local::pin counts the guard.
LEMMA PinLoadKeeps ==
    ASSUME Inv, NEW t \in Threads, PinLoad(t), UNCHANGED poolVars
    PROVE  Inv'
<1>0. Shape /\ Own(t) /\ Globals /\ th[t].pc = "pin"
  BY Zenon DEF Inv, PinLoad, At
<1>1. CASE loc[t].guards = 0
  <2>1. /\ Goes(t, "pin_store", th[t].ret, epoch)
        /\ Becomes(t, loc[t].reg, loc[t].epoch, loc[t].guards + 1, loc[t].repin)
        /\ UNCHANGED <<epoch, queue, destroyed, scenario, linked, failures, mem, cleared, clearing, hole, leaked>>
    BY <1>0, <1>1 DEF PinLoad, At, Goto, Call, Return, epochVars, poolVars, Goes, Becomes, Shape, Own, Types, ThFields, LocFields
  <2>3. Types(t)'
    BY <1>0, <1>1, <2>1 DEF Goes, Becomes, Own, Types, Globals
  <2>4. Returns(t)' /\ Clears(t)' /\ KnowsKind(t)'
    BY <1>0, <1>1, <2>1, Zenon DEF Goes, Own, Returns, Clears, KnowsKind, Finding, Bound, Roots, Pinning, Collecting, Unpinning
  <2>5. Pinned(t)'
    BY <1>0, <1>1, <2>1, Zenon DEF Goes, Becomes, Own, Types, Returns, Clears, KnowsKind, Pinned, EmptyMemento, Unsettled, Finding, Bound, Roots, Pinning, Collecting, Unpinning
  <2>6. Behind(t)' /\ HoldsIt(t)'
    BY <1>0, <1>1, <2>1 DEF Goes, Becomes, Own, Returns, KnowsKind, Behind, HoldsIt, Globals, Finding, Bound, Pinning, Collecting, Unpinning
  <2>7. Moves(t)
    BY <1>0, <1>1, <2>1, Zenon DEF Goes, Becomes, Globals, Shape, Moves, Others, Own, Returns, Pinned, EmptyMemento, Pinning, Collecting, Unpinning
  <2> QED
    BY <2>3, <2>4, <2>5, <2>6, <2>7, Assembled, Zenon
<1>2. CASE loc[t].guards > 0
  <2>1. /\ Goes(t, th[t].ret, th[t].ret, th[t].e)
        /\ Becomes(t, loc[t].reg, loc[t].epoch, loc[t].guards + 1, loc[t].repin)
        /\ UNCHANGED <<epoch, queue, destroyed, scenario, linked, failures, mem, cleared, clearing, hole, leaked>>
    BY <1>0, <1>2 DEF PinLoad, At, Goto, Call, Return, epochVars, poolVars, Goes, Becomes, Shape, Own, Types, ThFields, LocFields
  <2>3. Types(t)'
    BY <1>0, <1>2, <2>1, SMTT(30) DEF Goes, Becomes, Own, Types, Globals
  <2>4. Returns(t)' /\ Clears(t)' /\ KnowsKind(t)'
    BY <1>0, <1>2, <2>1, Zenon DEF Goes, Own, Returns, Clears, KnowsKind, Finding, Bound, Roots, Pinning, Collecting, Unpinning
  <2>5. Pinned(t)'
    BY <1>0, <1>2, <2>1 DEF Goes, Becomes, Own, Types, Returns, Clears, KnowsKind, Pinned, EmptyMemento, Unsettled, Finding, Bound, Roots, Pinning, Collecting, Unpinning
  <2>6. Behind(t)' /\ HoldsIt(t)'
    BY <1>0, <1>2, <2>1, Zenon DEF Goes, Becomes, Own, Returns, KnowsKind, Behind, HoldsIt, Globals, Finding, Bound, Pinning, Collecting, Unpinning
  <2>7. Moves(t)
    BY <1>0, <1>2, <2>1, Zenon DEF Goes, Becomes, Globals, Shape, Moves, Others, Own, Returns, Pinned, EmptyMemento, Pinning, Collecting, Unpinning
  <2> QED
    BY <2>3, <2>4, <2>5, <2>6, <2>7, Assembled, Zenon
<1> QED
  BY <1>0, <1>1, <1>2, Zenon DEF PinLoad, At, Own, Types

\* Local::pin stores an epoch that may be old.
LEMMA PinStoreKeeps ==
    ASSUME Inv, NEW t \in Threads, PinStore(t), UNCHANGED poolVars
    PROVE  Inv'
<1>0. Shape /\ Own(t) /\ Globals /\ th[t].pc = "pin_store"
  BY Zenon DEF Inv, PinStore, At
<1>1. CASE loc[t].pins = 0
  <2>1. /\ Goes(t, "advance", th[t].ret, th[t].e)
        /\ Becomes(t, loc[t].reg, loc'[t].epoch, loc[t].guards, loc[t].repin)
        /\ UNCHANGED <<epoch, queue, destroyed, scenario, linked, failures, mem, cleared, clearing, hole, leaked>>
    BY <1>0, <1>1 DEF PinStore, At, Goto, Call, Return, epochVars, poolVars, Goes, Becomes, Shape, Own, Types, ThFields, LocFields
  <2>2. /\ loc'[t].epoch \in Nat /\ loc'[t].epoch <= epoch
        /\ loc[t].epoch # None => loc'[t].epoch = loc[t].epoch
    BY <1>0, <1>1, Zenon DEF PinStore, At, Goto, Call, Return, epochVars, poolVars, Shape, Own, Types, Behind, Globals, None, LocFields
  <2>3. Types(t)'
    BY <1>0, <1>1, <2>1, <2>2, Zenon DEF Goes, Becomes, Own, Types
  <2>4. Returns(t)' /\ Clears(t)' /\ KnowsKind(t)'
    BY <1>0, <1>1, <2>1, <2>2, Zenon DEF Goes, Own, Returns, Clears, KnowsKind, Finding, Bound, Roots, Pinning, Collecting, Unpinning
  <2>5. Pinned(t)'
    BY <1>0, <1>1, <2>1, <2>2 DEF Goes, Becomes, Own, Returns, Clears, KnowsKind, Pinned, EmptyMemento, Unsettled, Finding, Bound, Roots, Pinning, Collecting, Unpinning, None
  <2>6. Behind(t)' /\ HoldsIt(t)'
    BY <1>0, <1>1, <2>1, <2>2 DEF Goes, Becomes, Own, Returns, KnowsKind, Behind, HoldsIt, Globals, Finding, Bound, Pinning, Collecting, Unpinning, None
  <2>7. Moves(t)
    BY <1>0, <1>1, <2>1, <2>2, Zenon DEF Goes, Becomes, Globals, Shape, Moves, Others, Own, Returns, Pinned, EmptyMemento, Pinning, Collecting, Unpinning
  <2> QED
    BY <2>3, <2>4, <2>5, <2>6, <2>7, Assembled, Zenon
<1>2. CASE loc[t].pins # 0
  <2>1. /\ Goes(t, th[t].ret, th[t].ret, th[t].e)
        /\ Becomes(t, loc[t].reg, loc'[t].epoch, loc[t].guards, loc[t].repin)
        /\ UNCHANGED <<epoch, queue, destroyed, scenario, linked, failures, mem, cleared, clearing, hole, leaked>>
    BY <1>0, <1>2 DEF PinStore, At, Goto, Call, Return, epochVars, poolVars, Goes, Becomes, Shape, Own, Types, ThFields, LocFields
  <2>2. /\ loc'[t].epoch \in Nat /\ loc'[t].epoch <= epoch
        /\ loc[t].epoch # None => loc'[t].epoch = loc[t].epoch
    BY <1>0, <1>2, Zenon DEF PinStore, At, Goto, Call, Return, epochVars, poolVars, Shape, Own, Types, Behind, Globals, None, LocFields
  <2>3. Types(t)'
    BY <1>0, <1>2, <2>1, <2>2, Zenon DEF Goes, Becomes, Own, Types
  <2>4. Returns(t)' /\ Clears(t)' /\ KnowsKind(t)'
    BY <1>0, <1>2, <2>1, <2>2, Zenon DEF Goes, Own, Returns, Clears, KnowsKind, Finding, Bound, Roots, Pinning, Collecting, Unpinning
  <2>5. Pinned(t)'
    BY <1>0, <1>2, <2>1, <2>2 DEF Goes, Becomes, Own, Returns, Clears, KnowsKind, Pinned, EmptyMemento, Unsettled, Finding, Bound, Roots, Pinning, Collecting, Unpinning, None
  <2>6. Behind(t)' /\ HoldsIt(t)'
    BY <1>0, <1>2, <2>1, <2>2, Zenon DEF Goes, Becomes, Own, Returns, KnowsKind, Behind, HoldsIt, Globals, Finding, Bound, Pinning, Collecting, Unpinning, None
  <2>7. Moves(t)
    BY <1>0, <1>2, <2>1, <2>2, Zenon DEF Goes, Becomes, Globals, Shape, Moves, Others, Own, Returns, Pinned, EmptyMemento, Pinning, Collecting, Unpinning
  <2> QED
    BY <2>3, <2>4, <2>5, <2>6, <2>7, Assembled, Zenon
<1> QED
  BY <1>0, <1>1, <1>2, Zenon DEF PinStore, At

\* Global::collect returns.
LEMMA PopDoneKeeps ==
    ASSUME Inv, NEW t \in Threads, PopDone(t), UNCHANGED poolVars
    PROVE  Inv'
<1>0. Shape /\ Own(t) /\ Globals /\ th[t].pc = "pop"
  BY Zenon DEF Inv, PopDone, At
<1>1. /\ Goes(t, th[t].ret, th[t].ret, th[t].e)
      /\ Becomes(t, loc[t].reg, loc[t].epoch, loc[t].guards, loc[t].repin)
      /\ UNCHANGED <<epoch, queue, destroyed, scenario, linked, failures, mem, cleared, clearing, hole, leaked>>
  BY <1>0, Zenon DEF PopDone, At, Goto, Call, Return, epochVars, poolVars, Goes, Becomes, Shape, Own, Types, ThFields, LocFields
<1>3. Types(t)'
  BY <1>0, <1>1, Zenon DEF Goes, Becomes, Own, Types
<1>4. Returns(t)' /\ Clears(t)' /\ KnowsKind(t)'
  BY <1>0, <1>1, Zenon DEF Goes, Own, Returns, Clears, KnowsKind, Finding, Bound, Roots, Pinning, Collecting, Unpinning
<1>5. Pinned(t)'
  BY <1>0, <1>1, Zenon DEF Goes, Becomes, Own, Returns, Clears, KnowsKind, Pinned, EmptyMemento, Unsettled, Finding, Bound, Roots, Pinning, Collecting, Unpinning
<1>6. Behind(t)' /\ HoldsIt(t)'
  BY <1>0, <1>1, Zenon DEF Goes, Becomes, Own, Returns, KnowsKind, Behind, HoldsIt, Globals, Finding, Bound, Pinning, Collecting, Unpinning
<1>7. Moves(t)
  BY <1>0, <1>1, Zenon DEF Goes, Becomes, Globals, Shape, Moves, Others, Own, Returns, Pinned, EmptyMemento, Pinning, Collecting, Unpinning
<1> QED
  BY <1>3, <1>4, <1>5, <1>6, <1>7, Assembled, Zenon

\* Local::unpin takes the pin away; the memento is empty by then.
LEMMA UnpinStoreKeeps ==
    ASSUME Inv, NEW t \in Threads, UnpinStore(t), UNCHANGED poolVars
    PROVE  Inv'
<1>0. Shape /\ Own(t) /\ Globals /\ th[t].pc = "unpin_store"
  BY Zenon DEF Inv, UnpinStore, At
<1>1. /\ Goes(t, th[t].ret, th[t].ret, th[t].e)
      /\ Becomes(t, loc[t].reg, None, loc[t].guards, loc[t].repin)
      /\ UNCHANGED <<epoch, queue, destroyed, scenario, linked, failures, mem, cleared, clearing, hole, leaked>>
  BY <1>0, Zenon DEF UnpinStore, At, Goto, Call, Return, epochVars, poolVars, Goes, Becomes, Shape, Own, Types, ThFields, LocFields
<1>3. Types(t)'
  BY <1>0, <1>1, Zenon DEF Goes, Becomes, Own, Types
<1>4. Returns(t)' /\ Clears(t)' /\ KnowsKind(t)'
  BY <1>0, <1>1, Zenon DEF Goes, Own, Returns, Clears, KnowsKind, Finding, Bound, Roots, Pinning, Collecting, Unpinning
<1>5. Pinned(t)'
  BY <1>0, <1>1, Zenon DEF Goes, Becomes, Own, Returns, Clears, KnowsKind, Pinned, EmptyMemento, Unsettled, Finding, Bound, Roots, Pinning, Collecting, Unpinning
<1>6. Behind(t)' /\ HoldsIt(t)'
  BY <1>0, <1>1, Zenon DEF Goes, Becomes, Own, Returns, KnowsKind, Behind, HoldsIt, Globals, Finding, Bound, Pinning, Collecting, Unpinning
<1>7. Moves(t)
  BY <1>0, <1>1, Zenon DEF Goes, Becomes, Globals, Shape, Moves, Others, Own, Returns, Pinned, EmptyMemento, Pinning, Collecting, Unpinning
<1> QED
  BY <1>3, <1>4, <1>5, <1>6, <1>7, Assembled, Zenon

\* Local::find reads the epoch for a temporary participant.
LEMMA FindKeeps ==
    ASSUME Inv, NEW t \in Threads, Find(t), UNCHANGED poolVars
    PROVE  Inv'
<1>0. Shape /\ Own(t) /\ Globals /\ th[t].pc = "find"
  BY Zenon DEF Inv, Find, At
<1>1. /\ Goes(t, "find_pin", th[t].ret, epoch)
      /\ Becomes(t, loc[t].reg, loc[t].epoch, loc[t].guards, loc[t].repin)
      /\ UNCHANGED <<epoch, queue, destroyed, scenario, linked, failures, mem, cleared, clearing, hole, leaked>>
  BY <1>0, Zenon DEF Find, At, Goto, Call, Return, epochVars, poolVars, Goes, Becomes, Shape, Own, Types, ThFields, LocFields
<1>3. Types(t)'
  BY <1>0, <1>1, Zenon DEF Goes, Becomes, Own, Types, Globals
<1>4. Returns(t)' /\ Clears(t)' /\ KnowsKind(t)'
  BY <1>0, <1>1, Zenon DEF Goes, Own, Returns, Clears, KnowsKind, Finding, Bound, Roots, Pinning, Collecting, Unpinning
<1>5. Pinned(t)'
  BY <1>0, <1>1, Zenon DEF Goes, Becomes, Own, Returns, Clears, KnowsKind, Pinned, EmptyMemento, Unsettled, Finding, Bound, Roots, Pinning, Collecting, Unpinning
<1>6. Behind(t)' /\ HoldsIt(t)'
  BY <1>0, <1>1 DEF Goes, Becomes, Own, Returns, KnowsKind, Behind, HoldsIt, Globals, Finding, Bound, Pinning, Collecting, Unpinning
<1>7. Moves(t)
  BY <1>0, <1>1, Zenon DEF Goes, Becomes, Globals, Shape, Moves, Others, Own, Returns, Pinned, EmptyMemento, Pinning, Collecting, Unpinning
<1> QED
  BY <1>3, <1>4, <1>5, <1>6, <1>7, Assembled, Zenon

\* Local::find pins it.
LEMMA FindPinKeeps ==
    ASSUME Inv, NEW t \in Threads, FindPin(t), UNCHANGED poolVars
    PROVE  Inv'
<1>0. Shape /\ Own(t) /\ Globals /\ th[t].pc = "find_pin"
  BY Zenon DEF Inv, FindPin, At
<1>1. /\ Goes(t, "advance", "found", th[t].e)
      /\ Becomes(t, loc[t].reg, loc[t].epoch, loc[t].guards, loc[t].repin)
      /\ UNCHANGED <<epoch, queue, destroyed, scenario, linked, failures, mem, cleared, clearing, hole>>
  BY <1>0, Zenon DEF FindPin, At, Goto, Call, Return, epochVars, poolVars, Goes, Becomes, Shape, Own, Types, ThFields, LocFields
<1>a. leaked' = leaked \cup {<<t, th[t].e>>} /\ th[t].e \in Nat /\ th[t].e <= epoch
  BY <1>0, Zenon DEF FindPin, Own, Types, Behind
<1>b. <<t, th[t].e>>[2] = th[t].e
  BY Zenon
<1>2. /\ leaked \subseteq leaked' /\ leaked' # {}
      /\ \A l \in leaked' : l[2] \in Nat /\ l[2] <= epoch
  BY <1>0, <1>a, <1>b, Zenon DEF Globals
<1>3. Types(t)'
  BY <1>0, <1>1, <1>2, Zenon DEF Goes, Becomes, Own, Types
<1>4. Returns(t)' /\ Clears(t)' /\ KnowsKind(t)'
  BY <1>0, <1>1, <1>2, Zenon DEF Goes, Own, Returns, Clears, KnowsKind, Finding, Bound, Roots, Pinning, Collecting, Unpinning
<1>5. Pinned(t)'
  BY <1>0, <1>1, <1>2, Zenon DEF Goes, Becomes, Own, Returns, Clears, KnowsKind, Pinned, EmptyMemento, Unsettled, Finding, Bound, Roots, Pinning, Collecting, Unpinning
<1>6. Behind(t)' /\ HoldsIt(t)'
  BY <1>0, <1>1, <1>2, Zenon DEF Goes, Becomes, Own, Returns, KnowsKind, Behind, HoldsIt, Globals, Finding, Bound, Pinning, Collecting, Unpinning
<1>7. Moves(t)
  BY <1>0, <1>1, <1>2, Zenon DEF Goes, Becomes, Globals, Shape, Moves, Others, Own, Returns, Pinned, EmptyMemento, Pinning, Collecting, Unpinning
<1> QED
  BY <1>3, <1>4, <1>5, <1>6, <1>7, Assembled, Zenon

\* old_guard takes over the participant that the thread left behind.
LEMMA TakeOverKeeps ==
    ASSUME Inv, NEW t \in Threads, Found(t), OwnerFound(t), UNCHANGED poolVars
    PROVE  Inv'
<1>0. Shape /\ Own(t) /\ Globals /\ th[t].pc = "found"
  BY Zenon DEF Inv, Found, OwnerFound, At
<1>a. loc' = [loc EXCEPT ![t].guards = IF loc[t].repin THEN 1 ELSE @] /\ Call(t, "pin", "reset")
  BY Zenon DEF Found
<1>1. /\ Goes(t, "pin", "reset", th[t].e)
      /\ Becomes(t, loc[t].reg, loc[t].epoch, loc'[t].guards, loc[t].repin)
      /\ UNCHANGED <<epoch, queue, destroyed, scenario, linked, failures, mem, cleared, clearing, hole, leaked>>
  BY <1>0, <1>a, Zenon DEF Found, OwnerFound, At, Goto, Call, Return, epochVars, poolVars, Goes, Becomes, Shape, Own, Types, ThFields, LocFields
<1>2. /\ loc'[t].guards \in Nat /\ (~loc[t].repin => loc'[t].guards = loc[t].guards)
  BY <1>0, <1>a, Zenon DEF Found, OwnerFound, At, Goto, Call, Return, epochVars, poolVars, Shape, Own, Types, LocFields
<1>3. Types(t)'
  BY <1>0, <1>a, <1>1, <1>2, Zenon DEF Goes, Becomes, Own, Types
<1>4. Returns(t)' /\ Clears(t)' /\ KnowsKind(t)'
  BY <1>0, <1>a, <1>1, <1>2, Zenon DEF Goes, Own, Returns, Clears, KnowsKind, Finding, Bound, Roots, Pinning, Collecting, Unpinning
<1>5. Pinned(t)'
  BY <1>0, <1>a, <1>1, <1>2, Zenon DEF Goes, Becomes, Own, Returns, Clears, KnowsKind, Pinned, EmptyMemento, Unsettled, Finding, Bound, Roots, Pinning, Collecting, Unpinning, OwnerFound
<1>6. Behind(t)' /\ HoldsIt(t)'
  BY <1>0, <1>a, <1>1, <1>2, Zenon DEF Goes, Becomes, Own, Returns, KnowsKind, Behind, HoldsIt, Globals, Finding, Bound, Pinning, Collecting, Unpinning
<1>7. Moves(t)
  BY <1>0, <1>a, <1>1, <1>2, Zenon DEF Goes, Becomes, Globals, Shape, Moves, Others, Own, Returns, Pinned, EmptyMemento, Pinning, Collecting, Unpinning
<1> QED
  BY <1>3, <1>4, <1>5, <1>6, <1>7, Assembled, Zenon

\* execute starts a thread.
LEMMA StartKeeps ==
    ASSUME Inv, NEW t \in Threads, Start(t)
    PROVE  Inv'
<1>0. Shape /\ Own(t) /\ Globals /\ th[t].pc = "off"
  BY Zenon DEF Inv, Start, At
<1>1. CASE t \in Roots /\ ResumesClearing(t)
  <2>1. /\ Goes(t, "clear", "find", th[t].e)
        /\ Becomes(t, loc[t].reg, loc[t].epoch, loc[t].guards, loc[t].repin)
        /\ UNCHANGED <<epoch, queue, destroyed, scenario, linked, failures, mem, cleared, clearing, hole, leaked>>
    BY <1>0, <1>1 DEF Start, At, Goto, Call, Return, epochVars, poolVars, Goes, Becomes, Shape, Own, Types, ThFields, LocFields
  <2>3. Types(t)'
    BY <1>0, <1>1, <2>1, Zenon DEF Goes, Becomes, Own, Types
  <2>4. Returns(t)' /\ Clears(t)' /\ KnowsKind(t)'
    BY <1>0, <1>1, <2>1, Zenon DEF Goes, Own, Returns, Clears, KnowsKind, Finding, Bound, Roots, Pinning, Collecting, Unpinning, ResumesClearing
  <2>5. Pinned(t)'
    BY <1>0, <1>1, <2>1, Zenon DEF Goes, Becomes, Own, Returns, Clears, KnowsKind, Pinned, EmptyMemento, Unsettled, Finding, Bound, Roots, Pinning, Collecting, Unpinning, ResumesClearing
  <2>6. Behind(t)' /\ HoldsIt(t)'
    BY <1>0, <1>1, <2>1, Zenon DEF Goes, Becomes, Own, Returns, KnowsKind, Behind, HoldsIt, Globals, Finding, Bound, Pinning, Collecting, Unpinning
  <2>7. Moves(t)
    BY <1>0, <1>1, <2>1, Zenon DEF Goes, Becomes, Globals, Shape, Moves, Others, Own, Returns, Pinned, EmptyMemento, Pinning, Collecting, Unpinning
  <2> QED
    BY <2>3, <2>4, <2>5, <2>6, <2>7, Assembled, Zenon
<1>2. CASE t \in Roots /\ ~ResumesClearing(t)
  <2>1. /\ Goes(t, "find", th[t].ret, th[t].e)
        /\ Becomes(t, loc[t].reg, loc[t].epoch, loc[t].guards, loc[t].repin)
        /\ UNCHANGED <<epoch, queue, destroyed, scenario, linked, failures, mem, cleared, clearing, hole, leaked>>
    BY <1>0, <1>2 DEF Start, At, Goto, Call, Return, epochVars, poolVars, Goes, Becomes, Shape, Own, Types, ThFields, LocFields
  <2>3. Types(t)'
    BY <1>0, <1>2, <2>1, Zenon DEF Goes, Becomes, Own, Types
  <2>4. Returns(t)' /\ Clears(t)' /\ KnowsKind(t)'
    BY <1>0, <1>2, <2>1, Zenon DEF Goes, Own, Returns, Clears, KnowsKind, Finding, Bound, Roots, Pinning, Collecting, Unpinning, ResumesClearing
  <2>5. Pinned(t)'
    BY <1>0, <1>2, <2>1, Zenon DEF Goes, Becomes, Own, Returns, Clears, KnowsKind, Pinned, EmptyMemento, Unsettled, Finding, Bound, Roots, Pinning, Collecting, Unpinning
  <2>6. Behind(t)' /\ HoldsIt(t)'
    BY <1>0, <1>2, <2>1, Zenon DEF Goes, Becomes, Own, Returns, KnowsKind, Behind, HoldsIt, Globals, Finding, Bound, Pinning, Collecting, Unpinning
  <2>7. Moves(t)
    BY <1>0, <1>2, <2>1, Zenon DEF Goes, Becomes, Globals, Shape, Moves, Others, Own, Returns, Pinned, EmptyMemento, Pinning, Collecting, Unpinning
  <2> QED
    BY <2>3, <2>4, <2>5, <2>6, <2>7, Assembled, Zenon
<1>3. CASE t \notin Roots
  <2>1. /\ Goes(t, "pin", "replay", th[t].e)
        /\ Becomes(t, TRUE, loc[t].epoch, loc[t].guards, loc[t].repin)
        /\ UNCHANGED <<epoch, queue, destroyed, scenario, linked, failures, mem, cleared, clearing, hole, leaked>>
    BY <1>0, <1>3 DEF Start, At, Goto, Call, Return, epochVars, poolVars, Goes, Becomes, Shape, Own, Types, ThFields, LocFields
  <2>3. Types(t)'
    BY <1>0, <1>3, <2>1, Zenon DEF Goes, Becomes, Own, Types
  <2>4. Returns(t)' /\ Clears(t)' /\ KnowsKind(t)'
    BY <1>0, <1>3, <2>1, Zenon DEF Goes, Own, Returns, Clears, KnowsKind, Finding, Bound, Roots, Pinning, Collecting, Unpinning
  <2>5. Pinned(t)'
    BY <1>0, <1>3, <2>1, Zenon DEF Goes, Becomes, Own, Returns, Clears, KnowsKind, Pinned, EmptyMemento, Unsettled, Finding, Bound, Roots, Pinning, Collecting, Unpinning
  <2>6. Behind(t)' /\ HoldsIt(t)'
    BY <1>0, <1>3, <2>1, Zenon DEF Goes, Becomes, Own, Returns, KnowsKind, Behind, HoldsIt, Globals, Finding, Bound, Pinning, Collecting, Unpinning
  <2>7. Moves(t)
    BY <1>0, <1>3, <2>1, Zenon DEF Goes, Becomes, Globals, Shape, Moves, Others, Own, Returns, Pinned, EmptyMemento, Pinning, Collecting, Unpinning
  <2> QED
    BY <2>3, <2>4, <2>5, <2>6, <2>7, Assembled, Zenon
<1> QED
  BY <1>0, <1>1, <1>2, <1>3, Zenon DEF Start, At

\* old_guard pins the new participant.
LEMMA RegisteredKeeps ==
    ASSUME Inv, NEW t \in Threads, Registered(t, "barrier"), UNCHANGED poolVars
    PROVE  Inv'
<1>0. Shape /\ Own(t) /\ Globals /\ th[t].pc = "registered"
  BY Zenon DEF Inv, Registered, At
<1>1. /\ Goes(t, "pin", "barrier", th[t].e)
      /\ Becomes(t, loc[t].reg, loc[t].epoch, loc[t].guards, loc[t].repin)
      /\ UNCHANGED <<epoch, queue, destroyed, scenario, linked, failures, mem, cleared, clearing, hole, leaked>>
  BY <1>0, Zenon DEF Registered, At, Goto, Call, Return, epochVars, poolVars, Goes, Becomes, Shape, Own, Types, ThFields, LocFields
<1>3. Types(t)'
  BY <1>0, <1>1, Zenon DEF Goes, Becomes, Own, Types
<1>4. Returns(t)' /\ Clears(t)' /\ KnowsKind(t)'
  BY <1>0, <1>1, Zenon DEF Goes, Own, Returns, Clears, KnowsKind, Finding, Bound, Roots, Pinning, Collecting, Unpinning
<1>5. Pinned(t)'
  BY <1>0, <1>1, Zenon DEF Goes, Becomes, Own, Returns, Clears, KnowsKind, Pinned, EmptyMemento, Unsettled, Finding, Bound, Roots, Pinning, Collecting, Unpinning
<1>6. Behind(t)' /\ HoldsIt(t)'
  BY <1>0, <1>1, Zenon DEF Goes, Becomes, Own, Returns, KnowsKind, Behind, HoldsIt, Globals, Finding, Bound, Pinning, Collecting, Unpinning
<1>7. Moves(t)
  BY <1>0, <1>1, Zenon DEF Goes, Becomes, Globals, Shape, Moves, Others, Own, Returns, Pinned, EmptyMemento, Pinning, Collecting, Unpinning
<1> QED
  BY <1>3, <1>4, <1>5, <1>6, <1>7, Assembled, Zenon

\* old_guard resets the participant it took over.
LEMMA ResetKeeps ==
    ASSUME Inv, NEW t \in Threads, Reset(t, "barrier"), UNCHANGED poolVars
    PROVE  Inv'
<1>0. Shape /\ Own(t) /\ Globals /\ th[t].pc = "reset"
  BY Zenon DEF Inv, Reset, ResetLocal, At
<1>1. /\ Goes(t, "advance", "barrier", th[t].e)
      /\ Becomes(t, loc[t].reg, loc[t].epoch, 1, FALSE)
      /\ UNCHANGED <<epoch, queue, destroyed, scenario, linked, failures, mem, cleared, clearing, hole, leaked>>
  BY <1>0, Zenon DEF Reset, ResetLocal, At, Goto, Call, Return, epochVars, poolVars, Goes, Becomes, Shape, Own, Types, ThFields, LocFields
<1>2. /\ loc'[t].guards \in Nat
  BY <1>0, Zenon DEF Reset, ResetLocal, At, Goto, Call, Return, epochVars, poolVars, Shape, Own, Types, LocFields
<1>3. Types(t)'
  BY <1>0, <1>1, <1>2, Zenon DEF Goes, Becomes, Own, Types
<1>4. Returns(t)' /\ Clears(t)' /\ KnowsKind(t)'
  BY <1>0, <1>1, <1>2, Zenon DEF Goes, Own, Returns, Clears, KnowsKind, Finding, Bound, Roots, Pinning, Collecting, Unpinning
<1>5. Pinned(t)'
  BY <1>0, <1>1, <1>2, Zenon DEF Goes, Becomes, Own, Returns, Clears, KnowsKind, Pinned, EmptyMemento, Unsettled, Finding, Bound, Roots, Pinning, Collecting, Unpinning
<1>6. Behind(t)' /\ HoldsIt(t)'
  BY <1>0, <1>1, <1>2, Zenon DEF Goes, Becomes, Own, Returns, KnowsKind, Behind, HoldsIt, Globals, Finding, Bound, Pinning, Collecting, Unpinning
<1>7. Moves(t)
  BY <1>0, <1>1, <1>2, Zenon DEF Goes, Becomes, Globals, Shape, Moves, Others, Own, Returns, Pinned, EmptyMemento, Pinning, Collecting, Unpinning
<1> QED
  BY <1>3, <1>4, <1>5, <1>6, <1>7, Assembled, Zenon

\* barrier_wait raises the flag of the thread.
LEMMA BarrierKeeps ==
    ASSUME Inv, NEW t \in Threads, Barrier(t)
    PROVE  Inv'
<1>0. Shape /\ Own(t) /\ Globals /\ th[t].pc = "barrier"
  BY Zenon DEF Inv, Barrier, At
<1>1. /\ Goes(t, "wait", th[t].ret, th[t].e)
      /\ Becomes(t, loc[t].reg, loc[t].epoch, loc[t].guards, loc[t].repin)
      /\ UNCHANGED <<epoch, queue, destroyed, scenario, linked, failures, mem, cleared, clearing, hole, leaked>>
  BY <1>0, Zenon DEF Barrier, At, Goto, Call, Return, epochVars, poolVars, Goes, Becomes, Shape, Own, Types, ThFields, LocFields
<1>3. Types(t)'
  BY <1>0, <1>1, Zenon DEF Goes, Becomes, Own, Types
<1>4. Returns(t)' /\ Clears(t)' /\ KnowsKind(t)'
  BY <1>0, <1>1, Zenon DEF Goes, Own, Returns, Clears, KnowsKind, Finding, Bound, Roots, Pinning, Collecting, Unpinning
<1>5. Pinned(t)'
  BY <1>0, <1>1, Zenon DEF Goes, Becomes, Own, Returns, Clears, KnowsKind, Pinned, EmptyMemento, Unsettled, Finding, Bound, Roots, Pinning, Collecting, Unpinning
<1>6. Behind(t)' /\ HoldsIt(t)'
  BY <1>0, <1>1, Zenon DEF Goes, Becomes, Own, Returns, KnowsKind, Behind, HoldsIt, Globals, Finding, Bound, Pinning, Collecting, Unpinning
<1>7. Moves(t)
  BY <1>0, <1>1, Zenon DEF Goes, Becomes, Globals, Shape, Moves, Others, Own, Returns, Pinned, EmptyMemento, Pinning, Collecting, Unpinning
<1> QED
  BY <1>3, <1>4, <1>5, <1>6, <1>7, Assembled, Zenon

\* barrier_wait returns.
LEMMA BarrierPassKeeps ==
    ASSUME Inv, NEW t \in Threads, BarrierPass(t)
    PROVE  Inv'
<1>0. Shape /\ Own(t) /\ Globals /\ th[t].pc = "wait"
  BY Zenon DEF Inv, BarrierPass, At
<1>1. /\ Goes(t, "replay", th[t].ret, th[t].e)
      /\ Becomes(t, loc[t].reg, loc[t].epoch, loc[t].guards, loc[t].repin)
      /\ UNCHANGED <<epoch, queue, destroyed, scenario, linked, failures, mem, cleared, clearing, hole, leaked>>
  BY <1>0, Zenon DEF BarrierPass, At, Goto, Call, Return, epochVars, poolVars, Goes, Becomes, Shape, Own, Types, ThFields, LocFields
<1>3. Types(t)'
  BY <1>0, <1>1, Zenon DEF Goes, Becomes, Own, Types
<1>4. Returns(t)' /\ Clears(t)' /\ KnowsKind(t)'
  BY <1>0, <1>1, Zenon DEF Goes, Own, Returns, Clears, KnowsKind, Finding, Bound, Roots, Pinning, Collecting, Unpinning
<1>5. Pinned(t)'
  BY <1>0, <1>1, Zenon DEF Goes, Becomes, Own, Returns, Clears, KnowsKind, Pinned, EmptyMemento, Unsettled, Finding, Bound, Roots, Pinning, Collecting, Unpinning
<1>6. Behind(t)' /\ HoldsIt(t)'
  BY <1>0, <1>1, Zenon DEF Goes, Becomes, Own, Returns, KnowsKind, Behind, HoldsIt, Globals, Finding, Bound, Pinning, Collecting, Unpinning
<1>7. Moves(t)
  BY <1>0, <1>1, Zenon DEF Goes, Becomes, Globals, Shape, Moves, Others, Own, Returns, Pinned, EmptyMemento, Pinning, Collecting, Unpinning
<1> QED
  BY <1>3, <1>4, <1>5, <1>6, <1>7, Assembled, Zenon

\* A thread ends.
LEMMA ExitKeeps ==
    ASSUME Inv, NEW t \in Threads, Exit(t)
    PROVE  Inv'
<1>0. Shape /\ Own(t) /\ Globals /\ th[t].pc = "run"
  BY Zenon DEF Inv, Exit, At
<1>1. /\ Goes(t, "done", th[t].ret, th[t].e)
      /\ Becomes(t, loc[t].reg, loc[t].epoch, loc[t].guards, loc[t].repin)
      /\ UNCHANGED <<epoch, queue, destroyed, scenario, linked, failures, mem, cleared, clearing, hole, leaked>>
  BY <1>0, Zenon DEF Exit, At, Goto, Call, Return, epochVars, poolVars, Goes, Becomes, Shape, Own, Types, ThFields, LocFields
<1>3. Types(t)'
  BY <1>0, <1>1, Zenon DEF Goes, Becomes, Own, Types
<1>4. Returns(t)' /\ Clears(t)' /\ KnowsKind(t)'
  BY <1>0, <1>1, Zenon DEF Goes, Own, Returns, Clears, KnowsKind, Finding, Bound, Roots, Pinning, Collecting, Unpinning
<1>5. Pinned(t)'
  BY <1>0, <1>1, Zenon DEF Goes, Becomes, Own, Returns, Clears, KnowsKind, Pinned, EmptyMemento, Unsettled, Finding, Bound, Roots, Pinning, Collecting, Unpinning
<1>6. Behind(t)' /\ HoldsIt(t)'
  BY <1>0, <1>1, Zenon DEF Goes, Becomes, Own, Returns, KnowsKind, Behind, HoldsIt, Globals, Finding, Bound, Pinning, Collecting, Unpinning
<1>7. Moves(t)
  BY <1>0, <1>1, Zenon DEF Goes, Becomes, Globals, Shape, Moves, Others, Own, Returns, Pinned, EmptyMemento, Pinning, Collecting, Unpinning
<1> QED
  BY <1>3, <1>4, <1>5, <1>6, <1>7, Assembled, Zenon

\* repin_guard begins to clear the memento.
LEMMA ClearBeginKeeps ==
    ASSUME Inv, NEW t \in Threads, ClearBegin(t)
    PROVE  Inv'
<1>0. Shape /\ Own(t) /\ Globals /\ th[t].pc = "run"
  BY Zenon DEF Inv, ClearBegin, At
<1>1. /\ Goes(t, "clear", "repin", th[t].e)
      /\ Becomes(t, loc[t].reg, loc[t].epoch, loc[t].guards, loc[t].repin)
      /\ UNCHANGED <<epoch, queue, destroyed, scenario, linked, failures, mem, cleared, hole, leaked>>
  BY <1>0, Zenon DEF ClearBegin, At, Goto, Call, Return, epochVars, poolVars, Goes, Becomes, Shape, Own, Types, ThFields, LocFields
<1>2. /\ clearing'[t] = TRUE /\ DOMAIN clearing' = Threads
      /\ \A u \in Threads \ {t} : clearing'[u] = clearing[u]
  BY <1>0, Zenon DEF ClearBegin, At, Goto, Call, Return, epochVars, poolVars, Shape, Own, Types
<1>3. Types(t)'
  BY <1>0, <1>1, <1>2, Zenon DEF Goes, Becomes, Own, Types
<1>4. Returns(t)' /\ Clears(t)' /\ KnowsKind(t)'
  BY <1>0, <1>1, <1>2, Zenon DEF Goes, Own, Returns, Clears, KnowsKind, Finding, Bound, Roots, Pinning, Collecting, Unpinning
<1>5. Pinned(t)'
  BY <1>0, <1>1, <1>2, Zenon DEF Goes, Becomes, Own, Returns, Clears, KnowsKind, Pinned, EmptyMemento, Unsettled, Finding, Bound, Roots, Pinning, Collecting, Unpinning
<1>6. Behind(t)' /\ HoldsIt(t)'
  BY <1>0, <1>1, <1>2, Zenon DEF Goes, Becomes, Own, Returns, KnowsKind, Behind, HoldsIt, Globals, Finding, Bound, Pinning, Collecting, Unpinning
<1>7. Moves(t)
  BY <1>0, <1>1, <1>2, Zenon DEF Goes, Becomes, Globals, Shape, Moves, Others, Own, Returns, Pinned, EmptyMemento, Pinning, Collecting, Unpinning
<1> QED
  BY <1>3, <1>4, <1>5, <1>6, <1>7, Assembled, Zenon

\* One more slot is cleared.
LEMMA ClearSlotKeeps ==
    ASSUME Inv, NEW t \in Threads, ClearSlot(t)
    PROVE  Inv'
<1>0. Shape /\ Own(t) /\ Globals /\ th[t].pc = "clear"
  BY Zenon DEF Inv, ClearSlot, At
<1>1. /\ Goes(t, th[t].pc, th[t].ret, th[t].e)
      /\ Becomes(t, loc[t].reg, loc[t].epoch, loc[t].guards, loc[t].repin)
      /\ UNCHANGED <<epoch, queue, destroyed, scenario, linked, failures, mem, clearing, hole, leaked>>
  BY <1>0, Zenon DEF ClearSlot, At, Goto, Call, Return, epochVars, poolVars, Goes, Becomes, Shape, Own, Types, ThFields, LocFields
<1>2. /\ DOMAIN cleared' = Threads /\ \A u \in Threads \ {t} : cleared'[u] = cleared[u]
  BY <1>0, Zenon DEF ClearSlot, At, Goto, Call, Return, epochVars, poolVars, Shape, Own, Types
<1>3. Types(t)'
  BY <1>0, <1>1, <1>2, Zenon DEF Goes, Becomes, Own, Types
<1>4. Returns(t)' /\ Clears(t)' /\ KnowsKind(t)'
  BY <1>0, <1>1, <1>2, Zenon DEF Goes, Own, Returns, Clears, KnowsKind, Finding, Bound, Roots, Pinning, Collecting, Unpinning
<1>5. Pinned(t)'
  BY <1>0, <1>1, <1>2, Zenon DEF Goes, Becomes, Own, Returns, Clears, KnowsKind, Pinned, EmptyMemento, Unsettled, Finding, Bound, Roots, Pinning, Collecting, Unpinning
<1>6. Behind(t)' /\ HoldsIt(t)'
  BY <1>0, <1>1, <1>2, Zenon DEF Goes, Becomes, Own, Returns, KnowsKind, Behind, HoldsIt, Globals, Finding, Bound, Pinning, Collecting, Unpinning
<1>7. Moves(t)
  BY <1>0, <1>1, <1>2, Zenon DEF Goes, Becomes, Globals, Shape, Moves, Others, Own, Returns, Pinned, EmptyMemento, Pinning, Collecting, Unpinning
<1> QED
  BY <1>3, <1>4, <1>5, <1>6, <1>7, Assembled, Zenon

\* The memento is clear.
LEMMA ClearEndKeeps ==
    ASSUME Inv, NEW t \in Threads, ClearEnd(t)
    PROVE  Inv'
<1>0. Shape /\ Own(t) /\ Globals /\ th[t].pc = "clear"
  BY Zenon DEF Inv, ClearEnd, At
<1>1. /\ Goes(t, th[t].ret, th[t].ret, th[t].e)
      /\ Becomes(t, loc[t].reg, loc[t].epoch, loc[t].guards, loc[t].repin)
      /\ UNCHANGED <<epoch, queue, destroyed, scenario, linked, failures, hole, leaked>>
  BY <1>0, Zenon DEF ClearEnd, At, Goto, Call, Return, epochVars, poolVars, Goes, Becomes, Shape, Own, Types, ThFields, LocFields
<1>2. /\ mem'[t] = <<>> /\ cleared'[t] = 0 /\ clearing'[t] = FALSE
      /\ DOMAIN mem' = Threads /\ DOMAIN cleared' = Threads /\ DOMAIN clearing' = Threads
      /\ \A u \in Threads \ {t} : mem'[u] = mem[u] /\ cleared'[u] = cleared[u] /\ clearing'[u] = clearing[u]
  BY <1>0, Zenon DEF ClearEnd, At, Goto, Call, Return, epochVars, poolVars, Shape, Own, Types
<1>3. Types(t)'
  BY <1>0, <1>1, <1>2, Zenon DEF Goes, Becomes, Own, Types
<1>4. Returns(t)' /\ Clears(t)' /\ KnowsKind(t)'
  BY <1>0, <1>1, <1>2, Zenon DEF Goes, Own, Returns, Clears, KnowsKind, Finding, Bound, Roots, Pinning, Collecting, Unpinning
<1>5. Pinned(t)'
  BY <1>0, <1>1, <1>2, Zenon DEF Goes, Becomes, Own, Returns, Clears, KnowsKind, Pinned, EmptyMemento, Unsettled, Finding, Bound, Roots, Pinning, Collecting, Unpinning
<1>6. Behind(t)' /\ HoldsIt(t)'
  BY <1>0, <1>1, <1>2, Zenon DEF Goes, Becomes, Own, Returns, KnowsKind, Behind, HoldsIt, Globals, Finding, Bound, Pinning, Collecting, Unpinning
<1>7. Moves(t)
  BY <1>0, <1>1, <1>2, Zenon DEF Goes, Becomes, Globals, Shape, Moves, Others, Own, Returns, Pinned, EmptyMemento, Pinning, Collecting, Unpinning
<1> QED
  BY <1>3, <1>4, <1>5, <1>6, <1>7, Assembled, Zenon

\* repin_after notes that it is under way.
LEMMA RepinKeeps ==
    ASSUME Inv, NEW t \in Threads, Repin(t)
    PROVE  Inv'
<1>0. Shape /\ Own(t) /\ Globals /\ th[t].pc = "repin"
  BY Zenon DEF Inv, Repin, At
<1>1. /\ Goes(t, "unpin", "unpinned", th[t].e)
      /\ Becomes(t, loc[t].reg, loc[t].epoch, loc[t].guards, TRUE)
      /\ UNCHANGED <<epoch, queue, destroyed, scenario, linked, failures, mem, cleared, clearing, hole, leaked>>
  BY <1>0, Zenon DEF Repin, At, Goto, Call, Return, epochVars, poolVars, Goes, Becomes, Shape, Own, Types, ThFields, LocFields
<1>3. Types(t)'
  BY <1>0, <1>1, Zenon DEF Goes, Becomes, Own, Types
<1>4. Returns(t)' /\ Clears(t)' /\ KnowsKind(t)'
  BY <1>0, <1>1, Zenon DEF Goes, Own, Returns, Clears, KnowsKind, Finding, Bound, Roots, Pinning, Collecting, Unpinning
<1>5. Pinned(t)'
  BY <1>0, <1>1, Zenon DEF Goes, Becomes, Own, Returns, Clears, KnowsKind, Pinned, EmptyMemento, Unsettled, Finding, Bound, Roots, Pinning, Collecting, Unpinning
<1>6. Behind(t)' /\ HoldsIt(t)'
  BY <1>0, <1>1, Zenon DEF Goes, Becomes, Own, Returns, KnowsKind, Behind, HoldsIt, Globals, Finding, Bound, Pinning, Collecting, Unpinning
<1>7. Moves(t)
  BY <1>0, <1>1, Zenon DEF Goes, Becomes, Globals, Shape, Moves, Others, Own, Returns, Pinned, EmptyMemento, Pinning, Collecting, Unpinning
<1> QED
  BY <1>3, <1>4, <1>5, <1>6, <1>7, Assembled, Zenon

\* repin_after pins again.
LEMMA UnpinnedKeeps ==
    ASSUME Inv, NEW t \in Threads, Unpinned(t)
    PROVE  Inv'
<1>0. Shape /\ Own(t) /\ Globals /\ th[t].pc = "unpinned"
  BY Zenon DEF Inv, Unpinned, At
<1>1. /\ Goes(t, "pin", "repinned", th[t].e)
      /\ Becomes(t, loc[t].reg, loc[t].epoch, loc[t].guards, loc[t].repin)
      /\ UNCHANGED <<epoch, queue, destroyed, scenario, linked, failures, mem, cleared, clearing, hole, leaked>>
  BY <1>0, Zenon DEF Unpinned, At, Goto, Call, Return, epochVars, poolVars, Goes, Becomes, Shape, Own, Types, ThFields, LocFields
<1>3. Types(t)'
  BY <1>0, <1>1, Zenon DEF Goes, Becomes, Own, Types
<1>4. Returns(t)' /\ Clears(t)' /\ KnowsKind(t)'
  BY <1>0, <1>1, Zenon DEF Goes, Own, Returns, Clears, KnowsKind, Finding, Bound, Roots, Pinning, Collecting, Unpinning
<1>5. Pinned(t)'
  BY <1>0, <1>1, Zenon DEF Goes, Becomes, Own, Returns, Clears, KnowsKind, Pinned, EmptyMemento, Unsettled, Finding, Bound, Roots, Pinning, Collecting, Unpinning
<1>6. Behind(t)' /\ HoldsIt(t)'
  BY <1>0, <1>1, Zenon DEF Goes, Becomes, Own, Returns, KnowsKind, Behind, HoldsIt, Globals, Finding, Bound, Pinning, Collecting, Unpinning
<1>7. Moves(t)
  BY <1>0, <1>1, Zenon DEF Goes, Becomes, Globals, Shape, Moves, Others, Own, Returns, Pinned, EmptyMemento, Pinning, Collecting, Unpinning
<1> QED
  BY <1>3, <1>4, <1>5, <1>6, <1>7, Assembled, Zenon

\* repin_after is over.
LEMMA RepinnedKeeps ==
    ASSUME Inv, NEW t \in Threads, Repinned(t)
    PROVE  Inv'
<1>0. Shape /\ Own(t) /\ Globals /\ th[t].pc = "repinned"
  BY Zenon DEF Inv, Repinned, At
<1>1. /\ Goes(t, "run", th[t].ret, th[t].e)
      /\ Becomes(t, loc[t].reg, loc[t].epoch, loc[t].guards, FALSE)
      /\ UNCHANGED <<epoch, queue, destroyed, scenario, linked, failures, mem, cleared, clearing, leaked>>
  BY <1>0, Zenon DEF Repinned, At, Goto, Call, Return, epochVars, poolVars, Goes, Becomes, Shape, Own, Types, ThFields, LocFields
<1>2. /\ hole'[t] = FALSE /\ DOMAIN hole' = Threads
      /\ \A u \in Threads \ {t} : hole'[u] = hole[u]
  BY <1>0, Zenon DEF Repinned, At, Goto, Call, Return, epochVars, poolVars, Shape, Own, Types
<1>3. Types(t)'
  BY <1>0, <1>1, <1>2, Zenon DEF Goes, Becomes, Own, Types
<1>4. Returns(t)' /\ Clears(t)' /\ KnowsKind(t)'
  BY <1>0, <1>1, <1>2, Zenon DEF Goes, Own, Returns, Clears, KnowsKind, Finding, Bound, Roots, Pinning, Collecting, Unpinning
<1>5. Pinned(t)'
  BY <1>0, <1>1, <1>2, Zenon DEF Goes, Becomes, Own, Returns, Clears, KnowsKind, Pinned, EmptyMemento, Unsettled, Finding, Bound, Roots, Pinning, Collecting, Unpinning
<1>6. Behind(t)' /\ HoldsIt(t)'
  BY <1>0, <1>1, <1>2, Zenon DEF Goes, Becomes, Own, Returns, KnowsKind, Behind, HoldsIt, Globals, Finding, Bound, Pinning, Collecting, Unpinning
<1>7. Moves(t)
  BY <1>0, <1>1, <1>2, Zenon DEF Goes, Becomes, Globals, Shape, Moves, Others, Own, Returns, Pinned, EmptyMemento, Pinning, Collecting, Unpinning
<1> QED
  BY <1>3, <1>4, <1>5, <1>6, <1>7, Assembled, Zenon
\* old_guard makes a new participant.
LEMMA NewParticipantKeeps ==
    ASSUME Inv, NEW t \in Threads, Found(t), ~OwnerFound(t), UNCHANGED poolVars
    PROVE  Inv'
<1>0. Shape /\ Own(t) /\ Globals /\ th[t].pc = "found"
  BY Zenon DEF Inv, Found, At
<1>1. loc' = [loc EXCEPT ![t] = [NewLocal EXCEPT !.reg = TRUE]] /\ Call(t, "advance", "registered")
  BY Zenon DEF Found
<1>2. /\ Goes(t, "advance", "registered", th[t].e)
      /\ UNCHANGED <<epoch, queue, destroyed, scenario, linked, failures, mem, cleared, clearing, hole, leaked>>
  BY <1>0, <1>1, Zenon DEF Found, Call, poolVars, Goes, Shape, Own, Types, ThFields
<1>3. /\ DOMAIN loc' = Threads /\ \A u \in Threads \ {t} : loc'[u] = loc[u]
      /\ loc'[t] = [NewLocal EXCEPT !.reg = TRUE]
  BY <1>0, <1>1, Zenon DEF Shape
<1>4. /\ DOMAIN loc'[t] = LocFields /\ loc'[t].reg = TRUE /\ loc'[t].epoch = None
      /\ loc'[t].guards = 0 /\ loc'[t].repin = FALSE /\ loc'[t].bag = <<>>
  BY <1>3, Zenon DEF NewLocal, LocFields
<1>5. loc[t].epoch = None
  BY <1>0, Zenon DEF Own, Pinned, OwnerFound
<1>6. Types(t)'
  BY <1>0, <1>2, <1>4 DEF Goes, Own, Types
<1>7. Returns(t)' /\ Clears(t)' /\ KnowsKind(t)'
  BY <1>0, <1>2, Zenon DEF Goes, Own, Returns, Clears, KnowsKind, Finding, Bound, Roots, Pinning, Collecting, Unpinning
<1>8. Pinned(t)'
  BY <1>0, <1>2, <1>4, Zenon DEF Goes, Own, Clears, KnowsKind, Pinned, EmptyMemento, Unsettled, Finding, Bound, Roots,
                          Pinning, Collecting, Unpinning
<1>9. Behind(t)' /\ HoldsIt(t)'
  BY <1>0, <1>2, <1>4, Zenon DEF Goes, Own, KnowsKind, Behind, HoldsIt, Finding, Bound
<1>10. Moves(t)
  BY <1>0, <1>2, <1>3, <1>4, <1>5, Zenon DEF Goes, Globals, Shape, Moves, Others
<1> QED
  BY <1>6, <1>7, <1>8, <1>9, <1>10, Assembled, Zenon

\* The record of a thread that starts.
LEMMA NewThreadFields ==
    /\ DOMAIN NewThread("off") = ThFields
    /\ NewThread("off").pc = "off" /\ NewThread("off").e = 0 /\ NewThread("off").ge = 0
    /\ NewThread("off").k = 1 /\ NewThread("off").bags = <<>>
<1>1. DOMAIN NewThread("off") = ThFields
  BY Zenon DEF NewThread, ThFields
<1> QED
  BY <1>1, Zenon DEF NewThread

\* A root thread dies, and its participant is left as it is.
LEMMA ThreadCrashKeeps ==
    ASSUME Inv, NEW t \in Threads, ThreadCrash(t)
    PROVE  Inv'
<1>0. Shape /\ Own(t) /\ Globals /\ t \in Roots
  BY Zenon DEF Inv, ThreadCrash
<1>1. /\ UNCHANGED <<epoch, queue, destroyed, loc, leaked, scenario, linked, failures, mem, cleared, clearing>>
      /\ DOMAIN th' = Threads /\ \A u \in Threads \ {t} : th'[u] = th[u]
      /\ th'[t] = NewThread("off")
      /\ DOMAIN hole' = Threads /\ \A u \in Threads \ {t} : hole'[u] = hole[u]
  BY <1>0, Zenon DEF ThreadCrash, epochVars, Shape
<1>2. ~hole'[t] => ~hole[t] /\ (loc[t].epoch # None \/ (~(loc[t].guards > 0) /\ ~loc[t].repin))
  BY <1>0, Zenon DEF ThreadCrash, Shape
<1>3. /\ DOMAIN th'[t] = ThFields /\ th'[t].pc = "off" /\ th'[t].e = 0 /\ th'[t].ge = 0
      /\ th'[t].k = 1 /\ th'[t].bags = <<>>
  BY <1>1, NewThreadFields, Zenon
<1>4. Types(t)'
  BY <1>0, <1>1, <1>3, SMTT(30) DEF Own, Types
<1>5. Returns(t)' /\ Clears(t)' /\ KnowsKind(t)'
  BY <1>0, <1>1, <1>3, Zenon DEF Own, Returns, Clears, KnowsKind, Finding, Bound, Roots, Pinning, Collecting, Unpinning
<1>6. ~hole'[t] /\ loc[t].epoch = None => loc[t].guards = 0 /\ ~loc[t].repin
  BY <1>0, <1>2 DEF Own, Types
<1>7. Pinned(t)'
  BY <1>0, <1>1, <1>2, <1>3, <1>6, Zenon DEF Own, Pinned, EmptyMemento, Unsettled, Finding, Bound, Roots,
                                Pinning, Collecting, Unpinning
<1>8. Behind(t)' /\ HoldsIt(t)'
  BY <1>0, <1>1, <1>3, Zenon DEF Own, Behind, HoldsIt
<1>9. Moves(t)
  BY <1>0, <1>1, <1>3, Zenon DEF Globals, Shape, Moves, Others
<1> QED
  BY <1>4, <1>5, <1>7, <1>8, <1>9, Assembled, Zenon

-----------------------------------------------------------------------------
\* Epochs and bags.

\* What a step of t has to show.
LEMMA Combined ==
    ASSUME Inv, NEW t \in Threads, Others(t), scenario' = scenario, leaked \subseteq leaked',
           epoch' \in Nat, epoch <= epoch', Shape', Globals', Own(t)',
           \A u \in Threads : Anchors(u)', Reclaim'
    PROVE  Inv'
  BY OwnFrame, Zenon DEF Inv

-----------------------------------------------------------------------------
\* Global::collect.

\* A step inside collect.
Collects(t) ==
    /\ th[t].pc \in Collecting /\ th'[t].pc \in {"check", "pop"}
    /\ DOMAIN th' = Threads /\ \A u \in Threads \ {t} : th'[u] = th[u]
    /\ DOMAIN th'[t] = ThFields /\ th'[t].ge \in Nat /\ th'[t].k \in Nat \ {0}
    /\ th'[t].ret = th[t].ret /\ th'[t].e = th[t].e /\ th'[t].bags = th[t].bags
    /\ UNCHANGED <<loc, leaked, scenario, linked, failures, mem, cleared, clearing, hole>>

\* It leaves alone all that is not about epochs.
LEMMA CollectsOwn ==
    ASSUME Inv, NEW t \in Threads, Collects(t)
    PROVE  /\ Shape' /\ Others(t)
           /\ Types(t)' /\ Vectors(t)' /\ Returns(t)' /\ Clears(t)' /\ KnowsKind(t)' /\ Pinned(t)'
           /\ Held(t)' \subseteq Held(t) /\ \A n \in linked : ~Retires(t, n)'
<1>0. Shape /\ Own(t)
  BY Zenon DEF Inv
<1>1. Shape' /\ Others(t)
  BY <1>0, Zenon DEF Collects, Shape, Others
<1>2. Types(t)'
  BY <1>0, Zenon DEF Collects, Own, Types
<1>3. Vectors(t)'
  BY <1>0, Zenon DEF Collects, Own, Vectors
<1>4. Returns(t)' /\ Clears(t)' /\ KnowsKind(t)'
  BY <1>0, Zenon DEF Collects, Own, Returns, Clears, KnowsKind, Finding, Bound, Roots, Pinning, Collecting, Unpinning
<1>5. Pinned(t)'
  BY <1>0, Zenon DEF Collects, Own, Pinned, EmptyMemento, Unsettled, Finding, Bound, Roots, Pinning, Collecting, Unpinning
<1>6. Held(t)' \subseteq Held(t)
  BY Zenon DEF Collects, Held
<1>7. \A n \in linked : ~Retires(t, n)'
  BY NoneRetired, Zenon DEF Collects, Retires
<1> QED
  BY <1>1, <1>2, <1>3, <1>4, <1>5, <1>6, <1>7, Zenon

\* A step inside collect that leaves the queue alone: what it has to show.
LEMMA CollectsKeeps ==
    ASSUME Inv, NEW t \in Threads, Collects(t), UNCHANGED <<queue, destroyed>>, epoch' \in Nat, epoch <= epoch',
           Behind(t)', HoldsIt(t)', \A u \in Threads : Anchors(u)',
           \A v \in Threads : \A s \in Nat : Safe(v, s) => Safe(v, s)'
    PROVE  Inv'
<1>1. scenario' = scenario /\ leaked' = leaked /\ linked' = linked /\ failures' = failures /\ th'[t].pc # "sealed"
  BY Zenon DEF Collects
<1>2. Globals'
  BY <1>1 DEF Inv, Globals
<1>3. Reclaim'
  BY <1>1, CollectsOwn, ReclaimFrame, Zenon
<1> QED
  BY <1>1, <1>2, <1>3, CollectsOwn, Combined, Zenon DEF Own

\* try_advance reads the epoch and begins to go through the participants.
LEMMA AdvanceLoadKeeps ==
    ASSUME Inv, NEW t \in Threads, AdvanceLoad(t), UNCHANGED poolVars
    PROVE  Inv'
<1>0. Shape /\ Own(t) /\ Globals /\ th[t].pc = "advance"
  BY Zenon DEF Inv, AdvanceLoad, At
<1>1. Collects(t) /\ UNCHANGED <<epoch, queue, destroyed>>
  BY <1>0, Zenon DEF AdvanceLoad, epochVars, poolVars, Collects, Collecting, Shape, Own, Types, ThFields, Globals
<1>2. /\ th'[t].ge = epoch /\ th'[t].todo = {u \in Threads : loc[u].reg}
      /\ th'[t].pc = "check" => \A l \in leaked : l[2] = epoch
  BY <1>0, Zenon DEF AdvanceLoad, Shape, Own, Types, ThFields
<1>3. \A v \in Threads : loc[v].epoch # None => v \in th'[t].todo
  BY <1>2, Zenon DEF Inv, Own, Pinned
<1>4. Behind(t)' /\ HoldsIt(t)'
  BY <1>0, <1>1, <1>2, <1>3 DEF Collects, Own, Behind, HoldsIt, Globals
<1>5. ASSUME NEW u \in Threads, Anchored(u)' PROVE Anchors(u)'
  <2>1. CASE u = t
    BY <1>0, <1>1, <1>2, <2>1 DEF Inv, Own, Behind, Collects, Anchors, Globals
  <2>2. CASE u # t
    <3>1. th'[u] = th[u] /\ loc' = loc /\ epoch' = epoch /\ leaked' = leaked
      BY <1>1, <2>2, Zenon DEF Collects
    <3>2. Anchored(u) /\ HoldsIt(u) /\ th[u].ge \in Nat /\ epoch \in Nat
      BY <1>5, <3>1, Zenon DEF Anchored, Inv, Own, Types, Globals
    <3>3. epoch <= th[u].ge + 1
      BY <3>2, Zenon DEF Inv, Anchors
    <3>4. th'[t].pc = "check" => th'[t].ge <= th[u].ge \/ (loc[u].epoch # None /\ u \in th'[t].todo)
      BY <1>2, <1>3, <3>2, <3>3 DEF HoldsIt, Anchored
    <3> QED
      BY <1>1, <3>1, <3>2, <3>3, <3>4, Zenon DEF Inv, Anchors, Collects
  <2> QED
    BY <2>1, <2>2, Zenon
<1>6. ASSUME NEW v \in Threads, NEW s \in Nat, Safe(v, s) PROVE Safe(v, s)'
  <2>1. th'[t].pc = "check" => th'[t].ge <= s \/ (loc[v].epoch # None /\ loc[v].epoch <= s /\ v \in th'[t].todo)
    BY <1>0, <1>2, <1>3, <1>6, Zenon DEF Safe, Guarded, Globals
  <2> QED
    BY <1>1, <1>6, <2>1, Zenon DEF Safe, Guarded, Collects
<1>7. \A u \in Threads : Anchors(u)'
  BY <1>5, Zenon DEF Anchors
<1> QED
  BY <1>0, <1>1, <1>4, <1>6, <1>7, CollectsKeeps DEF Globals

\* try_advance looks at a participant.
LEMMA AdvanceCheckKeeps ==
    ASSUME Inv, NEW t \in Threads, AdvanceCheck(t), UNCHANGED poolVars
    PROVE  Inv'
<1>0. Shape /\ Own(t) /\ Globals /\ th[t].pc = "check"
  BY Zenon DEF Inv, AdvanceCheck, At
<1>1. PICK w \in th[t].todo :
          /\ th' = IF HoldsBack(w, th[t].ge) THEN [th EXCEPT ![t].pc = "pop"] ELSE [th EXCEPT ![t].todo = @ \ {w}]
          /\ UNCHANGED <<epoch, loc, leaked, queue, destroyed>>
  BY Zenon DEF AdvanceCheck, epochVars
<1>2. /\ Collects(t) /\ UNCHANGED <<epoch, queue, destroyed>> /\ th'[t].ge = th[t].ge
      /\ th'[t].pc = "check" => ~HoldsBack(w, th[t].ge) /\ th'[t].todo = th[t].todo \ {w}
  BY <1>0, <1>1, Zenon DEF poolVars, Collects, Collecting, Shape, Own, Types, ThFields
<1>3. Behind(t)' /\ HoldsIt(t)'
  BY <1>0, <1>2, Zenon DEF Collects, Own, Behind, HoldsIt, HoldsBack
<1>4. ASSUME NEW u \in Threads, Anchored(u)' PROVE Anchors(u)'
  <2>1. loc' = loc /\ epoch' = epoch /\ th'[u].ge = th[u].ge /\ Anchored(u)
    BY <1>0, <1>2, <1>4, Zenon DEF Collects, Anchored
  <2>2. th'[t].pc = "check" => th[t].ge <= th[u].ge \/ (loc[u].epoch # None /\ u \in th[t].todo \ {w})
    BY <1>0, <1>2, <2>1 DEF Inv, Own, Types, Anchors, Anchored, HoldsBack
  <2> QED
    BY <1>2, <2>1, <2>2 DEF Inv, Anchors, Collects
<1>5. ASSUME NEW v \in Threads, NEW s \in Nat, Safe(v, s) PROVE Safe(v, s)'
  <2>1. th'[t].pc = "check" => th[t].ge <= s \/ (loc[v].epoch # None /\ loc[v].epoch <= s /\ v \in th[t].todo \ {w})
    BY <1>0, <1>2, <1>5, Zenon DEF Safe, HoldsBack, Own, Types
  <2> QED
    BY <1>2, <1>5, <2>1, Zenon DEF Safe, Guarded, Collects
<1>6. \A u \in Threads : Anchors(u)'
  BY <1>4, Zenon DEF Anchors
<1> QED
  BY <1>0, <1>2, <1>3, <1>5, <1>6, CollectsKeeps DEF Globals

\* try_advance stores the epoch, which never goes back.
LEMMA AdvanceStoreKeeps ==
    ASSUME Inv, NEW t \in Threads, AdvanceStore(t), UNCHANGED poolVars
    PROVE  Inv' /\ epoch' >= epoch
<1>0. Shape /\ Own(t) /\ Globals /\ th[t].pc = "check" /\ th[t].todo = {}
  BY Zenon DEF Inv, AdvanceStore, At
<1>1. th[t].ge \in Nat /\ epoch \in Nat /\ epoch' = th[t].ge + 1
  BY <1>0, Zenon DEF AdvanceStore, Own, Types, Globals
<1>2. /\ Collects(t) /\ UNCHANGED <<queue, destroyed>>
      /\ th'[t].ge = th[t].ge + 1 /\ th'[t].pc = "pop"
  BY <1>0, <1>1 DEF AdvanceStore, poolVars, Collects, Collecting, Shape, Own, Types, ThFields
<1>3. Anchored(t)
  BY <1>0, Zenon DEF Own, HoldsIt, Anchored
<1>4. epoch <= epoch'
  BY <1>1, <1>3, Zenon DEF Inv, Anchors
<1>5. Behind(t)' /\ HoldsIt(t)'
  BY <1>0, <1>1, <1>2, <1>4 DEF Collects, Own, Types, Behind, HoldsIt
<1>6. ASSUME NEW u \in Threads, Anchored(u)' PROVE Anchors(u)'
  <2>1. u # t /\ loc' = loc
    BY <1>2, <1>6, Zenon DEF Collects, Anchored
  <2>2. th'[u] = th[u] /\ Anchored(u) /\ th[u].ge \in Nat
    BY <1>2, <1>6, <2>1, Zenon DEF Collects, Anchored, Inv, Own, Types
  <2>3. th[t].ge <= th[u].ge
    BY <1>0, <2>2, Zenon DEF Inv, Anchors
  <2> QED
    BY <1>1, <1>2, <2>1, <2>2, <2>3 DEF Inv, Anchors, Collects
<1>7. ASSUME NEW v \in Threads, NEW s \in Nat, Safe(v, s) PROVE Safe(v, s)'
  <2>1. th[t].ge <= s
    BY <1>0, <1>7, Zenon DEF Safe
  <2> QED
    BY <1>1, <1>2, <1>7, <2>1 DEF Safe, Guarded, Collects
<1>8. \A u \in Threads : Anchors(u)'
  BY <1>6, Zenon DEF Anchors
<1>9. Inv'
  BY <1>1, <1>2, <1>4, <1>5, <1>7, <1>8, CollectsKeeps
<1> QED
  BY <1>1, <1>4, <1>9, Zenon

-----------------------------------------------------------------------------
\* Bags.

\* A bag that is about to be pushed is one of the bags.
LEMMA PushedIsRetired ==
    ASSUME Inv, NEW t \in Threads, th[t].pc = "sealed"
    PROVE  /\ Len(th[t].bags) \in DOMAIN th[t].bags /\ Pushed(t) \in Bag
           /\ \A n : In(n, Pushed(t)) => Retires(t, n)
<1>1. th[t].bags \in Seq(Bag) /\ th[t].bags # <<>>
  BY Zenon DEF Inv, Own, Vectors
<1>2. Len(th[t].bags) \in DOMAIN th[t].bags /\ Pushed(t) \in Bag
  BY <1>1 DEF Pushed
<1> QED
  BY <1>2, Zenon DEF Pushed, Retires

\* What threads hold are nodes.
LEMMA HeldNodes == ASSUME Inv, NEW t \in Threads PROVE Held(t) \subseteq Nodes
<1>1. mem[t] \in Seq(Result)
  BY Zenon DEF Inv, Own, Vectors
<1>2. \A k \in DOMAIN mem[t] : mem[t][k] \in Result
  BY <1>1
<1>3. \A k \in DOMAIN mem[t] : mem[t][k].node \in Nodes \cup {0}
  BY <1>2, Zenon DEF Result
<1> QED
  BY <1>3, Zenon DEF Held

\* No step that leaves epochs, participants and try_advance alone makes a bag unsafe.
LEMMA SafeFrame ==
    ASSUME UNCHANGED <<epoch, loc, leaked>>,
           \A u \in Threads : th'[u].pc = "check" => th[u].pc = "check" /\ th'[u].ge = th[u].ge /\ th'[u].todo = th[u].todo,
           NEW v \in Threads, NEW s \in Nat, Safe(v, s)
    PROVE  Safe(v, s)'
  BY Zenon DEF Safe, Guarded

\* collect pops a bag that expired, and destroys its nodes.
LEMMA PopKeeps ==
    ASSUME Inv, Counting, NEW t \in Threads, Pop(t), UNCHANGED poolVars
    PROVE  Inv'
<1>0. Shape /\ Own(t) /\ Globals /\ th[t].pc = "pop" /\ queue # <<>>
  BY Zenon DEF Inv, Pop, At, Poppable
<1>1. /\ Collects(t) /\ epoch' = epoch /\ queue' = Tail(queue) /\ epoch \in Nat
      /\ th'[t].ge = th[t].ge /\ th'[t].pc = "pop" /\ th[t].ge \in Nat /\ th[t].ge <= epoch
  BY <1>0, Zenon DEF Pop, poolVars, Collects, Collecting, Shape, Own, Types, ThFields, Globals, Behind
<1>2. \A u \in Threads : u # t => th'[u] = th[u]
  BY <1>1, Zenon DEF Collects
<1>3. /\ queue \in Seq(Sealed) /\ Tail(queue) \in Seq(Sealed) /\ Head(queue) = queue[1] /\ 1 \in DOMAIN queue
      /\ \A i \in DOMAIN Tail(queue) : i + 1 \in DOMAIN queue /\ Tail(queue)[i] = queue[i + 1]
  BY <1>0 DEF Globals
<1>4. th[t].ge - queue[1].epoch >= 2 /\ queue[1].epoch \in Nat
  BY <1>3, QueueTypes, Zenon DEF Pop, Poppable, Expired
<1>5. \A n \in linked : ~In(n, queue[1].nodes)
  BY <1>3, Zenon DEF Inv, Reclaim, NotRetired
<1>6. \A v \in Threads : \A n \in Held(v) : ~In(n, queue[1].nodes)
  <2> SUFFICES ASSUME NEW v \in Threads, NEW n \in Held(v), In(n, queue[1].nodes) PROVE FALSE
    BY Zenon
  <2>1. Safe(v, queue[1].epoch)
    BY <1>3, Zenon DEF Inv, Reclaim, HeldSafely
  <2>2. epoch <= queue[1].epoch + 1
    BY <2>1, Zenon DEF Safe
  <2> QED
    BY <1>1, <1>4, <2>2
<1>7. ASSUME NEW n \in Nodes, ~In(n, queue[1].nodes), destroyed[n] = 0 PROVE destroyed'[n] = 0
  <2>1. {i \in DOMAIN Head(queue).nodes : Head(queue).nodes[i] = n} = {}
    BY <1>3, <1>7 DEF In
  <2>2. Cardinality({}) = 0
    BY Zenon DEF Counting
  <2>3. destroyed'[n] = destroyed[n] + Cardinality({})
    BY <2>1, Zenon DEF Pop
  <2> QED
    BY <1>7, <2>2, <2>3
<1>8. \A v \in Threads : \A s \in Nat : Safe(v, s) => Safe(v, s)'
  BY <1>1, <1>2, SafeFrame, Zenon DEF Collects
<1>9. \A n \in linked' : NotRetired(n)'
  <2> SUFFICES ASSUME NEW n \in linked PROVE NotRetired(n)'
    BY <1>1, Zenon DEF Collects
  <2>1. NotRetired(n) /\ n \in Nodes
    BY <1>0, Zenon DEF Inv, Reclaim, Globals
  <2>2. destroyed'[n] = 0
    BY <1>5, <1>7, <2>1, Zenon DEF NotRetired
  <2>3. \A i \in DOMAIN queue' : ~In(n, queue'[i].nodes)
    BY <1>1, <1>3, <2>1, Zenon DEF NotRetired
  <2>4. \A u \in Threads : ~Retires(u, n)'
    <3>1. ~Retires(t, n)'
      BY <1>1, CollectsOwn, Zenon
    <3>2. \A u \in Threads : u # t => ~Retires(u, n)'
      BY <1>1, <1>2, <2>1, Zenon DEF NotRetired, Retires, Collects
    <3> QED
      BY <3>1, <3>2, Zenon
  <2> QED
    BY <2>2, <2>3, <2>4, Zenon DEF NotRetired
<1>10. ASSUME NEW v \in Threads, NEW n \in Held(v)' PROVE HeldSafely(v, n)'
  <2>1. n \in Held(v) /\ n \in Nodes
    BY <1>1, <1>10, HeldNodes, Zenon DEF Held, Collects
  <2>2. HeldSafely(v, n)
    BY <2>1, Zenon DEF Inv, Reclaim
  <2>3. destroyed'[n] = 0
    BY <1>6, <1>7, <2>1, <2>2, Zenon DEF HeldSafely
  <2>4. ASSUME NEW i \in DOMAIN queue', In(n, queue'[i].nodes) PROVE Safe(v, queue[i].epoch)'
    <3>1. i + 1 \in DOMAIN queue /\ queue'[i] = queue[i + 1] /\ queue[i + 1].epoch \in Nat
      BY <1>1, <1>3, QueueTypes, Zenon
    <3>2. PICK s \in Nat : s = queue[i + 1].epoch
      BY <3>1, Zenon
    <3>3. Safe(v, s)
      BY <2>2, <2>4, <3>1, <3>2, Zenon DEF HeldSafely
    <3>4. Safe(v, s)'
      BY <1>8, <3>3, Zenon
    <3> QED
      BY <3>1, <3>2, <3>4, Zenon DEF Safe, Guarded
  <2>5. ASSUME NEW u \in Threads, th'[u].pc = "sealed", In(n, Pushed(u)') PROVE Safe(v, th[u].e)'
    <3>1. th'[u] = th[u] /\ th[u].e \in Nat
      BY <1>1, <1>2, <2>5, Zenon DEF Inv, Own, Types
    <3>2. PICK s \in Nat : s = th[u].e
      BY <3>1, Zenon
    <3>3. Safe(v, s)
      BY <2>2, <2>5, <3>1, <3>2, Zenon DEF HeldSafely, Pushed
    <3>4. Safe(v, s)'
      BY <1>8, <3>3, Zenon
    <3> QED
      BY <3>1, <3>2, <3>4, Zenon DEF Safe, Guarded
  <2> QED
    BY <2>3, <2>4, <2>5, Zenon DEF HeldSafely
<1>11. Behind(t)' /\ HoldsIt(t)'
  BY <1>0, <1>1, Zenon DEF Collects, Own, Behind, HoldsIt
<1>12. \A u \in Threads : Anchors(u)'
  BY <1>1, <1>2 DEF Inv, Anchors, Anchored, Collects
<1>13. Globals'
  BY <1>0, <1>1, <1>3, Zenon DEF Globals, Collects
<1>14. Reclaim'
  BY <1>9, <1>10, Zenon DEF Reclaim
<1>15. scenario' = scenario /\ leaked \subseteq leaked' /\ epoch' \in Nat /\ epoch <= epoch'
  BY <1>0, <1>1, <1>3 DEF Collects, Globals
<1> QED
  BY <1>1, <1>11, <1>12, <1>13, <1>14, <1>15, CollectsOwn, Combined, Zenon DEF Own, Collects

\* While a thread pushes bags, whoever holds a node is pinned or a temporary participant is.
LEMMA HolderGuarded ==
    ASSUME Inv, NEW v \in Threads, Held(v) # {}, NEW t \in Threads, th[t].pc = "push"
    PROVE  loc[v].epoch # None \/ leaked # {}
<1> SUFFICES ASSUME loc[v].epoch = None, leaked = {} PROVE FALSE
  BY Zenon
<1>1. Own(v) /\ Own(t) /\ mem[v] # <<>>
  BY DEF Inv, Held
<1>2. t \notin Roots
  BY <1>1, Zenon DEF Own, KnowsKind, Finding
<1>3. v \notin Roots
  <2>1. Roots # Threads
    BY <1>2, Zenon
  <2> QED
    BY <1>1, <2>1, Zenon DEF Own, Pinned
<1>4. /\ ~Bound(v, {"find", "find_pin", "found", "registered", "reset", "barrier", "wait"})
      /\ th[v].pc = "clear" => th[v].ret = "repin"
      /\ th[v].pc # "off" /\ ~hole[v]
  BY <1>1, <1>3, Zenon DEF Own, KnowsKind
<1>5. loc[v].reg
  BY <1>1, <1>4, Zenon DEF Own, Pinned, Finding, Bound, Pinning, Collecting
<1>6. Unsettled(v) /\ EmptyMemento(v) /\ Returns(v)
  BY <1>1, <1>4, <1>5, Zenon DEF Own, Pinned
<1> QED
  BY <1>1, <1>4, <1>6, Zenon DEF Unsettled, EmptyMemento, Returns, Bound, Pinning, Collecting

\* push_bag reads the epoch that it seals the bag with.
LEMMA SealKeeps ==
    ASSUME Inv, NEW t \in Threads, Seal(t), th[t].bags # <<>>, UNCHANGED poolVars
    PROVE  Inv'
<1>0. Shape /\ Own(t) /\ Globals /\ th[t].pc = "push" /\ epoch \in Nat
  BY Zenon DEF Inv, Seal, At, Globals
<1>1. /\ Goes(t, "sealed", th[t].ret, epoch)
      /\ UNCHANGED <<epoch, loc, leaked, queue, destroyed, scenario, linked, failures, mem, cleared, clearing, hole>>
  BY <1>0 DEF Seal, Goto, epochVars, poolVars, Goes, Shape, Own, Types, ThFields
<1>2. Shape' /\ Others(t) /\ Globals'
  BY <1>0, <1>1, Zenon DEF Goes, Shape, Others, Globals
<1>3. Types(t)' /\ Vectors(t)'
  BY <1>0, <1>1, Zenon DEF Goes, Own, Types, Vectors
<1>4. Returns(t)' /\ Clears(t)' /\ KnowsKind(t)'
  BY <1>0, <1>1, Zenon DEF Goes, Own, Returns, Clears, KnowsKind, Finding, Bound, Roots, Pinning, Collecting, Unpinning
<1>5. Pinned(t)'
  BY <1>0, <1>1, Zenon DEF Goes, Own, Pinned, EmptyMemento, Unsettled, Finding, Bound, Roots, Pinning, Collecting, Unpinning
<1>6. Behind(t)' /\ HoldsIt(t)'
  BY <1>0, <1>1, Zenon DEF Goes, Own, Behind, HoldsIt
<1>7. \A u \in Threads : u # t => th'[u] = th[u]
  BY <1>1, Zenon DEF Goes
<1>8. \A u \in Threads : Anchors(u)'
  BY <1>1, <1>7 DEF Goes, Inv, Anchors, Anchored
<1>9. \A v \in Threads : \A s \in Nat : Safe(v, s) => Safe(v, s)'
  BY <1>1, <1>7, SafeFrame, Zenon DEF Goes
<1>10. \A v \in Threads : Held(v) # {} => Safe(v, epoch)
  <2> SUFFICES ASSUME NEW v \in Threads, Held(v) # {} PROVE Safe(v, epoch)
    BY Zenon
  <2>1. Guarded(v, epoch)
    BY <1>0, HolderGuarded, Zenon DEF Guarded, Inv, Own, Behind, Globals
  <2>2. \A u \in Threads : th[u].pc = "check" => th[u].ge <= epoch
    BY Zenon DEF Inv, Own, Behind
  <2> QED
    BY <1>0, <2>1, <2>2 DEF Safe
<1>11. \A n \in linked' : NotRetired(n)'
  <2> SUFFICES ASSUME NEW n \in linked PROVE NotRetired(n)'
    BY <1>1, Zenon
  <2>1. NotRetired(n)
    BY Zenon DEF Inv, Reclaim
  <2>2. \A i \in DOMAIN queue' : ~In(n, queue'[i].nodes)
    BY <1>1, <2>1, Zenon DEF NotRetired
  <2>3. ~Retires(t, n)'
    BY <1>0, <1>1, <2>1, Zenon DEF Goes, NotRetired, Retires
  <2>4. \A u \in Threads : u # t => ~Retires(u, n)'
    BY <1>1, <1>7, <2>1, Zenon DEF NotRetired, Retires
  <2> QED
    BY <1>1, <2>1, <2>2, <2>3, <2>4, Zenon DEF NotRetired
<1>12. ASSUME NEW v \in Threads, NEW n \in Held(v)' PROVE HeldSafely(v, n)'
  <2>1. HeldSafely(v, n) /\ Held(v) # {}
    BY <1>1, <1>12, Zenon DEF Held, Inv, Reclaim
  <2>2. ASSUME NEW i \in DOMAIN queue', In(n, queue'[i].nodes) PROVE Safe(v, queue[i].epoch)'
    <3>1. PICK s \in Nat : s = queue[i].epoch
      BY <1>1, QueueTypes, Zenon
    <3>2. Safe(v, s)'
      BY <1>1, <1>9, <2>1, <2>2, <3>1, Zenon DEF HeldSafely
    <3> QED
      BY <1>1, <3>1, <3>2, Zenon DEF Safe, Guarded
  <2>3. ASSUME NEW u \in Threads, th'[u].pc = "sealed", In(n, Pushed(u)') PROVE Safe(v, th[u].e)'
    <3>1. CASE u = t
      <4>1. PICK s \in Nat : s = epoch
        BY <1>0, Zenon
      <4>2. Safe(v, s)'
        BY <1>9, <1>10, <2>1, <4>1, Zenon
      <4> QED
        BY <1>1, <3>1, <4>1, <4>2, Zenon DEF Safe, Guarded, Goes
    <3>2. CASE u # t
      <4>1. PICK s \in Nat : s = th[u].e
        BY Zenon DEF Inv, Own, Types
      <4>2. Safe(v, s)'
        BY <1>7, <1>9, <2>1, <2>3, <3>2, <4>1, Zenon DEF HeldSafely, Pushed
      <4> QED
        BY <1>7, <3>2, <4>1, <4>2, Zenon DEF Safe, Guarded
    <3> QED
      BY <3>1, <3>2, Zenon
  <2> QED
    BY <1>1, <2>1, <2>2, <2>3, Zenon DEF HeldSafely
<1>13. Reclaim'
  BY <1>11, <1>12, Zenon DEF Reclaim
<1>14. Own(t)'
  BY <1>3, <1>4, <1>5, <1>6, Zenon DEF Own
<1>15. scenario' = scenario /\ leaked \subseteq leaked' /\ epoch' \in Nat /\ epoch <= epoch'
  BY <1>0, <1>1
<1> QED
  BY <1>2, <1>8, <1>13, <1>14, <1>15, Combined, Zenon

\* Appending to a vector adds the one node.
LEMMA InAppend ==
    ASSUME NEW bag \in Seq(Nodes), NEW m \in Nodes, NEW n, In(n, Append(bag, m))
    PROVE  In(n, bag) \/ n = m
<1>1. PICK i \in DOMAIN Append(bag, m) : Append(bag, m)[i] = n
  BY Zenon DEF In
<1> QED
  BY <1>1 DEF In

\* The bags that are made from a vector are a sequence of bags, and hold only what is in it.
LEMMA BagsOf ==
    ASSUME Counting, NEW bag \in Seq(Nodes)
    PROVE  /\ DedupAsBags(bag) \in Seq(Bag)
           /\ \A n : (\E i \in DOMAIN DedupAsBags(bag) : In(n, DedupAsBags(bag)[i])) => In(n, bag)
<1> DEFINE kept == Dedup(bag)
<1> DEFINE k == (Cardinality(kept) + MaxObjects - 1) \div MaxObjects
<1> DEFINE part(b) == {j \in kept : Cardinality({i \in kept : i > j}) \div MaxObjects = b - 1}
<1>1. kept \subseteq 1 .. Len(bag) /\ Len(bag) \in Nat
  BY DEF Dedup
<1>2. kept \in SUBSET (1 .. Len(bag))
  BY <1>1, Zenon
<1>3. Cardinality(kept) \in Nat
  BY <1>1, <1>2, Zenon DEF Counting
<1>4. MaxObjects \in Nat \ {0}
  BY PoolAssumption, Zenon
<1>5. k \in Nat
  <2> HIDE DEF kept
  <2> QED BY <1>3, <1>4
<1>6. DedupAsBags(bag) = [b \in 1 .. k |-> [i \in part(b) |-> bag[i]]]
  BY Zenon DEF DedupAsBags
<1>7. \A b \in 1 .. k : DedupAsBags(bag)[b] = [i \in part(b) |-> bag[i]]
  BY <1>6, Zenon
<1>8. \A b \in 1 .. k : part(b) \subseteq 1 .. Len(bag)
  BY <1>1, Zenon
<1>9. \A i \in 1 .. Len(bag) : bag[i] \in Nodes
  OBVIOUS
<1> HIDE DEF kept, k, part
<1>10. \A b \in 1 .. k : [i \in part(b) |-> bag[i]] \in Bag
  <2> TAKE b \in 1 .. k
  <2>1. part(b) \in SUBSET Nat
    BY <1>1, <1>8
  <2>2. [i \in part(b) |-> bag[i]] \in [part(b) -> Nodes]
    BY <1>8, <1>9, Zenon
  <2> QED
    BY <2>1, <2>2, Zenon DEF Bag
<1>11. DedupAsBags(bag) \in Seq(Bag)
  BY <1>5, <1>6, <1>10
<1>12. ASSUME NEW n, NEW b \in DOMAIN DedupAsBags(bag), In(n, DedupAsBags(bag)[b])
       PROVE  In(n, bag)
  <2>1. b \in 1 .. k
    BY <1>6, Zenon
  <2>0. PICK f : f = [i \in part(b) |-> bag[i]]
    BY Zenon
  <2>3. In(n, f)
    BY <1>7, <1>12, <2>0, <2>1, Zenon
  <2>2. PICK i \in part(b) : bag[i] = n
    BY <2>0, <2>3, Zenon DEF In
  <2> QED
    BY <1>1, <1>8, <2>1, <2>2 DEF In
<1> QED
  BY <1>11, <1>12, Zenon

\* push_bag pushes the bag with the epoch that it was sealed with, which may be old by then.
LEMMA PushBagKeeps ==
    ASSUME Inv, NEW t \in Threads, PushBag(t), UNCHANGED poolVars
    PROVE  Inv'
<1>0. Shape /\ Own(t) /\ Globals /\ th[t].pc = "sealed" /\ th[t].bags \in Seq(Bag) /\ th[t].e \in Nat
  BY Zenon DEF Inv, PushBag, At, Own, Vectors, Types
<1> DEFINE bag == [epoch |-> th[t].e, nodes |-> Pushed(t)]
<1>1. /\ queue' = Append(queue, bag)
      /\ UNCHANGED <<epoch, loc, leaked, destroyed, scenario, linked, failures, mem, cleared, clearing, hole>>
  BY Zenon DEF PushBag, poolVars, Pushed
<1>2. /\ DOMAIN th' = Threads /\ DOMAIN th'[t] = ThFields
      /\ \A u \in Threads : u # t => th'[u] = th[u]
      /\ th'[t].pc = "push" /\ th'[t].ret = th[t].ret /\ th'[t].e = th[t].e /\ th'[t].k = th[t].k
      /\ th'[t].ge = th[t].ge /\ th'[t].todo = th[t].todo
      /\ th'[t].bags = SubSeq(th[t].bags, 1, Len(th[t].bags) - 1)
  BY <1>0, Zenon DEF PushBag, Shape, Own, Types, ThFields
<1>3. Len(th[t].bags) \in Nat /\ th'[t].bags \in Seq(Bag)
  BY <1>0, <1>2
<1>4. \A i \in DOMAIN th'[t].bags : i \in DOMAIN th[t].bags /\ th'[t].bags[i] = th[t].bags[i]
  BY <1>0, <1>2
<1>5. bag \in Sealed /\ bag.epoch = th[t].e /\ bag.nodes = Pushed(t)
  BY <1>0, PushedIsRetired, Zenon DEF Sealed
<1> HIDE DEF bag
<1>6. /\ queue \in Seq(Sealed) /\ queue' \in Seq(Sealed)
      /\ \A i \in DOMAIN queue' : (i \in DOMAIN queue /\ queue'[i] = queue[i]) \/ queue'[i] = bag
  BY <1>0, <1>1, <1>5 DEF Globals
<1>7. Shape' /\ Others(t) /\ Globals'
  BY <1>0, <1>1, <1>2, <1>6, Zenon DEF Shape, Others, Globals
<1>8. Types(t)' /\ Vectors(t)'
  BY <1>0, <1>1, <1>2, <1>3, Zenon DEF Own, Types, Vectors
<1>9. Returns(t)' /\ Clears(t)' /\ KnowsKind(t)'
  BY <1>0, <1>1, <1>2, Zenon DEF Own, Returns, Clears, KnowsKind, Finding, Bound, Roots, Pinning, Collecting, Unpinning
<1>10. Pinned(t)'
  BY <1>0, <1>1, <1>2, Zenon DEF Own, Pinned, EmptyMemento, Unsettled, Finding, Bound, Roots, Pinning, Collecting, Unpinning
<1>11. Behind(t)' /\ HoldsIt(t)'
  BY <1>0, <1>1, <1>2, Zenon DEF Own, Behind, HoldsIt
<1>12. \A u \in Threads : Anchors(u)'
  <2>1. ASSUME NEW u \in Threads, u # t PROVE Anchors(u)'
    BY <1>1, <1>2, <2>1 DEF Inv, Anchors, Anchored
  <2>2. Anchors(t)'
    BY <1>2, Zenon DEF Anchors, Anchored
  <2> QED
    BY <2>1, <2>2, Zenon
<1>13. \A v \in Threads : \A s \in Nat : Safe(v, s) => Safe(v, s)'
  BY <1>1, <1>2, SafeFrame, Zenon
<1>14. \A n \in linked' : NotRetired(n)'
  <2> SUFFICES ASSUME NEW n \in linked PROVE NotRetired(n)'
    BY <1>1, Zenon
  <2>1. NotRetired(n) /\ ~In(n, bag.nodes)
    BY <1>0, <1>5, PushedIsRetired, Zenon DEF Inv, Reclaim, NotRetired
  <2>2. \A i \in DOMAIN queue' : ~In(n, queue'[i].nodes)
    BY <1>6, <2>1, Zenon DEF NotRetired
  <2>3. ~Retires(t, n)'
    BY <1>1, <1>2, <1>4, <2>1, Zenon DEF NotRetired, Retires
  <2>4. \A u \in Threads : u # t => ~Retires(u, n)'
    BY <1>1, <1>2, <2>1, Zenon DEF NotRetired, Retires
  <2> QED
    BY <1>1, <2>1, <2>2, <2>3, <2>4, Zenon DEF NotRetired
<1>15. ASSUME NEW v \in Threads, NEW n \in Held(v)' PROVE HeldSafely(v, n)'
  <2>1. HeldSafely(v, n)
    BY <1>1, <1>15, Zenon DEF Held, Inv, Reclaim
  <2>2. ASSUME NEW i \in DOMAIN queue', In(n, queue'[i].nodes)
        PROVE  \E s \in Nat : s = queue'[i].epoch /\ Safe(v, s)
    <3>1. CASE i \in DOMAIN queue /\ queue'[i] = queue[i]
      BY <2>1, <2>2, <3>1, QueueTypes, Zenon DEF HeldSafely
    <3>2. CASE queue'[i] = bag
      BY <1>0, <1>5, <2>1, <2>2, <3>2, Zenon DEF HeldSafely
    <3> QED
      BY <1>6, <3>1, <3>2, Zenon
  <2>3. ASSUME NEW i \in DOMAIN queue', In(n, queue'[i].nodes) PROVE Safe(v, queue[i].epoch)'
    <3>1. PICK s \in Nat : s = queue'[i].epoch /\ Safe(v, s)
      BY <2>2, <2>3, Zenon
    <3>2. Safe(v, s)'
      BY <1>13, <3>1, Zenon
    <3> QED
      BY <3>1, <3>2, Zenon DEF Safe, Guarded
  <2>4. ASSUME NEW u \in Threads, th'[u].pc = "sealed", In(n, Pushed(u)') PROVE Safe(v, th[u].e)'
    <3>1. th'[u] = th[u]
      BY <1>2, <2>4, Zenon
    <3>2. PICK s \in Nat : s = th[u].e
      BY Zenon DEF Inv, Own, Types
    <3>3. Safe(v, s)'
      BY <1>13, <2>1, <2>4, <3>1, <3>2, Zenon DEF HeldSafely, Pushed
    <3> QED
      BY <3>1, <3>2, <3>3, Zenon DEF Safe, Guarded
  <2> QED
    BY <1>1, <2>1, <2>3, <2>4, Zenon DEF HeldSafely
<1>16. Reclaim'
  BY <1>14, <1>15, Zenon DEF Reclaim
<1>17. Own(t)'
  BY <1>8, <1>9, <1>10, <1>11, Zenon DEF Own
<1>18. scenario' = scenario /\ leaked \subseteq leaked' /\ epoch' \in Nat /\ epoch <= epoch'
  BY <1>0, <1>1 DEF Globals
<1> QED
  BY <1>7, <1>12, <1>16, <1>17, <1>18, Combined, Zenon

\* After the last bag, Local::unpin goes on to unpin the participant.
LEMMA SealDoneKeeps ==
    ASSUME Inv, NEW t \in Threads, Seal(t), th[t].bags = <<>>, UNCHANGED poolVars
    PROVE  Inv'
<1>0. Shape /\ Own(t) /\ Globals /\ th[t].pc = "push"
  BY Zenon DEF Inv, Seal, At
<1>1. /\ Goes(t, "unpin_store", th[t].ret, th[t].e)
      /\ UNCHANGED <<epoch, loc, leaked, queue, destroyed, scenario, linked, failures, mem, cleared, clearing, hole>>
  BY <1>0 DEF Seal, Goto, epochVars, poolVars, Goes, Shape, Own, Types, ThFields
<1>2. Types(t)'
  BY <1>0, <1>1, Zenon DEF Goes, Own, Types
<1>3. Returns(t)' /\ Clears(t)' /\ KnowsKind(t)'
  BY <1>0, <1>1, Zenon DEF Goes, Own, Returns, Clears, KnowsKind, Finding, Bound, Roots, Pinning, Collecting, Unpinning
<1>4. Pinned(t)'
  BY <1>0, <1>1, Zenon DEF Goes, Own, Pinned, EmptyMemento, Unsettled, Finding, Bound, Roots, Pinning, Collecting, Unpinning
<1>5. Behind(t)' /\ HoldsIt(t)'
  BY <1>0, <1>1, Zenon DEF Goes, Own, Behind, HoldsIt
<1>6. Moves(t)
  BY <1>0, <1>1, Zenon DEF Goes, Globals, Shape, Moves, Others
<1> QED
  BY <1>2, <1>3, <1>4, <1>5, <1>6, Assembled, Zenon

\* Local::unpin makes bags of what the participant has collected, if that is enough.
LEMMA UnpinKeeps ==
    ASSUME Inv, Counting, NEW t \in Threads, Unpin(t), UNCHANGED poolVars
    PROVE  Inv'
<1>0. Shape /\ Own(t) /\ Globals /\ th[t].pc = "unpin"
  BY Zenon DEF Inv, Unpin, At
<1> DEFINE Rest ==
        /\ DOMAIN th' = Threads /\ DOMAIN th'[t] = ThFields
        /\ \A u \in Threads \ {t} : th'[u] = th[u]
        /\ th'[t].ret = th[t].ret /\ th'[t].e = th[t].e /\ th'[t].k = th[t].k
        /\ th'[t].ge = th[t].ge /\ th'[t].todo = th[t].todo
        /\ DOMAIN loc' = Threads /\ DOMAIN loc'[t] = LocFields
        /\ \A u \in Threads \ {t} : loc'[u] = loc[u]
        /\ loc'[t].reg = loc[t].reg /\ loc'[t].epoch = loc[t].epoch /\ loc'[t].repin = loc[t].repin
        /\ loc'[t].guards = 0
        /\ UNCHANGED <<epoch, leaked, queue, destroyed, scenario, linked, failures, mem, cleared, clearing, hole>>
<1>1. ASSUME Rest, th'[t].pc \in {"push", "unpin_store"}
      PROVE  Types(t)' /\ Returns(t)' /\ Clears(t)' /\ KnowsKind(t)' /\ Pinned(t)' /\ Behind(t)' /\ HoldsIt(t)'
  <2>0. loc'[t].guards = 0 /\ loc'[t].epoch = loc[t].epoch
    BY <1>1, Zenon
  <2>01. loc'[t].guards \in Nat
    BY <2>0
  <2>1. Types(t)'
    BY <1>0, <1>1, <2>0, <2>01, Zenon DEF Own, Types
  <2>2. Returns(t)' /\ Clears(t)' /\ KnowsKind(t)'
    BY <1>0, <1>1, Zenon DEF Own, Returns, Clears, KnowsKind, Finding, Bound, Roots, Pinning, Collecting, Unpinning
  <2>3. Pinned(t)'
    BY <1>0, <1>1, Zenon DEF Own, KnowsKind, Pinned, EmptyMemento, Unsettled, Finding, Bound, Roots, Pinning, Collecting, Unpinning
  <2>4. Behind(t)' /\ HoldsIt(t)'
    BY <1>0, <1>1, Zenon DEF Own, Behind, HoldsIt
  <2> QED
    BY <2>1, <2>2, <2>3, <2>4, Zenon
<1>2. CASE Len(loc[t].bag) >= MaxObjects
  <2>1. Rest /\ th'[t].pc = "push" /\ th'[t].bags = DedupAsBags(loc[t].bag) /\ loc'[t].bag = <<>>
    BY <1>0, <1>2 DEF Unpin, LeftOver, poolVars, Shape, Own, Types, ThFields, LocFields
  <2>2. loc[t].bag \in Seq(Nodes)
    BY <1>0, Zenon DEF Own, Vectors
  <2>20. <<>> \in Seq(Nodes)
    OBVIOUS
  <2>3. /\ th'[t].bags \in Seq(Bag)
        /\ \A n : (\E i \in DOMAIN th'[t].bags : In(n, th'[t].bags[i])) => In(n, loc[t].bag)
    BY <2>1, <2>2, BagsOf, Zenon
  <2>4. Vectors(t)'
    BY <1>0, <2>1, <2>20, <2>3, Zenon DEF Own, Vectors
  <2>5. ASSUME NEW n \in linked PROVE ~Retires(t, n)'
    <3>1. ~Retires(t, n) /\ ~In(n, loc[t].bag)
      BY NoneRetired, Zenon DEF Retires
    <3>2. ~\E i \in DOMAIN th'[t].bags : In(n, th'[t].bags[i])
      BY <2>3, <3>1, Zenon
    <3>3. ~In(n, loc'[t].bag)
      BY <2>1 DEF In
    <3>4. mem' = mem /\ th'[t].pc = "push"
      BY <2>1, Zenon
    <3> QED
      BY <3>1, <3>2, <3>3, <3>4, Zenon DEF Retires
  <2>6. Held(t)' \subseteq Held(t)
    BY <2>1, Zenon DEF Held
  <2>7. Quiet(t)
    BY <1>0, <2>1, <2>5, <2>6, Zenon DEF Globals, Shape, Quiet, Others
  <2> QED
    BY <1>1, <2>1, <2>4, <2>7, QuietKeeps, Zenon DEF Own
<1>3. CASE ~(Len(loc[t].bag) >= MaxObjects)
  <2>1. Rest /\ th'[t].pc = "unpin_store" /\ th'[t].bags = th[t].bags /\ loc'[t].bag = loc[t].bag
    BY <1>0, <1>3 DEF Unpin, Goto, poolVars, Shape, Own, Types, ThFields, LocFields
  <2>2. Moves(t)
    BY <1>0, <2>1, Zenon DEF Globals, Shape, Moves, Others
  <2> QED
    BY <1>1, <2>1, <2>2, Assembled, Zenon
<1> QED
  BY <1>2, <1>3, Zenon

-----------------------------------------------------------------------------
\* Operations.

\* defer_pdestroy of a node that the memento, or a local variable, says is to be retired.
LEMMA DefersKeeps ==
    ASSUME Inv, NEW t \in Threads, th[t].pc \in {"replay", "defer"},
           NEW pc \in {"replay", "run"}, Goes(t, pc, th[t].ret, th[t].e),
           NEW n \in Nodes, Retires(t, n), DeferNode(t, n),
           UNCHANGED <<epoch, leaked, queue, destroyed, poolVars>>
    PROVE  Inv'
<1>0. Shape /\ Own(t) /\ Globals /\ loc[t].bag \in Seq(Nodes)
  BY Zenon DEF Inv, Own, Vectors
<1>1. /\ UNCHANGED <<epoch, leaked, queue, destroyed, scenario, linked, failures, mem, cleared, clearing, hole>>
      /\ DOMAIN loc' = Threads /\ DOMAIN loc'[t] = LocFields
      /\ \A u \in Threads \ {t} : loc'[u] = loc[u]
      /\ loc'[t].reg = loc[t].reg /\ loc'[t].epoch = loc[t].epoch /\ loc'[t].repin = loc[t].repin
      /\ loc'[t].guards = loc[t].guards /\ loc'[t].bag = Append(loc[t].bag, n)
  BY <1>0, Zenon DEF DeferNode, poolVars, Shape, Own, Types, LocFields
<1>2. loc'[t].bag \in Seq(Nodes)
  BY <1>0, <1>1
<1>3. Types(t)' /\ Vectors(t)'
  BY <1>0, <1>1, <1>2, Zenon DEF Goes, Own, Types, Vectors
<1>4. Returns(t)' /\ Clears(t)' /\ KnowsKind(t)'
  BY <1>0, <1>1, Zenon DEF Goes, Own, Returns, Clears, KnowsKind, Finding, Bound, Roots, Pinning, Collecting, Unpinning
<1>5. Pinned(t)'
  BY <1>0, <1>1, Zenon DEF Goes, Own, Pinned, EmptyMemento, Unsettled, Finding, Bound, Roots, Pinning, Collecting, Unpinning
<1>6. Behind(t)' /\ HoldsIt(t)'
  BY <1>0, <1>1, Zenon DEF Goes, Own, Behind, HoldsIt
<1>7. ASSUME NEW m \in linked PROVE ~Retires(t, m)'
  <2>1. ~Retires(t, m)
    BY NoneRetired, Zenon
  <2>2. ~In(m, loc'[t].bag)
    BY <1>0, <1>1, <2>1, InAppend, Zenon DEF Retires
  <2> QED
    BY <1>1, <2>1, <2>2, Zenon DEF Goes, Retires
<1>8. Held(t)' \subseteq Held(t)
  BY <1>1, Zenon DEF Held
<1>9. Quiet(t)
  BY <1>0, <1>1, <1>7, <1>8, Zenon DEF Goes, Globals, Shape, Quiet, Others
<1> QED
  BY <1>3, <1>4, <1>5, <1>6, <1>9, QuietKeeps, Zenon DEF Own

\* A re-executed thread goes through the operations in its memento.
LEMMA ReplayKeeps == ASSUME Inv, NEW t \in Threads, Replay(t) PROVE Inv'
<1>0. Shape /\ Own(t) /\ Globals /\ th[t].pc = "replay" /\ th[t].k \in Nat \ {0} /\ mem[t] \in Seq(Result)
  BY Zenon DEF Inv, Replay, At, Own, Types, Vectors
<1>1. ASSUME NEW pc \in {"replay", "run"}, Goes(t, pc, th[t].ret, th[t].e), UNCHANGED loc
      PROVE  Inv'
  <2>1. UNCHANGED <<epoch, loc, leaked, queue, destroyed, scenario, linked, failures, mem, cleared, clearing, hole>>
    BY <1>1, Zenon DEF Replay, poolVars
  <2>2. Types(t)'
    BY <1>0, <1>1, <2>1, Zenon DEF Goes, Own, Types
  <2>3. Returns(t)' /\ Clears(t)' /\ KnowsKind(t)'
    BY <1>0, <1>1, <2>1, Zenon DEF Goes, Own, Returns, Clears, KnowsKind, Finding, Bound, Roots, Pinning, Collecting, Unpinning
  <2>4. Pinned(t)'
    BY <1>0, <1>1, <2>1, Zenon DEF Goes, Own, Pinned, EmptyMemento, Unsettled, Finding, Bound, Roots, Pinning, Collecting, Unpinning
  <2>5. Behind(t)' /\ HoldsIt(t)'
    BY <1>0, <1>1, <2>1, Zenon DEF Goes, Own, Behind, HoldsIt
  <2>6. Moves(t)
    BY <1>0, <1>1, <2>1, Zenon DEF Goes, Globals, Shape, Moves, Others
  <2> QED
    BY <2>2, <2>3, <2>4, <2>5, <2>6, Assembled, Zenon
<1>2. CASE th[t].k > Len(mem[t])
  <2>1. Goes(t, "run", th[t].ret, th[t].e) /\ UNCHANGED loc
    BY <1>0, <1>2 DEF Replay, Goto, Goes, Shape, Own, Types, ThFields
  <2> QED
    BY <1>1, <2>1, Zenon
<1>3. CASE th[t].k <= Len(mem[t])
  <2>1. th[t].k \in DOMAIN mem[t]
    BY <1>0, <1>3
  <2>2. Goes(t, "replay", th[t].ret, th[t].e)
    BY <1>0, <1>3 DEF Replay, Goes, Shape, Own, Types, ThFields
  <2>3. CASE mem[t][th[t].k].op # "retire"
    <3>1. UNCHANGED loc
      BY <1>0, <1>3, <2>3, Zenon DEF Replay
    <3> QED
      BY <1>1, <2>2, <3>1, Zenon
  <2>4. CASE mem[t][th[t].k].op = "retire"
    <3>1. DeferNode(t, mem[t][th[t].k].node)
      BY <1>0, <1>3, <2>4 DEF Replay
    <3>2. mem[t][th[t].k].node \in Nodes /\ Retires(t, mem[t][th[t].k].node)
      BY <1>0, <2>1, <2>4, Zenon DEF Own, Vectors, Retires
    <3>3. UNCHANGED <<epoch, leaked, queue, destroyed, poolVars>>
      BY Zenon DEF Replay
    <3> QED
      BY <1>0, <2>2, <3>1, <3>2, <3>3, DefersKeeps, Zenon
  <2> QED
    BY <2>3, <2>4, Zenon
<1> QED
  BY <1>0, <1>2, <1>3

\* The node that was unlinked is deferred.
LEMMA DeferKeeps == ASSUME Inv, NEW t \in Threads, Defer(t) PROVE Inv'
<1>1. Shape /\ Own(t) /\ th[t].pc = "defer" /\ DeferNode(t, th[t].e)
  BY Zenon DEF Inv, Defer, At
<1>2. Goes(t, "run", th[t].ret, th[t].e)
  BY <1>1, Zenon DEF Defer, Goto, Goes, Shape, Own, Types, ThFields
<1>3. th[t].e \in Nodes /\ Retires(t, th[t].e)
  BY <1>1, Zenon DEF Own, Vectors, Retires
<1> QED
  BY <1>1, <1>2, <1>3, DefersKeeps, Zenon DEF Defer

\* What is retired nowhere is held safely by whoever comes to hold it.
LEMMA FreshIsSafe ==
    ASSUME Inv, NEW v \in Threads, NEW n \in linked
    PROVE  HeldSafely(v, n)
<1>1. NotRetired(n)
  BY Zenon DEF Inv, Reclaim
<1>2. \A u \in Threads : th[u].pc = "sealed" => ~In(n, Pushed(u))
  BY <1>1, PushedIsRetired, Zenon DEF NotRetired
<1> QED
  BY <1>1, <1>2, Zenon DEF NotRetired, HeldSafely

\* What is held safely stays so if no bag is sealed, pushed or popped.
LEMMA SafelyFrame ==
    ASSUME Inv, UNCHANGED <<queue, destroyed>>, NEW v \in Threads, NEW n, HeldSafely(v, n),
           \A u \in Threads : th'[u].pc = "sealed" => th[u].pc = "sealed" /\ th'[u].e = th[u].e /\ th'[u].bags = th[u].bags,
           \A s \in Nat : Safe(v, s) => Safe(v, s)'
    PROVE  HeldSafely(v, n)'
<1>1. queue' = queue /\ destroyed' = destroyed
  BY Zenon
<1>2. ASSUME NEW i \in DOMAIN queue', In(n, queue'[i].nodes) PROVE Safe(v, queue[i].epoch)'
  <2>1. PICK s \in Nat : s = queue[i].epoch
    BY <1>1, QueueTypes, Zenon
  <2>2. Safe(v, s)'
    BY <1>1, <1>2, <2>1, Zenon DEF HeldSafely
  <2> QED
    BY <1>1, <2>1, <2>2, Zenon DEF Safe, Guarded
<1>3. ASSUME NEW u \in Threads, th'[u].pc = "sealed", In(n, Pushed(u)') PROVE Safe(v, th[u].e)'
  <2>1. PICK s \in Nat : s = th[u].e
    BY Zenon DEF Inv, Own, Types
  <2>2. In(n, Pushed(u))
    BY <1>3, Zenon DEF Pushed
  <2>3. Safe(v, s)'
    BY <1>3, <2>1, <2>2, Zenon DEF HeldSafely
  <2> QED
    BY <1>3, <2>1, <2>3, Zenon DEF Safe, Guarded
<1> QED
  BY <1>1, <1>2, <1>3, Zenon DEF HeldSafely

\* An operation records a node that it found in the structure; a retirement unlinks it first.
LEMMA OperationKeeps ==
    ASSUME Inv, NEW t \in Threads, th[t].pc = "run", NEW n, NEW op, NEW pc, NEW e \in Nat,
           \/ op = "read" /\ pc = "run" /\ n \in linked \cup {0} /\ linked' = linked
           \/ op = "retire" /\ pc = "defer" /\ e = n /\ n \in linked /\ linked' = linked \ {n},
           Record(t, op, n), Goes(t, pc, th[t].ret, e),
           UNCHANGED <<epochVars, scenario, cleared, clearing, hole, failures>>
    PROVE  Inv'
<1> DEFINE r == [op |-> op, node |-> n]
<1>0. Shape /\ Own(t) /\ Globals /\ mem[t] \in Seq(Result)
  BY Zenon DEF Inv, Own, Vectors
<1>1. r \in Result /\ r.op = op /\ r.node = n /\ (op = "retire" => n \in Nodes)
  BY <1>0, Zenon DEF Result, Globals
<1>2. /\ DOMAIN mem' = Threads /\ mem'[t] = Append(mem[t], r)
      /\ \A u \in Threads : u # t => mem'[u] = mem[u]
  BY <1>0, Zenon DEF Record, Shape
<1>a. \A u \in Threads : u # t => th'[u] = th[u]
  BY Zenon DEF Goes
<1> HIDE DEF r
<1>3. /\ mem'[t] \in Seq(Result)
      /\ \A k \in DOMAIN mem'[t] : (k \in DOMAIN mem[t] /\ mem'[t][k] = mem[t][k]) \/ mem'[t][k] = r
  BY <1>0, <1>1, <1>2
<1>4. UNCHANGED <<epoch, loc, leaked, queue, destroyed>>
  BY Zenon DEF epochVars
<1>5. Shape' /\ Others(t) /\ Globals'
  BY <1>0, <1>2, <1>4, Zenon DEF Goes, Shape, Others, Globals
<1>6. Types(t)'
  BY <1>0, <1>4, Zenon DEF Goes, Own, Types
<1>7. Vectors(t)'
  BY <1>0, <1>1, <1>3, <1>4, Zenon DEF Goes, Own, Vectors
<1>8. Returns(t)' /\ Clears(t)' /\ KnowsKind(t)'
  BY <1>0, <1>4, Zenon DEF Goes, Own, Returns, Clears, KnowsKind, Finding, Bound, Roots, Pinning, Collecting, Unpinning
<1>9. Pinned(t)'
  BY <1>0, <1>4, Zenon DEF Goes, Own, KnowsKind, Pinned, EmptyMemento, Unsettled, Finding, Bound, Roots, Pinning, Collecting, Unpinning
<1>10. Behind(t)' /\ HoldsIt(t)'
  BY <1>0, <1>4, Zenon DEF Goes, Own, Behind, HoldsIt
<1>11. ASSUME NEW u \in Threads PROVE Anchors(u)'
  <2>1. th'[t].pc # "check" /\ loc' = loc /\ epoch' = epoch
    BY <1>4, Zenon DEF Goes
  <2>2. Anchors(u)
    BY Zenon DEF Inv
  <2> QED
    BY <1>a, <2>1, <2>2, Zenon DEF Anchors, Anchored
<1>12. \A v \in Threads : \A s \in Nat : Safe(v, s) => Safe(v, s)'
  BY <1>4, <1>a, SafeFrame, Zenon DEF Goes
<1>13. ASSUME NEW m \in linked' PROVE NotRetired(m)'
  <2>1. m \in linked /\ NotRetired(m) /\ (op = "retire" => m # n)
    BY Zenon DEF Inv, Reclaim
  <2>2. ~Retires(t, m)'
    BY <1>1, <1>3, <1>4, <2>1 DEF Goes, NotRetired, Retires
  <2>3. ASSUME NEW u \in Threads, u # t PROVE ~Retires(u, m)'
    <3>1. mem'[u] = mem[u] /\ loc' = loc /\ th'[u] = th[u] /\ ~Retires(u, m)
      BY <1>2, <1>4, <1>a, <2>1, <2>3, Zenon DEF NotRetired
    <3> QED
      BY <3>1, Zenon DEF Retires
  <2> QED
    BY <1>4, <2>1, <2>2, <2>3, Zenon DEF NotRetired
<1>14. ASSUME NEW v \in Threads, NEW m \in Held(v)' PROVE HeldSafely(v, m)'
  <2>1. m \in Held(v) \/ m \in linked
    <3>1. CASE v # t
      BY <1>2, <1>14, <3>1, Zenon DEF Held
    <3>2. CASE v = t
      <4>1. PICK k \in DOMAIN mem'[t] : m = mem'[t][k].node /\ m # 0
        BY <1>14, <3>2, Zenon DEF Held
      <4>2. CASE mem'[t][k] = r
        BY <1>1, <4>1, <4>2, Zenon
      <4>3. CASE k \in DOMAIN mem[t] /\ mem'[t][k] = mem[t][k]
        BY <3>2, <4>1, <4>3, Zenon DEF Held
      <4> QED
        BY <1>3, <4>2, <4>3, Zenon
    <3> QED
      BY <3>1, <3>2, Zenon
  <2>2. HeldSafely(v, m)
    BY <2>1, FreshIsSafe, Zenon DEF Inv, Reclaim
  <2>3. \A u \in Threads : th'[u].pc = "sealed" => th'[u] = th[u]
    BY <1>a, Zenon DEF Goes
  <2> QED
    BY <1>4, <1>12, <2>2, <2>3, SafelyFrame, Zenon
<1>15. Reclaim'
  BY <1>13, <1>14, Zenon DEF Reclaim
<1>16. Own(t)'
  BY <1>6, <1>7, <1>8, <1>9, <1>10, Zenon DEF Own
<1>17. scenario' = scenario /\ leaked \subseteq leaked' /\ epoch' \in Nat /\ epoch <= epoch'
  <2>1. epoch \in Nat
    BY <1>0, Zenon DEF Globals
  <2> QED
    BY <1>4, <2>1
<1> QED
  BY <1>5, <1>11, <1>15, <1>16, <1>17, Combined, Zenon

\* An operation reads a pointer.
LEMMA ReadKeeps == ASSUME Inv, NEW t \in Threads, Read(t) PROVE Inv'
<1>1. Shape /\ Own(t) /\ th[t].pc = "run" /\ th[t].e \in Nat
  BY Zenon DEF Inv, Read, At, Own, Types
<1>2. PICK n \in Reachable : Record(t, "read", n)
  BY Zenon DEF Read
<1>3. n \in linked \cup {0} /\ linked' = linked
  BY <1>2, Zenon DEF Reachable, Read
<1>4. Goes(t, "run", th[t].ret, th[t].e)
  BY <1>1, Zenon DEF Read, Goes, Shape, Own, Types
<1>5. UNCHANGED <<epochVars, scenario, cleared, clearing, hole, failures>>
  BY Zenon DEF Read
<1> QED
  BY <1>1, <1>2, <1>3, <1>4, <1>5, OperationKeeps, Zenon

\* An operation unlinks a node, or finds none.
LEMMA UnlinkKeeps == ASSUME Inv, NEW t \in Threads, Unlink(t) PROVE Inv'
<1>1. Shape /\ Own(t) /\ Globals /\ th[t].pc = "run" /\ th[t].e \in Nat
  BY Zenon DEF Inv, Unlink, At, Own, Types
<1>2. UNCHANGED <<epochVars, scenario, cleared, clearing, hole, failures>>
  BY Zenon DEF Unlink
<1>3. CASE linked = {} /\ Record(t, "read", 0) /\ UNCHANGED <<linked, th>>
  <2>1. Goes(t, "run", th[t].ret, th[t].e)
    BY <1>1, <1>3, Zenon DEF Goes, Shape, Own, Types
  <2> QED
    BY <1>1, <1>2, <1>3, <2>1, OperationKeeps, Zenon
<1>4. ASSUME NEW n \in linked, linked' = linked \ {n}, Record(t, "retire", n),
             th' = [th EXCEPT ![t].e = n, ![t].pc = "defer"]
      PROVE  Inv'
  <2>1. n \in Nat
    BY <1>1, PoolAssumption, Zenon DEF Globals
  <2>2. Goes(t, "defer", th[t].ret, n)
    BY <1>1, <1>4, Zenon DEF Goes, Shape, Own, Types, ThFields
  <2> QED
    BY <1>1, <1>2, <1>4, <2>1, <2>2, OperationKeeps, Zenon
<1> QED
  BY <1>3, <1>4, Zenon DEF Unlink

-----------------------------------------------------------------------------
\* Frames for what is retired: in one bag once, or in bags that never expire (Single).

\* A step of t leaves alone what the other threads have retired.
Alone(t) ==
    /\ scenario' = scenario
    /\ \A u \in Threads : u # t => th'[u] = th[u] /\ loc'[u].bag = loc[u].bag /\ mem'[u] = mem[u]

\* What never expires still never does.
Holding == \A s \in Nat : Frozen(s) => Frozen(s)'

\* So another thread retires nothing that it did not retire before.
LEMMA RetiresFrame ==
    ASSUME NEW t \in Threads, Alone(t), NEW u \in Threads, u # t, NEW n, Retires(u, n)'
    PROVE  Retires(u, n)
<1>1. th'[u] = th[u] /\ loc'[u].bag = loc[u].bag /\ mem'[u] = mem[u]
  BY Zenon DEF Alone
<1> QED
  BY <1>1, Zenon DEF Retires

\* A bag of the queue that never expires still never does.
LEMMA FrozenQueue ==
    ASSUME Inv, Holding, NEW i \in DOMAIN queue, Frozen(queue[i].epoch), NEW j, queue'[j] = queue[i]
    PROVE  Frozen(queue[j].epoch)'
<1>1. PICK s \in Nat : s = queue[i].epoch
  BY QueueTypes, Zenon
<1>2. Frozen(s)'
  BY <1>1, Zenon DEF Holding
<1> QED
  BY <1>1, <1>2, Zenon DEF Frozen

\* What the other threads have in their bags.
LEMMA OthersBagged ==
    ASSUME Inv, NEW t \in Threads, Alone(t), Holding, NEW u \in Threads, u # t, Bagged(u),
           \A n \in Nodes : Retires(u, n) /\ ~Queued(n) => ~Queued(n)'
    PROVE  Bagged(u)'
<1>1. th'[u] = th[u] /\ loc'[u].bag = loc[u].bag /\ mem'[u] = mem[u] /\ Roots' = Roots
  BY Zenon DEF Alone, Roots
<1>2. ASSUME u \in Roots, th[u].pc = "sealed" PROVE Frozen(th[u].e)'
  <2>1. PICK s \in Nat : s = th[u].e
    BY Zenon DEF Inv, Own, Types
  <2>2. Frozen(s)'
    BY <1>2, <2>1, Zenon DEF Holding, Bagged
  <2> QED
    BY <1>1, <2>1, <2>2, Zenon DEF Frozen
<1>3. ASSUME u \notin Roots PROVE RetiresOnce(u)'
  <2>1. RetiresOnce(u)
    BY <1>3, Zenon DEF Bagged
  <2>2. ASSUME NEW n \in Nodes, Retires(u, n)' PROVE ~Queued(n)'
    BY <2>1, <2>2, RetiresFrame, Zenon DEF RetiresOnce
  <2>3. /\ Distinct(loc'[u].bag)
        /\ \A b \in DOMAIN th'[u].bags :
               /\ Distinct(th'[u].bags[b])
               /\ \A c \in DOMAIN th'[u].bags : \A n \in Nodes : In(n, th'[u].bags[b]) /\ In(n, th'[u].bags[c]) => b = c
        /\ th'[u].pc = "replay" => mem'[u] = <<>>
        /\ th'[u].pc = "defer" => ~In(th'[u].e, loc'[u].bag)
    BY <1>1, <2>1, Zenon DEF RetiresOnce
  <2> QED
    BY <2>2, <2>3, Zenon DEF RetiresOnce
<1> QED
  BY <1>1, <1>2, <1>3, Zenon DEF Bagged

\* A step that neither pushes nor pops a bag has to show what t has in its bags.
LEMMA Framed ==
    ASSUME Inv, Single, NEW t \in Threads, Alone(t), Holding, queue' = queue, destroyed' = destroyed,
           \A n \in Nodes : Retires(t, n)' => Retires(t, n) \/ NotRetired(n),
           Bagged(t)'
    PROVE  Single'
<1>1. \A n \in Nodes : Queued(n)' <=> Queued(n)
  BY Zenon DEF Queued
<1>2. \A n \in Nodes : NotRetired(n) => ~Queued(n)
  BY Zenon DEF NotRetired, Queued
<1>3. ASSUME NEW i \in DOMAIN queue' PROVE Frozen(queue[i].epoch)' \/ Lone(i)'
  <2>1. i \in DOMAIN queue /\ queue'[i] = queue[i]
    BY <1>3, Zenon
  <2>2. CASE Frozen(queue[i].epoch)
    BY <2>1, <2>2, FrozenQueue, Zenon
  <2>3. CASE Lone(i)
    <3>1. ASSUME NEW n \in Nodes, In(n, queue'[i].nodes)
          PROVE  /\ \A k \in DOMAIN queue' : In(n, queue'[k].nodes) => k = i
                 /\ destroyed'[n] = 0 /\ \A u \in Threads : ~Retires(u, n)'
      <4>1. ~NotRetired(n)
        BY <2>1, <3>1, Zenon DEF NotRetired
      <4> QED
        BY <2>1, <2>3, <3>1, <4>1, RetiresFrame, Zenon DEF Lone
    <3> QED
      BY <2>1, <2>3, <3>1, Zenon DEF Lone
  <2> QED
    BY <2>1, <2>2, <2>3, Zenon DEF Single, Queues
<1>4. ASSUME NEW n \in Nodes, destroyed'[n] # 0
      PROVE  destroyed'[n] = 1 /\ ~Queued(n)' /\ \A u \in Threads : ~Retires(u, n)'
  <2>1. destroyed[n] = 1 /\ ~Queued(n) /\ \A u \in Threads : ~Retires(u, n)
    BY <1>4, Zenon DEF Single, Gone
  <2>2. ~NotRetired(n)
    BY <1>4, Zenon DEF NotRetired
  <2> QED
    BY <1>1, <2>1, <2>2, RetiresFrame, Zenon
<1>5. ASSUME NEW n \in Nodes, NEW u \in Threads, NEW v \in Threads, Retires(u, n)', Retires(v, n)' PROVE u = v
  <2>1. \A w \in Threads : w # t /\ Retires(w, n)' => Retires(w, n) /\ ~NotRetired(n)
    BY RetiresFrame, Zenon DEF NotRetired
  <2> QED
    BY <1>5, <2>1, Zenon DEF Single, Apart
<1>6. \A u \in Threads : Bagged(u)'
  BY <1>1, OthersBagged, Zenon DEF Single
<1> QED
  BY <1>3, <1>4, <1>5, <1>6, Zenon DEF Single, Queues, Gone, Apart

-----------------------------------------------------------------------------
\* What never expires.

\* Most steps leave the epoch and try_advance alone.
Steady(t) ==
    /\ epoch' = epoch /\ leaked \subseteq leaked'
    /\ th'[t].pc = "check" => th[t].pc = "check" /\ th'[t].ge = th[t].ge

\* Such a step frees no bag from what holds it back.
LEMMA SteadyHolds ==
    ASSUME NEW t \in Threads, Alone(t), Steady(t)
    PROVE  Holding
<1> SUFFICES ASSUME NEW s \in Nat, Frozen(s) PROVE Frozen(s)'
  BY Zenon DEF Holding
<1>1. ASSUME NEW u \in Threads, th'[u].pc = "check" PROVE th[u].pc = "check" /\ th'[u].ge = th[u].ge
  BY <1>1, Zenon DEF Alone, Steady
<1> QED
  BY <1>1, Zenon DEF Frozen, Steady

\* try_advance goes on only if all temporary participants are pinned in the epoch that it read.
LEMMA AdvanceLoadHolds ==
    ASSUME Inv, NEW t \in Threads, AdvanceLoad(t)
    PROVE  Holding
<1> SUFFICES ASSUME NEW s \in Nat, Frozen(s) PROVE Frozen(s)'
  BY ZenonT(30) DEF Holding
<1>0. Shape /\ Own(t) /\ epoch' = epoch /\ leaked' = leaked
  BY ZenonT(30) DEF Inv, AdvanceLoad, epochVars
<1>1. th'[t].ge = epoch /\ (th'[t].pc = "check" => \A l \in leaked : l[2] = epoch)
  BY <1>0, Zenon DEF AdvanceLoad, Shape, Own, Types, ThFields
<1>2. \A u \in Threads : u # t => th'[u] = th[u]
  BY <1>0, Zenon DEF AdvanceLoad, Shape
<1>3. PICK l \in leaked : l[2] <= s
  BY Zenon DEF Frozen
<1>4. th'[t].pc = "check" => th'[t].ge <= s
  <2>1. th'[t].pc = "check" => l[2] = th'[t].ge
    BY <1>1, <1>3, Zenon
  <2> QED
    BY <1>3, <2>1, Zenon
<1>5. \A u \in Threads : th'[u].pc = "check" => th'[u].ge <= s
  BY <1>2, <1>4, Zenon DEF Frozen
<1> QED
  BY <1>0, <1>3, <1>5, Zenon DEF Frozen

\* And stores the next one.
LEMMA AdvanceStoreHolds ==
    ASSUME Inv, NEW t \in Threads, AdvanceStore(t)
    PROVE  Holding
<1> SUFFICES ASSUME NEW s \in Nat, Frozen(s) PROVE Frozen(s)'
  BY Zenon DEF Holding
<1>0. Shape /\ Own(t) /\ epoch' = th[t].ge + 1 /\ leaked' = leaked /\ th[t].pc = "check" /\ th[t].ge \in Nat
  BY Zenon DEF Inv, AdvanceStore, At, Own, Types
<1>1. th'[t].pc = "pop" /\ \A u \in Threads : u # t => th'[u] = th[u]
  BY <1>0, Zenon DEF AdvanceStore, Shape, Own, Types, ThFields
<1>2. th[t].ge <= s
  BY <1>0, Zenon DEF Frozen
<1>3. epoch' <= s + 1
  BY <1>0, <1>2
<1>4. \A u \in Threads : th'[u].pc = "check" => th'[u].ge <= s
  BY <1>1, Zenon DEF Frozen
<1> QED
  BY <1>0, <1>3, <1>4, Zenon DEF Frozen

-----------------------------------------------------------------------------
\* Steps.

\* A thread that is not pushing bags has none.
LEMMA NoBags == ASSUME Single, NEW t \in Threads, th[t].pc \notin {"push", "sealed"} PROVE th[t].bags = <<>>
  BY Zenon DEF Single, Bagged

\* A step of t that retires nothing.
Plain(t) ==
    /\ Alone(t) /\ UNCHANGED <<queue, destroyed>>
    /\ th'[t].pc \notin {"defer", "sealed"} /\ th'[t].bags = <<>>
    /\ loc'[t].bag \in {loc[t].bag, <<>>}
    /\ mem'[t] \in {mem[t], <<>>} \/ \E n : mem'[t] = Append(mem[t], [op |-> "read", node |-> n])
    /\ t \notin Roots /\ th'[t].pc = "replay" => mem'[t] = <<>>

\* It keeps every node retired once, at most.
LEMMA PlainKeeps ==
    ASSUME Inv, Single, NEW t \in Threads, Plain(t), Holding
    PROVE  Single'
<1>0. mem[t] \in Seq(Result) /\ \A n : ~In(n, <<>>)
  <2>1. mem[t] \in Seq(Result)
    BY Zenon DEF Inv, Own, Vectors
  <2>2. \A n : ~In(n, <<>>)
    BY DEF In
  <2> QED
    BY <2>1, <2>2, Zenon
<1>1. \A k \in DOMAIN mem'[t] : mem'[t][k].op = "retire" => k \in DOMAIN mem[t] /\ mem'[t][k] = mem[t][k]
  <2>1. CASE mem'[t] \in {mem[t], <<>>}
    BY <2>1
  <2>2. ASSUME NEW n, mem'[t] = Append(mem[t], [op |-> "read", node |-> n])
        PROVE  \A k \in DOMAIN mem'[t] : mem'[t][k].op = "retire" => k \in DOMAIN mem[t] /\ mem'[t][k] = mem[t][k]
    <3> DEFINE r == [op |-> "read", node |-> n]
    <3>1. r.op # "retire"
      OBVIOUS
    <3> HIDE DEF r
    <3>2. \A k \in DOMAIN mem'[t] : (k \in DOMAIN mem[t] /\ mem'[t][k] = mem[t][k]) \/ mem'[t][k] = r
      BY <1>0, <2>2 DEF r
    <3> QED
      BY <3>1, <3>2, Zenon
  <2> QED
    BY <2>1, <2>2, Zenon DEF Plain
<1>2. ASSUME NEW n, Retires(t, n)' PROVE Retires(t, n)
  <2>1. In(n, loc'[t].bag) => In(n, loc[t].bag)
    BY <1>0, Zenon DEF Plain
  <2>2. ~\E i \in DOMAIN th'[t].bags : In(n, th'[t].bags[i])
    BY DEF Plain
  <2>3. th'[t].pc # "defer"
    BY Zenon DEF Plain
  <2> QED
    BY <1>1, <1>2, <2>1, <2>2, <2>3, Zenon DEF Retires
<1>3. Roots' = Roots /\ Bagged(t)
  BY Zenon DEF Plain, Alone, Roots, Single
<1>4. ASSUME t \notin Roots PROVE RetiresOnce(t)'
  <2>1. RetiresOnce(t)
    BY <1>3, <1>4, Zenon DEF Bagged
  <2>2. Distinct(<<>>)
    BY DEF Distinct
  <2>3. Distinct(loc'[t].bag)
    BY <2>1, <2>2, Zenon DEF Plain, RetiresOnce
  <2>4. DOMAIN th'[t].bags = {}
    BY DEF Plain
  <2>5. \A n \in Nodes : Retires(t, n)' => ~Queued(n)'
    BY <1>2, <2>1, Zenon DEF RetiresOnce, Plain, Queued
  <2> QED
    BY <1>4, <2>3, <2>4, <2>5, Zenon DEF RetiresOnce, Plain
<1>5. Bagged(t)'
  BY <1>3, <1>4, Zenon DEF Bagged, Plain
<1> QED
  BY <1>2, <1>5, Framed, Zenon DEF Plain

\* So most steps keep it.
LEMMA SteadyKeeps ==
    ASSUME Inv, Single, NEW t \in Threads, Plain(t), Steady(t)
    PROVE  Single'
  BY PlainKeeps, SteadyHolds, Zenon DEF Plain

\* The steps of the collector that touch no bag.
LEMMA EpochPlain ==
    ASSUME Inv, Single, NEW t \in Threads, UNCHANGED poolVars,
           \/ PinLoad(t) \/ PinStore(t) \/ AdvanceCheck(t) \/ PopDone(t) \/ UnpinStore(t)
           \/ Find(t) \/ FindPin(t) \/ Found(t) \/ Registered(t, "barrier") \/ Reset(t, "barrier")
    PROVE  Single'
<1>0. /\ DOMAIN th = Threads /\ DOMAIN loc = Threads /\ DOMAIN th[t] = ThFields /\ DOMAIN loc[t] = LocFields
      /\ Own(t) /\ UNCHANGED <<scenario, mem>>
  BY Zenon DEF Inv, Shape, Own, Types, poolVars
<1>a. th[t].pc \in Pinning \cup Collecting /\ th[t].ret = "replay" => mem[t] = <<>>
  BY <1>0, Zenon DEF Own, Pinned, EmptyMemento
<1>1. CASE PinLoad(t)
  <2>1. /\ th[t].pc = "pin" /\ th'[t].pc \in {"pin_store", th[t].ret} /\ th'[t].bags = th[t].bags
        /\ \A u \in Threads : u # t => th'[u] = th[u]
    BY <1>0, <1>1 DEF PinLoad, At, Return, Goto, ThFields
  <2>2. \A u \in Threads : loc'[u].bag = loc[u].bag
    BY <1>0, <1>1, Zenon DEF PinLoad, LocFields
  <2>3. th[t].bags = <<>> /\ th[t].ret \in {"reset", "barrier", "replay", "repinned"}
    BY <1>0, <2>1, NoBags, Zenon DEF Own, Returns, Pinning
  <2>4. Plain(t) /\ Steady(t)
    BY <1>0, <1>1, <1>a, <2>1, <2>2, <2>3, Zenon DEF PinLoad, Plain, Alone, Steady, Pinning
  <2> QED
    BY <2>4, SteadyKeeps, Zenon
<1>2. CASE PinStore(t)
  <2>1. /\ th[t].pc = "pin_store" /\ th'[t].pc \in {"advance", th[t].ret} /\ th'[t].bags = th[t].bags
        /\ \A u \in Threads : u # t => th'[u] = th[u]
    BY <1>0, <1>2 DEF PinStore, At, Return, Goto, ThFields
  <2>2. \A u \in Threads : loc'[u].bag = loc[u].bag
    BY <1>0, <1>2, Zenon DEF PinStore, LocFields
  <2>3. th[t].bags = <<>> /\ th[t].ret \in {"reset", "barrier", "replay", "repinned"}
    BY <1>0, <2>1, NoBags, Zenon DEF Own, Returns, Pinning
  <2>4. Plain(t) /\ Steady(t)
    BY <1>0, <1>2, <1>a, <2>1, <2>2, <2>3, Zenon DEF PinStore, Plain, Alone, Steady, Pinning
  <2> QED
    BY <2>4, SteadyKeeps, Zenon
<1>3. CASE AdvanceCheck(t)
  <2>1. /\ th[t].pc = "check" /\ th'[t].pc \in {"check", "pop"} /\ th'[t].bags = th[t].bags /\ th'[t].ge = th[t].ge
        /\ \A u \in Threads : u # t => th'[u] = th[u]
    BY <1>0, <1>3 DEF AdvanceCheck, At, ThFields
  <2>2. th[t].bags = <<>> /\ UNCHANGED <<epoch, loc, leaked, queue, destroyed>>
    BY <1>3, <2>1, NoBags, Zenon DEF AdvanceCheck, epochVars
  <2>3. Plain(t) /\ Steady(t)
    BY <1>0, <2>1, <2>2, Zenon DEF Plain, Alone, Steady
  <2> QED
    BY <2>3, SteadyKeeps, Zenon
<1>4. CASE PopDone(t)
  <2>1. Plain(t) /\ Steady(t)
    BY <1>0, <1>4, <1>a, NoBags, Zenon DEF PopDone, epochVars, At, Return, Goto, Plain, Alone, Steady, Own, Returns, Pinning, Collecting, ThFields
  <2> QED
    BY <2>1, SteadyKeeps, Zenon
<1>5. CASE UnpinStore(t)
  <2>1. Plain(t) /\ Steady(t)
    BY <1>0, <1>5, NoBags, Zenon DEF UnpinStore, At, Return, Goto, Plain, Alone, Steady, Own, Returns, Unpinning, ThFields, LocFields
  <2> QED
    BY <2>1, SteadyKeeps, Zenon
<1>6. CASE Find(t)
  <2>1. Plain(t) /\ Steady(t)
    BY <1>0, <1>6, NoBags, Zenon DEF Find, epochVars, At, Plain, Alone, Steady, ThFields
  <2> QED
    BY <2>1, SteadyKeeps, Zenon
<1>7. CASE FindPin(t)
  <2>1. Plain(t) /\ Steady(t)
    BY <1>0, <1>7, NoBags, Zenon DEF FindPin, Call, At, Plain, Alone, Steady, ThFields
  <2> QED
    BY <2>1, SteadyKeeps, Zenon
<1>8. CASE Found(t)
  <2>1. /\ \A u \in Threads : u # t => th'[u] = th[u] /\ loc'[u] = loc[u]
        /\ th'[t].pc \in {"pin", "advance"} /\ th'[t].bags = th[t].bags
    BY <1>0, <1>8 DEF Found, Call, ThFields
  <2>2. loc'[t].bag \in {loc[t].bag, <<>>}
    BY <1>0, <1>8 DEF Found, NewLocal, LocFields
  <2>3. Plain(t) /\ Steady(t)
    BY <1>0, <1>8, <2>1, <2>2, NoBags, Zenon DEF Found, At, Plain, Alone, Steady
  <2> QED
    BY <2>3, SteadyKeeps, Zenon
<1>9. CASE Registered(t, "barrier")
  <2>1. Plain(t) /\ Steady(t)
    BY <1>0, <1>9, NoBags, Zenon DEF Registered, epochVars, Call, At, Plain, Alone, Steady, ThFields
  <2> QED
    BY <2>1, SteadyKeeps, Zenon
<1>10. CASE Reset(t, "barrier")
  <2>1. Plain(t) /\ Steady(t)
    BY <1>0, <1>10, NoBags, Zenon DEF Reset, ResetLocal, Call, At, Plain, Alone, Steady, ThFields, LocFields
  <2> QED
    BY <2>1, SteadyKeeps, Zenon
<1> QED
  BY <1>1, <1>2, <1>3, <1>4, <1>5, <1>6, <1>7, <1>8, <1>9, <1>10, Zenon

\* try_advance.
LEMMA AdvanceOnce ==
    ASSUME Inv, Single, NEW t \in Threads, UNCHANGED poolVars, AdvanceLoad(t) \/ AdvanceStore(t)
    PROVE  Single'
<1>0. /\ DOMAIN th = Threads /\ DOMAIN th[t] = ThFields /\ Own(t) /\ UNCHANGED <<scenario, mem>>
  BY ZenonT(30) DEF Inv, Shape, Own, Types, poolVars
<1>1. CASE AdvanceLoad(t)
  <2>1. th'[t].pc \in {"check", "pop"} /\ th'[t].bags = th[t].bags /\ \A u \in Threads : u # t => th'[u] = th[u]
    BY <1>0, <1>1, Zenon DEF AdvanceLoad, ThFields
  <2>2. Plain(t)
    BY <1>0, <1>1, <2>1, NoBags, Zenon DEF AdvanceLoad, epochVars, At, Plain, Alone
  <2> QED
    BY <1>1, <2>2, PlainKeeps, AdvanceLoadHolds, ZenonT(30)
<1>2. CASE AdvanceStore(t)
  <2>1. Plain(t)
    BY <1>0, <1>2, NoBags, Zenon DEF AdvanceStore, At, Plain, Alone, ThFields
  <2> QED
    BY <1>2, <2>1, PlainKeeps, AdvanceStoreHolds, Zenon
<1> QED
  BY <1>1, <1>2, Zenon

\* The steps of the threads that retire nothing, and the death of a thread.
LEMMA PoolPlain ==
    ASSUME Inv, Single, NEW t \in Threads,
           \/ Start(t) \/ Barrier(t) \/ BarrierPass(t) \/ Exit(t) \/ Read(t)
           \/ ClearBegin(t) \/ ClearSlot(t) \/ ClearEnd(t)
           \/ Repin(t) \/ Unpinned(t) \/ Repinned(t) \/ ThreadCrash(t)
    PROVE  Single'
<1>0. /\ DOMAIN th = Threads /\ DOMAIN loc = Threads /\ DOMAIN mem = Threads
      /\ DOMAIN th[t] = ThFields /\ DOMAIN loc[t] = LocFields /\ Own(t)
  BY Zenon DEF Inv, Shape, Own, Types
<1>1. CASE Start(t)
  <2>1. /\ th[t].pc = "off" /\ th'[t].pc \in {"clear", "find", "pin"} /\ th'[t].bags = th[t].bags
        /\ \A u \in Threads : u # t => th'[u] = th[u]
    BY <1>0, <1>1 DEF Start, At, Call, Goto, ThFields
  <2>2. (\A u \in Threads : loc'[u].bag = loc[u].bag) /\ UNCHANGED <<epoch, leaked, queue, destroyed, scenario, mem>>
    BY <1>0, <1>1 DEF Start, epochVars, poolVars, LocFields
  <2>3. Plain(t) /\ Steady(t)
    BY <2>1, <2>2, NoBags, Zenon DEF Plain, Alone, Steady
  <2> QED
    BY <2>3, SteadyKeeps, Zenon
<1>2. CASE Barrier(t)
  <2>1. Plain(t) /\ Steady(t)
    BY <1>0, <1>2, NoBags, Zenon DEF Barrier, epochVars, At, Goto, Plain, Alone, Steady, ThFields
  <2> QED
    BY <2>1, SteadyKeeps, Zenon
<1>3. CASE BarrierPass(t)
  <2>1. t \in Roots
    BY <1>0, <1>3, Zenon DEF BarrierPass, At, Own, KnowsKind, Bound
  <2>2. Plain(t) /\ Steady(t)
    BY <1>0, <1>3, <2>1, NoBags, Zenon DEF BarrierPass, epochVars, poolVars, At, Goto, Plain, Alone, Steady, ThFields
  <2> QED
    BY <2>2, SteadyKeeps, Zenon
<1>4. CASE Exit(t)
  <2>1. Plain(t) /\ Steady(t)
    BY <1>0, <1>4, NoBags, Zenon DEF Exit, epochVars, poolVars, At, Goto, Plain, Alone, Steady, ThFields
  <2> QED
    BY <2>1, SteadyKeeps, Zenon
<1>5. CASE Read(t)
  <2>1. th[t].pc = "run" /\ th' = th /\ UNCHANGED <<epoch, loc, leaked, queue, destroyed, scenario>>
    BY <1>5, Zenon DEF Read, epochVars, At
  <2>2. PICK n : Record(t, "read", n)
    BY <1>5, Zenon DEF Read
  <2>3. mem'[t] = Append(mem[t], [op |-> "read", node |-> n]) /\ \A u \in Threads : u # t => mem'[u] = mem[u]
    BY <1>0, <2>2, Zenon DEF Record
  <2>4. Plain(t) /\ Steady(t)
    BY <2>1, <2>3, NoBags, Zenon DEF Plain, Alone, Steady
  <2> QED
    BY <2>4, SteadyKeeps, Zenon
<1>6. CASE ClearBegin(t)
  <2>1. Plain(t) /\ Steady(t)
    BY <1>0, <1>6, NoBags, Zenon DEF ClearBegin, epochVars, At, Call, Plain, Alone, Steady, ThFields
  <2> QED
    BY <2>1, SteadyKeeps, Zenon
<1>7. CASE ClearSlot(t)
  <2>1. Plain(t) /\ Steady(t)
    BY <1>0, <1>7, NoBags, Zenon DEF ClearSlot, epochVars, At, Plain, Alone, Steady, ThFields
  <2> QED
    BY <2>1, SteadyKeeps, Zenon
<1>8. CASE ClearEnd(t)
  <2>1. Plain(t) /\ Steady(t)
    BY <1>0, <1>8, NoBags, Zenon DEF ClearEnd, epochVars, At, Return, Goto, Plain, Alone, Steady, Own, Returns, ThFields
  <2> QED
    BY <2>1, SteadyKeeps, Zenon
<1>9. CASE Repin(t)
  <2>1. Plain(t) /\ Steady(t)
    BY <1>0, <1>9, NoBags, Zenon DEF Repin, poolVars, At, Call, Plain, Alone, Steady, ThFields, LocFields
  <2> QED
    BY <2>1, SteadyKeeps, Zenon
<1>10. CASE Unpinned(t)
  <2>1. Plain(t) /\ Steady(t)
    BY <1>0, <1>10, NoBags, Zenon DEF Unpinned, epochVars, poolVars, At, Call, Plain, Alone, Steady, ThFields
  <2> QED
    BY <2>1, SteadyKeeps, Zenon
<1>11. CASE Repinned(t)
  <2>1. Plain(t) /\ Steady(t)
    BY <1>0, <1>11, NoBags, Zenon DEF Repinned, At, Goto, Plain, Alone, Steady, ThFields, LocFields
  <2> QED
    BY <2>1, SteadyKeeps, Zenon
<1>12. CASE ThreadCrash(t)
  <2>1. th'[t] = NewThread("off")
    BY <1>0, <1>12, Zenon DEF ThreadCrash
  <2>2. Plain(t) /\ Steady(t)
    BY <1>0, <1>12, <2>1, NewThreadFields, Zenon DEF ThreadCrash, epochVars, Plain, Alone, Steady
  <2> QED
    BY <2>2, SteadyKeeps, Zenon
<1> QED
  BY <1>1, <1>2, <1>3, <1>4, <1>5, <1>6, <1>7, <1>8, <1>9, <1>10, <1>11, <1>12, Zenon

\* A node that the memento, or a local variable, says is to be retired is deferred; by a worker
\* only once.
LEMMA DefersOnce ==
    ASSUME Inv, Single, NEW t \in Threads, th[t].pc \in {"replay", "defer"},
           NEW pc \in {"replay", "run"}, Goes(t, pc, th[t].ret, th[t].e),
           NEW n \in Nodes, Retires(t, n), DeferNode(t, n),
           t \notin Roots => th[t].pc = "defer" /\ pc = "run" /\ n = th[t].e,
           UNCHANGED <<epoch, leaked, queue, destroyed, poolVars>>
    PROVE  Single'
<1>0. /\ DOMAIN loc = Threads /\ DOMAIN loc[t] = LocFields /\ loc[t].bag \in Seq(Nodes) /\ th[t].bags = <<>>
      /\ UNCHANGED <<scenario, mem>>
  BY NoBags, Zenon DEF Inv, Shape, Own, Types, Vectors, poolVars
<1>1. loc'[t].bag = Append(loc[t].bag, n) /\ \A u \in Threads : u # t => loc'[u] = loc[u]
  BY <1>0, Zenon DEF DeferNode, LocFields
<1>2. Alone(t) /\ Steady(t)
  BY <1>0, <1>1, Zenon DEF Goes, Alone, Steady
<1>3. ASSUME NEW m, Retires(t, m)' PROVE Retires(t, m)
  <2>1. In(m, loc'[t].bag) => Retires(t, m)
    BY <1>0, <1>1, InAppend, Zenon DEF Retires
  <2> QED
    BY <1>0, <1>3, <2>1, Zenon DEF Goes, Retires
<1>4. ASSUME t \notin Roots PROVE RetiresOnce(t)'
  <2>1. RetiresOnce(t)
    BY <1>4, Zenon DEF Single, Bagged
  <2>2. Distinct(loc[t].bag) /\ ~In(n, loc[t].bag)
    BY <1>4, <2>1, Zenon DEF RetiresOnce
  <2>3. Distinct(loc'[t].bag)
    BY <1>0, <1>1, <2>2 DEF Distinct, In
  <2>4. DOMAIN th'[t].bags = {}
    BY <1>0 DEF Goes
  <2>5. \A m \in Nodes : Retires(t, m)' => ~Queued(m)'
    BY <1>3, <2>1, Zenon DEF RetiresOnce, Queued
  <2> QED
    BY <1>4, <2>3, <2>4, <2>5, Zenon DEF RetiresOnce, Goes
<1>5. Bagged(t)'
  BY <1>0, <1>4, Zenon DEF Bagged, Goes, Roots
<1> QED
  BY <1>2, <1>3, <1>5, SteadyHolds, Framed, Zenon

\* A thread goes through the operations in its memento; a worker finds none.
LEMMA ReplayOnce == ASSUME Inv, Single, NEW t \in Threads, Replay(t) PROVE Single'
<1>0. /\ DOMAIN th = Threads /\ DOMAIN th[t] = ThFields /\ th[t].pc = "replay" /\ th[t].k \in Nat \ {0}
      /\ mem[t] \in Seq(Result) /\ (t \notin Roots => mem[t] = <<>>)
      /\ UNCHANGED <<epoch, leaked, queue, destroyed, scenario, mem>>
  BY Zenon DEF Inv, Shape, Replay, At, Own, Types, Vectors, Single, Bagged, RetiresOnce, poolVars
<1>1. ASSUME th'[t].pc \in {"replay", "run"}, th'[t].bags = th[t].bags, \A u \in Threads : u # t => th'[u] = th[u], loc' = loc
      PROVE  Single'
  <2>1. Plain(t) /\ Steady(t)
    BY <1>0, <1>1, NoBags, Zenon DEF Plain, Alone, Steady
  <2> QED
    BY <2>1, SteadyKeeps, Zenon
<1>2. CASE th[t].k > Len(mem[t])
  <2>1. th'[t].pc = "run" /\ th'[t].bags = th[t].bags /\ (\A u \in Threads : u # t => th'[u] = th[u]) /\ loc' = loc
    BY <1>0, <1>2 DEF Replay, Goto, ThFields
  <2> QED
    BY <1>1, <2>1, Zenon
<1>3. CASE th[t].k <= Len(mem[t])
  <2>1. th[t].k \in DOMAIN mem[t] /\ t \in Roots
    BY <1>0, <1>3
  <2>2. Goes(t, "replay", th[t].ret, th[t].e)
    BY <1>0, <1>3 DEF Replay, Goes, ThFields
  <2>3. CASE mem[t][th[t].k].op # "retire"
    <3>1. UNCHANGED loc
      BY <1>0, <1>3, <2>3, Zenon DEF Replay
    <3> QED
      BY <1>1, <2>2, <3>1, Zenon DEF Goes
  <2>4. CASE mem[t][th[t].k].op = "retire"
    <3>1. DeferNode(t, mem[t][th[t].k].node)
      BY <1>0, <1>3, <2>4 DEF Replay
    <3>2. mem[t][th[t].k].node \in Nodes /\ Retires(t, mem[t][th[t].k].node)
      BY <2>1, <2>4, Zenon DEF Inv, Own, Vectors, Retires
    <3>3. UNCHANGED <<epoch, leaked, queue, destroyed, poolVars>>
      BY Zenon DEF Replay
    <3> QED
      BY <1>0, <2>1, <2>2, <3>1, <3>2, <3>3, DefersOnce, Zenon
  <2> QED
    BY <2>3, <2>4, Zenon
<1> QED
  BY <1>0, <1>2, <1>3

\* The node that was unlinked is deferred.
LEMMA DeferOnce == ASSUME Inv, Single, NEW t \in Threads, Defer(t) PROVE Single'
<1>1. Shape /\ Own(t) /\ th[t].pc = "defer" /\ DeferNode(t, th[t].e)
  BY Zenon DEF Inv, Defer, At
<1>2. Goes(t, "run", th[t].ret, th[t].e)
  BY <1>1, Zenon DEF Defer, Goto, Goes, Shape, Own, Types, ThFields
<1>3. th[t].e \in Nodes /\ Retires(t, th[t].e)
  BY <1>1, Zenon DEF Own, Vectors, Retires
<1> QED
  BY <1>1, <1>2, <1>3, DefersOnce, Zenon DEF Defer

\* A node that is unlinked was retired nowhere.
LEMMA UnlinkOnce == ASSUME Inv, Single, NEW t \in Threads, Unlink(t) PROVE Single'
<1>0. /\ DOMAIN th = Threads /\ DOMAIN th[t] = ThFields /\ DOMAIN mem = Threads /\ mem[t] \in Seq(Result)
      /\ th[t].pc = "run" /\ th[t].bags = <<>>
      /\ UNCHANGED <<epoch, loc, leaked, queue, destroyed, scenario>>
  BY NoBags, Zenon DEF Inv, Shape, Own, Types, Vectors, Unlink, At, epochVars
<1>1. CASE Record(t, "read", 0) /\ th' = th
  <2>1. mem'[t] = Append(mem[t], [op |-> "read", node |-> 0]) /\ \A u \in Threads : u # t => mem'[u] = mem[u]
    BY <1>0, <1>1, Zenon DEF Record
  <2>2. Plain(t) /\ Steady(t)
    BY <1>0, <1>1, <2>1, Zenon DEF Plain, Alone, Steady
  <2> QED
    BY <2>2, SteadyKeeps, Zenon
<1>2. ASSUME NEW n \in linked, Record(t, "retire", n), th' = [th EXCEPT ![t].e = n, ![t].pc = "defer"]
      PROVE  Single'
  <2> DEFINE r == [op |-> "retire", node |-> n]
  <2>1. mem'[t] = Append(mem[t], r) /\ r.node = n /\ \A u \in Threads : u # t => mem'[u] = mem[u]
    BY <1>0, <1>2, Zenon DEF Record
  <2> HIDE DEF r
  <2>2. \A k \in DOMAIN mem'[t] : (k \in DOMAIN mem[t] /\ mem'[t][k] = mem[t][k]) \/ mem'[t][k] = r
    BY <1>0, <2>1
  <2>3. /\ th'[t].pc = "defer" /\ th'[t].e = n /\ th'[t].bags = <<>>
        /\ \A u \in Threads : u # t => th'[u] = th[u]
    BY <1>0, <1>2, Zenon DEF ThFields
  <2>4. Alone(t) /\ Steady(t)
    BY <1>0, <2>1, <2>3, Zenon DEF Alone, Steady
  <2>5. NotRetired(n)
    BY Zenon DEF Inv, Reclaim
  <2>6. ASSUME NEW m, Retires(t, m)' PROVE Retires(t, m) \/ m = n
    BY <1>0, <2>1, <2>2, <2>3, <2>6, Zenon DEF Retires
  <2>7. ASSUME t \notin Roots PROVE RetiresOnce(t)'
    <3>1. RetiresOnce(t)
      BY <2>7, Zenon DEF Single, Bagged
    <3>2. DOMAIN th'[t].bags = {}
      BY <2>3
    <3>3. \A m \in Nodes : Retires(t, m)' => ~Queued(m)'
      BY <1>0, <2>5, <2>6, <3>1, Zenon DEF RetiresOnce, Queued, NotRetired
    <3>4. ~In(n, loc[t].bag)
      BY <2>5, Zenon DEF NotRetired, Retires
    <3> QED
      BY <1>0, <2>3, <3>1, <3>2, <3>3, <3>4, Zenon DEF RetiresOnce
  <2>8. Bagged(t)'
    BY <1>0, <2>3, <2>7, Zenon DEF Bagged, Roots
  <2> QED
    BY <1>0, <2>4, <2>5, <2>6, <2>8, SteadyHolds, Framed, Zenon
<1> QED
  BY <1>1, <1>2, Zenon DEF Unlink

\* The bags that are made from a vector share no position of it.
LEMMA BagsDistinct ==
    ASSUME NEW bag \in Seq(Nodes), Distinct(bag)
    PROVE  \A b \in DOMAIN DedupAsBags(bag) :
               /\ Distinct(DedupAsBags(bag)[b])
               /\ \A c \in DOMAIN DedupAsBags(bag) : \A n : In(n, DedupAsBags(bag)[b]) /\ In(n, DedupAsBags(bag)[c]) => b = c
<1> DEFINE kept == Dedup(bag)
<1> DEFINE k == (Cardinality(kept) + MaxObjects - 1) \div MaxObjects
<1> DEFINE at(j) == Cardinality({i \in kept : i > j}) \div MaxObjects
<1> DEFINE part(b) == {j \in kept : at(j) = b - 1}
<1>1. kept \subseteq DOMAIN bag
  BY Zenon DEF Dedup
<1>2. DedupAsBags(bag) = [b \in 1 .. k |-> [i \in part(b) |-> bag[i]]]
  BY Zenon DEF DedupAsBags
<1>3. \A b \in 1 .. k : \A c \in 1 .. k : \A j \in part(b) : j \in part(c) => b = c
  <2> SUFFICES ASSUME NEW b \in 1 .. k, NEW c \in 1 .. k, NEW j \in part(b), j \in part(c) PROVE b = c
    BY Zenon
  <2>1. b - 1 = c - 1
    BY Zenon
  <2>2. b \in Int /\ c \in Int
    <3> HIDE DEF k
    <3> QED OBVIOUS
  <2> QED
    BY <2>1, <2>2
<1>4. \A b : part(b) \subseteq DOMAIN bag
  BY <1>1, Zenon
<1>5. DOMAIN DedupAsBags(bag) = 1 .. k
  BY <1>2, Zenon
<1>6. \A b \in 1 .. k : DOMAIN DedupAsBags(bag)[b] = part(b) /\ \A i \in part(b) : DedupAsBags(bag)[b][i] = bag[i]
  BY <1>2, Zenon
<1> HIDE DEF kept, k, at, part
<1>7. ASSUME NEW b \in 1 .. k PROVE Distinct(DedupAsBags(bag)[b])
  BY <1>4, <1>6, Zenon DEF Distinct
<1>8. ASSUME NEW b \in 1 .. k, NEW c \in 1 .. k, NEW n, In(n, DedupAsBags(bag)[b]), In(n, DedupAsBags(bag)[c]) PROVE b = c
  <2>1. PICK i \in part(b) : bag[i] = n
    BY <1>6, <1>8, Zenon DEF In
  <2>2. PICK j \in part(c) : bag[j] = n
    BY <1>6, <1>8, Zenon DEF In
  <2>3. i = j
    BY <1>4, <2>1, <2>2, Zenon DEF Distinct
  <2> QED
    BY <1>3, <2>3, Zenon
<1> QED
  BY <1>5, <1>7, <1>8, Zenon

\* Local::unpin moves what a participant has collected to bags.
LEMMA UnpinOnce == ASSUME Inv, Single, Counting, NEW t \in Threads, Unpin(t), UNCHANGED poolVars PROVE Single'
<1>0. /\ DOMAIN th = Threads /\ DOMAIN loc = Threads /\ DOMAIN th[t] = ThFields /\ DOMAIN loc[t] = LocFields
      /\ th[t].pc = "unpin" /\ th[t].bags = <<>> /\ loc[t].bag \in Seq(Nodes)
      /\ UNCHANGED <<epoch, leaked, queue, destroyed, scenario, mem>>
  BY NoBags, Zenon DEF Inv, Shape, Own, Types, Vectors, Unpin, At, poolVars
<1>1. CASE Len(loc[t].bag) >= MaxObjects
  <2>1. /\ th'[t].pc = "push" /\ th'[t].bags = DedupAsBags(loc[t].bag) /\ loc'[t].bag = <<>>
        /\ \A u \in Threads : u # t => th'[u] = th[u] /\ loc'[u] = loc[u]
    BY <1>0, <1>1 DEF Unpin, LeftOver, ThFields, LocFields
  <2>2. \A n : (\E i \in DOMAIN th'[t].bags : In(n, th'[t].bags[i])) => In(n, loc[t].bag)
    BY <1>0, <2>1, BagsOf, Zenon
  <2>3. \A n : ~In(n, <<>>)
    BY DEF In
  <2>4. Alone(t) /\ Steady(t)
    BY <1>0, <2>1, Zenon DEF Alone, Steady
  <2>5. ASSUME NEW n, Retires(t, n)' PROVE Retires(t, n)
    BY <1>0, <2>1, <2>2, <2>3, <2>5, Zenon DEF Retires
  <2>6. ASSUME t \notin Roots PROVE RetiresOnce(t)'
    <3>1. RetiresOnce(t)
      BY <2>6, Zenon DEF Single, Bagged
    <3>2. \A b \in DOMAIN th'[t].bags :
              /\ Distinct(th'[t].bags[b])
              /\ \A c \in DOMAIN th'[t].bags : \A n \in Nodes : In(n, th'[t].bags[b]) /\ In(n, th'[t].bags[c]) => b = c
      BY <1>0, <2>1, <3>1, BagsDistinct, Zenon DEF RetiresOnce
    <3>3. \A n \in Nodes : Retires(t, n)' => ~Queued(n)'
      BY <1>0, <2>5, <3>1, Zenon DEF RetiresOnce, Queued
    <3>4. Distinct(loc'[t].bag)
      BY <2>1 DEF Distinct
    <3> QED
      BY <2>1, <3>2, <3>3, <3>4, Zenon DEF RetiresOnce
  <2>7. Bagged(t)'
    BY <1>0, <2>1, <2>6, Zenon DEF Bagged, Roots
  <2> QED
    BY <1>0, <2>4, <2>5, <2>7, SteadyHolds, Framed, Zenon
<1>2. CASE ~(Len(loc[t].bag) >= MaxObjects)
  <2>1. /\ th'[t].pc = "unpin_store" /\ th'[t].bags = th[t].bags /\ loc'[t].bag = loc[t].bag
        /\ \A u \in Threads : u # t => th'[u] = th[u] /\ loc'[u] = loc[u]
    BY <1>0, <1>2 DEF Unpin, Goto, ThFields, LocFields
  <2>2. Plain(t) /\ Steady(t)
    BY <1>0, <2>1, Zenon DEF Plain, Alone, Steady
  <2> QED
    BY <2>2, SteadyKeeps, Zenon
<1> QED
  BY <1>1, <1>2, Zenon

\* push_bag reads the epoch; what a root seals never expires, because a temporary participant is
\* pinned.
LEMMA SealOnce == ASSUME Inv, Single, NEW t \in Threads, Seal(t), UNCHANGED poolVars PROVE Single'
<1>0. /\ DOMAIN th = Threads /\ DOMAIN th[t] = ThFields /\ th[t].pc = "push" /\ Own(t) /\ Globals /\ Bagged(t)
      /\ UNCHANGED <<epoch, loc, leaked, queue, destroyed, scenario, mem>>
  BY Zenon DEF Inv, Shape, Own, Types, Single, Seal, At, epochVars, poolVars
<1>1. CASE th[t].bags = <<>>
  <2>1. th'[t].pc = "unpin_store" /\ th'[t].bags = th[t].bags /\ \A u \in Threads : u # t => th'[u] = th[u]
    BY <1>0, <1>1 DEF Seal, Goto, ThFields
  <2>2. Plain(t) /\ Steady(t)
    BY <1>0, <1>1, <2>1, Zenon DEF Plain, Alone, Steady
  <2> QED
    BY <2>2, SteadyKeeps, Zenon
<1>2. CASE th[t].bags # <<>>
  <2>1. /\ th'[t].pc = "sealed" /\ th'[t].e = epoch /\ th'[t].bags = th[t].bags
        /\ \A u \in Threads : u # t => th'[u] = th[u]
    BY <1>0, <1>2, ZenonT(30) DEF Seal, ThFields
  <2>2. Alone(t) /\ Steady(t)
    BY <1>0, <2>1, Zenon DEF Alone, Steady
  <2>3. ASSUME NEW n, Retires(t, n)' PROVE Retires(t, n)
    BY <1>0, <2>1, <2>3, Zenon DEF Retires
  <2>4. ASSUME t \in Roots PROVE Frozen(th[t].e)'
    <3>1. leaked # {}
      BY <1>0, <2>4, Zenon DEF Own, KnowsKind, Finding
    <3>2. \E l \in leaked : l[2] <= epoch
      BY <1>0, <3>1, Zenon DEF Globals
    <3>3. epoch <= epoch + 1
      BY <1>0 DEF Globals
    <3>4. \A u \in Threads : th'[u].pc = "check" => th'[u].ge <= epoch
      BY <2>1, Zenon DEF Inv, Own, Behind
    <3> QED
      BY <1>0, <2>1, <3>2, <3>3, <3>4, Zenon DEF Frozen
  <2>5. ASSUME t \notin Roots PROVE RetiresOnce(t)'
    <3>1. RetiresOnce(t)
      BY <1>0, <2>5, Zenon DEF Bagged
    <3>2. \A n \in Nodes : Retires(t, n)' => ~Queued(n)'
      BY <1>0, <2>3, <3>1, Zenon DEF RetiresOnce, Queued
    <3> QED
      BY <1>0, <2>1, <3>1, <3>2, Zenon DEF RetiresOnce
  <2>6. Bagged(t)'
    BY <1>0, <2>1, <2>4, <2>5, Zenon DEF Bagged, Roots
  <2> QED
    BY <1>0, <2>2, <2>3, <2>6, SteadyHolds, Framed, Zenon
<1> QED
  BY <1>1, <1>2, Zenon

\* push_bag pushes the bag: what a worker retired is then in this bag only.
LEMMA PushBagOnce == ASSUME Inv, Single, NEW t \in Threads, PushBag(t), UNCHANGED poolVars PROVE Single'
<1> DEFINE bag == [epoch |-> th[t].e, nodes |-> Pushed(t)]
<1>0. /\ DOMAIN th = Threads /\ DOMAIN th[t] = ThFields /\ th[t].pc = "sealed" /\ th[t].bags \in Seq(Bag)
      /\ th[t].e \in Nat /\ queue \in Seq(Sealed) /\ Own(t) /\ Bagged(t)
  BY Zenon DEF Inv, Shape, Own, Types, Vectors, Globals, Single, PushBag, At
<1>1. /\ queue' = Append(queue, bag) /\ bag.epoch = th[t].e /\ bag.nodes = Pushed(t)
      /\ UNCHANGED <<epoch, loc, leaked, destroyed, scenario, mem>>
  BY Zenon DEF PushBag, poolVars, Pushed
<1>2. /\ th'[t].pc = "push" /\ th'[t].bags = SubSeq(th[t].bags, 1, Len(th[t].bags) - 1)
      /\ \A u \in Threads : u # t => th'[u] = th[u]
  BY <1>0, Zenon DEF PushBag, ThFields
<1>3. /\ Len(th[t].bags) \in DOMAIN th[t].bags /\ Pushed(t) \in Bag
      /\ \A n : In(n, Pushed(t)) => Retires(t, n)
  BY <1>0, PushedIsRetired, Zenon
<1>4. \A i \in DOMAIN th'[t].bags : i \in DOMAIN th[t].bags /\ th'[t].bags[i] = th[t].bags[i] /\ i # Len(th[t].bags)
  BY <1>0, <1>2
<1>5. bag \in Sealed
  BY <1>0, <1>3, Zenon DEF Sealed
<1> HIDE DEF bag
<1>a. PICK last \in Nat : last = Len(queue) + 1
  BY <1>0
<1>6. /\ last \in DOMAIN queue' /\ queue'[last] = bag
      /\ \A i \in DOMAIN queue : i \in DOMAIN queue' /\ queue'[i] = queue[i] /\ i # last
      /\ \A i \in DOMAIN queue' : i \in DOMAIN queue \/ i = last
  BY <1>0, <1>1, <1>5, <1>a
<1>7. Alone(t) /\ Steady(t)
  BY <1>1, <1>2, Zenon DEF Alone, Steady
<1>8. Holding
  BY <1>7, SteadyHolds, Zenon
<1>9. ASSUME NEW u \in Threads, NEW n, Retires(u, n)' PROVE Retires(u, n)
  <2>1. CASE u = t
    BY <1>1, <1>2, <1>4, <1>9, <2>1, Zenon DEF Retires
  <2>2. CASE u # t
    BY <1>7, <1>9, <2>2, RetiresFrame, Zenon
  <2> QED
    BY <2>1, <2>2, Zenon
<1>10. \A n : Queued(n)' <=> Queued(n) \/ In(n, Pushed(t))
  BY <1>1, <1>6, Zenon DEF Queued
<1>11. ASSUME NEW i \in DOMAIN queue PROVE Frozen(queue[i].epoch)' \/ Lone(i)'
  <2>1. CASE Frozen(queue[i].epoch)
    BY <1>6, <1>8, <2>1, FrozenQueue, Zenon
  <2>2. CASE Lone(i)
    <3>1. \A n \in Nodes : In(n, queue[i].nodes) => ~In(n, Pushed(t))
      BY <1>3, <2>2, Zenon DEF Lone
    <3>2. ASSUME NEW n \in Nodes, In(n, queue'[i].nodes)
          PROVE  /\ \A k \in DOMAIN queue' : In(n, queue'[k].nodes) => k = i
                 /\ destroyed'[n] = 0 /\ \A u \in Threads : ~Retires(u, n)'
      BY <1>1, <1>6, <1>9, <2>2, <3>1, <3>2, ZenonT(30) DEF Lone
    <3> QED
      BY <1>6, <2>2, <3>2, Zenon DEF Lone
  <2> QED
    BY <2>1, <2>2, Zenon DEF Single, Queues
<1>12. ASSUME t \notin Roots, NEW n \in Nodes, In(n, Pushed(t)) PROVE ~Retires(t, n)' /\ ~Queued(n)
  <2>1. RetiresOnce(t) /\ Retires(t, n)
    BY <1>0, <1>3, <1>12, Zenon DEF Bagged
  <2>2. \A i \in DOMAIN th'[t].bags : ~In(n, th'[t].bags[i])
    BY <1>3, <1>4, <1>12, <2>1, Zenon DEF RetiresOnce, Pushed
  <2>3. loc[t].bag = <<>> /\ mem[t] = <<>>
    BY <1>0, Zenon DEF Bagged, Own, Vectors, Pinned, EmptyMemento, Unpinning
  <2>4. ~In(n, loc'[t].bag) /\ DOMAIN mem'[t] = {}
    BY <1>1, <2>3 DEF In
  <2> QED
    BY <1>2, <2>1, <2>2, <2>4, Zenon DEF RetiresOnce, Retires
<1>13. Frozen(queue[last].epoch)' \/ Lone(last)'
  <2>1. CASE t \in Roots
    <3>1. PICK s \in Nat : s = th[t].e
      BY <1>0, Zenon
    <3>2. Frozen(s)'
      BY <1>0, <1>8, <2>1, <3>1, Zenon DEF Bagged, Holding
    <3> QED
      BY <1>1, <1>6, <3>1, <3>2, Zenon DEF Frozen
  <2>2. CASE t \notin Roots
    <3>1. Distinct(Pushed(t))
      BY <1>0, <1>3, <2>2, Zenon DEF Bagged, RetiresOnce, Pushed
    <3>2. ASSUME NEW n \in Nodes, In(n, Pushed(t))
          PROVE  /\ \A k \in DOMAIN queue' : In(n, queue'[k].nodes) => k = last
                 /\ destroyed'[n] = 0 /\ \A u \in Threads : ~Retires(u, n)'
      <4>1. Retires(t, n) /\ ~Retires(t, n)' /\ ~Queued(n)
        BY <1>3, <1>12, <2>2, <3>2, Zenon
      <4>2. \A k \in DOMAIN queue' : In(n, queue'[k].nodes) => k = last
        BY <1>6, <4>1, Zenon DEF Queued
      <4>3. destroyed'[n] = 0
        BY <1>1, <4>1, Zenon DEF Single, Gone
      <4>4. \A u \in Threads : ~Retires(u, n)'
        BY <1>9, <4>1, Zenon DEF Single, Apart
      <4> QED
        BY <4>2, <4>3, <4>4, Zenon
    <3> QED
      BY <1>1, <1>6, <3>1, <3>2, Zenon DEF Lone
  <2> QED
    BY <2>1, <2>2, Zenon
<1>14. Queues'
  BY <1>6, <1>11, <1>13, Zenon DEF Queues
<1>15. Gone' /\ Apart'
  <2>1. ASSUME NEW n \in Nodes, destroyed'[n] # 0
        PROVE  destroyed'[n] = 1 /\ ~Queued(n)' /\ \A u \in Threads : ~Retires(u, n)'
    BY <1>1, <1>3, <1>9, <1>10, <2>1, Zenon DEF Single, Gone
  <2>2. Apart'
    BY <1>9, Zenon DEF Single, Apart
  <2> QED
    BY <2>1, <2>2, Zenon DEF Gone
<1>16. ASSUME NEW u \in Threads, u # t PROVE Bagged(u)'
  <2>1. \A n \in Nodes : Retires(u, n) /\ ~Queued(n) => ~Queued(n)'
    BY <1>3, <1>10, <1>16, Zenon DEF Single, Apart
  <2> QED
    BY <1>7, <1>8, <1>16, <2>1, OthersBagged, Zenon DEF Single
<1>17. ASSUME t \notin Roots PROVE RetiresOnce(t)'
  <2>1. RetiresOnce(t)
    BY <1>0, <1>17, Zenon DEF Bagged
  <2>2. \A n \in Nodes : Retires(t, n)' => ~Queued(n)'
    BY <1>9, <1>10, <1>12, <1>17, <2>1, Zenon DEF RetiresOnce
  <2>3. \A b \in DOMAIN th'[t].bags :
            /\ Distinct(th'[t].bags[b])
            /\ \A c \in DOMAIN th'[t].bags : \A n \in Nodes : In(n, th'[t].bags[b]) /\ In(n, th'[t].bags[c]) => b = c
    BY <1>4, <2>1, Zenon DEF RetiresOnce
  <2> QED
    BY <1>1, <1>2, <2>1, <2>2, <2>3, Zenon DEF RetiresOnce
<1>18. Bagged(t)'
  BY <1>0, <1>1, <1>2, <1>17, Zenon DEF Bagged, Own, Vectors, Roots
<1> QED
  BY <1>14, <1>15, <1>16, <1>18, Zenon DEF Single

\* A bag that is popped has expired, and so its nodes are nowhere else.
LEMMA PopOnce == ASSUME Inv, Single, Counting, NEW t \in Threads, Pop(t), UNCHANGED poolVars PROVE Single'
<1>0. /\ DOMAIN th = Threads /\ DOMAIN th[t] = ThFields /\ th[t].pc = "pop" /\ Own(t) /\ Globals /\ Bagged(t)
      /\ queue # <<>> /\ queue' = Tail(queue)
      /\ UNCHANGED <<epoch, loc, leaked, scenario, mem>>
  BY Zenon DEF Inv, Shape, Own, Types, Single, Pop, At, Poppable, poolVars
<1>1. /\ th'[t].pc = "pop" /\ th'[t].bags = <<>> /\ th'[t].e = th[t].e
      /\ \A u \in Threads : u # t => th'[u] = th[u]
  BY <1>0, NoBags, Zenon DEF Pop, ThFields
<1>2. /\ Head(queue) = queue[1] /\ 1 \in DOMAIN queue
      /\ \A i \in DOMAIN queue' : i + 1 \in DOMAIN queue /\ queue'[i] = queue[i + 1] /\ i + 1 # 1
      /\ \A i \in DOMAIN queue' : \A k \in DOMAIN queue' : i + 1 = k + 1 => i = k
  BY <1>0 DEF Globals
<1>3. Lone(1)
  <2>1. th[t].ge - queue[1].epoch >= 2 /\ queue[1].epoch \in Nat /\ th[t].ge <= epoch /\ epoch \in Nat /\ th[t].ge \in Nat
    BY <1>0, <1>2, QueueTypes, Zenon DEF Pop, Poppable, Expired, Own, Types, Behind, Globals
  <2>2. ~(epoch <= queue[1].epoch + 1)
    BY <2>1
  <2>3. ~Frozen(queue[1].epoch)
    BY <2>2, Zenon DEF Frozen
  <2> QED
    BY <1>2, <2>3, Zenon DEF Single, Queues
<1>4. Alone(t) /\ Steady(t)
  BY <1>0, <1>1, Zenon DEF Alone, Steady
<1>5. Holding
  BY <1>4, SteadyHolds, Zenon
<1>6. ASSUME NEW u \in Threads, NEW n, Retires(u, n)' PROVE Retires(u, n)
  <2>1. CASE u = t
    <3>1. ~\E i \in DOMAIN th'[t].bags : In(n, th'[t].bags[i])
      BY <1>1
    <3> QED
      BY <1>0, <1>1, <1>6, <2>1, <3>1, Zenon DEF Retires
  <2>2. CASE u # t
    BY <1>4, <1>6, <2>2, RetiresFrame, Zenon
  <2> QED
    BY <2>1, <2>2, Zenon
<1>7. \A n : Queued(n)' => Queued(n)
  BY <1>2, Zenon DEF Queued
<1> DEFINE at(n) == {i \in DOMAIN queue[1].nodes : queue[1].nodes[i] = n}
<1>8. \A n \in Nodes : destroyed'[n] = destroyed[n] + Cardinality(at(n))
  BY <1>2, Zenon DEF Pop
<1>9. ASSUME NEW n \in Nodes, In(n, queue[1].nodes) PROVE destroyed'[n] = 1 /\ ~Queued(n)'
  <2>1. PICK i \in DOMAIN queue[1].nodes : queue[1].nodes[i] = n
    BY <1>9, Zenon DEF In
  <2>2. at(n) = {i}
    BY <1>3, <2>1 DEF Lone, Distinct
  <2>3. Cardinality({i}) = 1
    BY Zenon DEF Counting
  <2>4. destroyed[n] = 0
    BY <1>3, <1>9, Zenon DEF Lone
  <2>5. destroyed'[n] = 0 + 1
    BY <1>8, <2>2, <2>3, <2>4, Zenon
  <2>6. ~Queued(n)'
    BY <1>2, <1>3, <1>9, Zenon DEF Lone, Queued
  <2> QED
    BY <2>5, <2>6
<1>10. ASSUME NEW n \in Nodes, ~In(n, queue[1].nodes) PROVE destroyed'[n] = destroyed[n]
  <2>1. at(n) = {}
    BY <1>10, Zenon DEF In
  <2>2. Cardinality({}) = 0
    BY Zenon DEF Counting
  <2>3. destroyed'[n] = destroyed[n] + 0
    BY <1>8, <2>1, <2>2, Zenon
  <2>4. destroyed[n] \in {0, 1}
    BY Zenon DEF Single, Gone
  <2> QED
    BY <2>3, <2>4
<1>11. ASSUME NEW i \in DOMAIN queue' PROVE Frozen(queue[i].epoch)' \/ Lone(i)'
  <2>0. PICK j \in DOMAIN queue : j = i + 1
    BY <1>2, <1>11, Zenon
  <2>1. queue'[i] = queue[j] /\ j # 1 /\ \A k \in DOMAIN queue' : k + 1 \in DOMAIN queue /\ queue'[k] = queue[k + 1] /\ (k + 1 = j => k = i)
    BY <1>2, <1>11, <2>0, Zenon
  <2>2. CASE Frozen(queue[j].epoch)
    BY <1>5, <2>1, <2>2, FrozenQueue, Zenon
  <2>3. CASE Lone(j)
    <3>1. ASSUME NEW n \in Nodes, In(n, queue'[i].nodes)
          PROVE  /\ \A k \in DOMAIN queue' : In(n, queue'[k].nodes) => k = i
                 /\ destroyed'[n] = 0 /\ \A u \in Threads : ~Retires(u, n)'
      <4>1. /\ \A k \in DOMAIN queue : In(n, queue[k].nodes) => k = j
            /\ destroyed[n] = 0 /\ \A u \in Threads : ~Retires(u, n)
        BY <2>1, <2>3, <3>1, Zenon DEF Lone
      <4>2. ~In(n, queue[1].nodes)
        BY <1>2, <2>1, <4>1, Zenon
      <4>3. destroyed'[n] = 0
        BY <1>10, <4>1, <4>2, Zenon
      <4>4. \A k \in DOMAIN queue' : In(n, queue'[k].nodes) => k = i
        BY <2>1, <4>1, Zenon
      <4> QED
        BY <1>6, <4>1, <4>3, <4>4, Zenon
    <3> QED
      BY <2>1, <2>3, <3>1, Zenon DEF Lone
  <2> QED
    BY <2>0, <2>2, <2>3, Zenon DEF Single, Queues
<1>12. ASSUME NEW n \in Nodes, destroyed'[n] # 0
       PROVE  destroyed'[n] = 1 /\ ~Queued(n)' /\ \A u \in Threads : ~Retires(u, n)'
  <2>1. CASE In(n, queue[1].nodes)
    BY <1>2, <1>3, <1>6, <1>9, <2>1, Zenon DEF Lone
  <2>2. CASE ~In(n, queue[1].nodes)
    BY <1>6, <1>7, <1>10, <1>12, <2>2, Zenon DEF Single, Gone
  <2> QED
    BY <2>1, <2>2, Zenon
<1>13. Apart'
  BY <1>6, Zenon DEF Single, Apart
<1>14. ASSUME NEW u \in Threads, u # t PROVE Bagged(u)'
  BY <1>4, <1>5, <1>7, <1>14, OthersBagged, Zenon DEF Single
<1>15. ASSUME t \notin Roots PROVE RetiresOnce(t)'
  <2>1. RetiresOnce(t)
    BY <1>0, <1>15, Zenon DEF Bagged
  <2>2. DOMAIN th'[t].bags = {}
    BY <1>1
  <2> QED
    BY <1>0, <1>1, <1>6, <1>7, <2>1, <2>2, Zenon DEF RetiresOnce
<1>16. Bagged(t)'
  BY <1>0, <1>1, <1>15, Zenon DEF Bagged, Roots
<1> QED
  BY <1>11, <1>12, <1>13, <1>14, <1>16, Zenon DEF Single, Queues, Gone
=============================================================================
