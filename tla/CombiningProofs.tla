-------------------------- MODULE CombiningProofs --------------------------
(***************************************************************************)
(* Mutual exclusion of CombiningLock and growth of the committed state     *)
(* (src/ds/comb.rs), for any number of threads, requests and crashes.  The *)
(* lock word keeps the name of a combiner that crashed, try_lock lets that *)
(* thread in again, and a power failure resets the word: exclusion is an   *)
(* argument about the word alone, and growth follows from it.  Last, that  *)
(* each request is applied once, as long as no thread dies twice.          *)
(***************************************************************************)
EXTENDS Combining, TLAPS

Fields == {"pc", "i", "rec", "act", "cur", "u", "ta", "round", "served", "ret"}

Inside == {"ready", "copy", "serve", "deactivate", "persist", "commit", "flush", "flip", "unlock"}

\* What the lock word says of the threads that have looked at it.
Waits(t) ==
    /\ th[t].pc = "acquire" => th[t].cur.tid = 0 /\ (th[t].cur = Free(Null) \/ lock # Free(Null))
    /\ th[t].pc = "peek" => lock # Free(Null)
    /\ th[t].pc = "check" => th[t].cur.ptr # Null

\* The inductive invariant: a held lock word is Held(t) and a released one names a record, unless
\* nobody has taken it since the pool was opened.
LockInv ==
    /\ DOMAIN th = Threads
    /\ \A t \in Threads : DOMAIN th[t] = Fields
    /\ lock.tid # 0 => lock = Held(lock.tid)
    /\ lock.tid = 0 /\ lock # Free(Null) => lock.ptr # Null
    /\ OneCombiner
    /\ \A t \in Threads : Waits(t)

\* No thread has the id that stands for a free lock.
LEMMA ThreadsAreNotZero == 0 \notin Threads
  BY CombAssumption

\* The lock word is free and nobody has looked at it.
LEMMA LockInit == Init => LockInv
<1> SUFFICES ASSUME Init PROVE LockInv
  BY Zenon
<1>1. DOMAIN Start = Fields /\ Start.pc = "activate"
  BY Zenon DEF Start, Fields
<1>2. th = [t \in Threads |-> Start] /\ lock = Free(Null)
  BY Zenon DEF Init
<1>3. lock.tid = 0
  BY <1>2, Zenon DEF Free
<1> QED
  BY <1>1, <1>2, <1>3, Zenon DEF LockInv, OneCombiner, Combiners, Waits

\* A held lock word names its holder.
LEMMA HeldTid == ASSUME NEW t \in Threads PROVE Held(t).tid = t /\ Held(t) # Free(Null)
  BY ThreadsAreNotZero, Zenon DEF Held, Free

\* A step of t that leaves the lock word alone: what it has to show of t.
Local(t) ==
    /\ UNCHANGED lock
    /\ DOMAIN th' = Threads /\ DOMAIN th'[t] = Fields
    /\ \A u \in Threads \ {t} : th'[u] = th[u]
    /\ th'[t].pc \in Inside => lock = Held(t)
    /\ Waits(t)'

\* Such a step keeps the invariant.
LEMMA LocalStep ==
    ASSUME LockInv, NEW t \in Threads, Local(t)
    PROVE  LockInv'
  BY Zenon DEF LockInv, OneCombiner, Combiners, Waits, Local, Inside

\* Steps before the lock: they end outside it, and look at the word no more.
LEMMA OutsideStep ==
    ASSUME LockInv, NEW t \in Threads,
           Activate(t) \/ Recover(t) \/ RegisterArg(t) \/ Register(t) \/ Take(t) \/ Backup(t)
    PROVE  Local(t)
<1>1. DOMAIN Start = Fields
  BY Zenon DEF Start, Fields
<1>2. UNCHANGED lock
  BY Zenon DEF Activate, Recover, RegisterArg, Register, Take, Backup
<1>3. DOMAIN th' = Threads /\ DOMAIN th'[t] = Fields /\ \A u \in Threads \ {t} : th'[u] = th[u]
  BY <1>1, Zenon DEF LockInv, Activate, Recover, RegisterArg, Register, Take, Backup, Return, Goto, Fields
<1>4. th'[t].pc \in {"recover", "register", "announce", "lock", "backup", "done", "activate"}
  <2> DOMAIN th = Threads /\ DOMAIN th[t] = Fields
    BY Zenon DEF LockInv
  <2>1. ASSUME NEW v, Return(t, v) PROVE th'[t].pc \in {"done", "activate"}
    BY <1>1, <2>1, Zenon DEF Return, Fields
  <2>2. CASE Activate(t)
    BY <2>2 DEF Activate, Fields
  <2>3. CASE Recover(t)
    BY <2>1, <2>3, Zenon DEF Recover, Fields
  <2>4. CASE RegisterArg(t) \/ Register(t) \/ Take(t)
    BY <2>4, Zenon DEF RegisterArg, Register, Take, Goto, Fields
  <2>5. CASE Backup(t)
    BY <2>1, <2>5, Zenon DEF Backup
  <2> QED
    BY <2>2, <2>3, <2>4, <2>5, Zenon
<1> QED
  BY <1>2, <1>3, <1>4, Zenon DEF Local, Inside, Waits

\* Steps under the lock up to the unlock: the word names t before and after.
LEMMA InsideStep ==
    ASSUME LockInv, NEW t \in Threads,
           Ready(t) \/ Copy(t) \/ Serve(t) \/ Deactivate(t) \/ Persist(t) \/ Commit(t) \/ FlushCommit(t) \/ Flip(t)
    PROVE  Local(t)
<1>1. UNCHANGED lock /\ lock = Held(t)
  BY Zenon DEF LockInv, OneCombiner, Combiners, Ready, Copy, Serve, Deactivate, Persist, Commit, FlushCommit, Flip
<1>2. DOMAIN th' = Threads /\ DOMAIN th'[t] = Fields /\ \A u \in Threads \ {t} : th'[u] = th[u]
  BY ZenonT(40) DEF LockInv, Ready, Copy, Serve, Deactivate, Persist, Commit, FlushCommit, Flip, Advance, Goto, Fields
<1>3. th'[t].pc \in Inside
  <2> DOMAIN th = Threads /\ DOMAIN th[t] = Fields
    BY Zenon DEF LockInv
  <2>1. ASSUME NEW s, Advance(t, s) PROVE th'[t].pc \in {"serve", "persist"}
    BY <2>1, Zenon DEF Advance, Fields
  <2>2. CASE Ready(t) \/ Copy(t) \/ Persist(t) \/ Commit(t) \/ FlushCommit(t) \/ Flip(t)
    BY <2>2 DEF Ready, Copy, Persist, Commit, FlushCommit, Flip, Goto, Fields, Inside
  <2>3. CASE Serve(t)
    BY <2>1, <2>3, Zenon DEF Serve, Fields, Inside
  <2>4. CASE Deactivate(t)
    BY <2>1, <2>4, Zenon DEF Deactivate, Inside
  <2> QED
    BY <2>2, <2>3, <2>4, Zenon
<1> QED
  BY <1>1, <1>2, <1>3, Zenon DEF Local, Inside, Waits

\* try_lock and peek: what t takes from the word that it loads.
LEMMA LoadStep ==
    ASSUME LockInv, NEW t \in Threads, TryLock(t) \/ Peek(t) \/ Check(t)
    PROVE  Local(t)
<1>1. UNCHANGED lock
  BY Zenon DEF TryLock, Peek, Check
<1>2. DOMAIN th' = Threads /\ DOMAIN th'[t] = Fields /\ \A u \in Threads \ {t} : th'[u] = th[u]
  BY Zenon DEF LockInv, TryLock, Peek, Check, Goto, Fields
<1>3. CASE TryLock(t) /\ lock.tid = t
  <2>1. th'[t].pc = "ready" /\ lock = Held(t)
    BY <1>3, ThreadsAreNotZero, Zenon DEF LockInv, TryLock, Goto, Fields
  <2> QED
    BY <1>1, <1>2, <2>1, Zenon DEF Local, Inside, Waits
<1>4. CASE TryLock(t) /\ lock.tid \notin {0, t}
  <2>1. th'[t].pc = "peek" /\ lock # Free(Null)
    BY <1>4 DEF LockInv, TryLock, Goto, Fields, Free
  <2> QED
    BY <1>1, <1>2, <2>1, Zenon DEF Local, Inside, Waits
<1>5. CASE TryLock(t) /\ lock.tid = 0 /\ lock.tid # t
  <2>1. th'[t].pc = "acquire" /\ th'[t].cur = lock
    BY <1>5 DEF LockInv, TryLock, Goto, Fields
  <2> QED
    BY <1>1, <1>2, <1>5, <2>1, Zenon DEF Local, Inside, Waits
<1>6. CASE Peek(t)
  <2>1. th'[t].pc = "check" /\ th'[t].cur = lock
    BY <1>6, Zenon DEF LockInv, Peek, Fields
  <2>2. lock.ptr # Null
    BY <1>6, Zenon DEF LockInv, Waits, Peek, released
  <2> QED
    BY <1>1, <1>2, <2>1, <2>2, Zenon DEF Local, Inside, Waits
<1>7. CASE Check(t)
  <2>1. th'[t].pc \in {"take", "lock"}
    BY <1>7, Zenon DEF LockInv, Check, Goto, Fields
  <2> QED
    BY <1>1, <1>2, <2>1, Zenon DEF Local, Inside, Waits
<1> QED
  BY <1>3, <1>4, <1>5, <1>6, <1>7, ThreadsAreNotZero, Zenon

\* The CAS of try_lock: the word was released, so nobody is inside.
LEMMA AcquireStep ==
    ASSUME LockInv, NEW t \in Threads, Acquire(t)
    PROVE  LockInv'
<1>1. DOMAIN th' = Threads /\ DOMAIN th'[t] = Fields /\ \A u \in Threads \ {t} : th'[u] = th[u]
  BY Zenon DEF LockInv, Acquire, Goto, Fields
<1>2. CASE unmoved(t)
  <2>1. lock' = Held(t) /\ th'[t].pc = "ready"
    BY <1>2, Zenon DEF LockInv, Acquire, Goto, Fields, unmoved
  <2>2. \A u \in Threads : u \notin Combiners
    BY <1>2, HeldTid, ThreadsAreNotZero DEF LockInv, OneCombiner, Combiners, Acquire, unmoved, Waits
  <2> QED
    BY <1>1, <2>1, <2>2, HeldTid, ThreadsAreNotZero DEF LockInv, OneCombiner, Combiners, Waits
<1>3. CASE ~unmoved(t)
  <2>1. UNCHANGED lock /\ th'[t].pc = "peek" /\ lock # Free(Null)
    BY <1>3, Zenon DEF LockInv, Acquire, Goto, Fields, unmoved, Waits
  <2> QED
    BY <1>1, <2>1, LocalStep, Zenon DEF Local, Inside, Waits
<1> QED
  BY <1>2, <1>3, Zenon

\* unlock: t was the only one inside, and it leaves the name of its record.
LEMMA UnlockStep ==
    ASSUME LockInv, NEW t \in Threads, Unlock(t)
    PROVE  LockInv'
<1>1. DOMAIN th' = Threads /\ DOMAIN th'[t] = Fields /\ \A u \in Threads \ {t} : th'[u] = th[u]
  BY Zenon DEF LockInv, Unlock, Fields
<1>2. th'[t].pc = "backup"
  BY Zenon DEF LockInv, Unlock, Fields
<1>3. lock' = Free(<<t, 1 - index[t]>>)
  BY Zenon DEF Unlock
<1>4. lock'.tid = 0 /\ lock'.ptr # Null /\ lock' # Free(Null)
  BY <1>3, Zenon DEF Free, Null
<1>5. \A u \in Threads \ {t} : u \notin Combiners
  BY HeldTid DEF LockInv, OneCombiner, Combiners, Unlock
<1> QED
  BY <1>1, <1>2, <1>4, <1>5, Zenon DEF LockInv, OneCombiner, Combiners, Waits

\* A thread that crashes is outside, whatever the word says.
LEMMA CrashStep ==
    ASSUME LockInv, NEW t \in Threads, ThreadCrash(t)
    PROVE  Local(t)
<1>1. DOMAIN Start = Fields /\ Start.pc = "activate"
  BY Zenon DEF Start, Fields
<1> QED
  BY <1>1, Zenon DEF LockInv, ThreadCrash, Local, Inside, Waits

\* Power fails: everyone starts again, with a lock that was never taken.
LEMMA PowerStep ==
    ASSUME LockInv, SystemCrash
    PROVE  LockInv'
<1>1. DOMAIN Start = Fields /\ Start.pc = "activate"
  BY Zenon DEF Start, Fields
<1>2. th' = [t \in Threads |-> Start] /\ lock' = Free(Null)
  BY Zenon DEF SystemCrash
<1>3. lock'.tid = 0
  BY <1>2, Zenon DEF Free
<1> QED
  BY <1>1, <1>2, <1>3, Zenon DEF LockInv, OneCombiner, Combiners, Waits

\* Every step keeps the invariant of the lock.
LEMMA LockNext == LockInv /\ [Next]_vars => LockInv'
<1> SUFFICES ASSUME LockInv, [Next]_vars PROVE LockInv'
  BY Zenon
<1>1. ASSUME NEW t \in Threads, Step(t) PROVE LockInv'
  BY <1>1, LocalStep, OutsideStep, InsideStep, LoadStep, AcquireStep, UnlockStep, Zenon DEF Step
<1>2. ASSUME NEW t \in Threads, ThreadCrash(t) PROVE LockInv'
  BY <1>2, LocalStep, CrashStep, Zenon
<1>3. CASE WriteBack
  BY <1>3, Zenon DEF WriteBack, LockInv, OneCombiner, Combiners, Waits
<1>4. CASE SystemCrash
  BY <1>4, PowerStep, Zenon
<1>5. CASE UNCHANGED vars
  BY <1>5, Zenon DEF vars, LockInv, OneCombiner, Combiners, Waits
<1> QED
  BY <1>1, <1>2, <1>3, <1>4, <1>5, Zenon DEF Next

\* The lock word excludes: a thread between ready and unlock holds it, so there is only one such
\* thread, though a crashed combiner leaves the lock taken and enters again (try_lock).
THEOREM MutualExclusion == Spec => []OneCombiner
<1>1. LockInv => OneCombiner
  BY Zenon DEF LockInv
<1> QED
  BY <1>1, LockInit, LockNext, PTL DEF Spec

\* The record that do_non_combine unwraps is there: a thread looks into the word only after it has
\* met one that was held or had changed.
THEOREM NonCombinerFindsRecord == Spec => []PeekedIsNotNull
<1>1. LockInv => PeekedIsNotNull
  BY Zenon DEF LockInv, Waits, PeekedIsNotNull
<1> QED
  BY <1>1, LockInit, LockNext, PTL DEF Spec

-----------------------------------------------------------------------------
\* The committed state.

Entry == [by : Threads, i : Nat]
StateFields == {"data", "ret", "deact"}
RequestFields == {"arg", "activate"}

LogType(st) ==
    /\ DOMAIN st = Records
    /\ \A r \in Records : DOMAIN st[r] = StateFields /\ st[r].data \in Seq(Entry)

RequestType(rq) ==
    /\ DOMAIN rq = Threads
    /\ \A t \in Threads : DOMAIN rq[t] = RequestFields /\ rq[t].arg \in Nat

\* The types that the log depends on, in the caches and on the media.
CombType ==
    /\ LogType(state) /\ RequestType(request)
    /\ pstate \in Records /\ index \in [Threads -> 0..1]
    /\ DOMAIN disk = {"request", "state", "pstate", "index"}
    /\ LogType(disk.state) /\ RequestType(disk.request)
    /\ disk.pstate \in Records /\ disk.index \in [Threads -> 0..1]
    /\ \A t \in Threads : th[t].i \in Nat
    /\ \A t \in Threads : th[t].pc \in {"serve", "deactivate"} => th[t].u \in Threads

\* A combiner has copied the committed state, and only added to the copy.
Ahead ==
    \A t \in Threads :
        th[t].pc \in {"copy", "serve", "deactivate", "persist", "commit"} =>
            IsPrefix(Stable.data, state[Mine(t)].data)

CommitInv == LockInv /\ CombType /\ Ahead

\* A log extends itself.
LEMMA PrefixOfItself == ASSUME NEW s \in Seq(Entry) PROVE IsPrefix(s, s)
  BY DEF IsPrefix

\* An entry more keeps what was a prefix.
LEMMA PrefixOfLonger ==
    ASSUME NEW s \in Seq(Entry), NEW l \in Seq(Entry), NEW e \in Entry, IsPrefix(s, l)
    PROVE  Append(l, e) \in Seq(Entry) /\ IsPrefix(s, Append(l, e))
  BY DEF IsPrefix

\* The threads are counted from one.
LEMMA NextThread ==
    ASSUME NEW u \in Threads
    PROVE  1 \in Threads /\ (u < Cardinality(Threads) => u + 1 \in Threads)
<1>1. PICK n \in Nat : n = Cardinality(Threads) /\ Threads = 1..n
  BY CombAssumption
<1>2. \A m \in 1..n : 1 \in 1..n /\ (m < n => m + 1 \in 1..n)
  OBVIOUS
<1> QED
  BY <1>1, <1>2, Zenon

\* Initially all logs are empty.
LEMMA CommitInit == Init => CommitInv
<1> SUFFICES ASSUME Init PROVE CommitInv
  BY Zenon
<1>1. LogType(state)
  <2>1. DOMAIN Fresh = StateFields /\ Fresh.data = <<>>
    BY Zenon DEF Fresh, StateFields
  <2>2. <<>> \in Seq(Entry)
    OBVIOUS
  <2>3. state = [r \in Records |-> Fresh]
    BY Zenon DEF Init
  <2> QED
    BY <2>1, <2>2, <2>3, Zenon DEF LogType
<1>2. RequestType(request)
  BY Zenon DEF Init, RequestType, RequestFields
<1>3. th = [t \in Threads |-> Start] /\ Start.i = 1 /\ Start.pc = "activate"
  BY Zenon DEF Init, Start
<1>4. pstate \in Records /\ index \in [Threads -> 0..1]
  BY DEF Init, Records
<1>5. disk = Cached
  BY Zenon DEF Init
<1>6. CombType
  <2>1. DOMAIN disk = {"request", "state", "pstate", "index"}
    BY <1>5, Zenon DEF Cached
  <2>2. disk.state = state /\ disk.request = request /\ disk.pstate = pstate /\ disk.index = index
    BY <1>5, Zenon DEF Cached
  <2> QED
    BY <1>1, <1>2, <1>3, <1>4, <2>1, <2>2 DEF CombType
<1> QED
  BY <1>3, <1>6, LockInit, Zenon DEF CommitInv, Ahead

-----------------------------------------------------------------------------

\* A step that leaves the records, the pointer to the committed one and the indices alone.
LEMMA LogUntouched ==
    ASSUME CommitInv, NEW t \in Threads, UNCHANGED <<state, pstate, index, disk>>,
           RequestType(request'), \A u \in Threads \ {t} : th'[u] = th[u],
           th'[t].i \in Nat,
           th'[t].pc \notin {"copy", "serve", "deactivate", "persist", "commit"}
    PROVE  CombType' /\ Ahead'
<1>1. Stable' = Stable /\ \A u \in Threads : Mine(u)' = Mine(u)
  BY Zenon DEF Stable, Mine
<1>2. CombType'
  BY Zenon DEF CommitInv, CombType
<1>3. Ahead'
  BY <1>1, Zenon DEF CommitInv, Ahead
<1> QED
  BY <1>2, <1>3, Zenon

\* A step of the combiner on its record: it is a copy of the committed one, or has grown.
Writes(t) ==
    /\ UNCHANGED <<request, pstate, index, disk>>
    /\ DOMAIN state' = Records /\ DOMAIN state'[Mine(t)] = StateFields
    /\ \A r \in Records \ {Mine(t)} : state'[r] = state[r]
    /\ \/ state'[Mine(t)].data = Stable.data
       \/ /\ th[t].pc \in {"copy", "serve", "deactivate", "persist", "commit"}
          /\ \/ state'[Mine(t)].data = state[Mine(t)].data
             \/ \E e \in Entry : state'[Mine(t)].data = Append(state[Mine(t)].data, e)
    /\ \A u \in Threads \ {t} : th'[u] = th[u]
    /\ th'[t].i \in Nat
    /\ th'[t].pc \in {"serve", "deactivate"} => th'[t].u \in Threads

\* The record that a combiner works on is one of the records.
LEMMA MineType == ASSUME CombType, NEW t \in Threads PROVE Mine(t) \in Records
  BY Zenon DEF CombType, Mine, Records

\* The stable state grows with the record if they are the same, and is left alone otherwise.
LEMMA WriteStep ==
    ASSUME CommitInv, NEW t \in Threads, th[t].pc \in Inside, Writes(t)
    PROVE  CombType' /\ Ahead' /\ IsPrefix(Stable.data, Stable'.data)
<1>1. Mine(t) \in Records /\ Mine(t)' = Mine(t) /\ pstate \in Records /\ pstate' = pstate
  BY MineType, Zenon DEF CommitInv, Writes, Mine, CombType
<1>2. Stable.data \in Seq(Entry) /\ state[Mine(t)].data \in Seq(Entry)
  BY <1>1, Zenon DEF CommitInv, CombType, LogType, Stable
<1>3. /\ state'[Mine(t)].data \in Seq(Entry)
      /\ IsPrefix(Stable.data, state'[Mine(t)].data)
  <2>1. CASE state'[Mine(t)].data = Stable.data
    BY <2>1, <1>2, PrefixOfItself, Zenon
  <2>2. CASE /\ th[t].pc \in {"copy", "serve", "deactivate", "persist", "commit"}
             /\ state'[Mine(t)].data = state[Mine(t)].data
    BY <2>2, <1>2, Zenon DEF CommitInv, Ahead
  <2>3. CASE /\ th[t].pc \in {"copy", "serve", "deactivate", "persist", "commit"}
             /\ \E e \in Entry : state'[Mine(t)].data = Append(state[Mine(t)].data, e)
    <3>1. IsPrefix(Stable.data, state[Mine(t)].data)
      BY <2>3, Zenon DEF CommitInv, Ahead
    <3> QED
      BY <2>3, <3>1, <1>2, PrefixOfLonger, Zenon
  <2> QED
    BY <2>1, <2>2, <2>3, Zenon DEF Writes
<1>4. CombType'
  BY <1>1, <1>3, Zenon DEF CommitInv, CombType, LogType, Writes
<1>5. IsPrefix(Stable.data, Stable'.data) /\ IsPrefix(Stable'.data, state'[Mine(t)].data)
  <2>1. CASE pstate = Mine(t)
    BY <2>1, <1>1, <1>3, PrefixOfItself, Zenon DEF Stable
  <2>2. CASE pstate # Mine(t)
    BY <2>2, <1>1, <1>2, <1>3, PrefixOfItself, Zenon DEF Stable, Writes
  <2> QED
    BY <2>1, <2>2, Zenon
<1>6. \A u \in Threads \ {t} : th[u].pc \notin Inside
  BY HeldTid DEF CommitInv, LockInv, OneCombiner, Combiners, Inside
<1>7. Ahead'
  BY <1>1, <1>5, <1>6, Zenon DEF Ahead, Inside, Writes
<1> QED
  BY <1>4, <1>5, <1>7, Zenon

\* The steps of a combine before the commit, each on its record.
LEMMA CombineStep ==
    ASSUME CommitInv, NEW t \in Threads, Ready(t) \/ Copy(t) \/ Serve(t) \/ Deactivate(t)
    PROVE  th[t].pc \in Inside /\ Writes(t)
<1>1. th[t].pc \in Inside
  BY Zenon DEF Ready, Copy, Serve, Deactivate, Inside
<1>2. /\ DOMAIN th = Threads /\ DOMAIN th[t] = Fields /\ DOMAIN state = Records /\ Mine(t) \in Records
      /\ DOMAIN state[Mine(t)] = StateFields /\ DOMAIN request = Threads /\ th[t].i \in Nat
  BY MineType, Zenon DEF CommitInv, LockInv, CombType, LogType, RequestType
<1>3. ASSUME NEW s, th[t].u \in Threads, Advance(t, s) PROVE
      /\ \A u \in Threads \ {t} : th'[u] = th[u]
      /\ th'[t].i = th[t].i
      /\ th'[t].pc = "serve" => th'[t].u \in Threads
      /\ th'[t].pc \in {"serve", "persist"}
  <2>1. \A u \in Threads \ {t} : th'[u] = th[u]
    BY <1>2, <1>3, Zenon DEF Advance
  <2>2. CASE th[t].u < Cardinality(Threads)
    <3>1. th[t].u \in Int
      BY <1>3, CombAssumption
    <3>2. th'[t].i = th[t].i /\ th'[t].pc = "serve" /\ th'[t].u = th[t].u + 1
      BY <1>2, <1>3, <2>2, <3>1, Zenon DEF Advance, Fields
    <3> QED
      BY <1>3, <2>1, <2>2, <3>2, NextThread, Zenon
  <2>3. CASE ~(th[t].u < Cardinality(Threads)) /\ s /\ th[t].round < Rounds
    <3>1. th'[t].i = th[t].i /\ th'[t].pc = "serve" /\ th'[t].u = 1
      BY <1>2, <1>3, <2>3, Zenon DEF Advance, Fields
    <3> QED
      BY <2>1, <3>1, NextThread, Zenon
  <2>4. CASE ~(th[t].u < Cardinality(Threads)) /\ ~(s /\ th[t].round < Rounds)
    <3>1. th'[t].i = th[t].i /\ th'[t].pc = "persist"
      BY <1>2, <1>3, <2>4, Zenon DEF Advance, Fields
    <3> QED
      BY <2>1, <3>1, Zenon
  <2> QED
    BY <2>2, <2>3, <2>4, Zenon
<1>4. CASE Ready(t)
  <2>1. \A u \in Threads \ {t} : th'[u] = th[u]
    BY <1>2, <1>4, Zenon DEF Ready, Goto
  <2>2. th'[t].i = th[t].i /\ th'[t].pc = "copy"
    BY <1>2, <1>4, Zenon DEF Ready, Goto, Fields
  <2>3. PICK parts : CopyPart(t, parts)
    BY <1>4, Zenon DEF Ready
  <2>4. /\ DOMAIN state' = Records /\ DOMAIN state'[Mine(t)] = StateFields
        /\ \A r \in Records \ {Mine(t)} : state'[r] = state[r]
        /\ state'[Mine(t)].data = Stable.data
    BY <1>2, <2>3, Zenon DEF CopyPart, latest, Stable, StateFields
  <2> QED
    BY <1>1, <1>2, <1>4, <2>1, <2>2, <2>4, Zenon DEF Ready, Writes
<1>5. CASE Copy(t)
  <2>1. \A u \in Threads \ {t} : th'[u] = th[u]
    BY <1>2, <1>5, Zenon DEF Copy
  <2>2. th'[t].i = th[t].i /\ th'[t].pc = "serve" /\ th'[t].u = 1
    BY <1>2, <1>5, Zenon DEF Copy, Fields
  <2>3. /\ DOMAIN state' = Records /\ DOMAIN state'[Mine(t)] = StateFields
        /\ \A r \in Records \ {Mine(t)} : state'[r] = state[r]
        /\ state'[Mine(t)].data = Stable.data
    BY <1>2, <1>5, Zenon DEF Copy, CopyPart, latest, Stable, StateFields
  <2> QED
    BY <1>1, <1>2, <1>5, <2>1, <2>2, <2>3, NextThread, Zenon DEF Copy, Writes
<1>6. CASE Serve(t) /\ active(t, th[t].u)
  <2> DEFINE u == th[t].u
             e == [by |-> u, i |-> request[u].arg]
  <2>1. u \in Threads /\ e \in Entry
    BY <1>6, Zenon DEF CommitInv, CombType, RequestType, Serve, Entry
  <2>2. \A v \in Threads \ {t} : th'[v] = th[v]
    BY <1>2, <1>6, Zenon DEF Serve
  <2>3. th'[t].i = th[t].i /\ th'[t].pc = "deactivate" /\ th'[t].u = u
    BY <1>2, <1>6 DEF Serve, Fields
  <2>4. /\ DOMAIN state' = Records /\ DOMAIN state'[Mine(t)] = StateFields
        /\ \A r \in Records \ {Mine(t)} : state'[r] = state[r]
        /\ state'[Mine(t)].data = Append(state[Mine(t)].data, e)
    BY <1>2, <1>6 DEF Serve, StateFields
  <2> QED
    BY <1>1, <1>2, <1>6, <2>1, <2>2, <2>3, <2>4, Zenon DEF Serve, Writes
<1>7. CASE Serve(t) /\ ~active(t, th[t].u)
  <2>1. th[t].u \in Threads /\ UNCHANGED state /\ Advance(t, th[t].served)
    BY <1>7, Zenon DEF CommitInv, CombType, Serve
  <2>2. UNCHANGED <<request, pstate, index, disk>> /\ th[t].pc = "serve"
    BY <1>7, Zenon DEF Serve
  <2> QED
    BY <1>1, <1>2, <1>3, <2>1, <2>2, Zenon DEF Writes
<1>8. CASE Deactivate(t)
  <2>1. th[t].u \in Threads /\ Advance(t, TRUE) /\ th[t].pc = "deactivate"
    BY <1>8, Zenon DEF CommitInv, CombType, Deactivate
  <2>2. /\ DOMAIN state' = Records /\ DOMAIN state'[Mine(t)] = StateFields
        /\ \A r \in Records \ {Mine(t)} : state'[r] = state[r]
        /\ state'[Mine(t)].data = state[Mine(t)].data
    BY <1>2, <1>8, Zenon DEF Deactivate, StateFields
  <2>3. UNCHANGED <<request, pstate, index, disk>>
    BY <1>8, Zenon DEF Deactivate
  <2> QED
    BY <1>1, <1>2, <1>3, <2>1, <2>2, <2>3, Zenon DEF Writes
<1> QED
  BY <1>4, <1>5, <1>6, <1>7, <1>8, Zenon

\* What a flush or a write-back by the cache puts on the media has the types it had in the cache.
DiskType ==
    /\ DOMAIN disk = {"request", "state", "pstate", "index"}
    /\ LogType(disk.state) /\ RequestType(disk.request)
    /\ disk.pstate \in Records /\ disk.index \in [Threads -> 0..1]

\* Flushes change the media only.
LEMMA FlushStep ==
    ASSUME CommitInv, NEW t \in Threads, Persist(t) \/ FlushCommit(t)
    PROVE  CombType' /\ Ahead'
<1>1. /\ DOMAIN th = Threads /\ DOMAIN th[t] = Fields /\ Mine(t) \in Records /\ DiskType
  BY MineType, Zenon DEF CommitInv, LockInv, CombType, DiskType
<1>2. UNCHANGED <<request, state, pstate, index>>
  BY Zenon DEF Persist, FlushCommit
<1>3. \A u \in Threads \ {t} : th'[u] = th[u]
  BY <1>1, Zenon DEF Persist, FlushCommit, Goto
<1>4. /\ th'[t].i = th[t].i
      /\ (th[t].pc = "persist" /\ th'[t].pc = "commit") \/ th'[t].pc = "flip"
  BY <1>1, Zenon DEF Persist, FlushCommit, Goto, Fields
<1>5. DiskType'
  <2>1. CASE UNCHANGED disk
    BY <1>1, <2>1, Zenon DEF DiskType
  <2>2. CASE disk' = [disk EXCEPT !.state = Flushed(t)]
    <3>1. LogType(Flushed(t))
      BY <1>1, Zenon DEF Flushed, CommitInv, CombType, LogType, StateFields
    <3> QED
      BY <1>1, <2>2, <3>1, Zenon DEF DiskType
  <2>3. CASE disk' = [disk EXCEPT !.pstate = pstate]
    BY <1>1, <2>3, Zenon DEF DiskType, CommitInv, CombType
  <2> QED
    BY <2>1, <2>2, <2>3, Zenon DEF Persist, FlushCommit
<1>6. CombType'
  BY <1>2, <1>3, <1>4, <1>5, Zenon DEF CommitInv, CombType, DiskType
<1>7. Stable' = Stable /\ \A u \in Threads : Mine(u)' = Mine(u)
  BY <1>2, Zenon DEF Stable, Mine
<1>8. Ahead'
  BY <1>2, <1>3, <1>4, <1>7, Zenon DEF CommitInv, Ahead
<1> QED
  BY <1>6, <1>8, Zenon

\* The commit: the record that becomes the stable one has the old one as a prefix.
LEMMA CommitStep ==
    ASSUME CommitInv, NEW t \in Threads, Commit(t)
    PROVE  CombType' /\ Ahead' /\ IsPrefix(Stable.data, Stable'.data)
<1>1. DOMAIN th = Threads /\ DOMAIN th[t] = Fields /\ Mine(t) \in Records
  BY MineType, Zenon DEF CommitInv, LockInv, CombType
<1>2. /\ \A u \in Threads \ {t} : th'[u] = th[u]
      /\ th'[t].i = th[t].i /\ th'[t].pc = "flush"
  BY <1>1, Zenon DEF Commit, Goto, Fields
<1>3. CombType'
  BY <1>1, <1>2, Zenon DEF CommitInv, CombType, Commit
<1>4. Stable' = state[Mine(t)]
  BY Zenon DEF Commit, Stable
<1>5. \A u \in Threads \ {t} : th[u].pc \notin Inside
  BY HeldTid DEF CommitInv, LockInv, OneCombiner, Combiners, Inside, Commit
<1>6. Ahead'
  BY <1>2, <1>5, Zenon DEF Ahead, Inside
<1>7. IsPrefix(Stable.data, Stable'.data)
  BY <1>4, Zenon DEF CommitInv, Ahead, Commit
<1> QED
  BY <1>3, <1>6, <1>7, Zenon

\* The next record is the other one; the combine is over.
LEMMA FlipStep ==
    ASSUME CommitInv, NEW t \in Threads, Flip(t)
    PROVE  CombType' /\ Ahead'
<1>1. DOMAIN th = Threads /\ DOMAIN th[t] = Fields
  BY Zenon DEF CommitInv, LockInv
<1>2. /\ \A u \in Threads \ {t} : th'[u] = th[u]
      /\ th'[t].i = th[t].i /\ th'[t].pc = "unlock"
  BY <1>1, Zenon DEF Flip, Goto, Fields
<1>3. index' \in [Threads -> 0..1]
  BY DEF CommitInv, CombType, Flip, other
<1>4. CombType'
  BY <1>2, <1>3, Zenon DEF CommitInv, CombType, Flip
<1>5. \A u \in Threads \ {t} : th[u].pc \notin Inside
  BY HeldTid DEF CommitInv, LockInv, OneCombiner, Combiners, Inside, Flip
<1>6. Ahead'
  BY <1>2, <1>5, Zenon DEF Ahead, Inside
<1> QED
  BY <1>4, <1>6, Zenon

\* Steps that have nothing to do with the records.
LEMMA OtherStep ==
    ASSUME CommitInv, NEW t \in Threads,
           \/ Activate(t) \/ Recover(t) \/ RegisterArg(t) \/ Register(t) \/ Take(t) \/ Backup(t)
           \/ TryLock(t) \/ Acquire(t) \/ Peek(t) \/ Check(t) \/ Unlock(t) \/ ThreadCrash(t)
    PROVE  CombType' /\ Ahead' /\ Stable' = Stable
<1>1. UNCHANGED <<state, pstate, index, disk>>
  BY Zenon DEF Activate, Recover, RegisterArg, Register, Take, Backup, TryLock, Acquire, Peek, Check, Unlock, ThreadCrash
<1>2. DOMAIN th = Threads /\ DOMAIN th[t] = Fields /\ th[t].i \in Nat /\ DOMAIN Start = Fields /\ Start.i = 1
  BY Zenon DEF CommitInv, LockInv, CombType, Start, Fields
<1>3. \A u \in Threads \ {t} : th'[u] = th[u]
  BY <1>2, Zenon DEF Activate, Recover, RegisterArg, Register, Take, Backup, TryLock, Acquire, Peek, Check, Unlock,
              ThreadCrash, Goto, Return
<1>4. RequestType(request')
  <2>1. CASE UNCHANGED request
    BY <2>1, Zenon DEF CommitInv, CombType
  <2>2. CASE RegisterArg(t) \/ Register(t)
    BY <2>2, <1>2 DEF CommitInv, CombType, RequestType, RequestFields, RegisterArg, Register
  <2> QED
    BY <2>1, <2>2, Zenon DEF Activate, Recover, Take, Backup, TryLock, Acquire, Peek, Check, Unlock, ThreadCrash
<1>5. /\ th'[t].i \in Nat
      /\ th'[t].pc \notin {"copy", "serve", "deactivate", "persist", "commit"}
  <2>1. ASSUME NEW v, Return(t, v)
        PROVE  th'[t].i \in Nat /\ th'[t].pc \in {"done", "activate"}
    BY <1>2, <2>1 DEF Return, Fields
  <2>2. ASSUME NEW pc \in {"announce", "lock", "ready", "peek", "take"}, Goto(t, pc)
        PROVE  th'[t].i \in Nat /\ th'[t].pc = pc
    BY <1>2, <2>2, Zenon DEF Goto, Fields
  <2>3. CASE Activate(t)
    BY <1>2, <2>3 DEF Activate, Fields
  <2>4. CASE RegisterArg(t) \/ Register(t) \/ Acquire(t) \/ Check(t)
    BY <2>2, <2>4, Zenon DEF RegisterArg, Register, Acquire, Check
  <2>5. CASE Take(t)
    BY <1>2, <2>5, Zenon DEF Take, Fields
  <2>7. CASE Recover(t)
    BY <1>2, <2>1, <2>7 DEF Recover, Fields
  <2>8. CASE Backup(t)
    BY <2>1, <2>8, Zenon DEF Backup
  <2>9. CASE TryLock(t)
    BY <1>2, <2>2, <2>9 DEF TryLock, Fields
  <2>10. CASE Peek(t)
    BY <1>2, <2>10, Zenon DEF Peek, Fields
  <2>11. CASE Unlock(t)
    BY <1>2, <2>11, Zenon DEF Unlock, Fields
  <2>6. CASE ThreadCrash(t)
    BY <1>2, <2>6, Zenon DEF ThreadCrash, Start
  <2> QED
    BY <2>3, <2>4, <2>5, <2>6, <2>7, <2>8, <2>9, <2>10, <2>11, Zenon
<1> QED
  BY <1>1, <1>3, <1>4, <1>5, LogUntouched, Zenon DEF Stable

\* A write-back by the cache changes the media only.
LEMMA WriteBackStep ==
    ASSUME CommitInv, WriteBack
    PROVE  CombType' /\ Ahead' /\ Stable' = Stable
<1>1. UNCHANGED <<request, state, pstate, index, th>>
  BY Zenon DEF WriteBack
<1>2. DiskType
  BY Zenon DEF CommitInv, CombType, DiskType
<1>3. DiskType'
  <2>1. ASSUME NEW t \in Threads, disk' = [disk EXCEPT !.request[t] = request[t]] PROVE DiskType'
    <3>1. /\ DOMAIN disk' = DOMAIN disk /\ disk'.state = disk.state /\ disk'.pstate = disk.pstate
          /\ disk'.index = disk.index /\ disk'.request = [disk.request EXCEPT ![t] = request[t]]
      BY <1>2, <2>1, Zenon DEF DiskType
    <3>2. RequestType(disk'.request)
      BY <1>2, <3>1, Zenon DEF DiskType, RequestType, CommitInv, CombType
    <3> QED
      BY <1>2, <3>1, <3>2, Zenon DEF DiskType
  <2>2. ASSUME NEW t \in Threads, disk' = [disk EXCEPT !.index[t] = index[t]] PROVE DiskType'
    BY <1>2, <2>2, Zenon DEF CommitInv, CombType, DiskType
  <2>3. ASSUME NEW r \in Records, NEW f \in {"data", "ret", "deact"},
               disk' = [disk EXCEPT !.state[r][f] = state[r][f]]
        PROVE  DiskType'
    <3>1. /\ DOMAIN disk' = DOMAIN disk /\ disk'.request = disk.request /\ disk'.pstate = disk.pstate
          /\ disk'.index = disk.index /\ disk'.state = [disk.state EXCEPT ![r][f] = state[r][f]]
      BY <1>2, <2>3, Zenon DEF DiskType
    <3>2. LogType(disk'.state)
      BY <1>2, <3>1 DEF DiskType, LogType, CommitInv, CombType, StateFields
    <3> QED
      BY <1>2, <3>1, <3>2, Zenon DEF DiskType
  <2>4. CASE disk' = [disk EXCEPT !.pstate = pstate]
    BY <1>2, <2>4, Zenon DEF CommitInv, CombType, DiskType
  <2> QED
    BY <2>1, <2>2, <2>3, <2>4, Zenon DEF WriteBack
<1>4. CombType'
  BY <1>1, <1>3, Zenon DEF CommitInv, CombType, DiskType
<1>5. Stable' = Stable /\ \A u \in Threads : Mine(u)' = Mine(u)
  BY <1>1, Zenon DEF Stable, Mine
<1>6. Ahead'
  BY <1>1, <1>5, Zenon DEF CommitInv, Ahead
<1> QED
  BY <1>4, <1>5, <1>6, Zenon

\* The media hold logs and requests, and nobody is inside after a power failure.
LEMMA PowerKeepsTypes ==
    ASSUME CommitInv, SystemCrash
    PROVE  CombType' /\ Ahead'
<1>1. th' = [t \in Threads |-> Start] /\ Start.i = 1 /\ Start.pc = "activate"
  BY Zenon DEF SystemCrash, Start
<1>2. CombType'
  BY <1>1 DEF CommitInv, CombType, SystemCrash
<1>3. Ahead'
  BY <1>1, Zenon DEF Ahead
<1> QED
  BY <1>2, <1>3, Zenon

\* Every step keeps the invariant, and only a power failure takes back what was committed.
LEMMA CommitNext ==
    CommitInv /\ [Next]_vars =>
        CommitInv' /\ [scrash' = scrash => IsPrefix(Stable.data, Stable'.data)]_vars
<1> SUFFICES ASSUME CommitInv, [Next]_vars
             PROVE  CommitInv' /\ [scrash' = scrash => IsPrefix(Stable.data, Stable'.data)]_vars
  BY Zenon
<1>1. LockInv'
  BY LockNext, Zenon DEF CommitInv
<1>2. Stable.data \in Seq(Entry)
  BY Zenon DEF CommitInv, CombType, LogType, Stable
<1>3. ASSUME NEW t \in Threads, Step(t) \/ ThreadCrash(t)
      PROVE  CombType' /\ Ahead' /\ IsPrefix(Stable.data, Stable'.data)
  <2>1. CASE Ready(t) \/ Copy(t) \/ Serve(t) \/ Deactivate(t)
    BY <2>1, CombineStep, WriteStep, Zenon
  <2>2. CASE Persist(t) \/ FlushCommit(t)
    <3>1. Stable' = Stable
      BY <2>2, Zenon DEF Persist, FlushCommit, Stable
    <3> QED
      BY <1>2, <2>2, <3>1, FlushStep, PrefixOfItself, Zenon
  <2>3. CASE Commit(t)
    BY <2>3, CommitStep, Zenon
  <2>4. CASE Flip(t)
    <3>1. Stable' = Stable
      BY <2>4, Zenon DEF Flip, Stable
    <3> QED
      BY <1>2, <2>4, <3>1, FlipStep, PrefixOfItself, Zenon
  <2>5. CASE \/ Activate(t) \/ Recover(t) \/ RegisterArg(t) \/ Register(t) \/ Take(t) \/ Backup(t)
             \/ TryLock(t) \/ Acquire(t) \/ Peek(t) \/ Check(t) \/ Unlock(t) \/ ThreadCrash(t)
    BY <1>2, <2>5, OtherStep, PrefixOfItself, Zenon
  <2> QED
    BY <1>3, <2>1, <2>2, <2>3, <2>4, <2>5, Zenon DEF Step
<1>4. CASE WriteBack
  BY <1>1, <1>2, <1>4, WriteBackStep, PrefixOfItself, Zenon DEF CommitInv
<1>5. CASE SystemCrash
  <2>1. scrash' # scrash
    BY <1>5 DEF SystemCrash, Durable
  <2> QED
    BY <1>1, <1>5, <2>1, PowerKeepsTypes, Zenon DEF CommitInv
<1>6. CASE UNCHANGED vars
  <2>1. UNCHANGED <<request, state, pstate, index, disk, th>>
    BY <1>6, Zenon DEF vars
  <2>2. CombType'
    BY <2>1, Zenon DEF CommitInv, CombType
  <2>3. Stable' = Stable /\ \A u \in Threads : Mine(u)' = Mine(u)
    BY <2>1, Zenon DEF Stable, Mine
  <2>4. Ahead'
    BY <2>1, <2>3, Zenon DEF CommitInv, Ahead
  <2> QED
    BY <1>1, <1>6, <2>2, <2>4, Zenon DEF CommitInv
<1> QED
  BY <1>1, <1>3, <1>4, <1>5, <1>6, Zenon DEF Next, CommitInv

\* Between power failures the committed log only grows, for any number of threads, requests,
\* rounds and thread crashes, also when a combiner is re-run on the record it has committed
\* already (do_combine).
THEOREM CommittedStateGrows == Spec => CommittedGrows
<1> QED
  BY CommitInit, CommitNext, PTL DEF Spec, CommittedGrows

-----------------------------------------------------------------------------
\* Applied once.

\* Power is on, and no thread has died twice: one that dies a second time while it combines in
\* place may apply a request again.
Calm == scrash = 0 /\ \A t \in Threads : tcrash[t] <= 1

\* What bounds the crashes and the operations.
Counters == scenario \in Scenarios /\ tcrash \in [Threads -> Nat] /\ scrash \in Nat

Shaped ==
    /\ \A r \in Records : state[r].deact \in [Threads -> Nat]
    /\ DOMAIN chk = Threads /\ DOMAIN res = Threads
    /\ \A t \in Threads : DOMAIN chk[t] = Ops(t) /\ DOMAIN res[t] = Ops(t) /\ th[t].rec \in BOOLEAN

Waiting == {"lock", "acquire", "peek", "check", "take"}

\* The operation a thread is at, its checkpoint and its request have the same number: a request
\* is announced once, by the first execution of the operation or by one that repeats it.
Numbered(t) ==
    LET l == th[t]
        a == request[t].activate
    IN  /\ a \in Nat /\ l.i \in Nat \ {0} /\ l.i <= a + 1
        /\ l.pc # "done" => l.i \in Ops(t)
        /\ \A j \in Ops(t) : chk[t][j] \in {0, j} /\ (j <= a => chk[t][j] = j)
        /\ l.pc = "activate" /\ l.rec = FALSE => l.i = a + 1
        /\ l.pc \notin {"activate", "done"} => l.act = l.i /\ chk[t][l.i] = l.i
        /\ l.pc = "recover" => l.rec = TRUE
        /\ l.pc \in {"register", "announce"} => l.rec = FALSE /\ l.i >= a
        /\ l.pc = "announce" => request[t].arg = l.i
        /\ l.pc \in Waiting \cup Inside => l.rec = FALSE /\ l.i = a
        /\ l.pc = "backup" => l.i <= a /\ (l.rec = FALSE => l.i = a)

\* The stable state has performed the last request of t.
Answered(t) == Stable.deact[t] = request[t].activate

\* It has performed all of them but perhaps the last, and that one too when t has gone on.  A
\* thread that is about to look into a record looks into the stable one, unless its request has
\* been performed since it took the pointer.
Performed(t) ==
    LET l == th[t]
        a == request[t].activate
        d == Stable.deact[t]
    IN  /\ d <= a /\ a <= d + 1
        /\ l.i = a + 1 => Answered(t)
        /\ request[t].arg = a \/ (request[t].arg = a + 1 /\ Answered(t))
        /\ l.pc = "check" => l.cur.ptr = pstate \/ Answered(t)
        /\ l.pc = "take" => Answered(t)
        /\ l.pc = "backup" => l.i <= d
        /\ \A j \in Ops(t) : res[t][j] # NoResult => j <= d

\* The log holds the first deact[t] operations of each thread t, each of them once.
Exact(data, deact) ==
    /\ \A p \in DOMAIN data : data[p].i \in 1 .. deact[data[p].by]
    /\ \A p, q \in DOMAIN data : data[p] = data[q] => p = q
    /\ \A t \in Threads : \A j \in 1 .. deact[t] :
           \E p \in DOMAIN data : data[p] = [by |-> t, i |-> j]

\* The requests that a combine of t must serve: its own, and those of the threads that looked at
\* the lock word before t took it.
Counts(t, u) == u = t \/ th[u].pc = "check"

\* The record that a combiner works on; and in what state it leaves the pointer and the index,
\* so that only a thread that died has the stable record as the one it copies to next.
Work(t) ==
    LET l == th[t]
        r == state[Mine(t)]
    IN  /\ l.pc \in {"serve", "deactivate", "persist", "commit"} =>
               \A u \in Threads : Stable.deact[u] <= r.deact[u] /\ r.deact[u] <= request[u].activate
        /\ l.pc \in {"serve", "persist", "commit"} => Exact(r.data, r.deact)
        /\ l.pc = "deactivate" =>
               /\ l.ta = request[l.u].activate /\ l.ta = r.deact[l.u] + 1
               /\ Exact(r.data, [r.deact EXCEPT ![l.u] = l.ta])
        /\ l.pc \in {"serve", "deactivate"} =>
               /\ l.round \in Nat \ {0}
               /\ \A u \in Threads : Counts(t, u) /\ (u < l.u \/ l.round > 1) =>
                      r.deact[u] = request[u].activate
        /\ l.pc \in {"persist", "commit"} =>
               \A u \in Threads : Counts(t, u) => r.deact[u] = request[u].activate
        /\ l.pc \in {"flush", "flip", "unlock"} => \A u \in Threads : Counts(t, u) => Answered(u)
        /\ l.pc \in {"flush", "flip"} => pstate = Mine(t)
        /\ l.pc = "unlock" => pstate = <<t, 1 - index[t]>>
        /\ pstate = Mine(t) => l.pc \in {"flush", "flip"} \/ tcrash[t] > 0

\* A combine that is re-run on the stable record has served a request and not yet noted it.
InPlace == \E t \in Threads : th[t].pc = "deactivate" /\ Mine(t) = pstate

OnceInv ==
    /\ Shaped
    /\ \A t \in Threads : Numbered(t) /\ Performed(t) /\ Work(t)
    /\ lock.tid = 0 /\ lock # Free(Null) => lock.ptr = pstate
    /\ ~InPlace => Exact(Stable.data, Stable.deact)

-----------------------------------------------------------------------------
\* One operation more, and its number.
LEMMA ExactAppend ==
    ASSUME NEW data \in Seq(Entry), NEW deact \in [Threads -> Nat], NEW u \in Threads,
           Exact(data, deact)
    PROVE  Exact(Append(data, [by |-> u, i |-> deact[u] + 1]), [deact EXCEPT ![u] = deact[u] + 1])
<1> DEFINE e == [by |-> u, i |-> deact[u] + 1]
           new == Append(data, e)
           d == [deact EXCEPT ![u] = deact[u] + 1]
<1>1. /\ DOMAIN data = 1 .. Len(data) /\ DOMAIN new = 1 .. Len(data) + 1 /\ Len(data) \in Nat
      /\ new[Len(data) + 1] = e
      /\ \A p \in DOMAIN data : new[p] = data[p] /\ data[p] \in Entry
  <2>1. e \in Entry
    BY DEF Entry
  <2> HIDE DEF e
  <2> QED
    BY <2>1
<1>2. d[u] = deact[u] + 1 /\ \A t \in Threads \ {u} : d[t] = deact[t]
  OBVIOUS
<1>3. \A p \in DOMAIN data : data[p] # e
  BY <1>1 DEF Exact, Entry
<1>4. \A p \in DOMAIN new : new[p].i \in 1 .. d[new[p].by]
  <2>1. \A p \in DOMAIN data : data[p].i \in 1 .. d[data[p].by]
    BY <1>1, <1>2 DEF Exact, Entry
  <2>2. e.i \in 1 .. d[e.by]
    BY <1>2
  <2> QED
    BY <1>1, <2>1, <2>2
<1>5. \A p, q \in DOMAIN new : new[p] = new[q] => p = q
  <2> HIDE DEF e
  <2> QED
    BY <1>1, <1>3 DEF Exact
<1>6. \A t \in Threads : \A j \in 1 .. d[t] : \E p \in DOMAIN new : new[p] = [by |-> t, i |-> j]
  <2> TAKE t \in Threads
  <2> TAKE j \in 1 .. d[t]
  <2>1. CASE t = u /\ j = deact[u] + 1
    BY <1>1, <2>1
  <2>2. CASE ~(t = u /\ j = deact[u] + 1)
    <3>1. j \in 1 .. deact[t]
      BY <1>2, <2>2
    <3>2. PICK p \in DOMAIN data : data[p] = [by |-> t, i |-> j]
      BY <3>1, Zenon DEF Exact
    <3>3. p \in DOMAIN new
      BY <1>1
    <3> QED
      BY <1>1, <3>2, <3>3, Zenon
  <2> QED
    BY <2>1, <2>2, Zenon
<1> QED
  BY <1>4, <1>5, <1>6, Zenon DEF Exact

-----------------------------------------------------------------------------
\* What a step may change, thread by thread.

\* A thread that does not move, with its checkpoints and its request.
LEMMA NumberedKeeps ==
    ASSUME NEW t \in Threads, Numbered(t),
           request'[t] = request[t], chk'[t] = chk[t], scenario' = scenario, th'[t] = th[t]
    PROVE  Numbered(t)'
  BY Zenon DEF Numbered, Ops

\* A thread that goes on with an operation it has announced.
LEMMA NumberedMoves ==
    ASSUME NEW t \in Threads, Numbered(t), UNCHANGED <<request, chk, scenario>>,
           th[t].pc \in Waiting \cup Inside, th'[t].pc \in Waiting \cup Inside \cup {"backup"},
           th'[t].i = th[t].i, th'[t].act = th[t].act, th'[t].rec = th[t].rec
    PROVE  Numbered(t)'
<1>1. th[t].pc \notin {"activate", "done", "recover", "register", "announce", "backup"}
      /\ th'[t].pc \notin {"activate", "done", "recover", "register", "announce"}
  BY DEF Inside, Waiting
<1>2. th[t].i <= request[t].activate
  BY DEF Numbered
<1> QED
  BY <1>1, <1>2, Zenon DEF Numbered, Ops

\* More requests are performed than before.
LEMMA PerformedKeeps ==
    ASSUME NEW t \in Threads, Numbered(t), Performed(t),
           request'[t] = request[t], res'[t] = res[t], scenario' = scenario,
           th'[t].i = th[t].i,
           th'[t].pc \in {"check", "take", "backup"} => th'[t].pc = th[t].pc /\ th'[t].cur = th[t].cur,
           Stable.deact[t] \in Nat, Stable'.deact[t] \in Nat,
           Stable.deact[t] <= Stable'.deact[t], Stable'.deact[t] <= request[t].activate,
           pstate' = pstate \/ th[t].pc # "check" \/ Stable'.deact[t] = request[t].activate
    PROVE  Performed(t)'
<1> DEFINE a == request[t].activate
           d == Stable.deact[t]
           e == Stable'.deact[t]
<1>1. a \in Nat /\ d \in Nat /\ e \in Nat /\ d <= e /\ e <= a /\ a <= d + 1
  BY Zenon DEF Numbered, Performed
<1>2. a <= e + 1 /\ (d = a => e = a)
  BY <1>1
<1>3. th[t].i \in Nat
  BY DEF Numbered
<1>4. th'[t].pc = "backup" => th'[t].i <= e
  BY <1>1, <1>3 DEF Performed
<1>5. \A j \in Ops(t) : res[t][j] # NoResult => j <= e
  <2>1. \A j \in Ops(t) : j \in Int
    BY DEF Ops
  <2> QED
    BY <1>1, <2>1 DEF Performed
<1>6. Ops(t)' = Ops(t)
  BY Zenon DEF Ops
<1> QED
  BY <1>1, <1>2, <1>4, <1>5, <1>6, Zenon DEF Performed, Answered

\* A combiner that does not move, while another thread does.
LEMMA WorkKeeps ==
    ASSUME NEW t \in Threads, NEW u \in Threads \ {t}, Work(u),
           UNCHANGED <<state, pstate, index>>, th'[u] = th[u], tcrash'[u] = tcrash[u],
           \A v \in Threads : request'[v].activate = request[v].activate,
           \A v \in Threads \ {t} : th'[v].pc = th[v].pc,
           th'[t].pc # "check" \/ th[u].pc \notin Inside,
           CombType
    PROVE  Work(u)'
<1>1. Mine(u)' = Mine(u) /\ Stable' = Stable
  BY Zenon DEF Mine, Stable
<1>2. th[u].pc \in Inside => \A v \in Threads : Counts(u, v)' => Counts(u, v)
  BY Zenon DEF Counts
<1>3. \A v \in Threads : Answered(v)' <=> Answered(v)
  BY <1>1, Zenon DEF Answered
<1>4. th[u].pc = "deactivate" => th[u].u \in Threads
  BY Zenon DEF CombType
<1> QED
  BY <1>1, <1>2, <1>3, <1>4, ZenonT(40) DEF Work, Inside

\* A thread that is not combining, and was not about to flip its index.
LEMMA WorkOutside ==
    ASSUME NEW t \in Threads, Work(t), UNCHANGED <<pstate, index>>,
           th[t].pc \notin {"flush", "flip"}, th'[t].pc \notin Inside \ {"ready", "copy"},
           tcrash[t] \in Nat, tcrash'[t] = tcrash[t]
    PROVE  Work(t)'
<1>1. Mine(t)' = Mine(t)
  BY Zenon DEF Mine
<1>2. th'[t].pc \notin {"serve", "deactivate", "persist", "commit", "flush", "flip", "unlock"}
  BY Zenon DEF Inside
<1> QED
  BY <1>1, <1>2, Zenon DEF Work

\* A step of t that leaves the records, the pointer, the indices and the numbers of the requests
\* alone.
Quiet(t) ==
    /\ UNCHANGED <<state, pstate, index, scenario>>
    /\ request'[t].activate = request[t].activate
    /\ \A u \in Threads \ {t} :
           /\ th'[u] = th[u] /\ request'[u] = request[u] /\ chk'[u] = chk[u] /\ res'[u] = res[u]
           /\ tcrash'[u] = tcrash[u]

\* It has to show what it does to t, and that it does not lose track of a combine in place.
LEMMA QuietStep ==
    ASSUME CommitInv, OnceInv, NEW t \in Threads, Quiet(t), Shaped',
           Numbered(t)', Performed(t)', Work(t)',
           th'[t].pc # "deactivate", th[t].pc = "deactivate" => Mine(t) # pstate,
           th'[t].pc = "check" => lock.tid = 0,
           lock'.tid = 0 /\ lock' # Free(Null) => lock'.ptr = pstate
    PROVE  OnceInv'
<1>1. Stable' = Stable /\ \A u \in Threads : Mine(u)' = Mine(u)
  BY Zenon DEF Quiet, Stable, Mine
<1>2. \A u \in Threads : Stable.deact[u] \in Nat
  BY Zenon DEF OnceInv, Shaped, CommitInv, CombType, Stable
<1>3. ASSUME NEW u \in Threads \ {t} PROVE Numbered(u)' /\ Performed(u)' /\ Work(u)'
  <2>1. Numbered(u) /\ Performed(u) /\ Work(u)
    BY Zenon DEF OnceInv
  <2>2. Numbered(u)'
    BY <2>1, NumberedKeeps, Zenon DEF Quiet
  <2>3. Performed(u)'
    <3>1. Stable'.deact[u] = Stable.deact[u] /\ Stable.deact[u] <= request[u].activate
      BY <1>1, <2>1, Zenon DEF Performed
    <3>2. Stable.deact[u] <= Stable.deact[u]
      BY <1>2
    <3> QED
      BY <1>2, <2>1, <3>1, <3>2, PerformedKeeps, Zenon DEF Quiet
  <2>4. lock.tid = 0 => th[u].pc \notin Inside
    <3>1. th[u].pc \in Inside => lock = Held(u)
      BY Zenon DEF CommitInv, LockInv, OneCombiner, Combiners, Inside
    <3> QED
      BY <3>1, HeldTid, ThreadsAreNotZero, Zenon
  <2>5. Work(u)'
    BY <2>1, <2>4, WorkKeeps, Zenon DEF Quiet, CommitInv
  <2> QED
    BY <2>2, <2>3, <2>5, Zenon
<1>4. ~InPlace' => ~InPlace
  BY <1>1, Zenon DEF InPlace, Quiet
<1> QED
  BY <1>1, <1>3, <1>4, Zenon DEF OnceInv, Quiet

\* The shapes, after a step of t on its own checkpoints and results.
LEMMA ShapedKeeps ==
    ASSUME Shaped, NEW t \in Threads, UNCHANGED <<state, scenario>>,
           \A u \in Threads \ {t} : th'[u] = th[u] /\ chk'[u] = chk[u] /\ res'[u] = res[u],
           DOMAIN chk' = Threads, DOMAIN res' = Threads,
           DOMAIN chk'[t] = DOMAIN chk[t], DOMAIN res'[t] = DOMAIN res[t], th'[t].rec \in BOOLEAN
    PROVE  Shaped'
<1>1. \A u \in Threads : Ops(u)' = Ops(u)
  BY Zenon DEF Ops
<1>2. \A u \in Threads : DOMAIN chk'[u] = Ops(u) /\ DOMAIN res'[u] = Ops(u) /\ th'[u].rec \in BOOLEAN
  BY Zenon DEF Shaped
<1> QED
  BY <1>1, <1>2, Zenon DEF Shaped

\* What is known of a thread before its step.
LEMMA Known ==
    ASSUME CommitInv, Counters, OnceInv, NEW t \in Threads
    PROVE  /\ Shaped /\ Numbered(t) /\ Performed(t) /\ Work(t)
           /\ DOMAIN th = Threads /\ DOMAIN th[t] = Fields /\ DOMAIN Start = Fields
           /\ DOMAIN request = Threads /\ DOMAIN request[t] = RequestFields
           /\ request[t].activate \in Nat /\ Stable.deact[t] \in Nat /\ th[t].i \in Nat \ {0}
           /\ scenario.ops[t] \in Nat \ {0} /\ tcrash[t] \in Nat /\ th[t].rec \in BOOLEAN
<1>1. DOMAIN Start = Fields
  BY Zenon DEF Start, Fields
<1>2. Stable.deact[t] \in Nat
  BY Zenon DEF OnceInv, Shaped, CommitInv, CombType, Stable
<1>3. scenario.ops[t] \in Nat \ {0}
  BY CombAssumption, Zenon DEF Counters
<1>4. Shaped /\ Numbered(t) /\ Performed(t) /\ Work(t)
  BY Zenon DEF OnceInv
<1> QED
  BY <1>1, <1>2, <1>3, <1>4, Zenon DEF Numbered, Shaped, Counters, CommitInv, LockInv, CombType, RequestType

\* The thread returns from an operation that is performed.
LEMMA ReturnStep ==
    ASSUME CommitInv, Counters, OnceInv, NEW t \in Threads, NEW v, Return(t, v),
           UNCHANGED <<request, state, pstate, index, chk, lock, crashes>>,
           th[t].pc \in {"recover", "backup"},
           th[t].i <= request[t].activate, th[t].i <= Stable.deact[t],
           th[t].rec = FALSE => th[t].i = request[t].activate
    PROVE  OnceInv'
<1> DEFINE a == request[t].activate
           d == Stable.deact[t]
           i == th[t].i
<1>1. /\ Shaped /\ Numbered(t) /\ Performed(t) /\ Work(t)
      /\ DOMAIN th = Threads /\ DOMAIN th[t] = Fields /\ DOMAIN Start = Fields
      /\ a \in Nat /\ d \in Nat /\ i \in Nat \ {0} /\ scenario.ops[t] \in Nat \ {0} /\ tcrash[t] \in Nat
      /\ th[t].rec \in BOOLEAN
  BY Known, Zenon
<1>2. /\ th'[t].i = i + 1 /\ th'[t].rec = th[t].rec
      /\ th'[t].pc = IF i = scenario.ops[t] THEN "done" ELSE "activate"
  BY <1>1, Zenon DEF Return, Fields
<1>3. DOMAIN th' = Threads /\ \A u \in Threads \ {t} : th'[u] = th[u]
  BY <1>1, Zenon DEF Return
<1>4. /\ DOMAIN res' = Threads /\ DOMAIN res'[t] = DOMAIN res[t]
      /\ \A u \in Threads \ {t} : res'[u] = res[u]
      /\ \A j \in DOMAIN res[t] : j # i => res'[t][j] = res[t][j]
  BY <1>1, Zenon DEF Return, Shaped
<1>5. Stable' = Stable /\ Ops(t)' = Ops(t) /\ \A u \in Threads : Ops(u)' = Ops(u)
  BY Zenon DEF Stable, Ops, crashes
<1>6. th'[t].pc \in {"done", "activate"}
  BY <1>2, Zenon
<1>7. Shaped'
  BY <1>1, <1>2, <1>3, <1>4, <1>5, Zenon DEF Shaped
<1>8. Numbered(t)'
  <2>1. i + 1 \in Nat \ {0} /\ i + 1 <= a + 1 /\ (i = a => i + 1 = a + 1)
    BY <1>1
  <2>2. th'[t].pc # "done" => i + 1 \in Ops(t)
    <3>1. i \in Ops(t)
      BY <1>1, Zenon DEF Numbered
    <3> QED
      BY <1>1, <1>2, <3>1 DEF Ops
  <2>3. \A j \in Ops(t) : chk[t][j] \in {0, j} /\ (j <= a => chk[t][j] = j)
    BY <1>1, Zenon DEF Numbered
  <2> QED
    BY <1>1, <1>2, <1>5, <1>6, <2>1, <2>2, <2>3, Zenon DEF Numbered, Waiting, Inside
<1>9. Performed(t)'
  <2>1. d <= a /\ a <= d + 1 /\ (i + 1 = a + 1 => d = a)
    BY <1>1 DEF Performed
  <2>2. \A j \in Ops(t) : res'[t][j] # NoResult => j <= d
    BY <1>1, <1>4, Zenon DEF Performed, Shaped
  <2>3. request[t].arg = a \/ (request[t].arg = a + 1 /\ Answered(t))
    BY <1>1, Zenon DEF Performed
  <2> QED
    BY <1>1, <1>2, <1>5, <1>6, <2>1, <2>2, <2>3, Zenon DEF Performed, Answered
<1>10. Work(t)'
  BY <1>1, <1>6, WorkOutside, Zenon DEF crashes, Inside
<1>11. Quiet(t)
  BY <1>3, <1>4, Zenon DEF Quiet, crashes
<1> QED
  BY <1>6, <1>7, <1>8, <1>9, <1>10, <1>11, QuietStep, Zenon DEF OnceInv

\* backup_retval and the return.
LEMMA BackupOnce ==
    ASSUME CommitInv, Counters, OnceInv, NEW t \in Threads, Backup(t)
    PROVE  OnceInv'
<1>1. Numbered(t) /\ Performed(t)
  BY Known, Zenon
<1> QED
  BY <1>1, ReturnStep, Zenon DEF Backup, Numbered, Performed

\* A step of t with an operation it has announced, on which only its place and its local
\* variables depend.
LEMMA MoveStep ==
    ASSUME CommitInv, Counters, OnceInv, NEW t \in Threads,
           UNCHANGED <<request, state, pstate, index, chk, res, crashes>>,
           \A u \in Threads \ {t} : th'[u] = th[u],
           th[t].pc \in Waiting \cup Inside, th[t].pc # "deactivate",
           th'[t].pc \in Waiting \cup Inside \cup {"backup"}, th'[t].pc # "deactivate",
           th'[t].i = th[t].i, th'[t].act = th[t].act, th'[t].rec = th[t].rec,
           th'[t].pc = "check" => lock.tid = 0 /\ th'[t].cur.ptr = pstate,
           th'[t].pc \in {"take", "backup"} => Answered(t),
           Work(t)',
           lock'.tid = 0 /\ lock' # Free(Null) => lock'.ptr = pstate
    PROVE  OnceInv'
<1>1. /\ Shaped /\ Numbered(t) /\ Performed(t)
      /\ request[t].activate \in Nat /\ Stable.deact[t] \in Nat /\ th[t].rec \in BOOLEAN
  BY Known, Zenon
<1>2. Stable' = Stable /\ Answered(t)' = Answered(t) /\ \A u \in Threads : Ops(u)' = Ops(u)
  BY Zenon DEF Stable, Answered, Ops, crashes
<1>3. Shaped'
  BY <1>1, <1>2, Zenon DEF Shaped
<1>4. Numbered(t)'
  BY <1>1, NumberedMoves, Zenon DEF crashes
<1>5. Performed(t)'
  <2>1. th[t].i = request[t].activate
    BY <1>1, Zenon DEF Numbered
  <2>2. Answered(t) => th[t].i <= Stable.deact[t]
    BY <1>1, <2>1 DEF Answered
  <2> QED
    BY <1>1, <1>2, <2>2, Zenon DEF Performed
<1>6. Quiet(t)
  BY Zenon DEF Quiet, crashes
<1> QED
  BY <1>3, <1>4, <1>5, <1>6, QuietStep, Zenon

\* try_lock: the load.
LEMMA TryLockOnce ==
    ASSUME CommitInv, Counters, OnceInv, NEW t \in Threads, TryLock(t)
    PROVE  OnceInv'
<1>1. Work(t) /\ DOMAIN th = Threads /\ DOMAIN th[t] = Fields /\ tcrash[t] \in Nat
  BY Known, Zenon
<1>2. \A u \in Threads \ {t} : th'[u] = th[u]
  BY <1>1, Zenon DEF TryLock, Goto
<1>3. /\ th'[t].i = th[t].i /\ th'[t].act = th[t].act /\ th'[t].rec = th[t].rec
      /\ th'[t].pc \in {"ready", "peek", "acquire"}
  BY <1>1, ZenonT(40) DEF TryLock, Goto, Fields
<1>4. UNCHANGED <<request, state, pstate, index, lock, chk, res, crashes>> /\ th[t].pc = "lock"
  BY Zenon DEF TryLock
<1>5. Work(t)'
  BY <1>1, <1>3, <1>4, WorkOutside, Zenon DEF crashes, Inside
<1> QED
  BY <1>2, <1>3, <1>4, <1>5, MoveStep, Zenon DEF OnceInv, Waiting, Inside

\* try_lock: the CAS.
LEMMA AcquireOnce ==
    ASSUME CommitInv, Counters, OnceInv, NEW t \in Threads, Acquire(t)
    PROVE  OnceInv'
<1>1. Work(t) /\ DOMAIN th = Threads /\ DOMAIN th[t] = Fields /\ tcrash[t] \in Nat
  BY Known, Zenon
<1>2. \A u \in Threads \ {t} : th'[u] = th[u]
  BY <1>1, Zenon DEF Acquire, Goto
<1>3. /\ th'[t].i = th[t].i /\ th'[t].act = th[t].act /\ th'[t].rec = th[t].rec
      /\ th'[t].pc \in {"ready", "peek"}
  BY <1>1, ZenonT(40) DEF Acquire, Goto, Fields
<1>4. UNCHANGED <<request, state, pstate, index, chk, res, crashes>> /\ th[t].pc = "acquire"
  BY Zenon DEF Acquire
<1>5. Work(t)'
  BY <1>1, <1>3, <1>4, WorkOutside, Zenon DEF crashes, Inside
<1>6. lock' = Held(t) \/ lock' = lock
  BY Zenon DEF Acquire
<1>7. lock'.tid = 0 /\ lock' # Free(Null) => lock'.ptr = pstate
  BY <1>6, HeldTid, ThreadsAreNotZero, Zenon DEF OnceInv
<1> QED
  BY <1>2, <1>3, <1>4, <1>5, <1>7, MoveStep, Zenon DEF Waiting, Inside

\* peek: the word names the record of the last combine, which is the stable one.
LEMMA PeekOnce ==
    ASSUME CommitInv, Counters, OnceInv, NEW t \in Threads, Peek(t)
    PROVE  OnceInv'
<1>1. Work(t) /\ DOMAIN th = Threads /\ DOMAIN th[t] = Fields /\ tcrash[t] \in Nat
  BY Known, Zenon
<1>2. \A u \in Threads \ {t} : th'[u] = th[u]
  BY <1>1, Zenon DEF Peek
<1>3. /\ th'[t].i = th[t].i /\ th'[t].act = th[t].act /\ th'[t].rec = th[t].rec
      /\ th'[t].pc = "check" /\ th'[t].cur = lock
  BY <1>1, Zenon DEF Peek, Fields
<1>4. UNCHANGED <<request, state, pstate, index, lock, chk, res, crashes>> /\ th[t].pc = "peek" /\ lock.tid = 0
  BY Zenon DEF Peek, released
<1>5. Work(t)'
  BY <1>1, <1>3, <1>4, WorkOutside, Zenon DEF crashes, Inside
<1>6. lock.ptr = pstate
  BY <1>4, Zenon DEF OnceInv, CommitInv, LockInv, Waits
<1> QED
  BY <1>2, <1>3, <1>4, <1>5, <1>6, MoveStep, Zenon DEF OnceInv, Waiting, Inside

\* The look into the record that peek found.
LEMMA CheckOnce ==
    ASSUME CommitInv, Counters, OnceInv, NEW t \in Threads, Check(t)
    PROVE  OnceInv'
<1>1. /\ Performed(t) /\ Work(t) /\ DOMAIN th = Threads /\ DOMAIN th[t] = Fields /\ tcrash[t] \in Nat
      /\ request[t].activate \in Nat /\ Stable.deact[t] \in Nat
  BY Known, Zenon
<1>2. \A u \in Threads \ {t} : th'[u] = th[u]
  BY <1>1, Zenon DEF Check, Goto
<1>3. /\ th'[t].i = th[t].i /\ th'[t].act = th[t].act /\ th'[t].rec = th[t].rec
      /\ th'[t].pc \in {"take", "lock"}
      /\ th'[t].pc = "take" => request[t].activate <= state[th[t].cur.ptr].deact[t]
  BY <1>1, Zenon DEF Check, Goto, Fields
<1>4. UNCHANGED <<request, state, pstate, index, lock, chk, res, crashes>> /\ th[t].pc = "check"
  BY Zenon DEF Check
<1>5. Work(t)'
  BY <1>1, <1>3, <1>4, WorkOutside, Zenon DEF crashes, Inside
<1>6. th'[t].pc = "take" => Answered(t)
  <2>1. th[t].cur.ptr = pstate \/ Answered(t)
    BY <1>1, <1>4, Zenon DEF Performed
  <2>2. Stable.deact[t] <= request[t].activate
    BY <1>1, Zenon DEF Performed
  <2>3. th[t].cur.ptr = pstate => state[th[t].cur.ptr].deact[t] = Stable.deact[t]
    BY Zenon DEF Stable
  <2> QED
    BY <1>1, <1>3, <2>1, <2>2, <2>3 DEF Answered
<1> QED
  BY <1>2, <1>3, <1>4, <1>5, <1>6, MoveStep, Zenon DEF OnceInv, Waiting, Inside

\* The result is taken from that record.
LEMMA TakeOnce ==
    ASSUME CommitInv, Counters, OnceInv, NEW t \in Threads, Take(t)
    PROVE  OnceInv'
<1>1. Performed(t) /\ Work(t) /\ DOMAIN th = Threads /\ DOMAIN th[t] = Fields /\ tcrash[t] \in Nat
  BY Known, Zenon
<1>2. \A u \in Threads \ {t} : th'[u] = th[u]
  BY <1>1, Zenon DEF Take
<1>3. /\ th'[t].i = th[t].i /\ th'[t].act = th[t].act /\ th'[t].rec = th[t].rec
      /\ th'[t].pc = "backup"
  BY <1>1, Zenon DEF Take, Fields
<1>4. UNCHANGED <<request, state, pstate, index, lock, chk, res, crashes>> /\ th[t].pc = "take"
  BY Zenon DEF Take
<1>5. Work(t)'
  BY <1>1, <1>3, <1>4, WorkOutside, Zenon DEF crashes, Inside
<1>6. Answered(t)
  BY <1>1, <1>4, Zenon DEF Performed
<1> QED
  BY <1>2, <1>3, <1>4, <1>5, <1>6, MoveStep, Zenon DEF OnceInv, Waiting, Inside

\* unlock: the combine has served the combiner, and left the word with the record it committed.
LEMMA UnlockOnce ==
    ASSUME CommitInv, Counters, OnceInv, NEW t \in Threads, Unlock(t)
    PROVE  OnceInv'
<1>1. Performed(t) /\ Work(t) /\ DOMAIN th = Threads /\ DOMAIN th[t] = Fields /\ tcrash[t] \in Nat
  BY Known, Zenon
<1>2. \A u \in Threads \ {t} : th'[u] = th[u]
  BY <1>1, Zenon DEF Unlock
<1>3. /\ th'[t].i = th[t].i /\ th'[t].act = th[t].act /\ th'[t].rec = th[t].rec
      /\ th'[t].pc = "backup"
  BY <1>1, Zenon DEF Unlock, Fields
<1>4. UNCHANGED <<request, state, pstate, index, chk, res, crashes>> /\ th[t].pc = "unlock"
  BY Zenon DEF Unlock
<1>5. Work(t)'
  BY <1>1, <1>3, <1>4, WorkOutside, Zenon DEF crashes, Inside
<1>6. Answered(t) /\ pstate = <<t, 1 - index[t]>>
  BY <1>1, <1>4, Zenon DEF Work, Counts
<1>7. lock'.ptr = pstate
  BY <1>6, Zenon DEF Unlock, Free
<1> QED
  BY <1>2, <1>3, <1>4, <1>5, <1>6, <1>7, MoveStep, Zenon DEF Waiting, Inside

\* The flush of the record, and that of the pointer.
LEMMA FlushOnce ==
    ASSUME CommitInv, Counters, OnceInv, NEW t \in Threads, Persist(t) \/ FlushCommit(t)
    PROVE  OnceInv'
<1>1. Work(t) /\ DOMAIN th = Threads /\ DOMAIN th[t] = Fields /\ tcrash[t] \in Nat
  BY Known, Zenon
<1>2. \A u \in Threads \ {t} : th'[u] = th[u]
  BY <1>1, Zenon DEF Persist, FlushCommit, Goto
<1>3. /\ th'[t].i = th[t].i /\ th'[t].act = th[t].act /\ th'[t].rec = th[t].rec
      /\ \/ th[t].pc = "persist" /\ th'[t].pc = "commit"
         \/ th[t].pc = "flush" /\ th'[t].pc = "flip"
  BY <1>1, Zenon DEF Persist, FlushCommit, Goto, Fields
<1>4. UNCHANGED <<request, state, pstate, index, lock, chk, res, crashes>>
  BY Zenon DEF Persist, FlushCommit
<1>5. Work(t)'
  <2>1. Mine(t)' = Mine(t) /\ Stable' = Stable /\ \A u \in Threads : Answered(u)' <=> Answered(u)
    BY <1>4, Zenon DEF Mine, Stable, Answered
  <2>2. \A u \in Threads : Counts(t, u)' => Counts(t, u)
    BY <1>2, Zenon DEF Counts
  <2>3. CASE th[t].pc = "persist" /\ th'[t].pc = "commit"
    BY <1>1, <1>4, <2>1, <2>2, <2>3, Zenon DEF Work, crashes
  <2>4. CASE th[t].pc = "flush" /\ th'[t].pc = "flip"
    BY <1>1, <1>4, <2>1, <2>2, <2>4, Zenon DEF Work, crashes
  <2> QED
    BY <1>3, <2>3, <2>4, Zenon
<1> QED
  BY <1>2, <1>3, <1>4, <1>5, MoveStep, Zenon DEF OnceInv, Waiting, Inside

\* chk_activate: the number on record, or the next one, is that of the operation.
LEMMA ActivateOnce ==
    ASSUME CommitInv, Counters, OnceInv, NEW t \in Threads, Activate(t)
    PROVE  OnceInv'
<1> DEFINE a == request[t].activate
           i == th[t].i
           c == chk[t][i]
<1>1. /\ Shaped /\ Numbered(t) /\ Performed(t) /\ Work(t)
      /\ DOMAIN th = Threads /\ DOMAIN th[t] = Fields /\ tcrash[t] \in Nat
      /\ a \in Nat /\ Stable.deact[t] \in Nat /\ i \in Nat \ {0} /\ th[t].rec \in BOOLEAN
  BY Known, Zenon
<1>2. \A u \in Threads \ {t} : th'[u] = th[u] /\ chk'[u] = chk[u]
  BY <1>1, Zenon DEF Activate, Shaped
<1>3. UNCHANGED <<request, state, pstate, index, lock, res, crashes>> /\ th[t].pc = "activate"
  BY Zenon DEF Activate
<1>4. i \in Ops(t) /\ c \in {0, i} /\ (i <= a => c = i) /\ i <= a + 1
  BY <1>1, <1>3, Zenon DEF Numbered
<1>5. Stable' = Stable /\ Answered(t)' = Answered(t) /\ \A u \in Threads : Ops(u)' = Ops(u)
  BY <1>3, Zenon DEF Stable, Answered, Ops, crashes
<1>6. CASE th[t].rec /\ c > 0
  <2>1. c = i
    BY <1>4, <1>6
  <2>2. /\ th'[t].i = i /\ th'[t].act = c /\ th'[t].rec = th[t].rec /\ th'[t].pc = "recover"
        /\ chk' = chk
    <3>1. th' = [th EXCEPT ![t].act = c, ![t].pc = "recover"] /\ chk' = chk
      BY <1>6, Zenon DEF Activate
    <3> QED
      BY <1>1, <3>1, Zenon DEF Fields
  <2>3. th'[t].rec = TRUE
    BY <1>1, <1>6, <2>2, Zenon
  <2>4. Shaped'
    BY <1>1, <1>2, <1>3, <2>2, ShapedKeeps, Zenon DEF Shaped, crashes
  <2>5. Numbered(t)'
    BY <1>1, <1>3, <1>4, <1>5, <2>1, <2>2, <2>3, Zenon DEF Numbered, Waiting, Inside
  <2>6. Performed(t)'
    BY <1>1, <1>3, <1>5, <2>2, Zenon DEF Performed
  <2>7. Work(t)'
    BY <1>1, <1>3, <2>2, WorkOutside, Zenon DEF crashes, Inside
  <2>8. Quiet(t)
    BY <1>2, <1>3, Zenon DEF Quiet, crashes
  <2> QED
    BY <1>3, <2>2, <2>4, <2>5, <2>6, <2>7, <2>8, QuietStep, Zenon DEF OnceInv
<1>7. CASE ~(th[t].rec /\ c > 0)
  <2>1. i = a + 1
    <3>1. th[t].rec = FALSE \/ c = 0
      BY <1>1, <1>4, <1>7
    <3>2. th[t].rec = FALSE => i = a + 1
      BY <1>1, <1>3, Zenon DEF Numbered
    <3> QED
      BY <1>1, <1>4, <3>1, <3>2
  <2>2. /\ th'[t].i = i /\ th'[t].act = a + 1 /\ th'[t].rec = FALSE /\ th'[t].pc = "register"
        /\ chk' = [chk EXCEPT ![t][i] = a + 1]
    <3>1. /\ th' = [th EXCEPT ![t].rec = FALSE, ![t].act = a + 1, ![t].pc = "register"]
          /\ chk' = [chk EXCEPT ![t][i] = a + 1]
      BY <1>7, Zenon DEF Activate
    <3> QED
      BY <1>1, <3>1, Zenon DEF Fields
  <2>3. DOMAIN chk' = Threads /\ DOMAIN chk'[t] = Ops(t) /\ chk'[t][i] = i
        /\ \A j \in Ops(t) : j # i => chk'[t][j] = chk[t][j]
    BY <1>1, <1>4, <2>1, <2>2, Zenon DEF Shaped
  <2>4. Shaped'
    BY <1>1, <1>2, <1>3, <2>2, <2>3, ShapedKeeps, Zenon DEF Shaped, crashes
  <2>5. Numbered(t)'
    <3>1. \A j \in Ops(t) : chk'[t][j] \in {0, j} /\ (j <= a => chk'[t][j] = j)
      BY <1>1, <2>3, Zenon DEF Numbered
    <3>2. i >= a
      BY <1>1, <2>1
    <3> QED
      BY <1>1, <1>3, <1>4, <1>5, <2>1, <2>2, <2>3, <3>1, <3>2, Zenon DEF Numbered, Waiting, Inside
  <2>6. Performed(t)'
    BY <1>1, <1>3, <1>5, <2>2, Zenon DEF Performed
  <2>7. Work(t)'
    BY <1>1, <1>3, <2>2, WorkOutside, Zenon DEF crashes, Inside
  <2>8. Quiet(t)
    BY <1>2, <1>3, Zenon DEF Quiet, crashes
  <2> QED
    BY <1>3, <2>2, <2>4, <2>5, <2>6, <2>7, <2>8, QuietStep, Zenon DEF OnceInv
<1> QED
  BY <1>6, <1>7, Zenon

\* Recovery: an operation is repeated only if its number is that of the last request, or the next.
LEMMA RecoverOnce ==
    ASSUME CommitInv, Counters, OnceInv, NEW t \in Threads, Recover(t)
    PROVE  OnceInv'
<1> DEFINE a == request[t].activate
           d == Stable.deact[t]
           i == th[t].i
<1>1. /\ Shaped /\ Numbered(t) /\ Performed(t) /\ Work(t)
      /\ DOMAIN th = Threads /\ DOMAIN th[t] = Fields /\ tcrash[t] \in Nat
      /\ a \in Nat /\ d \in Nat /\ i \in Nat \ {0} /\ th[t].rec \in BOOLEAN
  BY Known, Zenon
<1>2. UNCHANGED <<request, state, pstate, index, lock, chk, crashes>> /\ th[t].pc = "recover"
  BY Zenon DEF Recover
<1>3. th[t].act = i /\ th[t].rec = TRUE /\ d <= a /\ a <= d + 1 /\ i \in Ops(t) /\ chk[t][i] = i
  BY <1>1, <1>2, Zenon DEF Numbered, Performed
<1>4. Stable' = Stable /\ Answered(t)' = Answered(t) /\ \A u \in Threads : Ops(u)' = Ops(u)
  BY <1>2, Zenon DEF Stable, Answered, Ops, crashes
<1>5. ASSUME NEW v, Return(t, v), i < d \/ i < a PROVE OnceInv'
  <2>1. i <= a /\ i <= d
    BY <1>1, <1>3, <1>5
  <2> QED
    BY <1>2, <1>3, <1>5, <2>1, ReturnStep, Zenon
<1>6. CASE finalized(t) /\ th' = [th EXCEPT ![t].ret = state[pstate].ret[t], ![t].pc = "backup"] /\ UNCHANGED res
  <2>1. /\ th'[t].i = i /\ th'[t].act = th[t].act /\ th'[t].rec = th[t].rec /\ th'[t].pc = "backup"
        /\ \A u \in Threads \ {t} : th'[u] = th[u]
    BY <1>1, <1>6, Zenon DEF Fields
  <2>2. i = d
    BY <1>3, <1>6, Zenon DEF finalized, Stable
  <2>3. i <= d /\ i <= a
    BY <1>1, <1>3, <2>2
  <2>4. Shaped'
    BY <1>1, <1>2, <1>6, <2>1, ShapedKeeps, Zenon DEF Shaped, crashes
  <2>5. Numbered(t)'
    BY <1>1, <1>2, <1>3, <1>4, <2>1, <2>3, Zenon DEF Numbered, Waiting, Inside
  <2>6. Performed(t)'
    BY <1>1, <1>2, <1>4, <1>6, <2>1, <2>3, Zenon DEF Performed
  <2>7. Work(t)'
    BY <1>1, <1>2, <2>1, WorkOutside, Zenon DEF crashes, Inside
  <2>8. Quiet(t)
    BY <1>2, <1>6, <2>1, Zenon DEF Quiet, crashes
  <2> QED
    BY <1>2, <2>1, <2>4, <2>5, <2>6, <2>7, <2>8, QuietStep, Zenon DEF OnceInv
<1>7. CASE ~(i < a) /\ th' = [th EXCEPT ![t].rec = FALSE, ![t].pc = "register"] /\ UNCHANGED res
  <2>1. /\ th'[t].i = i /\ th'[t].act = th[t].act /\ th'[t].rec = FALSE /\ th'[t].pc = "register"
        /\ \A u \in Threads \ {t} : th'[u] = th[u]
    BY <1>1, <1>7, Zenon DEF Fields
  <2>2. i >= a
    BY <1>1, <1>7
  <2>4. Shaped'
    BY <1>1, <1>2, <1>7, <2>1, ShapedKeeps, Zenon DEF Shaped, crashes
  <2>5. Numbered(t)'
    BY <1>1, <1>2, <1>3, <1>4, <2>1, <2>2, Zenon DEF Numbered, Waiting, Inside
  <2>6. Performed(t)'
    BY <1>1, <1>2, <1>4, <1>7, <2>1, Zenon DEF Performed
  <2>7. Work(t)'
    BY <1>1, <1>2, <2>1, WorkOutside, Zenon DEF crashes, Inside
  <2>8. Quiet(t)
    BY <1>2, <1>7, <2>1, Zenon DEF Quiet, crashes
  <2> QED
    BY <1>2, <2>1, <2>4, <2>5, <2>6, <2>7, <2>8, QuietStep, Zenon DEF OnceInv
<1> QED
  BY <1>3, <1>5, <1>6, <1>7, Zenon DEF Recover, Stable

\* The argument is stored first: the request is still the one before, which is performed, or it is
\* the same request again.
LEMMA RegisterArgOnce ==
    ASSUME CommitInv, Counters, OnceInv, NEW t \in Threads, RegisterArg(t)
    PROVE  OnceInv'
<1> DEFINE a == request[t].activate
           i == th[t].i
<1>1. /\ Shaped /\ Numbered(t) /\ Performed(t) /\ Work(t)
      /\ DOMAIN th = Threads /\ DOMAIN th[t] = Fields /\ tcrash[t] \in Nat
      /\ DOMAIN request = Threads /\ DOMAIN request[t] = RequestFields
      /\ a \in Nat /\ Stable.deact[t] \in Nat /\ i \in Nat \ {0} /\ th[t].rec \in BOOLEAN
  BY Known, Zenon
<1>2. UNCHANGED <<state, pstate, index, lock, chk, res, crashes>> /\ th[t].pc = "register"
  BY Zenon DEF RegisterArg
<1>3. /\ th'[t].i = i /\ th'[t].act = th[t].act /\ th'[t].rec = th[t].rec /\ th'[t].pc = "announce"
      /\ \A u \in Threads \ {t} : th'[u] = th[u]
  BY <1>1, Zenon DEF RegisterArg, Goto, Fields
<1>4. /\ request'[t].activate = a /\ request'[t].arg = i
      /\ \A u \in Threads \ {t} : request'[u] = request[u]
  BY <1>1, Zenon DEF RegisterArg, RequestFields
<1>5. Stable' = Stable /\ (Answered(t)' <=> Answered(t)) /\ \A u \in Threads : Ops(u)' = Ops(u)
  BY <1>2, <1>4, Zenon DEF Stable, Answered, Ops, crashes
<1>6. i = a \/ i = a + 1
  <2>1. i >= a /\ i <= a + 1
    BY <1>1, <1>2, Zenon DEF Numbered
  <2> QED
    BY <1>1, <2>1
<1>7. Shaped'
  BY <1>1, <1>2, <1>3, <1>5, Zenon DEF Shaped
<1>8. Numbered(t)'
  BY <1>1, <1>2, <1>3, <1>4, <1>5, Zenon DEF Numbered, Waiting, Inside
<1>9. Performed(t)'
  BY <1>1, <1>2, <1>3, <1>4, <1>5, <1>6, Zenon DEF Performed
<1>10. Work(t)'
  BY <1>1, <1>2, <1>3, WorkOutside, Zenon DEF crashes, Inside
<1>11. Quiet(t)
  BY <1>2, <1>3, <1>4, Zenon DEF Quiet, crashes
<1> QED
  BY <1>2, <1>3, <1>7, <1>8, <1>9, <1>10, <1>11, QuietStep, Zenon DEF OnceInv

\* A thread dies, for the first time: if it is about to note that it served a request, it is on a
\* record that is not the stable one.
LEMMA ThreadCrashOnce ==
    ASSUME CommitInv, Counters, OnceInv, Calm', NEW t \in Threads, ThreadCrash(t)
    PROVE  OnceInv'
<1> DEFINE a == request[t].activate
<1>1. /\ Shaped /\ Numbered(t) /\ Performed(t) /\ Work(t)
      /\ DOMAIN th = Threads /\ DOMAIN th[t] = Fields /\ tcrash[t] \in Nat
      /\ a \in Nat /\ Stable.deact[t] \in Nat /\ scenario.ops[t] \in Nat \ {0}
  BY Known, Zenon
<1>2. UNCHANGED <<request, state, pstate, index, lock, chk, res, scenario>>
  BY Zenon DEF ThreadCrash
<1>3. /\ th'[t].i = 1 /\ th'[t].rec = TRUE /\ th'[t].pc = "activate"
      /\ \A u \in Threads \ {t} : th'[u] = th[u]
  BY <1>1, Zenon DEF ThreadCrash, Start
<1>4. tcrash'[t] = tcrash[t] + 1 /\ \A u \in Threads \ {t} : tcrash'[u] = tcrash[u]
  BY Zenon DEF ThreadCrash, Counters
<1>5. tcrash[t] = 0 /\ tcrash'[t] > 0
  <2>1. tcrash'[t] <= 1
    BY Zenon DEF Calm
  <2> QED
    BY <1>1, <1>4, <2>1
<1>6. th[t].pc = "deactivate" => Mine(t) # pstate
  BY <1>1, <1>5 DEF Work
<1>7. Stable' = Stable /\ Mine(t)' = Mine(t) /\ (Answered(t)' <=> Answered(t)) /\ \A u \in Threads : Ops(u)' = Ops(u)
  BY <1>2, Zenon DEF Stable, Answered, Ops, Mine
<1>8. Shaped'
  BY <1>1, <1>2, <1>3, <1>7, Zenon DEF Shaped
<1>9. Numbered(t)'
  <2>1. 1 <= a + 1 /\ 1 \in Nat \ {0} /\ 1 \in Ops(t)
    BY <1>1 DEF Ops
  <2> QED
    BY <1>1, <1>2, <1>3, <1>7, <2>1, Zenon DEF Numbered, Waiting, Inside
<1>10. Performed(t)'
  <2>1. 1 = a + 1 => Stable.deact[t] = a
    <3>1. Stable.deact[t] <= a
      BY <1>1, Zenon DEF Performed
    <3> QED
      BY <1>1, <3>1
  <2> QED
    BY <1>1, <1>2, <1>3, <1>7, <2>1, Zenon DEF Performed, Answered
<1>11. Work(t)'
  BY <1>3, <1>5, Zenon DEF Work
<1>12. Quiet(t)
  BY <1>2, <1>3, <1>4, Zenon DEF Quiet
<1> QED
  BY <1>2, <1>3, <1>6, <1>8, <1>9, <1>10, <1>11, <1>12, QuietStep, Zenon DEF OnceInv

\* The request is announced, or announced again.  A new one takes nothing from a combiner: the
\* request before is performed, so the combiner is not busy with it.
LEMMA RegisterOnce ==
    ASSUME CommitInv, Counters, OnceInv, NEW t \in Threads, Register(t)
    PROVE  OnceInv'
<1> DEFINE a == request[t].activate
           d == Stable.deact[t]
           i == th[t].i
<1>1. /\ Shaped /\ Numbered(t) /\ Performed(t) /\ Work(t)
      /\ DOMAIN th = Threads /\ DOMAIN th[t] = Fields /\ tcrash[t] \in Nat
      /\ DOMAIN request = Threads /\ DOMAIN request[t] = RequestFields
      /\ a \in Nat /\ d \in Nat /\ i \in Nat \ {0} /\ th[t].rec \in BOOLEAN
  BY Known, Zenon
<1>2. UNCHANGED <<state, pstate, index, lock, chk, res, crashes>> /\ th[t].pc = "announce"
  BY Zenon DEF Register
<1>3. /\ th'[t].i = i /\ th'[t].act = th[t].act /\ th'[t].rec = th[t].rec /\ th'[t].pc = "lock"
      /\ \A u \in Threads \ {t} : th'[u] = th[u]
  BY <1>1, Zenon DEF Register, Goto, Fields
<1>4. /\ i >= a /\ i <= a + 1 /\ request[t].arg = i /\ th[t].act = i /\ i \in Ops(t) /\ chk[t][i] = i
      /\ th[t].rec = FALSE
  BY <1>1, <1>2, Zenon DEF Numbered
<1>5. /\ request'[t].activate = i /\ request'[t].arg = i
      /\ \A u \in Threads \ {t} : request'[u] = request[u]
  BY <1>1, <1>4, Zenon DEF Register, RequestFields
<1>6. /\ Stable' = Stable /\ \A u \in Threads : Ops(u)' = Ops(u) /\ Mine(u)' = Mine(u)
      /\ \A u \in Threads \ {t} : Answered(u)' <=> Answered(u)
  BY <1>2, <1>5, Zenon DEF Stable, Answered, Ops, crashes, Mine
<1>7. i = a \/ (i = a + 1 /\ d = a)
  <2>1. i = a + 1 => d = a
    BY <1>1, Zenon DEF Performed, Answered
  <2> QED
    BY <1>1, <1>4, <2>1
<1>8. Shaped'
  BY <1>1, <1>2, <1>3, ShapedKeeps, Zenon DEF Shaped, crashes
<1>9. Numbered(t)'
  <2>1. \A j \in Ops(t) : j \in Int /\ chk[t][j] \in {0, j} /\ (j <= a => chk[t][j] = j)
    BY <1>1 DEF Numbered, Ops
  <2>2. \A j \in Ops(t) : j <= i => chk[t][j] = j
    BY <1>1, <1>4, <1>7, <2>1
  <2>3. i <= i + 1
    BY <1>1
  <2> QED
    BY <1>1, <1>2, <1>3, <1>4, <1>5, <1>6, <2>1, <2>2, <2>3, Zenon DEF Numbered, Waiting, Inside
<1>10. Performed(t)'
  <2>1. d <= a /\ a <= d + 1
    BY <1>1, Zenon DEF Performed
  <2>2. d <= i /\ i <= d + 1 /\ i # i + 1
    BY <1>1, <1>7, <2>1
  <2>3. \A j \in Ops(t) : res[t][j] # NoResult => j <= d
    BY <1>1, Zenon DEF Performed
  <2> QED
    BY <1>2, <1>3, <1>5, <1>6, <2>2, <2>3, Zenon DEF Performed
<1>11. Work(t)'
  BY <1>1, <1>2, <1>3, WorkOutside, Zenon DEF crashes, Inside
<1>12. ASSUME NEW u \in Threads \ {t} PROVE Numbered(u)' /\ Performed(u)' /\ Work(u)'
  <2>1. Numbered(u) /\ Performed(u) /\ Work(u)
    BY Zenon DEF OnceInv
  <2>2. Numbered(u)'
    BY <1>2, <1>3, <1>5, <2>1, NumberedKeeps, Zenon DEF crashes
  <2>3. Performed(u)'
    BY <1>2, <1>3, <1>5, <1>6, <2>1, Zenon DEF Performed
  <2>4. \A v \in Threads : Counts(u, v)' => Counts(u, v) /\ v # t
    BY <1>2, <1>3, Zenon DEF Counts
  <2>5. th[u].pc = "deactivate" => th[u].u \in Threads /\ (th[u].u = t => i = a)
    <3>1. SUFFICES ASSUME th[u].pc = "deactivate", th[u].u = t PROVE i = a
      BY Zenon DEF CommitInv, CombType
    <3>2. state[Mine(u)].deact[t] \in Nat
      BY <1>1, MineType, Zenon DEF Shaped, CommitInv
    <3>3. a = state[Mine(u)].deact[t] + 1 /\ d <= state[Mine(u)].deact[t]
      BY <2>1, <3>1, Zenon DEF Work
    <3> QED
      BY <1>1, <1>7, <3>2, <3>3
  <2>6. \A r \in Records : \A v \in Threads : state[r].deact[v] <= request[v].activate => state[r].deact[v] <= request'[v].activate
    <3>1. \A r \in Records : state[r].deact[t] \in Nat
      BY <1>1, Zenon DEF Shaped
    <3>2. \A r \in Records : state[r].deact[t] <= a => state[r].deact[t] <= i
      BY <1>1, <1>4, <3>1
    <3> QED
      BY <1>5, <3>2, Zenon
  <2>7. Mine(u) \in Records
    BY MineType, Zenon DEF CommitInv
  <2>8. th[u].pc = "deactivate" => request'[th[u].u].activate = request[th[u].u].activate
    BY <1>5, <2>5, Zenon
  <2>9. \A v \in Threads : Counts(u, v)' =>
            /\ Counts(u, v) /\ request'[v].activate = request[v].activate
            /\ (Answered(v) => Answered(v)')
    BY <1>5, <1>6, <2>4, Zenon
  <2>10. Work(u)'
    BY <1>2, <1>3, <1>6, <2>1, <2>6, <2>7, <2>8, <2>9, ZenonT(40) DEF Work, crashes
  <2> QED
    BY <2>2, <2>3, <2>10, Zenon
<1>13. ~InPlace' => ~InPlace
  BY <1>2, <1>3, <1>6, Zenon DEF InPlace
<1> QED
  BY <1>2, <1>6, <1>8, <1>9, <1>10, <1>11, <1>12, <1>13, Zenon DEF OnceInv

-----------------------------------------------------------------------------
\* The combine.

\* Nobody else is combining.
LEMMA OthersIdle ==
    ASSUME CommitInv, OnceInv, NEW t \in Threads, th[t].pc \in Inside,
           NEW u \in Threads \ {t}, th'[u] = th[u], tcrash'[u] = tcrash[u],
           Mine(u)' = Mine(u), pstate' = pstate \/ pstate' = Mine(t)
    PROVE  th[u].pc \notin Inside /\ Work(u)'
<1>1. th[u].pc \notin Inside
  BY HeldTid DEF CommitInv, LockInv, OneCombiner, Combiners, Inside
<1>2. Mine(u) # Mine(t)
  BY Zenon DEF Mine
<1>3. Work(u)
  BY Zenon DEF OnceInv
<1>4. th[u].pc \notin {"serve", "deactivate", "persist", "commit", "flush", "flip", "unlock"}
  BY <1>1, Zenon DEF Inside
<1>5. Work(u)'
  BY <1>2, <1>3, <1>4, Zenon DEF Work
<1> QED
  BY <1>1, <1>5, Zenon

\* A step on the record of the combine; what it has to show is about this record.
LEMMA RecordStep ==
    ASSUME CommitInv, Counters, OnceInv, NEW t \in Threads, th[t].pc \in Inside, th'[t].pc \in Inside,
           UNCHANGED <<request, pstate, index, lock, chk, res, crashes>>,
           \A u \in Threads \ {t} : th'[u] = th[u],
           th'[t].i = th[t].i, th'[t].act = th[t].act, th'[t].rec = th[t].rec,
           \A r \in Records \ {Mine(t)} : state'[r] = state[r],
           state'[Mine(t)].deact \in [Threads -> Nat],
           pstate = Mine(t) => \A u \in Threads : /\ Stable.deact[u] <= state'[Mine(t)].deact[u]
                                                  /\ state'[Mine(t)].deact[u] <= request[u].activate,
           Work(t)',
           th'[t].pc # "deactivate" \/ Mine(t) # pstate => Exact(Stable'.data, Stable'.deact)
    PROVE  OnceInv'
<1>1. Shaped /\ Mine(t) \in Records /\ pstate \in Records /\ Mine(t)' = Mine(t)
  BY MineType, Zenon DEF OnceInv, CommitInv, CombType, Mine
<1>2. Shaped'
  <2>1. \A u \in Threads : Ops(u)' = Ops(u) /\ th'[u].rec \in BOOLEAN
    BY <1>1, Zenon DEF Ops, crashes, Shaped
  <2>2. \A r \in Records : state'[r].deact \in [Threads -> Nat]
    BY <1>1, Zenon DEF Shaped
  <2> QED
    BY <1>1, <2>1, <2>2, Zenon DEF Shaped
<1>3. ASSUME NEW u \in Threads PROVE Numbered(u)' /\ Performed(u)'
  <2>1. Numbered(u) /\ Performed(u) /\ Stable.deact[u] \in Nat
    BY Known, Zenon
  <2>2. Numbered(u)'
    BY <2>1, NumberedKeeps, NumberedMoves, Zenon DEF crashes
  <2>3. Stable'.deact[u] \in Nat /\ Stable.deact[u] <= Stable'.deact[u] /\ Stable'.deact[u] <= request[u].activate
    <3>1. CASE pstate = Mine(t)
      BY <3>1, Zenon DEF Stable
    <3>2. CASE pstate # Mine(t)
      <4>1. Stable' = Stable
        BY <1>1, <3>2, Zenon DEF Stable
      <4>2. Stable.deact[u] <= Stable.deact[u]
        BY <2>1
      <4> QED
        BY <2>1, <4>1, <4>2, Zenon DEF Performed
    <3> QED
      BY <3>1, <3>2, Zenon
  <2>4. th'[u].i = th[u].i /\ (th'[u].pc \in {"check", "take", "backup"} => th'[u].pc = th[u].pc /\ th'[u].cur = th[u].cur)
    BY Zenon DEF Inside
  <2>5. Performed(u)'
    BY <2>1, <2>3, <2>4, PerformedKeeps, Zenon DEF crashes
  <2> QED
    BY <2>2, <2>5, Zenon
<1>4. \A u \in Threads \ {t} : Mine(u)' = Mine(u) /\ tcrash'[u] = tcrash[u]
  BY Zenon DEF Mine, crashes
<1>5. \A u \in Threads \ {t} : th[u].pc \notin Inside /\ Work(u)'
  BY <1>4, OthersIdle, Zenon
<1>6. ~InPlace' => th'[t].pc # "deactivate" \/ Mine(t) # pstate
  BY <1>1, Zenon DEF InPlace
<1> QED
  BY <1>2, <1>3, <1>5, <1>6, Zenon DEF OnceInv

\* What is known of a combiner, and of its record.
LEMMA KnownRecord ==
    ASSUME CommitInv, Counters, OnceInv, NEW t \in Threads, th[t].pc \in Inside
    PROVE  /\ Work(t) /\ DOMAIN th = Threads /\ DOMAIN th[t] = Fields
           /\ DOMAIN state = Records /\ Mine(t) \in Records /\ DOMAIN state[Mine(t)] = StateFields
           /\ state[Mine(t)].deact \in [Threads -> Nat] /\ state[Mine(t)].data \in Seq(Entry)
           /\ Stable.deact \in [Threads -> Nat] /\ pstate \in Records
           /\ th[t].pc # "deactivate" \/ Mine(t) # pstate => Exact(Stable.data, Stable.deact)
           /\ \A u \in Threads : request[u].activate \in Nat /\ Performed(u)
<1>1. Work(t) /\ DOMAIN th = Threads /\ DOMAIN th[t] = Fields
  BY Known, Zenon
<1>2. Mine(t) \in Records /\ DOMAIN state = Records /\ DOMAIN state[Mine(t)] = StateFields /\ pstate \in Records
      /\ state[Mine(t)].data \in Seq(Entry)
  BY MineType, Zenon DEF CommitInv, CombType, LogType
<1>3. \A r \in Records : state[r].deact \in [Threads -> Nat]
  BY Zenon DEF OnceInv, Shaped
<1>4. \A u \in Threads \ {t} : th[u].pc # "deactivate"
  BY HeldTid DEF CommitInv, LockInv, OneCombiner, Combiners, Inside
<1>5. th[t].pc # "deactivate" \/ Mine(t) # pstate => ~InPlace
  BY <1>4, Zenon DEF InPlace
<1>6. \A u \in Threads : request[u].activate \in Nat /\ Performed(u)
  BY Zenon DEF OnceInv, Numbered
<1> QED
  BY <1>1, <1>2, <1>3, <1>5, <1>6, Zenon DEF OnceInv, Stable

\* The copy, half of it and all of it: a record copied onto itself does not change.
LEMMA ReadyOnce ==
    ASSUME CommitInv, Counters, OnceInv, NEW t \in Threads, Ready(t)
    PROVE  OnceInv'
<1>0. th[t].pc = "ready" /\ th[t].pc \in Inside
  BY Zenon DEF Ready, Inside
<1>1. /\ Work(t) /\ DOMAIN th = Threads /\ DOMAIN th[t] = Fields
      /\ DOMAIN state = Records /\ Mine(t) \in Records
      /\ state[Mine(t)].deact \in [Threads -> Nat] /\ Stable.deact \in [Threads -> Nat] /\ pstate \in Records
      /\ Exact(Stable.data, Stable.deact)
      /\ \A u \in Threads : request[u].activate \in Nat /\ Performed(u)
  BY <1>0, KnownRecord, Zenon
<1>2. UNCHANGED <<request, pstate, index, lock, chk, res, crashes>>
  BY Zenon DEF Ready
<1>3. /\ th'[t].i = th[t].i /\ th'[t].act = th[t].act /\ th'[t].rec = th[t].rec /\ th'[t].pc = "copy"
      /\ \A u \in Threads \ {t} : th'[u] = th[u]
  BY <1>1, Zenon DEF Ready, Goto, Fields
<1>4. PICK parts : CopyPart(t, parts)
  BY Zenon DEF Ready
<1>5. /\ \A r \in Records \ {Mine(t)} : state'[r] = state[r]
      /\ state'[Mine(t)].data = Stable.data
      /\ state'[Mine(t)].deact = Stable.deact \/ state'[Mine(t)].deact = state[Mine(t)].deact
  BY <1>1, <1>4, Zenon DEF CopyPart, latest, Stable
<1>6. Stable'.data = Stable.data /\ Stable'.deact = Stable.deact
  BY <1>1, <1>2, <1>5, Zenon DEF Stable
<1>7. pstate = Mine(t) => state'[Mine(t)].deact = Stable.deact
  BY <1>5, Zenon DEF Stable
<1>8. \A u \in Threads : Stable.deact[u] <= Stable.deact[u] /\ Stable.deact[u] <= request[u].activate
  <2>1. \A u \in Threads : Stable.deact[u] \in Nat
    BY <1>1, Zenon
  <2>2. \A u \in Threads : Stable.deact[u] <= Stable.deact[u]
    BY <2>1
  <2> QED
    BY <1>1, <2>2, Zenon DEF Performed
<1>9. Work(t)'
  BY <1>0, <1>1, <1>2, <1>3, WorkOutside, Zenon DEF crashes, Inside, Counters
<1> QED
  BY <1>0, <1>1, <1>2, <1>3, <1>5, <1>6, <1>7, <1>8, <1>9, RecordStep, Zenon DEF Inside

\* The whole copy: the scan of the requests starts on a record equal to the stable one.
LEMMA CopyOnce ==
    ASSUME CommitInv, Counters, OnceInv, NEW t \in Threads, Copy(t)
    PROVE  OnceInv'
<1>0. th[t].pc = "copy" /\ th[t].pc \in Inside
  BY Zenon DEF Copy, Inside
<1>1. /\ Work(t) /\ DOMAIN th = Threads /\ DOMAIN th[t] = Fields
      /\ DOMAIN state = Records /\ Mine(t) \in Records
      /\ Stable.deact \in [Threads -> Nat] /\ pstate \in Records
      /\ Exact(Stable.data, Stable.deact)
      /\ \A u \in Threads : request[u].activate \in Nat /\ Performed(u)
  BY <1>0, KnownRecord, Zenon
<1>2. UNCHANGED <<request, pstate, index, lock, chk, res, crashes>>
  BY Zenon DEF Copy
<1>3. /\ th'[t].i = th[t].i /\ th'[t].act = th[t].act /\ th'[t].rec = th[t].rec /\ th'[t].pc = "serve"
      /\ th'[t].u = 1 /\ th'[t].round = 1
      /\ \A u \in Threads \ {t} : th'[u] = th[u]
  BY <1>1, Zenon DEF Copy, Fields
<1>5. /\ \A r \in Records \ {Mine(t)} : state'[r] = state[r]
      /\ state'[Mine(t)].data = Stable.data
      /\ state'[Mine(t)].deact = Stable.deact
  BY <1>1, Zenon DEF Copy, CopyPart, latest, Stable
<1>6. Stable'.data = Stable.data /\ Stable'.deact = Stable.deact /\ Mine(t)' = Mine(t)
  BY <1>1, <1>2, <1>5, Zenon DEF Stable, Mine
<1>8. \A u \in Threads : Stable.deact[u] <= Stable.deact[u] /\ Stable.deact[u] <= request[u].activate
  <2>1. \A u \in Threads : Stable.deact[u] \in Nat
    BY <1>1, Zenon
  <2>2. \A u \in Threads : Stable.deact[u] <= Stable.deact[u]
    BY <2>1
  <2> QED
    BY <1>1, <2>2, Zenon DEF Performed
<1>9. Work(t)'
  <2>1. 1 \in Nat \ {0} /\ ~(1 > 1)
    OBVIOUS
  <2>2. \A u \in Threads : ~(u < 1)
    BY CombAssumption
  <2> QED
    BY <1>0, <1>1, <1>2, <1>3, <1>5, <1>6, <1>8, <2>1, <2>2, Zenon DEF Work, crashes
<1> QED
  BY <1>0, <1>1, <1>2, <1>3, <1>5, <1>6, <1>8, <1>9, RecordStep, Zenon DEF Inside

\* A request that is served gets the next number of its thread.
LEMMA ServeActiveOnce ==
    ASSUME CommitInv, Counters, OnceInv, NEW t \in Threads, Serve(t), active(t, th[t].u)
    PROVE  OnceInv'
<1> DEFINE u == th[t].u
           r == state[Mine(t)]
           a == request[u].activate
<1>0. th[t].pc = "serve" /\ th[t].pc \in Inside
  BY Zenon DEF Serve, Inside
<1>1. /\ Work(t) /\ DOMAIN th = Threads /\ DOMAIN th[t] = Fields
      /\ DOMAIN state = Records /\ Mine(t) \in Records /\ DOMAIN r = StateFields
      /\ r.deact \in [Threads -> Nat] /\ r.data \in Seq(Entry)
      /\ Stable.deact \in [Threads -> Nat] /\ pstate \in Records
      /\ Exact(Stable.data, Stable.deact)
      /\ \A v \in Threads : request[v].activate \in Nat /\ Performed(v)
  BY <1>0, KnownRecord, Zenon
<1>2. UNCHANGED <<request, pstate, index, lock, chk, res, crashes>> /\ u \in Threads
  BY <1>0, Zenon DEF Serve, CommitInv, CombType
<1>3. /\ th'[t].i = th[t].i /\ th'[t].act = th[t].act /\ th'[t].rec = th[t].rec /\ th'[t].pc = "deactivate"
      /\ th'[t].u = u /\ th'[t].round = th[t].round /\ th'[t].ta = a
      /\ \A v \in Threads \ {t} : th'[v] = th[v]
  <2>1. th' = [th EXCEPT ![t].ta = a, ![t].pc = "deactivate"]
    BY Zenon DEF Serve
  <2> QED
    BY <1>1, <2>1, Zenon DEF Fields
<1>4. a = r.deact[u] + 1 /\ request[u].arg = a
  <2>1. r.deact[u] \in Nat /\ Stable.deact[u] \in Nat /\ a \in Nat
    BY <1>1, <1>2, Zenon
  <2>2. Stable.deact[u] <= r.deact[u] /\ a <= Stable.deact[u] + 1
    BY <1>0, <1>1, <1>2, Zenon DEF Work, Performed
  <2>3. a > r.deact[u]
    BY Zenon DEF active
  <2>4. a = r.deact[u] + 1 /\ Stable.deact[u] # a
    BY <2>1, <2>2, <2>3
  <2> QED
    BY <1>1, <1>2, <2>4, Zenon DEF Performed, Answered
<1>5. /\ \A q \in Records \ {Mine(t)} : state'[q] = state[q]
      /\ state'[Mine(t)].data = Append(r.data, [by |-> u, i |-> r.deact[u] + 1])
      /\ state'[Mine(t)].deact = r.deact
  <2>1. state' = [state EXCEPT ![Mine(t)].data = Append(r.data, [by |-> u, i |-> request[u].arg]),
                               ![Mine(t)].ret[u] = Len(r.data) + 1]
    BY Zenon DEF Serve
  <2>2. PICK e : e = Append(r.data, [by |-> u, i |-> request[u].arg])
    BY Zenon
  <2>3. state' = [state EXCEPT ![Mine(t)].data = e, ![Mine(t)].ret[u] = Len(r.data) + 1]
    BY <2>1, <2>2, Zenon
  <2>4. /\ \A q \in Records \ {Mine(t)} : state'[q] = state[q]
        /\ state'[Mine(t)].data = e
        /\ state'[Mine(t)].deact = r.deact
    BY <1>1, <2>3, Zenon DEF StateFields
  <2> QED
    BY <1>4, <2>2, <2>4, Zenon
<1>6. Stable'.deact = Stable.deact /\ Mine(t)' = Mine(t) /\ (Mine(t) # pstate => Stable' = Stable)
  BY <1>1, <1>2, <1>5, Zenon DEF Stable, Mine
<1>7. Exact(state'[Mine(t)].data, [r.deact EXCEPT ![u] = r.deact[u] + 1])
  <2>1. Exact(r.data, r.deact)
    BY <1>0, <1>1, Zenon DEF Work
  <2> HIDE DEF u, r
  <2>2. Exact(Append(r.data, [by |-> u, i |-> r.deact[u] + 1]), [r.deact EXCEPT ![u] = r.deact[u] + 1])
    BY <1>1, <1>2, <2>1, ExactAppend, Zenon
  <2> QED
    BY <1>5, <2>2, Zenon
<1>8. \A v \in Threads : Counts(t, v)' => Counts(t, v)
  BY <1>3, Zenon DEF Counts
<1>9. Work(t)'
  <2>1. \A v \in Threads : Stable'.deact[v] <= state'[Mine(t)].deact[v] /\ state'[Mine(t)].deact[v] <= request[v].activate
    BY <1>0, <1>1, <1>5, <1>6, Zenon DEF Work
  <2>2. th[t].round \in Nat \ {0} /\ \A v \in Threads :
            Counts(t, v)' /\ (v < u \/ th[t].round > 1) => state'[Mine(t)].deact[v] = request[v].activate
    BY <1>0, <1>1, <1>5, <1>8, Zenon DEF Work
  <2>3. pstate = Mine(t) => tcrash[t] > 0
    BY <1>0, <1>1, Zenon DEF Work
  <2>4. /\ th'[t].ta = request[u].activate /\ th'[t].ta = state'[Mine(t)].deact[u] + 1
        /\ Exact(state'[Mine(t)].data, [state'[Mine(t)].deact EXCEPT ![u] = th'[t].ta])
    BY <1>3, <1>4, <1>5, <1>7, Zenon
  <2> HIDE DEF u
  <2> QED
    BY <1>2, <1>3, <1>6, <2>1, <2>2, <2>3, <2>4, Zenon DEF Work, crashes
<1>10. pstate = Mine(t) => \A v \in Threads : Stable.deact[v] <= r.deact[v] /\ r.deact[v] <= request[v].activate
  BY <1>0, <1>1, Zenon DEF Work
<1> QED
  BY <1>0, <1>1, <1>2, <1>3, <1>5, <1>6, <1>9, <1>10, RecordStep, Zenon DEF Inside

\* The request to look at next: when the scan is over, or in a later round, all of those that were
\* to be served are.
LEMMA AdvanceCovers ==
    ASSUME CommitInv, NEW t \in Threads, NEW s, Advance(t, s),
           th[t].u \in Threads, th[t].round \in Nat \ {0}, NEW C,
           \A v \in Threads : v <= th[t].u \/ th[t].round > 1 => v \in C
    PROVE  /\ \A v \in Threads \ {t} : th'[v] = th[v]
           /\ th'[t].i = th[t].i /\ th'[t].act = th[t].act /\ th'[t].rec = th[t].rec
           /\ th'[t].pc \in {"serve", "persist"}
           /\ th'[t].pc = "persist" => Threads \subseteq C
           /\ th'[t].pc = "serve" =>
                  /\ th'[t].round \in Nat \ {0}
                  /\ \A v \in Threads : v < th'[t].u \/ th'[t].round > 1 => v \in C
<1>1. DOMAIN th = Threads /\ DOMAIN th[t] = Fields
  BY Zenon DEF CommitInv, LockInv
<1>2. PICK n \in Nat : n = Cardinality(Threads) /\ Threads = 1..n
  BY CombAssumption
<1>3. \A v \in Threads \ {t} : th'[v] = th[v]
  BY <1>1, Zenon DEF Advance
<1>4. CASE th[t].u < Cardinality(Threads)
  <2>1. /\ th'[t].i = th[t].i /\ th'[t].act = th[t].act /\ th'[t].rec = th[t].rec
        /\ th'[t].pc = "serve" /\ th'[t].u = th[t].u + 1 /\ th'[t].round = th[t].round
    BY <1>1, <1>4, Zenon DEF Advance, Fields
  <2>2. \A v \in Threads : v < th[t].u + 1 => v <= th[t].u
    BY CombAssumption
  <2> QED
    BY <1>3, <2>1, <2>2, Zenon
<1>5. CASE ~(th[t].u < Cardinality(Threads))
  <2>1. \A v \in Threads : v <= th[t].u
    <3>1. \A v, w \in 1..n : ~(w < n) => v <= w
      OBVIOUS
    <3> QED
      BY <1>2, <1>5, <3>1, Zenon
  <2>2. Threads \subseteq C
    BY <2>1, Zenon
  <2>3. CASE s /\ th[t].round < Rounds
    <3>1. /\ th'[t].i = th[t].i /\ th'[t].act = th[t].act /\ th'[t].rec = th[t].rec
          /\ th'[t].pc = "serve" /\ th'[t].round = th[t].round + 1
      BY <1>1, <1>5, <2>3, Zenon DEF Advance, Fields
    <3>2. th[t].round + 1 \in Nat \ {0}
      OBVIOUS
    <3> QED
      BY <1>3, <2>2, <3>1, <3>2, Zenon
  <2>4. CASE ~(s /\ th[t].round < Rounds)
    <3>1. /\ th'[t].i = th[t].i /\ th'[t].act = th[t].act /\ th'[t].rec = th[t].rec
          /\ th'[t].pc = "persist"
      BY <1>1, <1>5, <2>4, Zenon DEF Advance, Fields
    <3> QED
      BY <1>3, <2>2, <3>1, Zenon
  <2> QED
    BY <2>3, <2>4, Zenon
<1> QED
  BY <1>4, <1>5, Zenon

\* A request that needs no service, and the note that one was served.  Either way the request of
\* that thread is performed in the record, if the combine has to serve it.
LEMMA ScanOnce ==
    ASSUME CommitInv, Counters, OnceInv, NEW t \in Threads, NEW s, Advance(t, s),
           th[t].pc \in {"serve", "deactivate"}, th[t].u \in Threads, th[t].round \in Nat \ {0},
           UNCHANGED <<request, pstate, index, lock, chk, res, crashes>>,
           \A q \in Records \ {Mine(t)} : state'[q] = state[q],
           state'[Mine(t)].deact \in [Threads -> Nat],
           Exact(state'[Mine(t)].data, state'[Mine(t)].deact),
           \A v \in Threads : /\ state[Mine(t)].deact[v] <= state'[Mine(t)].deact[v]
                              /\ state'[Mine(t)].deact[v] <= request[v].activate,
           Counts(t, th[t].u) => state'[Mine(t)].deact[th[t].u] = request[th[t].u].activate
    PROVE  OnceInv'
<1> DEFINE u == th[t].u
           r == state[Mine(t)]
           n == state'[Mine(t)]
<1>0. th[t].pc \in Inside
  BY Zenon DEF Inside
<1>1. /\ Work(t) /\ Mine(t) \in Records /\ r.deact \in [Threads -> Nat]
      /\ Stable.deact \in [Threads -> Nat] /\ pstate \in Records
      /\ th[t].pc # "deactivate" \/ Mine(t) # pstate => Exact(Stable.data, Stable.deact)
      /\ \A v \in Threads : request[v].activate \in Nat
  BY <1>0, KnownRecord, Zenon
<1>2. \A v \in Threads : r.deact[v] \in Nat /\ n.deact[v] \in Nat /\ Stable.deact[v] \in Nat
  BY <1>1, Zenon
<1>3. \A v \in Threads : Stable.deact[v] <= n.deact[v]
  <2>1. \A v \in Threads : Stable.deact[v] <= r.deact[v]
    BY <1>1, Zenon DEF Work
  <2> QED
    BY <1>2, <2>1
<1>4. \A v \in Threads : r.deact[v] = request[v].activate => n.deact[v] = request[v].activate
  <2>1. \A x, y, z \in Nat : x <= y /\ y <= z /\ x = z => y = z
    OBVIOUS
  <2> QED
    BY <1>1, <1>2, <2>1, Zenon
<1> DEFINE C == {v \in Threads : Counts(t, v) => n.deact[v] = request[v].activate}
<1>5. \A v \in Threads : v <= u \/ th[t].round > 1 => v \in C
  <2>1. \A v \in Threads : v \in Int
    BY CombAssumption
  <2>2. \A v \in Threads : v <= u => v < u \/ v = u
    BY <2>1
  <2>3. \A v \in Threads : Counts(t, v) /\ (v < u \/ th[t].round > 1) => r.deact[v] = request[v].activate
    BY <1>1, Zenon DEF Work
  <2> QED
    BY <1>4, <2>2, <2>3, Zenon
<1>6. /\ \A v \in Threads \ {t} : th'[v] = th[v]
      /\ th'[t].i = th[t].i /\ th'[t].act = th[t].act /\ th'[t].rec = th[t].rec
      /\ th'[t].pc \in {"serve", "persist"}
      /\ th'[t].pc = "persist" => Threads \subseteq C
      /\ th'[t].pc = "serve" =>
             /\ th'[t].round \in Nat \ {0}
             /\ \A v \in Threads : v < th'[t].u \/ th'[t].round > 1 => v \in C
  <2> HIDE DEF C
  <2> QED
    BY <1>5, AdvanceCovers, Zenon
<1>7. \A v \in Threads : Counts(t, v)' => Counts(t, v)
  BY <1>6, Zenon DEF Counts
<1>8. Mine(t)' = Mine(t) /\ (pstate = Mine(t) => Stable' = n) /\ (pstate # Mine(t) => Stable' = Stable)
  BY <1>1, Zenon DEF Mine, Stable
<1>9. \A v \in Threads : Stable'.deact[v] <= n.deact[v]
  <2>1. \A v \in Threads : n.deact[v] <= n.deact[v]
    BY <1>2
  <2> QED
    BY <1>3, <1>8, <2>1, Zenon
<1>10. Work(t)'
  <2>1. pstate = Mine(t) => tcrash[t] > 0
    BY <1>1, Zenon DEF Work
  <2>2. th'[t].pc = "persist" => \A v \in Threads : Counts(t, v)' => n.deact[v] = request[v].activate
    BY <1>6, <1>7, Zenon
  <2>3. th'[t].pc = "serve" =>
             /\ th'[t].round \in Nat \ {0}
             /\ \A v \in Threads : Counts(t, v)' /\ (v < th'[t].u \/ th'[t].round > 1) => n.deact[v] = request[v].activate
    BY <1>6, <1>7, Zenon
  <2>4. th'[t].pc \notin {"deactivate", "commit", "flush", "flip", "unlock"}
    BY <1>6, Zenon
  <2>5. \A v \in Threads : Stable'.deact[v] <= n.deact[v] /\ n.deact[v] <= request[v].activate
    BY <1>9, Zenon
  <2> HIDE DEF C, u, r
  <2> QED
    BY <1>6, <1>8, <2>1, <2>2, <2>3, <2>4, <2>5, Zenon DEF Work, crashes
<1>11. Exact(Stable'.data, Stable'.deact)
  BY <1>1, <1>8, Zenon
<1>12. th'[t].pc \in Inside
  BY <1>6, Zenon DEF Inside
<1> QED
  BY <1>0, <1>3, <1>6, <1>10, <1>11, <1>12, RecordStep, Zenon

\* The next thread has no request that is not performed.
LEMMA ServeIdleOnce ==
    ASSUME CommitInv, Counters, OnceInv, NEW t \in Threads, Serve(t), ~active(t, th[t].u)
    PROVE  OnceInv'
<1>0. th[t].pc = "serve" /\ th[t].pc \in Inside
  BY Zenon DEF Serve, Inside
<1>1. /\ Work(t) /\ Mine(t) \in Records /\ state[Mine(t)].deact \in [Threads -> Nat]
      /\ \A v \in Threads : request[v].activate \in Nat
  BY <1>0, KnownRecord, Zenon
<1>2. /\ UNCHANGED <<request, pstate, index, lock, chk, res, crashes>> /\ th[t].u \in Threads
      /\ UNCHANGED state /\ Advance(t, th[t].served)
  BY <1>0, Zenon DEF Serve, CommitInv, CombType
<1>3. /\ th[t].round \in Nat \ {0} /\ Exact(state[Mine(t)].data, state[Mine(t)].deact)
      /\ \A v \in Threads : state[Mine(t)].deact[v] <= request[v].activate
  BY <1>0, <1>1, Zenon DEF Work
<1>4. \A v \in Threads : state[Mine(t)].deact[v] \in Nat
  BY <1>1, Zenon
<1>5. \A v \in Threads : state[Mine(t)].deact[v] <= state[Mine(t)].deact[v]
  BY <1>4
<1>6. state[Mine(t)].deact[th[t].u] = request[th[t].u].activate
  BY <1>1, <1>2, <1>3, <1>4 DEF active
<1> QED
  BY <1>0, <1>1, <1>2, <1>3, <1>5, <1>6, ScanOnce, Zenon

\* deactivate is set to the number of the request that was served.
LEMMA DeactivateOnce ==
    ASSUME CommitInv, Counters, OnceInv, NEW t \in Threads, Deactivate(t)
    PROVE  OnceInv'
<1> DEFINE u == th[t].u
           r == state[Mine(t)]
<1>0. th[t].pc = "deactivate" /\ th[t].pc \in Inside
  BY Zenon DEF Deactivate, Inside
<1>1. /\ Work(t) /\ DOMAIN state = Records /\ Mine(t) \in Records /\ DOMAIN r = StateFields
      /\ r.deact \in [Threads -> Nat]
      /\ \A v \in Threads : request[v].activate \in Nat
  BY <1>0, KnownRecord, Zenon
<1>2. /\ UNCHANGED <<request, pstate, index, lock, chk, res, crashes>> /\ u \in Threads
      /\ Advance(t, TRUE)
  BY <1>0, Zenon DEF Deactivate, CommitInv, CombType
<1>3. /\ th[t].round \in Nat \ {0} /\ th[t].ta = request[u].activate /\ th[t].ta = r.deact[u] + 1
      /\ Exact(r.data, [r.deact EXCEPT ![u] = th[t].ta])
      /\ \A v \in Threads : r.deact[v] <= request[v].activate
  BY <1>0, <1>1, Zenon DEF Work
<1>4. /\ \A q \in Records \ {Mine(t)} : state'[q] = state[q]
      /\ state'[Mine(t)].data = r.data
      /\ state'[Mine(t)].deact = [r.deact EXCEPT ![u] = th[t].ta]
  BY <1>1, <1>2, Zenon DEF Deactivate, StateFields
<1>5. /\ state'[Mine(t)].deact \in [Threads -> Nat] /\ state'[Mine(t)].deact[u] = request[u].activate
      /\ \A v \in Threads \ {u} : state'[Mine(t)].deact[v] = r.deact[v]
  BY <1>1, <1>2, <1>3, <1>4, Zenon
<1>6. \A v \in Threads : r.deact[v] \in Nat
  BY <1>1, Zenon
<1>7. \A v \in Threads : r.deact[v] <= state'[Mine(t)].deact[v] /\ state'[Mine(t)].deact[v] <= request[v].activate
  <2>1. \A v \in Threads : r.deact[v] <= r.deact[v] /\ request[v].activate <= request[v].activate
    BY <1>1, <1>6
  <2> QED
    BY <1>3, <1>5, <2>1, Zenon
<1> HIDE DEF r, u
<1>8. Exact(state'[Mine(t)].data, state'[Mine(t)].deact)
  BY <1>3, <1>4, Zenon
<1> QED
  BY <1>0, <1>2, <1>3, <1>4, <1>5, <1>7, <1>8, ScanOnce, Zenon DEF r, u

\* The commit: whoever is looking into the old record has been served in the new one.
LEMMA CommitOnce ==
    ASSUME CommitInv, Counters, OnceInv, NEW t \in Threads, Commit(t)
    PROVE  OnceInv'
<1> DEFINE r == state[Mine(t)]
<1>0. th[t].pc = "commit" /\ th[t].pc \in Inside
  BY Zenon DEF Commit, Inside
<1>1. /\ Work(t) /\ DOMAIN th = Threads /\ DOMAIN th[t] = Fields /\ r.deact \in [Threads -> Nat]
      /\ Stable.deact \in [Threads -> Nat]
      /\ \A u \in Threads : request[u].activate \in Nat /\ Performed(u)
  BY <1>0, KnownRecord, Zenon
<1>2. UNCHANGED <<request, state, index, lock, chk, res, crashes>> /\ pstate' = Mine(t)
  BY Zenon DEF Commit
<1>3. /\ th'[t].i = th[t].i /\ th'[t].act = th[t].act /\ th'[t].rec = th[t].rec /\ th'[t].pc = "flush"
      /\ \A u \in Threads \ {t} : th'[u] = th[u]
  BY <1>1, Zenon DEF Commit, Goto, Fields
<1>4. Stable' = r /\ Mine(t)' = Mine(t)
  BY <1>2, Zenon DEF Stable, Mine
<1>5. /\ \A u \in Threads : Stable.deact[u] <= r.deact[u] /\ r.deact[u] <= request[u].activate
      /\ \A u \in Threads : Counts(t, u) => r.deact[u] = request[u].activate
      /\ Exact(r.data, r.deact)
  BY <1>0, <1>1, Zenon DEF Work
<1>6. Shaped'
  <2>1. Shaped /\ \A u \in Threads : Ops(u)' = Ops(u) /\ th'[u].rec = th[u].rec
    BY <1>2, <1>3, Zenon DEF OnceInv, Ops, crashes
  <2> QED
    BY <1>2, <2>1, Zenon DEF Shaped
<1>7. ASSUME NEW u \in Threads PROVE Numbered(u)' /\ Performed(u)'
  <2>1. Numbered(u) /\ Performed(u)
    BY Zenon DEF OnceInv
  <2>2. Numbered(u)'
    BY <1>0, <1>2, <1>3, <2>1, NumberedKeeps, NumberedMoves, Zenon DEF crashes, Inside
  <2>3. th[u].pc # "check" \/ r.deact[u] = request[u].activate
    BY <1>5, Zenon DEF Counts
  <2>4. th'[u].i = th[u].i /\ (th'[u].pc \in {"check", "take", "backup"} => th'[u].pc = th[u].pc /\ th'[u].cur = th[u].cur)
    BY <1>3, Zenon
  <2>5. Stable.deact[u] \in Nat /\ r.deact[u] \in Nat
    BY <1>1, Zenon
  <2>6. Performed(u)'
    <3> HIDE DEF r
    <3> QED
      BY <1>2, <1>4, <1>5, <2>1, <2>3, <2>4, <2>5, PerformedKeeps, Zenon DEF crashes
  <2> QED
    BY <2>2, <2>6, Zenon
<1>8. Work(t)'
  <2>1. \A u \in Threads : Counts(t, u)' => Answered(u)'
    BY <1>2, <1>3, <1>4, <1>5, Zenon DEF Counts, Answered
  <2> QED
    BY <1>2, <1>3, <1>4, <2>1, Zenon DEF Work
<1>9. \A u \in Threads \ {t} : Mine(u)' = Mine(u) /\ tcrash'[u] = tcrash[u]
  BY <1>2, Zenon DEF Mine, crashes
<1>10. \A u \in Threads \ {t} : Work(u)'
  BY <1>0, <1>2, <1>3, <1>9, OthersIdle, Zenon
<1>11. lock.tid # 0
  <2>1. lock = Held(t)
    BY <1>0, Zenon DEF CommitInv, LockInv, OneCombiner, Combiners
  <2> QED
    BY <2>1, HeldTid, ThreadsAreNotZero, Zenon
<1> QED
  BY <1>2, <1>4, <1>5, <1>6, <1>7, <1>8, <1>10, <1>11, Zenon DEF OnceInv

\* The index is flipped: the stable record is not the one to copy to next.
LEMMA FlipOnce ==
    ASSUME CommitInv, Counters, OnceInv, NEW t \in Threads, Flip(t)
    PROVE  OnceInv'
<1>0. th[t].pc = "flip" /\ th[t].pc \in Inside
  BY Zenon DEF Flip, Inside
<1>1. /\ Work(t) /\ DOMAIN th = Threads /\ DOMAIN th[t] = Fields /\ Exact(Stable.data, Stable.deact)
  BY <1>0, KnownRecord, Zenon
<1>2. UNCHANGED <<request, state, pstate, lock, chk, res, crashes>>
  BY Zenon DEF Flip
<1>3. /\ th'[t].i = th[t].i /\ th'[t].act = th[t].act /\ th'[t].rec = th[t].rec /\ th'[t].pc = "unlock"
      /\ \A u \in Threads \ {t} : th'[u] = th[u]
  BY <1>1, Zenon DEF Flip, Goto, Fields
<1>4. index[t] \in 0..1 /\ index'[t] = 1 - index[t] /\ \A u \in Threads \ {t} : index'[u] = index[u]
  BY Zenon DEF CommitInv, CombType, Flip, other
<1>5. index[t] = 1 - index'[t] /\ index[t] # index'[t]
  BY <1>4
<1>6. Stable' = Stable /\ \A u \in Threads : (Answered(u)' <=> Answered(u)) /\ Ops(u)' = Ops(u)
  BY <1>2, Zenon DEF Stable, Answered, Ops, crashes
<1>7. Shaped'
  <2>1. Shaped /\ \A u \in Threads : th'[u].rec = th[u].rec
    BY <1>3, Zenon DEF OnceInv
  <2> QED
    BY <1>2, <1>6, <2>1, Zenon DEF Shaped
<1>8. ASSUME NEW u \in Threads PROVE Numbered(u)' /\ Performed(u)'
  <2>1. Numbered(u) /\ Performed(u)
    BY Zenon DEF OnceInv
  <2>2. Numbered(u)'
    BY <1>0, <1>2, <1>3, <2>1, NumberedKeeps, NumberedMoves, Zenon DEF crashes, Inside
  <2>3. th'[u].i = th[u].i /\ (th'[u].pc \in {"check", "take", "backup"} => th'[u].pc = th[u].pc /\ th'[u].cur = th[u].cur)
    BY <1>3, Zenon
  <2>4. Performed(u)'
    BY <1>2, <1>6, <2>1, <2>3, Zenon DEF Performed
  <2> QED
    BY <2>2, <2>4, Zenon
<1>9. Work(t)'
  <2>1. \A u \in Threads : Counts(t, u)' => Answered(u)'
    BY <1>0, <1>1, <1>3, <1>6, Zenon DEF Counts, Work
  <2>2. pstate = <<t, index[t]>>
    BY <1>0, <1>1, Zenon DEF Work, Mine
  <2>3. pstate' = <<t, 1 - index'[t]>> /\ pstate' # Mine(t)'
    BY <1>2, <1>5, <2>2, Zenon DEF Mine
  <2> QED
    BY <1>3, <2>1, <2>3, Zenon DEF Work
<1>10. \A u \in Threads \ {t} : Mine(u)' = Mine(u) /\ tcrash'[u] = tcrash[u]
  BY <1>2, <1>4, Zenon DEF Mine, crashes
<1>11. \A u \in Threads \ {t} : Work(u)'
  BY <1>0, <1>2, <1>3, <1>10, OthersIdle, Zenon
<1> QED
  BY <1>1, <1>2, <1>6, <1>7, <1>8, <1>9, <1>11, Zenon DEF OnceInv

-----------------------------------------------------------------------------
\* Before the first step every log is empty and no request is made.
LEMMA OnceInit == Init => Counters /\ OnceInv
<1> SUFFICES ASSUME Init PROVE Counters /\ OnceInv
  BY Zenon
<1>1. Counters
  BY Zenon DEF Init, Counters
<1>2. th = [t \in Threads |-> Start] /\ Start.i = 1 /\ Start.pc = "activate" /\ Start.rec = TRUE
  BY Zenon DEF Init, Start
<1>3. /\ Stable = Fresh /\ Fresh.data = <<>> /\ Fresh.deact = [t \in Threads |-> 0]
      /\ state = [r \in Records |-> Fresh]
  BY DEF Init, Stable, Fresh, Records
<1>4. \A t \in Threads : Stable.deact[t] = 0 /\ request[t].activate = 0 /\ request[t].arg = 0
  BY <1>3, Zenon DEF Init
<1>5. chk = [t \in Threads |-> [i \in Ops(t) |-> 0]] /\ res = [t \in Threads |-> [i \in Ops(t) |-> NoResult]]
  BY Zenon DEF Init
<1>6. Shaped
  <2>1. \A r \in Records : state[r].deact \in [Threads -> Nat]
    BY <1>3
  <2> QED
    BY <1>2, <1>5, <2>1, Zenon DEF Shaped
<1>7. ASSUME NEW t \in Threads PROVE Numbered(t) /\ Performed(t) /\ Work(t)
  <2>1. th[t].i = 1 /\ th[t].pc = "activate" /\ th[t].rec = TRUE
    BY <1>2, Zenon
  <2>2. scenario.ops[t] \in Nat \ {0}
    BY <1>1, CombAssumption, Zenon DEF Counters
  <2>3. 1 \in Ops(t) /\ \A j \in Ops(t) : j \in Nat \ {0} /\ chk[t][j] = 0 /\ res[t][j] = NoResult
    BY <1>5, <2>2 DEF Ops
  <2>4. /\ 0 \in Nat /\ 1 \in Nat \ {0} /\ 1 <= 0 + 1 /\ 0 <= 0 /\ 0 <= 0 + 1
        /\ \A j \in Ops(t) : ~(j <= 0)
    BY <2>3
  <2>5. Numbered(t)
    BY <1>4, <2>1, <2>3, <2>4, Zenon DEF Numbered, Waiting, Inside
  <2>6. Performed(t)
    <3>1. Answered(t)
      BY <1>4, Zenon DEF Answered
    <3> QED
      BY <1>4, <2>1, <2>3, <2>4, <3>1, Zenon DEF Performed
  <2>7. pstate # Mine(t)
    BY ThreadsAreNotZero, Zenon DEF Init, First, Mine
  <2>8. Work(t)
    BY <2>1, <2>7, Zenon DEF Work
  <2> QED
    BY <2>5, <2>6, <2>8, Zenon
<1>8. lock = Free(Null)
  BY Zenon DEF Init
<1>9. Exact(Stable.data, Stable.deact)
  <2>1. DOMAIN Stable.data = {} /\ \A t \in Threads : 1 .. Stable.deact[t] = {}
    BY <1>3
  <2> QED
    BY <2>1, Zenon DEF Exact
<1> QED
  BY <1>1, <1>6, <1>7, <1>8, <1>9, Zenon DEF OnceInv

\* The bounds do not change, and a count of crashes only grows.
LEMMA CountersNext ==
    ASSUME Counters, [Next]_vars
    PROVE  Counters' /\ (Calm' => Calm)
<1>1. CASE UNCHANGED crashes
  BY <1>1, Zenon DEF Counters, Calm, crashes
<1>2. ASSUME NEW t \in Threads, ThreadCrash(t) PROVE Counters' /\ (Calm' => Calm)
  <2>1. /\ UNCHANGED <<scenario, scrash>> /\ tcrash' = [tcrash EXCEPT ![t] = tcrash[t] + 1]
    BY <1>2, Zenon DEF ThreadCrash
  <2> QED
    BY <2>1 DEF Counters, Calm
<1>3. CASE SystemCrash
  <2>1. UNCHANGED <<scenario, tcrash>> /\ scrash' = scrash + 1
    BY <1>3, Zenon DEF SystemCrash
  <2> QED
    BY <2>1 DEF Counters, Calm
<1>4. ASSUME NEW t \in Threads, Step(t) PROVE UNCHANGED crashes
  BY <1>4, ZenonT(40) DEF Step, Activate, Recover, RegisterArg, Register, TryLock, Acquire, Peek, Check, Take, Backup,
                  Ready, Copy, Serve, Deactivate, Persist, Commit, FlushCommit, Flip, Unlock
<1>5. CASE WriteBack
  BY <1>1, <1>5, Zenon DEF WriteBack
<1>6. CASE UNCHANGED vars
  BY <1>1, <1>6, Zenon DEF vars, crashes
<1> QED
  BY <1>1, <1>2, <1>3, <1>4, <1>5, <1>6, Zenon DEF Next

\* A step that changes nothing the invariant speaks of.
LEMMA StutterOnce ==
    ASSUME OnceInv, UNCHANGED <<request, state, pstate, index, lock, chk, th, res, crashes>>
    PROVE  OnceInv'
<1>1. /\ Stable' = Stable
      /\ \A t \in Threads : /\ Ops(t)' = Ops(t) /\ Mine(t)' = Mine(t) /\ (Answered(t)' <=> Answered(t))
                            /\ \A u \in Threads : Counts(t, u)' <=> Counts(t, u)
  BY Zenon DEF Stable, Ops, Mine, Answered, Counts, crashes
<1>2. Shaped' /\ (~InPlace' => ~InPlace)
  BY <1>1, Zenon DEF OnceInv, Shaped, InPlace
<1>3. ASSUME NEW t \in Threads PROVE Numbered(t)' /\ Performed(t)' /\ Work(t)'
  <2>1. Numbered(t) /\ Performed(t) /\ Work(t)
    BY Zenon DEF OnceInv
  <2>2. Numbered(t)'
    BY <2>1, NumberedKeeps, Zenon DEF crashes
  <2>3. Performed(t)'
    BY <1>1, <2>1, Zenon DEF Performed
  <2>4. Work(t)'
    BY <1>1, <2>1, ZenonT(40) DEF Work, crashes
  <2> QED
    BY <2>2, <2>3, <2>4, Zenon
<1> QED
  BY <1>1, <1>2, <1>3, Zenon DEF OnceInv

OnceWhileCalm == Calm => OnceInv

\* Every step keeps the invariant while nobody has died twice and power is on.
LEMMA OnceNext ==
    CommitInv /\ Counters /\ OnceWhileCalm /\ [Next]_vars => Counters' /\ OnceWhileCalm'
<1> SUFFICES ASSUME CommitInv, Counters, OnceWhileCalm, [Next]_vars PROVE Counters' /\ OnceWhileCalm'
  BY Zenon
<1>1. Counters' /\ (Calm' => Calm)
  BY CountersNext, Zenon
<1>2. SUFFICES ASSUME Calm', OnceInv PROVE OnceInv'
  BY <1>1, Zenon DEF OnceWhileCalm
<1>3. ASSUME NEW t \in Threads, Step(t) PROVE OnceInv'
  <2>1. Serve(t) => OnceInv'
    BY <1>2, ServeActiveOnce, ServeIdleOnce, Zenon
  <2> QED
    BY <1>2, <1>3, <2>1, ActivateOnce, RecoverOnce, RegisterArgOnce, RegisterOnce, TryLockOnce, AcquireOnce, PeekOnce, CheckOnce,
       TakeOnce, BackupOnce, ReadyOnce, CopyOnce, DeactivateOnce, FlushOnce, CommitOnce, FlipOnce, UnlockOnce, Zenon DEF Step
<1>4. ASSUME NEW t \in Threads, ThreadCrash(t) PROVE OnceInv'
  BY <1>2, <1>4, ThreadCrashOnce, Zenon
<1>5. CASE WriteBack
  BY <1>2, <1>5, StutterOnce, Zenon DEF WriteBack
<1>6. CASE SystemCrash
  <2>1. scrash' = scrash + 1 /\ scrash \in Nat /\ scrash' = 0
    BY <1>2, <1>6, Zenon DEF SystemCrash, Calm, Counters
  <2> QED
    BY <2>1
<1>7. CASE UNCHANGED vars
  BY <1>2, <1>7, StutterOnce, Zenon DEF vars, crashes
<1> QED
  BY <1>3, <1>4, <1>5, <1>6, <1>7, Zenon DEF Next

-----------------------------------------------------------------------------
\* The function that Cardinality is defined by.
Sizes(S, f) == f = [T \in SUBSET S |-> IF T = {} THEN 0 ELSE 1 + f[T \ {CHOOSE x : x \in T}]]

\* Any such function gives the size.
LEMMA SizeOf ==
    ASSUME NEW S, \E f : Sizes(S, f)
    PROVE  \E f : Sizes(S, f) /\ Cardinality(S) = f[S]
<1>1. Sizes(S, CHOOSE f : Sizes(S, f))
  BY Zenon
<1>2. Cardinality(S) = (CHOOSE f : Sizes(S, f))[S]
  BY Zenon DEF Cardinality, Sizes
<1> QED
  BY <1>1, <1>2, Zenon

\* The size of the empty set.
LEMMA NoElement == Cardinality({}) = 0
<1>1. Sizes({}, [T \in SUBSET {} |-> 0])
  <2>1. \A T \in SUBSET {} : T = {}
    OBVIOUS
  <2> QED
    BY <2>1, Zenon DEF Sizes
<1>2. PICK f : Sizes({}, f) /\ Cardinality({}) = f[{}]
  BY <1>1, SizeOf, Zenon
<1> QED
  BY <1>2, Zenon DEF Sizes

\* The size of a singleton.
LEMMA OneElement == \A x : Cardinality({x}) = 1
<1> TAKE x
<1>1. \A T \in SUBSET {x} : T = {} \/ T = {x}
  BY Zenon
<1>2. (CHOOSE y : y \in {x}) = x /\ {x} \ {x} = {} /\ {x} # {} /\ {} \in SUBSET {x} /\ {x} \in SUBSET {x}
  BY Zenon
<1> DEFINE g == [T \in SUBSET {x} |-> IF T = {} THEN 0 ELSE 1]
<1>3. Sizes({x}, g)
  <2>1. g[{}] = 0
    BY <1>2, Zenon
  <2>2. 1 + 0 = 1
    OBVIOUS
  <2>3. \A T \in SUBSET {x} : T # {} => 1 + g[T \ {CHOOSE y : y \in T}] = 1
    <3>1. 1 + g[{x} \ {CHOOSE y : y \in {x}}] = 1
      BY <1>2, <2>1, <2>2, Zenon
    <3> HIDE DEF g
    <3> TAKE T \in SUBSET {x}
    <3>2. SUFFICES ASSUME T # {} PROVE 1 + g[T \ {CHOOSE y : y \in T}] = 1
      BY Zenon
    <3>3. T = {x}
      BY <1>1, <3>2, Zenon
    <3> QED
      BY <3>1, <3>3, Zenon
  <2> QED
    BY <2>3, Zenon DEF Sizes
<1>4. PICK f : Sizes({x}, f) /\ Cardinality({x}) = f[{x}]
  BY <1>3, SizeOf, Zenon
<1>5. f[{}] = 0 /\ f[{x}] = 1 + f[{x} \ {CHOOSE y : y \in {x}}]
  BY <1>2, <1>4, Zenon DEF Sizes
<1>6. f[{x}] = 1 + 0
  BY <1>2, <1>5, Zenon
<1> QED
  BY <1>4, <1>6

\* The log of the stable state: each operation once, and those that have returned.
LEMMA OnceMeans == CommitInv /\ Counters /\ OnceInv => AppliedOnce
<1> SUFFICES ASSUME CommitInv, Counters, OnceInv PROVE AppliedOnce
  BY Zenon
<1>1. PICK deact : Exact(Stable.data, deact) /\ \A t \in Threads : Stable.deact[t] <= deact[t] /\ deact[t] \in Nat
  <2>1. CASE ~InPlace
    <3>1. \A t \in Threads : Stable.deact[t] \in Nat
      BY Known, Zenon
    <3>2. \A t \in Threads : Stable.deact[t] <= Stable.deact[t]
      BY <3>1
    <3> QED
      BY <2>1, <3>1, <3>2, Zenon DEF OnceInv
  <2>2. CASE InPlace
    <3>1. PICK s \in Threads : th[s].pc = "deactivate" /\ Mine(s) = pstate
      BY <2>2, Zenon DEF InPlace
    <3>2. th[s].pc \in Inside /\ th[s].u \in Threads
      BY <3>1, Zenon DEF Inside, CommitInv, CombType
    <3>3. Stable = state[Mine(s)] /\ Stable.deact \in [Threads -> Nat] /\ Work(s)
      BY <3>1, <3>2, KnownRecord, Zenon DEF Stable
    <3>4. th[s].ta = Stable.deact[th[s].u] + 1 /\ Exact(Stable.data, [Stable.deact EXCEPT ![th[s].u] = th[s].ta])
      BY <3>1, <3>3, Zenon DEF Work
    <3>5. PICK f : f = Stable.deact
      BY Zenon
    <3>6. PICK v \in Threads : v = th[s].u
      BY <3>2, Zenon
    <3>7. \A t \in Threads : f[t] <= [f EXCEPT ![v] = f[v] + 1][t] /\ [f EXCEPT ![v] = f[v] + 1][t] \in Nat
      BY <3>3, <3>5
    <3>8. Exact(Stable.data, [f EXCEPT ![v] = f[v] + 1])
      BY <3>4, <3>5, <3>6, Zenon
    <3> QED
      BY <3>5, <3>7, <3>8, Zenon
  <2> QED
    BY <2>1, <2>2, Zenon
<1>2. Stable.data \in Seq(Entry)
  BY Zenon DEF CommitInv, CombType, LogType, Stable
<1>3. DOMAIN Stable.data = 1..Len(Stable.data)
  BY <1>2
<1>4. ASSUME NEW t \in Threads, NEW i \in Ops(t)
      PROVE  Cardinality(Served(t, i)) <= 1 /\ (res[t][i] # NoResult => Served(t, i) # {})
  <2>1. \A p, q \in Served(t, i) : p = q
    BY <1>1, <1>3, Zenon DEF Served, Exact
  <2>2. Served(t, i) = {} \/ \E p : Served(t, i) = {p}
    BY <2>1, Zenon
  <2>3. Cardinality(Served(t, i)) <= 1
    <3>1. Cardinality(Served(t, i)) = 0 \/ Cardinality(Served(t, i)) = 1
      BY <2>2, NoElement, OneElement, Zenon
    <3>2. \A n : n = 0 \/ n = 1 => n <= 1
      OBVIOUS
    <3> QED
      BY <3>1, <3>2, Zenon
  <2>4. res[t][i] # NoResult => Served(t, i) # {}
    <3>1. SUFFICES ASSUME res[t][i] # NoResult PROVE Served(t, i) # {}
      BY Zenon
    <3>2. i <= Stable.deact[t] /\ Stable.deact[t] \in Nat /\ i \in Nat \ {0}
      <4>1. i \in Nat \ {0}
        BY DEF Ops
      <4>2. Performed(t) /\ Stable.deact[t] \in Nat
        BY Known, Zenon
      <4> QED
        BY <3>1, <4>1, <4>2, Zenon DEF Performed
    <3>3. i \in 1 .. deact[t]
      BY <1>1, <3>2
    <3>4. PICK p \in DOMAIN Stable.data : Stable.data[p] = [by |-> t, i |-> i]
      BY <1>1, <3>3, Zenon DEF Exact
    <3> QED
      BY <1>3, <3>4, Zenon DEF Served
  <2> QED
    BY <2>3, <2>4, Zenon
<1> QED
  BY <1>4, Zenon DEF AppliedOnce

\* Every request is applied once, and before its call returns: for any number of threads, requests
\* and rounds, in any order of their steps, as long as power stays on and no thread dies twice,
\* also if each of them dies once, as the combiner or not (apply_op, do_combine).
THEOREM RequestsAppliedOnce == Spec => [](Calm => AppliedOnce)
<1>1. Init => CommitInv /\ Counters /\ OnceWhileCalm
  BY CommitInit, OnceInit, Zenon DEF OnceWhileCalm
<1>2. CommitInv /\ Counters /\ OnceWhileCalm /\ [Next]_vars => CommitInv' /\ Counters' /\ OnceWhileCalm'
  BY CommitNext, OnceNext, Zenon
<1>3. CommitInv /\ Counters /\ OnceWhileCalm => (Calm => AppliedOnce)
  BY OnceMeans, Zenon DEF OnceWhileCalm
<1> QED
  BY <1>1, <1>2, <1>3, PTL DEF Spec
=============================================================================
