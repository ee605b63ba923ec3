-------------------------- MODULE CheckpointProofs --------------------------
(***************************************************************************)
(* Proofs about module Checkpoint, for every program shape, every set of   *)
(* results, both slot layouts and every number of crashes.  All but type   *)
(* correctness assume ~Mixed: no power failure follows a thread crash.     *)
(***************************************************************************)
EXTENDS Checkpoint, TLAPS

\* The local control flow stays inside the program.
LEMMA AfterType ==
    ASSUME NEW k \in Mementos, NEW v
    PROVE  After(k, v) \in 1..(N + 1)
BY ProgramAssumption DEF After, Mementos

\* stale_latest_idx names one slot each; the latest one is a slot value.
LEMMA LatestType ==
    ASSUME NEW s \in [0..1 -> Slot]
    PROVE  /\ stale_idx(s) \in 0..1
           /\ latest_idx(s) \in 0..1
           /\ latest_idx(s) = 1 - stale_idx(s)
           /\ latest(s) \in Slot
           /\ s[0].ts <= latest(s).ts
           /\ s[1].ts <= latest(s).ts
BY DEF stale_idx, latest_idx, latest, Slot

\* Put replaces one slot and keeps the others.
LEMMA PutSlot ==
    ASSUME NEW s \in [Mementos -> [0..1 -> Slot]],
           NEW k \in Mementos, NEW i \in 0..1, NEW r \in Slot
    PROVE  /\ Put(s, k, i, r) \in [Mementos -> [0..1 -> Slot]]
           /\ Put(s, k, i, r)[k][i] = r
           /\ \A j \in 0..1 : j # i => Put(s, k, i, r)[k][j] = s[k][j]
           /\ \A m \in Mementos : m # k => Put(s, k, i, r)[m] = s[m]
BY Zenon DEF Put

\* A slot is its value and its time.
LEMMA SlotEqual ==
    ASSUME NEW a \in Slot, NEW b \in Slot, a.val = b.val, a.ts = b.ts
    PROVE  a = b
BY DEF Slot

\* The fields of a slot have their types.
LEMMA SlotFields ==
    ASSUME NEW r \in Slot
    PROVE  r.val \in Vals \cup {NoVal} /\ r.ts \in Nat
BY Zenon DEF Slot

\* A slot with its value replaced is a slot.
LEMMA SlotVal ==
    ASSUME NEW r \in Slot, NEW v \in Vals \cup {NoVal}
    PROVE  /\ [r EXCEPT !.val = v] \in Slot
           /\ [r EXCEPT !.val = v].val = v
           /\ [r EXCEPT !.val = v].ts = r.ts
BY Zenon DEF Slot

\* A slot with its time replaced is a slot.
LEMMA SlotTs ==
    ASSUME NEW r \in Slot, NEW n \in Nat
    PROVE  /\ [r EXCEPT !.ts = n] \in Slot
           /\ [r EXCEPT !.ts = n].ts = n
           /\ [r EXCEPT !.ts = n].val = r.val
BY Zenon DEF Slot

\* Every step of checkpoint(), an eviction and a crash keep the state typed.
LEMMA TypeStep == TypeOK /\ [Next]_vars => TypeOK'
<1> SUFFICES ASSUME TypeOK, [Next]_vars PROVE TypeOK'
  BY Zenon
<1> USE ProgramAssumption, FaultAssumption
<1>a. \A k \in Mementos, i \in 0..1 : slot[k][i] \in Slot /\ pslot[k][i] \in Slot
  BY DEF TypeOK
<1>1. CASE Peek
  <2>1. latest(slot[at]) \in Slot
    BY <1>1, LatestType, Zenon DEF Peek, TypeOK
  <2>2. After(at, latest(slot[at]).val) \in 1..(N + 1)
    BY <1>1, AfterType, Zenon DEF Peek
  <2>3. lmax' \in Nat /\ at' \in 1..(N + 1)
    BY <1>1, <2>1, <2>2, Zenon DEF Peek, Return, Slot
  <2>4. env' \in [Mementos -> Vals \cup {NoVal}]
    BY <1>1, <2>1, SlotFields, Zenon DEF Peek, Return, TypeOK
  <2>5. /\ lpc' \in 1..(N + 1)
        /\ lenv' \in [Mementos -> Vals \cup {NoVal}]
        /\ lts' \in Nat
        /\ llast' \in 0..N
    <3>1. CASE latest(slot[at]).ts > lts
      <4>1. Log(at, latest(slot[at]).val, latest(slot[at]).ts)
        BY <1>1, <3>1, Zenon DEF Peek
      <4>2. at \in 1..N
        BY <1>1, Zenon DEF Peek, Mementos
      <4>3. /\ latest(slot[at]).val \in Vals \cup {NoVal}
            /\ latest(slot[at]).ts \in Nat
        BY <2>1, SlotFields, Zenon
      <4>4. lenv' \in [Mementos -> Vals \cup {NoVal}]
        BY <4>1, <4>3, Zenon DEF Log, TypeOK
      <4> QED
        BY <2>2, <4>1, <4>2, <4>3, <4>4 DEF Log
    <3>2. CASE ~(latest(slot[at]).ts > lts)
      BY <1>1, <3>2, Zenon DEF Peek, TypeOK, logical
    <3> QED
      BY <3>1, <3>2, Zenon
  <2> QED
    BY <1>1, <2>3, <2>4, <2>5, Zenon DEF Peek, Return, TypeOK, faults
<1>2. CASE Run
  <2>1. stale_idx(slot[at]) \in 0..1
    BY <1>2, LatestType, Zenon DEF Run, TypeOK
  <2>2. rec' \in BOOLEAN
    BY <1>2, Zenon DEF Run
  <2> QED
    BY <1>2, <2>1, <2>2 DEF Run, TypeOK, exec_time, faults, logical
<1>3. CASE WriteVal
  <2>1. [slot[at][idx] EXCEPT !.val = new] \in Slot
    BY <1>3, <1>a, SlotVal, Zenon DEF WriteVal, TypeOK
  <2>2. slot' \in [Mementos -> [0..1 -> Slot]]
    BY <1>3, <2>1, PutSlot, Zenon DEF WriteVal, TypeOK
  <2> QED
    BY <1>3, <2>2, Zenon DEF WriteVal, TypeOK, faults, logical
<1>4. CASE FlushVal
  <2>1. [pslot[at][idx] EXCEPT !.val = slot[at][idx].val] \in Slot
    BY <1>4, <1>a, SlotVal, SlotFields, Zenon DEF FlushVal, TypeOK
  <2>2. pslot' \in [Mementos -> [0..1 -> Slot]]
    BY <1>4, <2>1, PutSlot, Zenon DEF FlushVal, TypeOK
  <2> QED
    BY <1>4, <2>2, Zenon DEF FlushVal, TypeOK, faults, logical
<1>5. CASE WriteTs
  <2>1. [slot[at][idx] EXCEPT !.ts = t] \in Slot
    BY <1>5, <1>a, SlotTs, Zenon DEF WriteTs, TypeOK
  <2>2. slot' \in [Mementos -> [0..1 -> Slot]]
    BY <1>5, <2>1, PutSlot, Zenon DEF WriteTs, TypeOK
  <2> QED
    BY <1>5, <2>2, Zenon DEF WriteTs, TypeOK, faults, logical
<1>6. CASE Flush
  <2>1. pslot' \in [Mementos -> [0..1 -> Slot]]
    BY <1>6, <1>a, PutSlot, Zenon DEF Flush, TypeOK
  <2>2. at \in Mementos /\ After(at, new) \in 1..(N + 1)
    BY <1>6, AfterType, Zenon DEF Flush, TypeOK
  <2>3. /\ env' \in [Mementos -> Vals \cup {NoVal}]
        /\ lenv' \in [Mementos -> Vals \cup {NoVal}]
    BY <1>6, Zenon DEF Flush, Return, Log, TypeOK
  <2>4. llast' \in 0..N /\ lpc' \in 1..(N + 1) /\ at' \in 1..(N + 1)
    BY <1>6, <2>2 DEF Flush, Return, Log, Mementos
  <2>5. /\ UNCHANGED <<slot, clock, rec, new, idx, t, tcrash, scrash>>
        /\ lmax' = t /\ lts' = t /\ pc' = "call"
    BY <1>6, Zenon DEF Flush, Return, Log, faults
  <2> QED
    BY <2>1, <2>3, <2>4, <2>5, Zenon DEF TypeOK
<1>7. CASE \E k \in Mementos, i \in 0..1 : Evict(k, i)
  <2>1. PICK k \in Mementos, i \in 0..1 : Evict(k, i)
    BY <1>7, Zenon
  <2>2. /\ [pslot[k][i] EXCEPT !.val = slot[k][i].val] \in Slot
        /\ [pslot[k][i] EXCEPT !.ts = slot[k][i].ts] \in Slot
    BY <1>a, SlotVal, SlotTs, SlotFields, Zenon
  <2>3. PICK r \in Slot : pslot' = Put(pslot, k, i, r)
    BY <1>a, <2>1, <2>2, Zenon DEF Evict
  <2>4. pslot \in [Mementos -> [0..1 -> Slot]]
    BY Zenon DEF TypeOK
  <2>5. pslot' \in [Mementos -> [0..1 -> Slot]]
    BY <2>3, <2>4, PutSlot, Zenon
  <2> QED
    BY <2>1, <2>5, Zenon DEF Evict, TypeOK, local, faults, logical
<1>8. CASE ThreadCrash
  BY <1>8 DEF ThreadCrash, Restart, TypeOK, logical, Mementos
<1>9. CASE SystemCrash
  <2>1. \A k \in Mementos : latest(pslot[k]).ts \in Nat
    BY LatestType, Zenon DEF TypeOK, Slot
  <2>2. clock' \in Nat
    BY <1>9, <2>1, Zenon DEF SystemCrash
  <2> QED
    BY <1>9, <2>2 DEF SystemCrash, Restart, TypeOK, logical, Mementos
<1>10. CASE UNCHANGED vars
  BY <1>10, Zenon DEF vars, local, faults, logical, TypeOK
<1> QED
  BY <1>1, <1>2, <1>3, <1>4, <1>5, <1>6, <1>7, <1>8, <1>9, <1>10, Zenon DEF Next, Step

\* The slots, the clock and the thread's state keep their types in every
\* behaviour of checkpoint() with any crashes.
THEOREM TypeCorrect == Spec => []TypeOK
<1>1. Init => TypeOK
  BY ProgramAssumption, FaultAssumption
     DEF Init, TypeOK, ReplayInit, Cleared, Slot, Mementos
<1> QED
  BY <1>1, TypeStep, PTL DEF Spec

-----------------------------------------------------------------------------
(* Replay *)

Inv == TypeOK /\ RecordsReplay

\* LatestOf looks up the latest slot.
LEMMA LatestOfAt ==
    ASSUME NEW s, NEW k \in Mementos
    PROVE  LatestOf(s)[k] = latest(s[k])
BY Zenon DEF LatestOf

\* The latest slot only depends on the two slots.
LEMMA LatestOfEqual ==
    ASSUME NEW s, NEW u,
           \A k \in Mementos : latest(s[k]) = latest(u[k])
    PROVE  LatestOf(s) = LatestOf(u)
BY Zenon DEF LatestOf

\* The logical control flow moves at most one memento forward.
LEMMA LogicalNear ==
    ASSUME TypeOK, LogicalOrder
    PROVE  lpc <= llast + 1
BY ProgramAssumption DEF TypeOK, LogicalOrder, After, Mementos

\* Before a due record is returned, everything ahead of it is replayed.
LEMMA AheadReplayed ==
    ASSUME TypeOK, LogicalOrder, NEW L, NEW k \in Mementos, k < lpc
    PROVE  Replayed(L, k)
BY LogicalNear DEF Replayed, TypeOK, Mementos

\* Returning the due record keeps the records in the order of the results.
LEMMA LogGood ==
    ASSUME TypeOK, LogicalOrder, NEW L \in [Mementos -> Slot],
           Good(L), Pending(L), Log(lpc, L[lpc].val, L[lpc].ts)
    PROVE  /\ LogicalOrder'
           /\ (~Pending(L))'
           /\ Good(L)'
           /\ lts' = L[lpc].ts
           /\ llast' = lpc
           /\ \A k \in Mementos : k < lpc => lenv'[k] = lenv[k]
           /\ lenv'[lpc] = L[lpc].val
<1>0. /\ lpc \in Mementos
      /\ L[lpc].ts \in Nat
      /\ lts \in Nat
      /\ lenv \in [Mementos -> Vals \cup {NoVal}]
      /\ \A k \in Mementos : L[k].ts \in Nat
  BY Zenon DEF Pending, Slot, TypeOK
<1>1. /\ lts' = L[lpc].ts
      /\ llast' = lpc
      /\ lenv' = [lenv EXCEPT ![lpc] = L[lpc].val]
      /\ lpc' = After(lpc, L[lpc].val)
  BY Zenon DEF Log
<1>2. /\ \A k \in Mementos : k # lpc => lenv'[k] = lenv[k]
      /\ lenv'[lpc] = L[lpc].val
  BY <1>0, <1>1, Zenon
<1>3. \A k \in Mementos : L[k].ts <= lts'
  BY <1>0, <1>1 DEF Good, Pending
<1>4. (~Pending(L))'
  BY <1>0, <1>1, <1>3 DEF Pending
<1>5. LogicalOrder'
  BY <1>0, <1>1, <1>2 DEF LogicalOrder, Pending, Mementos
<1>6. ASSUME NEW k \in Mementos, k < lpc
      PROVE  Replayed(L, k)
  BY <1>6, AheadReplayed, Zenon
<1>7. \A i, j \in Mementos : i < j /\ Replayed(L, j)' => L[i].ts < L[j].ts
  <2> SUFFICES ASSUME NEW i \in Mementos, NEW j \in Mementos, i < j, Replayed(L, j)'
               PROVE  L[i].ts < L[j].ts
    BY Zenon
  <2>1. j <= lpc
    BY <1>1 DEF Replayed, Mementos
  <2>2. CASE j = lpc
    BY <1>0, <1>1, <2>2 DEF Good, Pending, Mementos
  <2>3. CASE j < lpc
    BY <1>6, <2>3, Zenon DEF Good
  <2> QED
    BY <1>0, <2>1, <2>2, <2>3 DEF Mementos
<1>8. \A k \in Mementos : Replayed(L, k)' => L[k].ts > 0 /\ L[k].val = lenv'[k]
  <2> SUFFICES ASSUME NEW k \in Mementos, Replayed(L, k)'
               PROVE  L[k].ts > 0 /\ L[k].val = lenv'[k]
    BY Zenon
  <2>1. k <= lpc
    BY <1>1 DEF Replayed, Mementos
  <2>2. CASE k = lpc
    BY <1>0, <1>2, <2>2 DEF Pending
  <2>3. CASE k < lpc
    BY <1>0, <1>2, <1>6, <2>3, Zenon DEF Good, Mementos
  <2> QED
    BY <1>0, <2>1, <2>2, <2>3 DEF Mementos
<1>9. Good(L)'
  BY <1>0, <1>1, <1>3, <1>4, <1>7, <1>8, Zenon DEF Good
<1> QED
  BY <1>0, <1>1, <1>2, <1>4, <1>5, <1>9 DEF Mementos

\* Types of the records that the caches and the memory show.
LEMMA LatestOfType ==
    ASSUME TypeOK
    PROVE  /\ LatestOf(slot) \in [Mementos -> Slot]
           /\ LatestOf(pslot) \in [Mementos -> Slot]
           /\ \A k \in Mementos : /\ LatestOf(slot)[k] = latest(slot[k])
                                  /\ LatestOf(pslot)[k] = latest(pslot[k])
                                  /\ latest(slot[k]).ts \in Nat
                                  /\ latest(pslot[k]).ts \in Nat
<1>1. \A k \in Mementos : latest(slot[k]) \in Slot /\ latest(pslot[k]) \in Slot
  BY LatestType, Zenon DEF TypeOK
<1> QED
  BY <1>1, SlotFields, Zenon DEF LatestOf

\* When memory and cache agree, so do their latest records.
LEMMA CleanLatest ==
    ASSUME NEW s \in [Mementos -> [0..1 -> Slot]],
           NEW u \in [Mementos -> [0..1 -> Slot]],
           \A k \in Mementos, i \in 0..1 : s[k][i] = u[k][i]
    PROVE  LatestOf(s) = LatestOf(u)
BY DEF LatestOf, latest, latest_idx

\* A recovering thread that is on its way always finds a valid record.
LEMMA OnTheWayValid ==
    ASSUME TypeOK, LogicalOrder, Good(LatestOf(slot)), OnTheWay(LatestOf(slot))
    PROVE  is_valid(at)
<1> DEFINE L == LatestOf(slot)
<1>1. /\ L \in [Mementos -> Slot] /\ at \in Mementos /\ lts \in Nat
      /\ \A k \in Mementos : L[k].ts \in Nat
      /\ L[at] = latest(slot[at])
  BY LatestOfType, Zenon DEF OnTheWay, TypeOK
<1>2. L[at].ts > lmax
  <2>1. CASE Pending(L) /\ at = lpc
    <3>1. CASE at = 1
      BY <1>1, <2>1, <3>1 DEF OnTheWay, Pending
    <3>2. CASE at # 1
      <4>1. at - 1 \in Mementos /\ at - 1 # lpc
        BY ProgramAssumption, <1>1, <2>1, <3>2 DEF Mementos
      <4>2. lmax = L[at - 1].ts
        BY <1>1, <3>2, <4>1, Zenon DEF OnTheWay, Mementos
      <4>3. L[at - 1].ts <= lts
        BY <4>1, Zenon DEF Good
      <4>4. L[at].ts > lts
        BY <2>1, Zenon DEF Pending
      <4> HIDE DEF L
      <4> QED
        BY <1>1, <4>1, <4>2, <4>3, <4>4
    <3> QED
      BY <3>1, <3>2, Zenon
  <2>2. CASE ~(Pending(L) /\ at = lpc)
    <3>1. Replayed(L, at)
      BY <1>1, <2>2, LogicalNear DEF OnTheWay, Replayed, TypeOK, Mementos
    <3>2. CASE at = 1
      BY <1>1, <3>1, <3>2, Zenon DEF OnTheWay, Good
    <3>3. CASE at # 1
      <4>1. at - 1 \in Mementos /\ at - 1 < at
        BY ProgramAssumption, <1>1, <3>3 DEF Mementos
      <4>2. lmax = L[at - 1].ts
        BY <1>1, <3>3, <4>1, Zenon DEF OnTheWay, Mementos
      <4>3. L[at - 1].ts < L[at].ts
        BY <1>1, <3>1, <4>1, Zenon DEF Good
      <4> HIDE DEF L
      <4> QED
        BY <1>1, <4>1, <4>2, <4>3, Zenon
    <3> QED
      BY <3>2, <3>3, Zenon
  <2> QED
    BY <2>1, <2>2, Zenon
<1> QED
  BY <1>1, <1>2, Zenon DEF is_valid

\* val_func runs when the records are used up: they stay as they are.
LEMMA RunReplay == Inv /\ Run => RecordsReplay'
<1> SUFFICES ASSUME Inv, Run PROVE RecordsReplay'
  BY Zenon
<1>t. tcrash' = tcrash
  BY Zenon DEF Run, faults
<1> USE DEF Inv
<1> DEFINE L == LatestOf(slot)
<1>1. /\ UNCHANGED <<slot, pslot, lmax, at, env, lpc, lenv, lts, llast>>
      /\ rec' = FALSE /\ pc' = "val" /\ new' \in Vals
      /\ idx' = stale_idx(slot[at]) /\ t' = clock + 1 /\ clock' = clock + 1
      /\ at \in Mementos /\ pc = "call"
  BY Zenon DEF Run, logical, exec_time
<1>2. CaughtUp(L)
  <2>1. CASE rec
    <3>1. ~is_valid(at)
      BY <2>1, Zenon DEF Run
    <3> QED
      BY <2>1, <3>1, OnTheWayValid, Zenon DEF RecordsReplay, ThreadState
  <2>2. CASE ~rec
    BY <1>1, <2>2, Zenon DEF RecordsReplay, ThreadState
  <2> QED
    BY <2>1, <2>2, Zenon
<1>3. L' = L /\ LatestOf(pslot)' = LatestOf(pslot)
  BY <1>1, Zenon
<1>4. CaughtUp(L)' /\ at = lpc /\ at' = lpc'
  BY <1>1, <1>2, <1>3, Zenon DEF CaughtUp, Pending
<1>5. Good(LatestOf(slot))'
  BY <1>1, Zenon DEF RecordsReplay, Good, Pending, Replayed, LatestOf
<1>6. \A k \in Mementos, i \in 0..1 : slot[k][i].ts <= clock /\ pslot[k][i].ts <= clock
  BY Zenon DEF RecordsReplay, ClockAheadOfSlots
<1>7. \A k \in Mementos, i \in 0..1 : slot[k][i].ts \in Nat /\ pslot[k][i].ts \in Nat
  BY SlotFields, Zenon DEF TypeOK
<1>8. clock \in Nat /\ lts \in Nat /\ lts <= clock
  BY Zenon DEF RecordsReplay, TypeOK
<1>9. ThreadState'
  BY <1>1, <1>4, <1>6, <1>7, <1>8 DEF ThreadState
<1>10. ClockAheadOfSlots'
  BY <1>1, <1>6, <1>7, <1>8 DEF ClockAheadOfSlots
<1>11. ASSUME tcrash = 0 PROVE MemoryState'
  <2>1. MemoryState
    BY <1>11, Zenon DEF RecordsReplay
  <2>2. Good(LatestOf(pslot))'
    BY <1>1, <2>1, Zenon DEF MemoryState, Good, Pending, Replayed, LatestOf
  <2>3. \A k \in Mementos, i \in 0..1 : slot[k][i] = pslot[k][i]
    BY <1>1, <2>1, Zenon DEF MemoryState
  <2>4. idx' \in 0..1
    BY <1>1, LatestType, Zenon DEF TypeOK
  <2> QED
    BY <1>1, <2>2, <2>3, <2>4, Zenon DEF MemoryState
<1>12. LogicalOrder' /\ ReplayRebuildsLocals'
  BY <1>1, Zenon DEF RecordsReplay, LogicalOrder, ReplayRebuildsLocals
<1>13. lts' <= clock'
  BY <1>1, <1>8
<1> QED
  BY <1>t, <1>5, <1>9, <1>10, <1>11, <1>12, <1>13, Zenon DEF RecordsReplay

\* While a result is being written, its slot and the thread are as follows.
LEMMA Writing ==
    ASSUME Inv, pc # "call"
    PROVE  /\ at \in Mementos /\ at = lpc /\ idx \in 0..1 /\ ~rec
           /\ new \in Vals /\ t = clock /\ t > lts /\ t \in Nat /\ lts \in Nat
           /\ slot \in [Mementos -> [0..1 -> Slot]]
           /\ pslot \in [Mementos -> [0..1 -> Slot]]
           /\ \A k \in Mementos, i \in 0..1 :
                /\ slot[k][i] \in Slot /\ pslot[k][i] \in Slot
                /\ slot[k][i].ts \in Nat /\ pslot[k][i].ts \in Nat
                /\ slot[k][i].ts <= clock /\ pslot[k][i].ts <= clock
<1>1. \A k \in Mementos, i \in 0..1 : slot[k][i] \in Slot /\ pslot[k][i] \in Slot
  BY DEF Inv, TypeOK
<1>2. \A k \in Mementos, i \in 0..1 : slot[k][i].ts \in Nat /\ pslot[k][i].ts \in Nat
  BY <1>1, SlotFields, Zenon
<1>3. /\ at \in Mementos /\ at = lpc /\ idx \in 0..1 /\ ~rec
      /\ new \in Vals /\ t = clock /\ t > lts /\ t \in Nat /\ lts \in Nat
  BY Zenon DEF Inv, TypeOK, RecordsReplay, ThreadState
<1> QED
  BY <1>1, <1>2, <1>3, Zenon DEF Inv, TypeOK, RecordsReplay, ClockAheadOfSlots

\* The record is written to the slot that is not the latest one.
LEMMA StaleSlot ==
    ASSUME NEW s \in [0..1 -> Slot], NEW u \in [0..1 -> Slot], NEW i \in 0..1,
           i = stale_idx(s), s[1 - i] = u[1 - i], s[i].ts = u[i].ts
    PROVE  /\ latest(s) = s[1 - i]
           /\ latest(u) = latest(s)
           /\ s[i].ts <= s[1 - i].ts
BY DEF stale_idx, latest, latest_idx, Slot

\* Overwriting the value of the stale slot hides from replay.
LEMMA WriteValReplay == Inv /\ WriteVal => RecordsReplay'
<1> SUFFICES ASSUME Inv, WriteVal PROVE RecordsReplay'
  BY Zenon
<1>t. tcrash' = tcrash
  BY Zenon DEF WriteVal, faults
<1> DEFINE r == [slot[at][idx] EXCEPT !.val = new]
<1>1. /\ UNCHANGED <<pslot, clock, rec, lmax, at, env, new, idx, t, lpc, lenv, lts, llast>>
      /\ pc = "val" /\ pc' \in {"flushval", "ts"} /\ (pc' = "flushval" => at \notin OneLine)
      /\ (pc' = "ts" => at \in OneLine)
      /\ slot' = Put(slot, at, idx, r)
  BY FaultAssumption, Zenon DEF WriteVal, logical
<1>2. pc # "call"
  BY <1>1, Zenon
<1>3. r \in Slot /\ r.val = new /\ r.ts = slot[at][idx].ts
  BY <1>2, Writing, SlotVal, Zenon
<1>4. /\ slot' \in [Mementos -> [0..1 -> Slot]]
      /\ slot'[at][idx] = r
      /\ \A j \in 0..1 : j # idx => slot'[at][j] = slot[at][j]
      /\ \A m \in Mementos : m # at => slot'[m] = slot[m]
  <2>1. slot \in [Mementos -> [0..1 -> Slot]] /\ at \in Mementos /\ idx \in 0..1
    BY <1>2, Writing, Zenon
  <2>2. r \in Slot /\ slot' = Put(slot, at, idx, r)
    BY <1>1, <1>3, Zenon
  <2> HIDE DEF r
  <2> QED
    BY <2>1, <2>2, PutSlot
<1>5. idx = stale_idx(slot[at]) /\ \A k \in Mementos, i \in 0..1 : slot[k][i].ts < t
  BY <1>1, Zenon DEF Inv, RecordsReplay, ThreadState
<1>6. \A k \in Mementos, i \in 0..1 : slot'[k][i].ts = slot[k][i].ts
  BY <1>3, <1>4, Zenon
<1>7. stale_idx(slot[at])' = idx
  <2>1. at \in Mementos /\ 0 \in 0..1 /\ 1 \in 0..1
    BY <1>2, Writing
  <2>2. slot'[at][0].ts = slot[at][0].ts /\ slot'[at][1].ts = slot[at][1].ts
    BY <1>6, <2>1, Zenon
  <2> QED
    BY <1>1, <1>5, <2>2, Zenon DEF stale_idx
<1>8. LatestOf(slot)' = LatestOf(slot)
  <2>1. latest(slot'[at]) = latest(slot[at])
    BY <1>2, <1>4, <1>5, <1>6, Writing, StaleSlot
  <2>2. \A k \in Mementos : latest(slot'[k]) = latest(slot[k])
    BY <1>4, <2>1, Zenon
  <2> QED
    BY <2>2, Zenon DEF LatestOf
<1>9. Good(LatestOf(slot))'
  <2> DEFINE L == LatestOf(slot)
  <2>1. Good(L) /\ L' = L
    BY <1>8, Zenon DEF Inv, RecordsReplay
  <2> QED
    BY <1>1, <2>1, Zenon DEF Good, Pending, Replayed
<1>10. CaughtUp(LatestOf(slot))'
  BY <1>1, <1>2, <1>8, Writing, Zenon DEF Inv, RecordsReplay, ThreadState, CaughtUp, Pending
<1>11. ThreadState'
  <2>1. /\ at \in Mementos /\ at = lpc /\ ~rec /\ new \in Vals /\ t = clock /\ t > lts
        /\ slot'[at][idx].val = new
        /\ \A k \in Mementos, i \in 0..1 : slot'[k][i].ts < t
    BY <1>2, <1>3, <1>4, <1>5, <1>6, Writing
  <2> QED
    BY <1>1, <1>7, <1>10, <2>1, Zenon DEF ThreadState
<1>12. ClockAheadOfSlots'
  BY <1>1, <1>2, <1>6, Writing, Zenon DEF ClockAheadOfSlots
<1>13. ASSUME tcrash = 0 PROVE MemoryState'
  <2>1. MemoryState
    BY <1>13, Zenon DEF Inv, RecordsReplay
  <2>2. Good(LatestOf(pslot))'
    BY <1>1, <2>1, Zenon DEF MemoryState, Good, Pending, Replayed, LatestOf
  <2>3. \A k \in Mementos, i \in 0..1 :
           slot'[k][i] # pslot'[k][i] => pc' # "call" /\ k = at' /\ i = idx'
    BY <1>1, <1>4, <2>1 DEF MemoryState
  <2>4. pslot'[at'][idx'].ts = slot'[at'][idx'].ts
    BY <1>1, <1>2, <1>6, <2>1, Writing, Zenon DEF MemoryState
  <2> QED
    BY <1>1, <2>2, <2>3, <2>4, Zenon DEF MemoryState
<1>14. LogicalOrder' /\ ReplayRebuildsLocals' /\ lts' <= clock'
  BY <1>1, Zenon DEF Inv, RecordsReplay, LogicalOrder, ReplayRebuildsLocals
<1> QED
  BY <1>t, <1>9, <1>11, <1>12, <1>13, <1>14, Zenon DEF RecordsReplay

\* Persisting the value of a large result changes no latest record.
LEMMA FlushValReplay == Inv /\ FlushVal => RecordsReplay'
<1> SUFFICES ASSUME Inv, FlushVal PROVE RecordsReplay'
  BY Zenon
<1>t. tcrash' = tcrash
  BY Zenon DEF FlushVal, faults
<1> DEFINE r == [pslot[at][idx] EXCEPT !.val = slot[at][idx].val]
<1>1. /\ UNCHANGED <<slot, clock, rec, lmax, at, env, new, idx, t, lpc, lenv, lts, llast>>
      /\ pc = "flushval" /\ pc' = "ts"
      /\ pslot' = Put(pslot, at, idx, r)
  BY Zenon DEF FlushVal, logical
<1>2. pc # "call"
  BY <1>1, Zenon
<1>3. r \in Slot /\ r.val = slot[at][idx].val /\ r.ts = pslot[at][idx].ts
  BY <1>2, Writing, SlotVal, SlotFields, Zenon
<1>4. /\ pslot' \in [Mementos -> [0..1 -> Slot]]
      /\ pslot'[at][idx] = r
      /\ \A j \in 0..1 : j # idx => pslot'[at][j] = pslot[at][j]
      /\ \A m \in Mementos : m # at => pslot'[m] = pslot[m]
  <2>1. pslot \in [Mementos -> [0..1 -> Slot]] /\ at \in Mementos /\ idx \in 0..1
    BY <1>2, Writing, Zenon
  <2>2. r \in Slot /\ pslot' = Put(pslot, at, idx, r)
    BY <1>1, <1>3, Zenon
  <2> HIDE DEF r
  <2> QED
    BY <2>1, <2>2, PutSlot
<1>5. \A k \in Mementos, i \in 0..1 : pslot'[k][i].ts = pslot[k][i].ts
  BY <1>3, <1>4, Zenon
<1>6. Good(LatestOf(slot))'
  BY <1>1, Zenon DEF Inv, RecordsReplay, Good, Pending, Replayed, LatestOf
<1>7. CaughtUp(LatestOf(slot))'
  BY <1>1, <1>2, Writing, Zenon DEF Inv, RecordsReplay, ThreadState, CaughtUp, Pending, LatestOf
<1>8. ThreadState'
  BY <1>1, <1>2, <1>7, Writing, Zenon DEF Inv, RecordsReplay, ThreadState
<1>9. ClockAheadOfSlots'
  BY <1>1, <1>2, <1>5, Writing, Zenon DEF ClockAheadOfSlots
<1>10. ASSUME tcrash = 0 PROVE MemoryState'
  <2>1. MemoryState
    BY <1>10, Zenon DEF Inv, RecordsReplay
  <2>2. idx = stale_idx(slot[at]) /\ slot[at][idx].val = new
    BY <1>1, Zenon DEF Inv, RecordsReplay, ThreadState
  <2>3. pslot[at][idx].ts = slot[at][idx].ts
    BY <1>1, <2>1, Zenon DEF MemoryState
  <2>4. \A k \in Mementos, i \in 0..1 :
           slot[k][i] # pslot[k][i] => k = at /\ i = idx
    BY <2>1, Zenon DEF MemoryState
  <2>5. slot[at][1 - idx] = pslot[at][1 - idx] /\ 1 - idx \in 0..1 /\ 1 - idx # idx
    BY <1>2, <2>4, Writing
  <2>6. latest(pslot'[at]) = latest(slot[at])
    BY <1>2, <1>4, <1>5, <2>2, <2>3, <2>5, Writing, StaleSlot
  <2>7. \A k \in Mementos : k # at => latest(pslot'[k]) = latest(slot[k])
    BY <1>4, <2>4 DEF latest, latest_idx
  <2>8. LatestOf(pslot') = LatestOf(slot)
    BY <2>6, <2>7, Zenon DEF LatestOf
  <2>9. Good(LatestOf(pslot))'
    BY <1>1, <1>6, <2>8, Zenon
  <2>10. \A k \in Mementos, i \in 0..1 :
           slot'[k][i] # pslot'[k][i] => pc' # "call" /\ k = at' /\ i = idx'
    BY <1>1, <1>4, <2>4
  <2> QED
    BY <1>1, <1>3, <1>4, <2>2, <2>3, <2>9, <2>10, Zenon DEF MemoryState
<1>11. LogicalOrder' /\ ReplayRebuildsLocals' /\ lts' <= clock'
  BY <1>1, Zenon DEF Inv, RecordsReplay, LogicalOrder, ReplayRebuildsLocals
<1> QED
  BY <1>t, <1>6, <1>8, <1>9, <1>10, <1>11, Zenon DEF RecordsReplay

\* Writing the time makes the new record the pending one.
LEMMA WriteTsReplay == Inv /\ WriteTs => RecordsReplay'
<1> SUFFICES ASSUME Inv, WriteTs PROVE RecordsReplay'
  BY Zenon
<1>t. tcrash' = tcrash
  BY Zenon DEF WriteTs, faults
<1> DEFINE r == [slot[at][idx] EXCEPT !.ts = t]
           L == LatestOf(slot)
<1>1. /\ UNCHANGED <<pslot, clock, rec, lmax, at, env, new, idx, t, lpc, lenv, lts, llast>>
      /\ pc = "ts" /\ pc' = "flush"
      /\ slot' = Put(slot, at, idx, r)
  BY Zenon DEF WriteTs, logical
<1>2. pc # "call"
  BY <1>1, Zenon
<1>w. /\ at \in Mementos /\ at = lpc /\ idx \in 0..1 /\ ~rec
      /\ new \in Vals /\ t = clock /\ t > lts /\ t \in Nat /\ lts \in Nat
      /\ slot \in [Mementos -> [0..1 -> Slot]]
  BY <1>2, Writing, Zenon
<1>x. \A k \in Mementos, i \in 0..1 :
        /\ slot[k][i].ts \in Nat /\ pslot[k][i].ts \in Nat
        /\ slot[k][i].ts <= clock /\ pslot[k][i].ts <= clock
  BY <1>2, Writing, Zenon
<1>3. r \in Slot /\ r.ts = t /\ r.val = slot[at][idx].val
  BY <1>w, SlotTs
<1>4. /\ slot' \in [Mementos -> [0..1 -> Slot]]
      /\ slot'[at][idx] = r
      /\ \A j \in 0..1 : j # idx => slot'[at][j] = slot[at][j]
      /\ \A m \in Mementos : m # at => slot'[m] = slot[m]
  <2>1. r \in Slot /\ slot' = Put(slot, at, idx, r)
    BY <1>1, <1>3, Zenon
  <2> HIDE DEF r
  <2> QED
    BY <1>w, <2>1, PutSlot
<1>5. /\ idx = stale_idx(slot[at])
      /\ \A k \in Mementos, i \in 0..1 : slot[k][i].ts < t
      /\ slot[at][idx].val = new
      /\ CaughtUp(L)
  BY <1>1, <1>w, Zenon DEF Inv, RecordsReplay, ThreadState
<1>6. 1 - idx \in 0..1 /\ 1 - idx # idx /\ slot'[at][1 - idx] = slot[at][1 - idx]
  BY <1>w, <1>4
<1>7. latest(slot'[at]) = r
  <2>1. slot'[at][idx].ts = t /\ slot'[at][1 - idx].ts < t /\ slot'[at][1 - idx].ts \in Nat
    BY <1>w, <1>x, <1>3, <1>4, <1>5, <1>6, Zenon
  <2>2. idx = 0 \/ idx = 1
    BY <1>w
  <2> HIDE DEF r
  <2> QED
    BY <1>4, <1>w, <2>1, <2>2 DEF latest, latest_idx
<1>8. /\ L'[at] = r
      /\ \A k \in Mementos : k # at => L'[k] = L[k]
  BY <1>w, <1>4, <1>7, Zenon DEF LatestOf
<1>9. Good(L) /\ ~Pending(L) /\ LogicalOrder
  BY <1>5, Zenon DEF Inv, RecordsReplay, CaughtUp
<1>10. Pending(L)'
  BY <1>1, <1>w, <1>3, <1>8, Zenon DEF Pending
<1>11. Good(L)'
  <2>1. \A k \in Mementos : k # lpc' => L'[k].ts <= lts'
    BY <1>1, <1>w, <1>8, <1>9, Zenon DEF Good
  <2>2. ASSUME NEW k \in Mementos, Replayed(L, k)'
        PROVE  k < lpc /\ k # at /\ Replayed(L, k)
    BY <1>1, <1>w, <1>9, <1>10, <2>2 DEF Replayed, Mementos
  <2>3. \A i, j \in Mementos : i < j /\ Replayed(L, j)' => L'[i].ts < L'[j].ts
    <3> SUFFICES ASSUME NEW i \in Mementos, NEW j \in Mementos, i < j, Replayed(L, j)'
                 PROVE  L'[i].ts < L'[j].ts
      BY Zenon
    <3>1. i # at /\ j # at /\ Replayed(L, j)
      BY <1>w, <2>2 DEF Mementos
    <3> QED
      BY <1>8, <1>9, <3>1, Zenon DEF Good
  <2>4. \A k \in Mementos : Replayed(L, k)' => L'[k].ts > 0 /\ L'[k].val = lenv'[k]
    BY <1>1, <1>8, <1>9, <2>2, Zenon DEF Good
  <2>5. L'[lpc'].val \in Vals
    BY <1>1, <1>w, <1>3, <1>5, <1>8, Zenon
  <2> HIDE DEF L
  <2> QED
    BY <1>10, <2>1, <2>3, <2>4, <2>5, Zenon DEF Good
<1>12. ThreadState'
  <2>1. slot'[at][1 - idx].ts < t
    BY <1>w, <1>5, <1>6, Zenon
  <2> QED
    BY <1>1, <1>w, <1>3, <1>4, <1>5, <2>1, Zenon DEF ThreadState
<1>13. ClockAheadOfSlots'
  <2>1. \A k \in Mementos, i \in 0..1 : slot'[k][i].ts = slot[k][i].ts \/ slot'[k][i].ts = t
    BY <1>w, <1>3, <1>4, Zenon
  <2> QED
    BY <1>1, <1>w, <1>x, <2>1 DEF ClockAheadOfSlots
<1>14. ASSUME tcrash = 0 PROVE MemoryState'
  <2>1. MemoryState
    BY <1>14, Zenon DEF Inv, RecordsReplay
  <2>2. Good(LatestOf(pslot))'
    BY <1>1, <2>1, Zenon DEF MemoryState, Good, Pending, Replayed, LatestOf
  <2>3. \A k \in Mementos, i \in 0..1 :
           slot'[k][i] # pslot'[k][i] => pc' # "call" /\ k = at' /\ i = idx'
    BY <1>1, <1>4, <2>1 DEF MemoryState
  <2>4. pslot[at][idx].ts = slot[at][idx].ts /\ (at \notin OneLine => pslot[at][idx].val = new)
    BY <1>1, <2>1, Zenon DEF MemoryState
  <2>5. slot[at][idx].ts <= slot[at][1 - idx].ts
    BY <1>w, <1>5, StaleSlot, Zenon
  <2>6. pslot[at][idx].ts < t /\ pslot[at][idx].ts <= slot'[at][1 - idx].ts
    BY <1>w, <1>5, <1>6, <2>4, <2>5, Zenon
  <2> QED
    BY <1>1, <2>2, <2>3, <2>4, <2>6, Zenon DEF MemoryState
<1>15. LogicalOrder' /\ ReplayRebuildsLocals' /\ lts' <= clock'
  BY <1>1, Zenon DEF Inv, RecordsReplay, LogicalOrder, ReplayRebuildsLocals
<1> QED
  BY <1>t, <1>11, <1>12, <1>13, <1>14, <1>15, Zenon DEF RecordsReplay

\* Where the program goes on lies at most one memento ahead.
LEMMA AfterNear ==
    ASSUME NEW k \in Mementos, NEW v, NEW j \in Mementos, j < After(k, v)
    PROVE  j <= k
BY ProgramAssumption DEF After, Mementos

\* Persisting the record and returning it turns it into the last result.
LEMMA FlushReplay == Inv /\ Flush => RecordsReplay'
<1> SUFFICES ASSUME Inv, Flush PROVE RecordsReplay'
  BY Zenon
<1>t. tcrash' = tcrash
  BY Zenon DEF Flush, faults
<1>1. /\ UNCHANGED <<slot, clock, rec, new, idx, t>>
      /\ pc = "flush" /\ pc' = "call" /\ lmax' = t
      /\ pslot' = Put(pslot, at, idx, slot[at][idx])
      /\ env' = [env EXCEPT ![at] = new]
      /\ at' = After(at, new)
      /\ Log(at, new, t)
  BY Zenon DEF Flush, Return
<1>2. pc # "call"
  BY <1>1, Zenon
<1>w. /\ at \in Mementos /\ at = lpc /\ idx \in 0..1 /\ ~rec
      /\ new \in Vals /\ t = clock /\ t > lts /\ t \in Nat /\ lts \in Nat
      /\ slot \in [Mementos -> [0..1 -> Slot]]
      /\ pslot \in [Mementos -> [0..1 -> Slot]]
      /\ slot[at][idx] \in Slot
  BY <1>2, Writing, Zenon
<1>x. \A k \in Mementos, i \in 0..1 :
        /\ slot[k][i].ts \in Nat /\ pslot[k][i].ts \in Nat
        /\ slot[k][i].ts <= clock /\ pslot[k][i].ts <= clock
  BY <1>2, Writing, Zenon
<1>3. slot[at][idx].ts = t /\ slot[at][1 - idx].ts < t /\ slot[at][idx].val = new
  BY <1>1, Zenon DEF Inv, RecordsReplay, ThreadState
<1>4. latest(slot[at]) = slot[at][idx]
  <2>1. idx = 0 \/ idx = 1
    BY <1>w
  <2> QED
    BY <1>3, <1>w, <1>x, <2>1 DEF latest, latest_idx
<1>5. PICK L \in [Mementos -> Slot] : L = LatestOf(slot)
  BY LatestOfType, Zenon DEF Inv
<1>6. L[lpc].ts = t /\ L[lpc].val = new
  BY <1>w, <1>3, <1>4, <1>5, Zenon DEF LatestOf
<1>7. Good(L) /\ Pending(L) /\ LogicalOrder /\ TypeOK
  BY <1>w, <1>5, <1>6, Zenon DEF Inv, RecordsReplay, Pending
<1>8. Log(lpc, L[lpc].val, L[lpc].ts)
  BY <1>1, <1>w, <1>6, Zenon
<1>9. /\ LogicalOrder'
      /\ (~Pending(L))'
      /\ Good(L)'
      /\ lts' = t
      /\ \A k \in Mementos : k < lpc => lenv'[k] = lenv[k]
      /\ lenv'[lpc] = new
  BY <1>6, <1>7, <1>8, LogGood, Zenon
<1>10. LatestOf(slot)' = L
  BY <1>1, <1>5, Zenon
<1>11. Good(LatestOf(slot))'
  BY <1>9, <1>10, Zenon DEF Good, Pending, Replayed
<1>12. CaughtUp(LatestOf(slot))'
  BY <1>1, <1>9, <1>10, Zenon DEF CaughtUp, Pending, Log
<1>13. ThreadState'
  BY <1>1, <1>w, <1>12, Zenon DEF ThreadState
<1>14. /\ pslot' \in [Mementos -> [0..1 -> Slot]]
       /\ pslot'[at][idx] = slot[at][idx]
       /\ \A j \in 0..1 : j # idx => pslot'[at][j] = pslot[at][j]
       /\ \A m \in Mementos : m # at => pslot'[m] = pslot[m]
  <2>1. pslot \in [Mementos -> [0..1 -> Slot]] /\ at \in Mementos /\ idx \in 0..1
    BY <1>w, Zenon
  <2>2. ASSUME NEW r \in Slot
        PROVE  /\ Put(pslot, at, idx, r) \in [Mementos -> [0..1 -> Slot]]
               /\ Put(pslot, at, idx, r)[at][idx] = r
               /\ \A j \in 0..1 : j # idx => Put(pslot, at, idx, r)[at][j] = pslot[at][j]
               /\ \A m \in Mementos : m # at => Put(pslot, at, idx, r)[m] = pslot[m]
    BY <2>1, Zenon DEF Put
  <2> QED
    BY <1>1, <1>w, <2>2, ZenonT(40)
<1>15. ClockAheadOfSlots'
  BY <1>1, <1>w, <1>x, <1>14 DEF ClockAheadOfSlots
<1>16. ASSUME tcrash = 0 PROVE MemoryState'
  <2>1. MemoryState
    BY <1>16, Zenon DEF Inv, RecordsReplay
  <2>2. \A k \in Mementos, i \in 0..1 : slot'[k][i] = pslot'[k][i]
    BY <1>1, <1>w, <1>14, <2>1 DEF MemoryState
  <2>3. LatestOf(pslot') = LatestOf(slot')
    BY <1>1, <1>w, <1>14, <2>2, CleanLatest
  <2>4. Good(LatestOf(pslot))'
    BY <1>11, <2>3, Zenon DEF Good, Pending, Replayed
  <2> QED
    BY <1>1, <2>2, <2>4, Zenon DEF MemoryState
<1>17. ReplayRebuildsLocals'
  <2> SUFFICES ASSUME NEW k \in Mementos, k < at' PROVE env'[k] = lenv'[k]
    BY Zenon DEF ReplayRebuildsLocals
  <2>1. k <= at
    BY <1>1, <1>w, AfterNear, Zenon
  <2>2. env \in [Mementos -> Vals \cup {NoVal}]
    BY Zenon DEF Inv, TypeOK
  <2>3. CASE k = at
    BY <1>1, <1>w, <1>9, <2>2, <2>3, Zenon
  <2>4. CASE k < at
    BY <1>1, <1>w, <1>9, <2>2, <2>4, Zenon DEF Inv, RecordsReplay, ReplayRebuildsLocals
  <2> QED
    BY <1>w, <2>1, <2>3, <2>4 DEF Mementos
<1>18. lts' <= clock'
  BY <1>1, <1>w, <1>9
<1> QED
  BY <1>t, <1>9, <1>11, <1>13, <1>15, <1>16, <1>17, <1>18, Zenon DEF RecordsReplay

\* peek() returns a record that was returned before, or the one that is due.
LEMMA PeekReplay == Inv /\ Peek => RecordsReplay'
<1> SUFFICES ASSUME Inv, Peek PROVE RecordsReplay'
  BY Zenon
<1>t. tcrash' = tcrash
  BY Zenon DEF Peek, faults
<1>1. PICK L \in [Mementos -> Slot] : L = LatestOf(slot)
  BY LatestOfType, Zenon DEF Inv
<1>2. /\ UNCHANGED <<slot, pslot, clock, rec, new, idx, t>>
      /\ pc = "call" /\ at \in Mementos /\ rec
      /\ L[at] = latest(slot[at])
      /\ lmax' = L[at].ts
      /\ env' = [env EXCEPT ![at] = L[at].val]
      /\ at' = After(at, L[at].val)
      /\ pc' = "call"
  BY <1>1, Zenon DEF Peek, Return, LatestOf
<1>3. /\ L[at].ts > lmax
      /\ IF L[at].ts > lts THEN Log(at, L[at].val, L[at].ts)
                           ELSE UNCHANGED <<lpc, lenv, lts, llast>>
  BY <1>2, Zenon DEF Peek, is_valid, logical
<1>4. /\ lts \in Nat /\ lpc \in 1..(N + 1) /\ llast \in 0..N /\ N \in Nat
      /\ env \in [Mementos -> Vals \cup {NoVal}]
      /\ \A k \in Mementos : L[k].ts \in Nat
  BY ProgramAssumption, SlotFields, Zenon DEF Inv, TypeOK
<1>5. TypeOK /\ LogicalOrder /\ Good(L)
  BY <1>1, Zenon DEF Inv, RecordsReplay
<1>6. OnTheWay(L)
  <2>1. OnTheWay(L) \/ CaughtUp(L)
    BY <1>1, <1>2, Zenon DEF Inv, RecordsReplay, ThreadState
  <2>2. ~CaughtUp(L)
    BY <1>2, <1>3, Zenon DEF CaughtUp, Pending
  <2> QED
    BY <2>1, <2>2, Zenon
<1>7. LatestOf(slot)' = L /\ LatestOf(pslot)' = LatestOf(pslot)
  BY <1>1, <1>2, Zenon
<1>8. L[at].ts <= clock
  <2>1. latest_idx(slot[at]) \in 0..1
    BY DEF latest_idx
  <2>2. slot[at][latest_idx(slot[at])].ts <= clock
    BY <1>2, <2>1, Zenon DEF Inv, RecordsReplay, ClockAheadOfSlots
  <2> QED
    BY <1>2, <2>2, Zenon DEF latest
<1>9. ClockAheadOfSlots'
  BY <1>2, Zenon DEF Inv, RecordsReplay, ClockAheadOfSlots
<1>10. ASSUME NEW k \in Mementos, k < at'
       PROVE  k <= at
  BY <1>2, <1>10, AfterNear, Zenon
<1>11. ASSUME tcrash = 0, Good(LatestOf(slot))'
       PROVE  MemoryState'
  <2>1. MemoryState
    BY <1>11, Zenon DEF Inv, RecordsReplay
  <2>2. \A k \in Mementos, i \in 0..1 : slot[k][i] = pslot[k][i]
    BY <1>2, <2>1, Zenon DEF MemoryState
  <2>3. LatestOf(pslot) = LatestOf(slot)
    BY <2>2, CleanLatest, Zenon DEF Inv, TypeOK
  <2>4. Good(LatestOf(pslot))'
    BY <1>2, <1>11, <2>3, Zenon DEF Good, Pending, Replayed, LatestOf
  <2> QED
    BY <1>2, <2>2, <2>4, Zenon DEF MemoryState
<1>12. CASE Pending(L) /\ at = lpc
  <2>1. L[at].ts > lts
    BY <1>12, Zenon DEF Pending
  <2>2. Log(lpc, L[lpc].val, L[lpc].ts)
    BY <1>3, <1>12, <2>1, Zenon
  <2>3. /\ LogicalOrder'
        /\ (~Pending(L))'
        /\ Good(L)'
        /\ lts' = L[lpc].ts
        /\ \A k \in Mementos : k < lpc => lenv'[k] = lenv[k]
        /\ lenv'[lpc] = L[lpc].val
    BY <1>5, <1>12, <2>2, LogGood, Zenon
  <2>4. Good(LatestOf(slot))'
    BY <1>7, <2>3, Zenon DEF Good, Pending, Replayed
  <2>5. CaughtUp(LatestOf(slot))'
    BY <1>2, <1>7, <1>12, <2>2, <2>3, Zenon DEF CaughtUp, Pending, Log
  <2>6. ThreadState'
    BY <1>2, <2>5, Zenon DEF ThreadState
  <2>7. ReplayRebuildsLocals'
    <3> SUFFICES ASSUME NEW k \in Mementos, k < at' PROVE env'[k] = lenv'[k]
      BY Zenon DEF ReplayRebuildsLocals
    <3>1. CASE k = at
      BY <1>2, <1>4, <1>12, <2>3, <3>1, Zenon
    <3>2. CASE k < at
      BY <1>2, <1>4, <1>12, <2>3, <3>2, Zenon DEF Inv, RecordsReplay, ReplayRebuildsLocals
    <3> QED
      BY <1>2, <1>10, <3>1, <3>2 DEF Mementos
  <2>8. lts' <= clock'
    BY <1>2, <1>8, <1>12, <2>3, Zenon
  <2> QED
    BY <1>9, <1>11, <2>3, <2>4, <2>6, <2>7, <2>8, <1>t, Zenon DEF RecordsReplay
<1>13. CASE ~(Pending(L) /\ at = lpc)
  <2>1. Replayed(L, at)
    BY <1>2, <1>4, <1>5, <1>6, <1>13, LogicalNear DEF OnTheWay, Replayed, Mementos
  <2>2. L[at].ts <= lts
    BY <1>2, <1>4, <1>5, <1>13 DEF Good, Pending
  <2>3. UNCHANGED <<lpc, lenv, lts, llast>>
    BY <1>2, <1>3, <1>4, <2>2
  <2>4. L[at].val = lenv[at]
    BY <1>2, <1>5, <2>1, Zenon DEF Good
  <2>5. Good(LatestOf(slot))' /\ (Pending(LatestOf(slot))' <=> Pending(L))
    BY <1>5, <1>7, <2>3, Zenon DEF Good, Pending, Replayed
  <2>6. OnTheWay(LatestOf(slot))' \/ CaughtUp(LatestOf(slot))'
    <3>1. CASE ~Pending(L) /\ at = llast
      <4>1. at' = lpc
        BY <1>2, <1>5, <2>4, <3>1 DEF LogicalOrder, Mementos
      <4>2. lmax' = lts
        BY <1>2, <1>4, <1>5, <3>1 DEF Good, Mementos
      <4> QED
        BY <2>3, <2>5, <3>1, <4>1, <4>2, Zenon DEF CaughtUp
    <3>2. CASE ~(~Pending(L) /\ at = llast)
      <4>1. at < N /\ (IF Pending(L) THEN at < lpc ELSE at < llast)
        BY <1>2, <1>4, <1>6, <1>13, <3>2 DEF OnTheWay, Pending, Mementos
      <4>2. at' = at + 1
        BY <1>2, <4>1, Zenon DEF After
      <4>3. at' \in Mementos /\ at' # 1 /\ at' - 1 = at
        BY <1>2, <1>4, <4>1, <4>2 DEF Mementos
      <4>4. IF Pending(L) THEN at' <= lpc ELSE at' <= llast
        BY <1>2, <1>4, <4>1, <4>2 DEF Mementos
      <4>5. \A k \in 1..(at' - 1) : Replayed(L, k)
        BY <1>2, <1>6, <2>1, <4>3 DEF OnTheWay, Mementos
      <4>6. \A k \in 1..(at' - 1) : Replayed(LatestOf(slot), k)'
        BY <1>7, <2>3, <2>5, <4>5, Zenon DEF Replayed
      <4> QED
        BY <1>2, <1>7, <2>3, <2>5, <4>3, <4>4, <4>6, Zenon DEF OnTheWay
    <3> QED
      BY <3>1, <3>2, Zenon
  <2>7. ThreadState'
    BY <1>2, <2>6, Zenon DEF ThreadState
  <2>8. ReplayRebuildsLocals'
    <3> SUFFICES ASSUME NEW k \in Mementos, k < at' PROVE env'[k] = lenv'[k]
      BY Zenon DEF ReplayRebuildsLocals
    <3>1. CASE k = at
      BY <1>2, <1>4, <2>3, <2>4, <3>1, Zenon
    <3>2. CASE k < at
      <4>1. env[k] = lenv[k]
        BY <3>2, Zenon DEF Inv, RecordsReplay, ReplayRebuildsLocals
      <4>2. k # at
        BY <1>2, <3>2 DEF Mementos
      <4> QED
        BY <1>2, <1>4, <2>3, <4>1, <4>2, Zenon
    <3> QED
      BY <1>2, <1>10, <3>1, <3>2 DEF Mementos
  <2>9. LogicalOrder' /\ lts' <= clock'
    BY <1>2, <2>3, Zenon DEF Inv, RecordsReplay, LogicalOrder
  <2> QED
    BY <1>9, <1>11, <2>5, <2>7, <2>8, <2>9, <1>t, Zenon DEF RecordsReplay
<1> QED
  BY <1>12, <1>13, Zenon

\* An eviction can only complete the record being written.
LEMMA EvictReplay ==
    ASSUME Inv, NEW k \in Mementos, NEW i \in 0..1, Evict(k, i)
    PROVE  RecordsReplay'
<1>t. tcrash' = tcrash
  BY Zenon DEF Evict, faults
<1>1. UNCHANGED <<slot, clock, rec, lmax, at, env, pc, new, idx, t, lpc, lenv, lts, llast>>
  BY Zenon DEF Evict, local, logical
<1>2. /\ slot \in [Mementos -> [0..1 -> Slot]]
      /\ pslot \in [Mementos -> [0..1 -> Slot]]
  BY Zenon DEF Inv, TypeOK
<1>3. slot[k][i] \in Slot /\ pslot[k][i] \in Slot
  BY <1>2, Zenon
<1>4. PICK r \in Slot :
        /\ pslot' = Put(pslot, k, i, r)
        /\ \/ k \in OneLine /\ r = slot[k][i]
           \/ k \notin OneLine /\ r.val = slot[k][i].val /\ r.ts = pslot[k][i].ts
           \/ k \notin OneLine /\ r.val = pslot[k][i].val /\ r.ts = slot[k][i].ts
  <2> DEFINE rv == [pslot[k][i] EXCEPT !.val = slot[k][i].val]
             rt == [pslot[k][i] EXCEPT !.ts = slot[k][i].ts]
  <2>1. rv \in Slot /\ rv.val = slot[k][i].val /\ rv.ts = pslot[k][i].ts
    BY <1>3, SlotVal, SlotFields, Zenon
  <2>2. rt \in Slot /\ rt.val = pslot[k][i].val /\ rt.ts = slot[k][i].ts
    BY <1>3, SlotTs, SlotFields, Zenon
  <2>3. \/ k \in OneLine /\ pslot' = Put(pslot, k, i, slot[k][i])
        \/ k \notin OneLine /\ pslot' = Put(pslot, k, i, rv)
        \/ k \notin OneLine /\ pslot' = Put(pslot, k, i, rt)
    BY Zenon DEF Evict
  <2> HIDE DEF rv, rt
  <2> QED
    BY <1>3, <2>1, <2>2, <2>3, Zenon
<1>5. /\ pslot' \in [Mementos -> [0..1 -> Slot]]
      /\ pslot'[k][i] = r
      /\ \A j \in 0..1 : j # i => pslot'[k][j] = pslot[k][j]
      /\ \A m \in Mementos : m # k => pslot'[m] = pslot[m]
  BY <1>2, <1>4, Zenon DEF Put
<1>6. Good(LatestOf(slot))' /\ ThreadState' /\ LogicalOrder' /\ ReplayRebuildsLocals'
      /\ lts' <= clock'
  BY <1>1, Zenon DEF Inv, RecordsReplay, Good, ThreadState, LogicalOrder, ReplayRebuildsLocals,
              Pending, Replayed, OnTheWay, CaughtUp, LatestOf
<1>7. ClockAheadOfSlots'
  <2>1. \A m \in Mementos, j \in 0..1 :
           \/ pslot'[m][j].ts = pslot[m][j].ts
           \/ pslot'[m][j].ts = slot[m][j].ts
    BY <1>4, <1>5, Zenon
  <2> QED
    BY <1>1, <2>1, Zenon DEF Inv, RecordsReplay, ClockAheadOfSlots
<1>8. ASSUME tcrash = 0 PROVE MemoryState'
  <2>1. MemoryState
    BY <1>8, Zenon DEF Inv, RecordsReplay
  <2>2. pc # "call" /\ k = at /\ i = idx
    BY <2>1, Zenon DEF MemoryState, Evict
  <2>3. \A m \in Mementos, j \in 0..1 : slot[m][j] # pslot[m][j] => m = at /\ j = idx
    BY <2>1, Zenon DEF MemoryState
  <2>4. \A m \in Mementos, j \in 0..1 :
           slot'[m][j] # pslot'[m][j] => pc' # "call" /\ m = at' /\ j = idx'
    BY <1>1, <1>5, <2>2, <2>3
  <2>5. 1 - i \in 0..1 /\ 1 - i # i /\ slot[k][1 - i] = pslot'[k][1 - i]
    BY <1>5, <2>2, <2>3
  <2>6. pc \in {"val", "flushval", "ts", "flush"}
    BY <2>2, Zenon DEF Inv, TypeOK
  <2>7. CASE pc \in {"val", "flushval", "ts"}
    <3>1. pslot[k][i].ts = slot[k][i].ts /\ i = stale_idx(slot[k])
      BY <2>1, <2>2, <2>7, Zenon DEF MemoryState, Inv, RecordsReplay, ThreadState
    <3>2. r.ts = slot[k][i].ts
      BY <1>4, <3>1, Zenon
    <3>3. latest(pslot'[k]) = latest(slot[k])
      BY <1>2, <1>5, <2>5, <3>1, <3>2, StaleSlot, Zenon
    <3>4. \A m \in Mementos : m # k => latest(pslot'[m]) = latest(slot[m])
      BY <1>5, <2>2, <2>3 DEF latest, latest_idx
    <3>5. LatestOf(pslot') = LatestOf(slot')
      BY <1>1, <3>3, <3>4, Zenon DEF LatestOf
    <3>6. Good(LatestOf(pslot))'
      BY <1>6, <3>5, Zenon
    <3>7. pc = "ts" /\ at \notin OneLine => r.val = new
      BY <1>4, <2>1, <2>2, Zenon DEF MemoryState, Inv, RecordsReplay, ThreadState
    <3> QED
      BY <1>1, <1>5, <2>2, <2>4, <2>7, <3>2, <3>6, <3>7, Zenon DEF MemoryState
  <2>8. CASE pc = "flush"
    <3>1. /\ slot[k][i].val = new
          /\ at \notin OneLine => pslot[k][i].val = new
          /\ \/ pslot[k][i] = slot[k][i]
             \/ pslot[k][i].ts < t /\ pslot[k][i].ts <= slot[k][1 - i].ts
      BY <2>1, <2>2, <2>8, Zenon DEF MemoryState, Inv, RecordsReplay, ThreadState
    <3>2. r = slot[k][i] \/ r = pslot[k][i]
      <4>1. CASE k \in OneLine
        BY <1>4, <4>1, Zenon
      <4>2. CASE k \notin OneLine
        <5>1. r.val = slot[k][i].val /\ r.val = pslot[k][i].val
          BY <1>4, <2>2, <3>1, <4>2, Zenon
        <5>2. r.ts = slot[k][i].ts \/ r.ts = pslot[k][i].ts
          BY <1>4, <4>2, Zenon
        <5> QED
          BY <1>3, <1>4, <5>1, <5>2, SlotEqual, Zenon
      <4> QED
        BY <4>1, <4>2, Zenon
    <3>3. Good(LatestOf(pslot))'
      <4>1. CASE r = slot[k][i]
        <5>1. \A m \in Mementos, j \in 0..1 : slot[m][j] = pslot'[m][j]
          BY <1>5, <2>2, <2>3, <4>1
        <5>2. LatestOf(pslot') = LatestOf(slot')
          BY <1>1, <1>2, <1>5, <5>1, CleanLatest, Zenon
        <5> QED
          BY <1>6, <5>2, Zenon
      <4>2. CASE r = pslot[k][i]
        <5>1. \A m \in Mementos, j \in 0..1 : pslot[m][j] = pslot'[m][j]
          BY <1>5, <4>2, Zenon
        <5>2. LatestOf(pslot') = LatestOf(pslot)
          BY <1>2, <1>5, <5>1, CleanLatest, Zenon
        <5> QED
          BY <1>1, <2>1, <5>2, Zenon DEF MemoryState, Good, Pending, Replayed
      <4> QED
        BY <3>2, <4>1, <4>2, Zenon
    <3>4. \/ r = slot[k][i]
          \/ r.ts < t /\ r.ts <= slot[k][1 - i].ts
      BY <3>1, <3>2, Zenon
    <3>5. at \notin OneLine => r.val = new
      BY <3>1, <3>2, Zenon
    <3> QED
      BY <1>1, <1>5, <2>2, <2>4, <2>8, <3>3, <3>4, <3>5, Zenon DEF MemoryState
  <2> QED
    BY <2>6, <2>7, <2>8, Zenon
<1> QED
  BY <1>t, <1>6, <1>7, <1>8, Zenon DEF RecordsReplay

\* A new incarnation starts on its way, or with nothing to replay.
LEMMA RestartThread ==
    ASSUME TypeOK, LogicalOrder, Restart, NEW L, L = LatestOf(slot)',
           UNCHANGED <<lpc, lenv, lts, llast>>
    PROVE  ThreadState' /\ ReplayRebuildsLocals'
<1>1. /\ rec' = TRUE /\ lmax' = 0 /\ at' = 1 /\ pc' = "call"
      /\ 1 \in Mementos /\ lpc \in 1..(N + 1) /\ llast \in 0..N
  BY ProgramAssumption DEF Restart, TypeOK, Mementos
<1>2. CASE Pending(LatestOf(slot))' \/ llast > 0
  <2>1. OnTheWay(LatestOf(slot))'
    BY <1>1, <1>2 DEF OnTheWay, Pending
  <2> QED
    BY <1>1, <2>1 DEF ThreadState, ReplayRebuildsLocals, Mementos
<1>3. CASE ~(Pending(LatestOf(slot))' \/ llast > 0)
  <2>1. CaughtUp(LatestOf(slot))'
    BY <1>1, <1>3, Zenon DEF CaughtUp, LogicalOrder
  <2> QED
    BY <1>1, <2>1 DEF ThreadState, ReplayRebuildsLocals, Mementos
<1> QED
  BY <1>2, <1>3, Zenon

\* A re-executed thread starts on its way through the records.
LEMMA ThreadCrashReplay == Inv /\ ThreadCrash => RecordsReplay'
<1> SUFFICES ASSUME Inv, ThreadCrash PROVE RecordsReplay'
  BY Zenon
<1>1. UNCHANGED <<slot, pslot, clock, lpc, lenv, lts, llast>> /\ Restart
  BY Zenon DEF ThreadCrash, logical
<1>2. ThreadState' /\ ReplayRebuildsLocals'
  BY <1>1, RestartThread, Zenon DEF Inv, RecordsReplay
<1>3. Good(LatestOf(slot))' /\ LogicalOrder' /\ ClockAheadOfSlots' /\ lts' <= clock'
  BY <1>1, Zenon DEF Inv, RecordsReplay, Good, LogicalOrder, Pending, Replayed, LatestOf,
              ClockAheadOfSlots
<1>4. tcrash' # 0
  BY DEF ThreadCrash, Inv, TypeOK
<1> QED
  BY <1>2, <1>3, <1>4, Zenon DEF RecordsReplay

\* So does one restarted over what persistent memory kept.
LEMMA SystemCrashReplay == ~Mixed /\ Inv /\ SystemCrash => RecordsReplay'
<1> SUFFICES ASSUME ~Mixed, Inv, SystemCrash PROVE RecordsReplay'
  BY Zenon
<1>1. UNCHANGED <<pslot, lpc, lenv, lts, llast>> /\ slot' = pslot /\ Restart
  BY Zenon DEF SystemCrash, logical
<1>2. MemoryState
  BY Zenon DEF SystemCrash, Inv, RecordsReplay
<1>3. /\ clock' \in Nat
      /\ \A k \in Mementos : latest(pslot[k]).ts <= clock' /\ latest(pslot[k]).ts \in Nat
  BY LatestOfType, Zenon DEF SystemCrash, Inv
<1>4. Good(LatestOf(slot))' /\ Good(LatestOf(pslot))' /\ LogicalOrder'
  BY <1>1, <1>2, Zenon DEF MemoryState, Inv, RecordsReplay, Good, LogicalOrder, Pending, Replayed,
                    LatestOf
<1>5. ThreadState' /\ ReplayRebuildsLocals'
  BY <1>1, RestartThread, Zenon DEF Inv, RecordsReplay
<1>6. ClockAheadOfSlots'
  <2>1. \A k \in Mementos : pslot[k] \in [0..1 -> Slot]
    BY Zenon DEF Inv, TypeOK
  <2>2. \A k \in Mementos :
           /\ pslot[k][0].ts \in Nat /\ pslot[k][0].ts <= latest(pslot[k]).ts
           /\ pslot[k][1].ts \in Nat /\ pslot[k][1].ts <= latest(pslot[k]).ts
    BY <2>1, LatestType, SlotFields
  <2>3. \A k \in Mementos, i \in 0..1 : pslot[k][i].ts <= clock'
    <3> SUFFICES ASSUME NEW k \in Mementos, NEW i \in 0..1 PROVE pslot[k][i].ts <= clock'
      BY Zenon
    <3>1. i = 0 \/ i = 1
      OBVIOUS
    <3> QED
      BY <1>3, <2>2, <3>1
  <2> QED
    BY <1>1, <2>3, Zenon DEF ClockAheadOfSlots
<1>7. lts' <= clock'
  <2> DEFINE L == LatestOf(pslot)
  <2>1. /\ \A k \in Mementos : L[k].ts <= clock' /\ L[k].ts \in Nat
        /\ lts \in Nat /\ llast \in 0..N /\ N \in Nat
    BY <1>3, LatestOfType, ProgramAssumption, Zenon DEF Inv, TypeOK
  <2>2. Good(L) /\ LogicalOrder
    BY <1>2, Zenon DEF MemoryState, Inv, RecordsReplay
  <2>3. CASE Pending(L)
    BY <1>1, <1>3, <2>1, <2>3 DEF Pending
  <2>4. CASE ~Pending(L) /\ llast > 0
    <3>1. llast \in Mementos /\ L[llast].ts = lts
      BY <2>1, <2>2, <2>4 DEF Good, Mementos
    <3> QED
      BY <1>1, <2>1, <3>1, Zenon
  <2>5. CASE llast = 0
    BY <1>1, <1>3, <2>2, <2>5 DEF LogicalOrder
  <2> QED
    BY <2>1, <2>3, <2>4, <2>5
<1>8. MemoryState'
  BY <1>1, <1>4, Zenon DEF MemoryState, Restart
<1> QED
  BY <1>4, <1>5, <1>6, <1>7, <1>8, Zenon DEF RecordsReplay

\* Every step keeps the records in a state that replays correctly.
LEMMA ReplayStep == ~Mixed /\ Inv /\ [Next]_vars => Inv'
<1> SUFFICES ASSUME ~Mixed, Inv, [Next]_vars PROVE Inv'
  BY Zenon
<1>1. TypeOK'
  BY TypeStep, Zenon DEF Inv
<1>2. CASE UNCHANGED vars
  <2>1. UNCHANGED <<slot, pslot, clock, rec, lmax, at, env, pc, new, idx, t, lpc, lenv,
                    lts, llast, tcrash>>
    BY <1>2, Zenon DEF vars, local, logical, faults
  <2>2. Good(LatestOf(slot))' /\ LogicalOrder' /\ ClockAheadOfSlots'
    BY <2>1, Zenon DEF Inv, RecordsReplay, Good, Pending, Replayed, LogicalOrder, ClockAheadOfSlots
  <2>3. ThreadState'
    BY <2>1, Zenon DEF Inv, RecordsReplay, ThreadState, Pending, Replayed, OnTheWay, CaughtUp, LatestOf
  <2>4. ReplayRebuildsLocals' /\ lts' <= clock'
    BY <2>1, Zenon DEF Inv, RecordsReplay, ReplayRebuildsLocals
  <2>5. tcrash' = 0 => MemoryState'
    BY <2>1, Zenon DEF Inv, RecordsReplay, MemoryState, Good, Pending, Replayed
  <2> QED
    BY <1>1, <2>2, <2>3, <2>4, <2>5, Zenon DEF Inv, RecordsReplay
<1>3. CASE \E k \in Mementos, i \in 0..1 : Evict(k, i)
  BY <1>1, <1>3, EvictReplay, Zenon DEF Inv
<1> QED
  BY <1>1, <1>2, <1>3, PeekReplay, RunReplay, WriteValReplay, FlushValReplay,
     WriteTsReplay, FlushReplay, ThreadCrashReplay, SystemCrashReplay, Zenon DEF Next, Step, Inv

\* Cleared mementos replay to an execution that has not begun.
LEMMA ReplayInitially == Init => Inv
<1> SUFFICES ASSUME Init PROVE Inv
  BY Zenon
<1>1. TypeOK
  BY ProgramAssumption, FaultAssumption
     DEF Init, TypeOK, ReplayInit, Cleared, Slot, Mementos
<1>2. /\ \A k \in Mementos, i \in 0..1 : slot[k][i] = [val |-> NoVal, ts |-> 0]
      /\ pslot = slot
      /\ lts = 0 /\ llast = 0 /\ lpc = 1 /\ at = 1 /\ rec = TRUE /\ pc = "call"
      /\ lmax = 0 /\ clock = 0
  BY Zenon DEF Init, Cleared, ReplayInit
<1>3. \A k \in Mementos : LatestOf(slot)[k] = [val |-> NoVal, ts |-> 0]
  BY <1>2 DEF LatestOf, latest, latest_idx
<1>4. ~Pending(LatestOf(slot)) /\ \A k : ~Replayed(LatestOf(slot), k)
  BY <1>2, <1>3 DEF Pending, Replayed
<1>5. Good(LatestOf(slot)) /\ Good(LatestOf(pslot))
  <2>1. \A k \in Mementos : LatestOf(slot)[k].ts <= lts
    BY <1>2, <1>3
  <2>2. ~(llast > 0)
    BY <1>2
  <2>3. Good(LatestOf(slot))
    BY <1>4, <2>1, <2>2, Zenon DEF Good
  <2> QED
    BY <1>2, <2>3, Zenon
<1>6. ThreadState
  BY <1>2, <1>4, Zenon DEF ThreadState, CaughtUp
<1>7. MemoryState
  BY <1>2, <1>5, Zenon DEF MemoryState
<1>8. LogicalOrder /\ ReplayRebuildsLocals /\ ClockAheadOfSlots /\ lts <= clock
  BY <1>2 DEF LogicalOrder, ReplayRebuildsLocals, ClockAheadOfSlots, Mementos
<1> QED
  BY <1>1, <1>5, <1>6, <1>7, <1>8, Zenon DEF Inv, RecordsReplay

(***************************************************************************)
(* The records a crash leaves behind replay to the logical execution: the  *)
(* inductive invariant of checkpoint() under any number of thread crashes, *)
(* or any number of system crashes.                                        *)
(***************************************************************************)
THEOREM RecordsAlwaysReplay == ~Mixed /\ Spec => []RecordsReplay
<1> SUFFICES ASSUME ~Mixed PROVE Spec => []RecordsReplay
  BY Zenon
<1>1. Inv => RecordsReplay
  BY Zenon DEF Inv
<1>2. Inv /\ [Next]_vars => Inv'
  BY ReplayStep, Zenon
<1> QED
  BY <1>1, <1>2, ReplayInitially, PTL DEF Spec

\* rec only turns false at the memento whose result is due.
THEOREM ResumeIsExact == ~Mixed /\ Spec => []ResumesWhereItStopped
<1>1. RecordsReplay => ResumesWhereItStopped
  <2> SUFFICES ASSUME RecordsReplay, ~rec PROVE at = lpc
    BY Zenon DEF ResumesWhereItStopped
  <2>1. CASE pc = "flush"
    BY <2>1, Zenon DEF RecordsReplay, ThreadState
  <2>2. CASE pc # "flush"
    BY <2>2, Zenon DEF RecordsReplay, ThreadState, CaughtUp
  <2> QED
    BY <2>1, <2>2, Zenon
<1> QED
  BY <1>1, RecordsAlwaysReplay, PTL

\* A re-executed thread sees the results its crashed incarnations saw.
THEOREM LocalsAreRebuilt == ~Mixed /\ Spec => []ReplayRebuildsLocals
<1>1. RecordsReplay => ReplayRebuildsLocals
  BY Zenon DEF RecordsReplay
<1> QED
  BY <1>1, RecordsAlwaysReplay, PTL

\* exec_time exceeds every recorded time, across all reopenings of the pool.
THEOREM ClockStaysAhead == ~Mixed /\ Spec => []ClockAheadOfSlots
<1>1. RecordsReplay => ClockAheadOfSlots
  BY Zenon DEF RecordsReplay
<1> QED
  BY <1>1, RecordsAlwaysReplay, PTL

\* A step obtains the due result, or is invisible to the logical execution.
LEMMA StepRefines == Inv /\ [Next]_vars => [ReplayNext]_<<lpc, lenv>>
<1> SUFFICES ASSUME Inv, [Next]_vars PROVE [ReplayNext]_<<lpc, lenv>>
  BY Zenon
<1>1. CASE Peek
  <2>1. PICK L \in [Mementos -> Slot] : L = LatestOf(slot)
    BY LatestOfType, Zenon DEF Inv
  <2>2. at \in Mementos /\ L[at] = latest(slot[at]) /\ L[at].ts \in Nat /\ lts \in Nat
    BY <1>1, <2>1, LatestOfType, Zenon DEF Peek, LatestOf, Inv, TypeOK
  <2>3. CASE L[at].ts > lts
    <3>1. Good(L)
      BY <2>1, Zenon DEF Inv, RecordsReplay
    <3>a. \A k \in Mementos : k # lpc => L[k].ts <= lts
      BY <3>1, Zenon DEF Good
    <3>2. at = lpc
      BY <2>2, <2>3, <3>a
    <3>3. Pending(L)
      BY <2>2, <2>3, <3>2, Zenon DEF Pending
    <3>4. L[lpc].val \in Vals
      BY <3>1, <3>3, Zenon DEF Good
    <3>5. Obtain(L[lpc].val)
      BY <1>1, <2>2, <2>3, <3>2, Zenon DEF Peek, Log, Obtain
    <3> QED
      BY <3>4, <3>5, Zenon DEF ReplayNext
  <2>4. CASE ~(L[at].ts > lts)
    BY <1>1, <2>2, <2>4, Zenon DEF Peek, logical
  <2> QED
    BY <2>3, <2>4, Zenon
<1>2. CASE Flush
  <2>1. at \in Mementos /\ at = lpc /\ new \in Vals
    BY <1>2, Writing, Zenon DEF Flush
  <2>2. Obtain(new)
    BY <1>2, <2>1, Zenon DEF Flush, Log, Obtain
  <2> QED
    BY <2>1, <2>2, Zenon DEF ReplayNext
<1>3. CASE Run \/ WriteVal \/ FlushVal \/ WriteTs
  BY <1>3, Zenon DEF Run, WriteVal, FlushVal, WriteTs, logical
<1>4. CASE (\E k \in Mementos, i \in 0..1 : Evict(k, i)) \/ ThreadCrash \/ SystemCrash
  BY <1>4, Zenon DEF Evict, ThreadCrash, SystemCrash, logical
<1>5. CASE UNCHANGED vars
  BY <1>5, Zenon DEF vars, logical
<1> QED
  BY <1>1, <1>2, <1>3, <1>4, <1>5, Zenon DEF Next, Step

(***************************************************************************)
(* checkpoint() implements deterministic replay: whatever crashes of one   *)
(* kind happen, each logical result is computed once and in order.         *)
(***************************************************************************)
THEOREM CheckpointRefinesReplay == ~Mixed /\ Spec => ReplaySpec
<1> SUFFICES ASSUME ~Mixed PROVE Spec => ReplaySpec
  BY Zenon
<1>1. Init => ReplayInit
  BY Zenon DEF Init
<1>2. Inv /\ [Next]_vars => Inv'
  BY ReplayStep, Zenon
<1> QED
  BY <1>1, <1>2, ReplayInitially, StepRefines, PTL DEF Spec, ReplaySpec
=============================================================================
