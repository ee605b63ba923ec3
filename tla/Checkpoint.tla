----------------------------- MODULE Checkpoint -----------------------------
(***************************************************************************)
(* One thread running a program of Checkpoint mementos                     *)
(* (src/ploc/checkpoint.rs) under the clock of ExecInfo                    *)
(* (src/ploc/common.rs), with thread crashes (the memento is re-executed   *)
(* over the surviving cache) and system crashes (only what reached         *)
(* persistent memory survives, Pool::open rebuilds the clock).             *)
(***************************************************************************)
EXTENDS Replay

CONSTANTS
    OneLine,           \* the mementos whose (T, Timestamp) fits a cache line
    MaxTime,           \* bound on exec_time
    MaxThreadCrashes,  \* bound on thread crashes
    MaxSystemCrashes,  \* bound on system crashes
    Mixed              \* a system crash may come after a thread crash

ASSUME FaultAssumption ==
    /\ OneLine \subseteq Mementos
    /\ MaxTime \in Nat
    /\ MaxThreadCrashes \in Nat
    /\ MaxSystemCrashes \in Nat
    /\ Mixed \in BOOLEAN

VARIABLES
    slot,     \* saved[2] of each memento, as the caches show it
    pslot,    \* the same, as persistent memory holds it
    clock,    \* the last exec_time
    rec,      \* Handle.rec
    lmax,     \* Handle.local_max_time
    at,       \* memento the thread is at; N+1 when the program has ended
    env,      \* the results the running incarnation got, its local variables
    pc,       \* place inside checkpoint()
    new,      \* val_func's result
    idx,      \* the stale slot being overwritten
    t,        \* the time of the running checkpoint
    tcrash,   \* thread crashes so far
    scrash,   \* system crashes so far
    lts,      \* history: the time of the last logical result
    llast     \* history: the memento of the last logical result, 0 at first

local == <<rec, lmax, at, env, pc, new, idx, t>>
faults == <<tcrash, scrash>>
logical == <<lpc, lenv, lts, llast>>
vars == <<slot, pslot, clock, local, faults, logical>>

Slot == [val : Vals \cup {NoVal}, ts : Nat]

Cleared == [i \in 0..1 |-> [val |-> NoVal, ts |-> 0]]

-----------------------------------------------------------------------------

\* Variant: the latest slot is taken for the stale one.
stale_idx_swapped(s) == IF s[0].ts < s[1].ts THEN 1 ELSE 0

stale_idx(s) == IF s[0].ts < s[1].ts THEN 0 ELSE 1
latest_idx(s) == IF s[0].ts < s[1].ts THEN 1 ELSE 0
latest(s) == s[latest_idx(s)]

\* Variant: a record as old as the last one replayed is accepted.
is_valid_lax(k) == latest(slot[k]).ts >= lmax

is_valid(k) == latest(slot[k]).ts > lmax

\* Variant: the offset is subtracted instead of added.
exec_time_behind == clock - 1

exec_time == clock + 1

\* Slot i of memento k becomes r.
Put(s, k, i, r) == [s EXCEPT ![k] = [@ EXCEPT ![i] = r]]

\* History: memento k obtained v at time ts.
Log(k, v, ts) ==
    /\ lenv' = [lenv EXCEPT ![k] = v]
    /\ lpc' = After(k, v)
    /\ lts' = ts
    /\ llast' = k

\* checkpoint() returns v to the program.
Return(v) ==
    /\ env' = [env EXCEPT ![at] = v]
    /\ at' = After(at, v)
    /\ pc' = "call"

\* Variant: local_max_time survives the crash.
Restart_keeping_lmax ==
    /\ rec' = TRUE
    /\ lmax' = lmax
    /\ at' = 1
    /\ env' = [k \in Mementos |-> NoVal]
    /\ pc' = "call"
    /\ new' = NoVal
    /\ idx' = 0
    /\ t' = 0

\* What a new incarnation of the thread starts with (Handle::new).
Restart ==
    /\ rec' = TRUE
    /\ lmax' = 0
    /\ at' = 1
    /\ env' = [k \in Mementos |-> NoVal]
    /\ pc' = "call"
    /\ new' = NoVal
    /\ idx' = 0
    /\ t' = 0

-----------------------------------------------------------------------------

Init ==
    /\ slot = [k \in Mementos |-> Cleared]
    /\ pslot = slot
    /\ clock = 0
    /\ rec = TRUE
    /\ lmax = 0
    /\ at = 1
    /\ env = [k \in Mementos |-> NoVal]
    /\ pc = "call"
    /\ new = NoVal
    /\ idx = 0
    /\ t = 0
    /\ tcrash = 0
    /\ scrash = 0
    /\ lts = 0
    /\ llast = 0
    /\ ReplayInit

\* A recovering thread takes the recorded result of the memento it is at.
Peek ==
    /\ pc = "call"
    /\ at \in Mementos
    /\ rec
    /\ is_valid(at)
    /\ LET l == latest(slot[at]) IN
        /\ lmax' = l.ts
        /\ Return(l.val)
        /\ IF l.ts > lts THEN Log(at, l.val, l.ts) ELSE UNCHANGED logical
    /\ UNCHANGED <<slot, pslot, clock, rec, new, idx, t, faults>>

\* Otherwise recovery is over, val_func runs and the time is taken.
Run ==
    /\ pc = "call"
    /\ at \in Mementos
    /\ ~(rec /\ is_valid(at))
    /\ clock < MaxTime
    /\ rec' = FALSE
    /\ new' \in Vals
    /\ idx' = stale_idx(slot[at])
    /\ t' = exec_time
    /\ clock' = exec_time
    /\ pc' = "val"
    /\ UNCHANGED <<slot, pslot, lmax, at, env, faults, logical>>

WriteVal ==
    /\ pc = "val"
    /\ slot' = Put(slot, at, idx, [slot[at][idx] EXCEPT !.val = new])
    /\ pc' = IF at \in OneLine THEN "ts" ELSE "flushval"
    /\ UNCHANGED <<pslot, clock, rec, lmax, at, env, new, idx, t, faults, logical>>

\* Variant: the value of a large T is not flushed before its time is written.
FlushVal_skipped ==
    /\ pc = "flushval"
    /\ pc' = "ts"
    /\ UNCHANGED <<slot, pslot, clock, rec, lmax, at, env, new, idx, t, faults, logical>>

FlushVal ==
    /\ pc = "flushval"
    /\ pslot' = Put(pslot, at, idx, [pslot[at][idx] EXCEPT !.val = slot[at][idx].val])
    /\ pc' = "ts"
    /\ UNCHANGED <<slot, clock, rec, lmax, at, env, new, idx, t, faults, logical>>

WriteTs ==
    /\ pc = "ts"
    /\ slot' = Put(slot, at, idx, [slot[at][idx] EXCEPT !.ts = t])
    /\ pc' = "flush"
    /\ UNCHANGED <<pslot, clock, rec, lmax, at, env, new, idx, t, faults, logical>>

\* Variant: checkpoint() returns without persisting the slot.
Flush_unpersisted ==
    /\ pc = "flush"
    /\ lmax' = t
    /\ Return(new)
    /\ Log(at, new, t)
    /\ UNCHANGED <<slot, pslot, clock, rec, new, idx, t, faults>>

\* The closing persist_obj with its fence, local_max_time and the return.
Flush ==
    /\ pc = "flush"
    /\ pslot' = Put(pslot, at, idx, slot[at][idx])
    /\ lmax' = t
    /\ Return(new)
    /\ Log(at, new, t)
    /\ UNCHANGED <<slot, clock, rec, new, idx, t, faults>>

\* The cache writes a dirty line back on its own.
Evict(k, i) ==
    /\ slot[k][i] # pslot[k][i]
    /\ \/ /\ k \in OneLine
          /\ pslot' = Put(pslot, k, i, slot[k][i])
       \/ /\ k \notin OneLine
          /\ pslot' = Put(pslot, k, i, [pslot[k][i] EXCEPT !.val = slot[k][i].val])
       \/ /\ k \notin OneLine
          /\ pslot' = Put(pslot, k, i, [pslot[k][i] EXCEPT !.ts = slot[k][i].ts])
    /\ UNCHANGED <<slot, clock, local, faults, logical>>

\* The thread dies; PoolHandle::execute re-executes its memento.
ThreadCrash ==
    /\ tcrash < MaxThreadCrashes
    /\ tcrash' = tcrash + 1
    /\ Restart
    /\ UNCHANGED <<slot, pslot, clock, scrash, logical>>

\* Variant: set_info is forgotten and the clock starts over.
SystemCrash_clock_reset ==
    /\ scrash < MaxSystemCrashes
    /\ Mixed \/ tcrash = 0
    /\ scrash' = scrash + 1
    /\ slot' = pslot
    /\ clock' = 0
    /\ Restart
    /\ UNCHANGED <<pslot, tcrash, logical>>

\* Power is lost; Pool::open runs the filters, which find the largest
\* checkpoint time, and set_info makes the clock go on from there.
SystemCrash ==
    /\ scrash < MaxSystemCrashes
    /\ Mixed \/ tcrash = 0
    /\ scrash' = scrash + 1
    /\ slot' = pslot
    /\ \E g \in {latest(pslot[k]).ts : k \in Mementos} :
        /\ \A k \in Mementos : latest(pslot[k]).ts <= g
        /\ clock' = g
    /\ Restart
    /\ UNCHANGED <<pslot, tcrash, logical>>

Step == Peek \/ Run \/ WriteVal \/ FlushVal \/ WriteTs \/ Flush

Next ==
    \/ Step
    \/ \E k \in Mementos, i \in 0..1 : Evict(k, i)
    \/ ThreadCrash
    \/ SystemCrash

Spec == Init /\ [][Next]_vars

\* A live thread keeps running; crashes and evictions just happen.
FairSpec == Spec /\ WF_vars(Step)

-----------------------------------------------------------------------------

\* The types of the thread's, the cache's and the history's state.
TypeOK ==
    /\ slot \in [Mementos -> [0..1 -> Slot]]
    /\ pslot \in [Mementos -> [0..1 -> Slot]]
    /\ clock \in Nat
    /\ rec \in BOOLEAN
    /\ lmax \in Nat
    /\ at \in 1..(N + 1)
    /\ env \in [Mementos -> Vals \cup {NoVal}]
    /\ pc \in {"call", "val", "flushval", "ts", "flush"}
    /\ pc # "call" => at \in Mementos
    /\ new \in Vals \cup {NoVal}
    /\ idx \in 0..1
    /\ t \in Nat
    /\ tcrash \in 0..MaxThreadCrashes
    /\ scrash \in 0..MaxSystemCrashes
    /\ lpc \in 1..(N + 1)
    /\ lenv \in [Mementos -> Vals \cup {NoVal}]
    /\ lts \in Nat
    /\ llast \in 0..N

(***************************************************************************)
(* checkpoint() invokes val_func only for the result that is due: when     *)
(* replay ends (rec turns false) the thread is exactly where the logical   *)
(* execution stopped, so nothing is executed twice and nothing is skipped. *)
(***************************************************************************)
ResumesWhereItStopped == ~rec => at = lpc

(***************************************************************************)
(* The local variables a re-executed thread rebuilds from peek() are the   *)
(* ones the logical execution had at that point, in the prologue and in    *)
(* the current round of the retry loop.                                    *)
(***************************************************************************)
ReplayRebuildsLocals ==
    \A k \in Mementos : k < at => env[k] = lenv[k]

(***************************************************************************)
(* The time a checkpoint gets exceeds every time stored in any slot, also  *)
(* after Pool::open restarted the clock from the filters' maximum; else    *)
(* stale_latest_idx and is_valid would pick an overwritten result.         *)
(***************************************************************************)
ClockAheadOfSlots ==
    \A k \in Mementos, i \in 0..1 :
        slot[k][i].ts <= clock /\ pslot[k][i].ts <= clock

(***************************************************************************)
(* Recovery ends: replay cannot go round the retry loop forever on         *)
(* recorded results, because every peek needs a time above the last one.   *)
(* (MaxTime only ends the model.)                                          *)
(***************************************************************************)
RecoveryEnds == rec ~> (~rec \/ at = N + 1 \/ clock = MaxTime)

(***************************************************************************)
(* A result on which a later durable result was built is never computed    *)
(* again: while the prologue runs val_func nothing after it is durable.    *)
(***************************************************************************)
PrologueRunsOnce ==
    (pc = "val" /\ at < Loop) =>
        \A k \in Mementos : k > at => latest(pslot[k]).ts = 0

-----------------------------------------------------------------------------
(***************************************************************************)
(* The inductive invariant behind the properties above.  L gives the       *)
(* latest slot of every memento, in the cache or in persistent memory.     *)
(***************************************************************************)

\* The due result is recorded already, but no incarnation has returned it.
Pending(L) == lpc \in Mementos /\ L[lpc].ts > lts

\* The recorded result of k is one that replay has to return again.
Replayed(L, k) == k \in 1..llast /\ (Pending(L) => k < lpc)

\* The records are in the order, and hold the values, of the logical results.
Good(L) ==
    /\ \A k \in Mementos : k # lpc => L[k].ts <= lts
    /\ \A i, j \in Mementos : i < j /\ Replayed(L, j) => L[i].ts < L[j].ts
    /\ \A k \in Mementos : Replayed(L, k) => L[k].ts > 0 /\ L[k].val = lenv[k]
    /\ Pending(L) => L[lpc].val \in Vals
    /\ llast > 0 /\ ~Pending(L) => L[llast].ts = lts

LatestOf(s) == [k \in Mementos |-> latest(s[k])]

LogicalOrder ==
    \/ llast = 0 /\ lts = 0 /\ lpc = 1
    \/ llast > 0 /\ lts > 0 /\ lpc = After(llast, lenv[llast])

\* A recovering thread is on its way through the replayed records ...
OnTheWay(L) ==
    /\ at \in Mementos
    /\ \A k \in 1..(at - 1) : Replayed(L, k)
    /\ IF Pending(L) THEN at <= lpc ELSE at <= llast
    /\ lmax = IF at = 1 THEN 0 ELSE L[at - 1].ts

\* ... or has consumed them all.
CaughtUp(L) == ~Pending(L) /\ at = lpc /\ lmax = lts

ThreadState ==
    LET L == LatestOf(slot) IN
    /\ rec => pc = "call" /\ (OnTheWay(L) \/ CaughtUp(L))
    /\ ~rec /\ pc # "flush" => CaughtUp(L)
    /\ pc # "call" =>
        /\ at \in Mementos
        /\ at = lpc
        /\ new \in Vals
        /\ t = clock
        /\ t > lts
    /\ pc \in {"val", "flushval", "ts"} =>
        /\ idx = stale_idx(slot[at])
        /\ \A k \in Mementos, i \in 0..1 : slot[k][i].ts < t
    /\ pc \in {"flushval", "ts", "flush"} => slot[at][idx].val = new
    /\ pc = "flush" =>
        /\ slot[at][idx].ts = t
        /\ slot[at][1 - idx].ts < t
    /\ pc = "flushval" => at \notin OneLine

\* The cache differs from memory only in the slot being written.
MemoryState ==
    /\ \A k \in Mementos, i \in 0..1 :
        slot[k][i] # pslot[k][i] => pc # "call" /\ k = at /\ i = idx
    /\ pc \in {"val", "flushval", "ts"} => pslot[at][idx].ts = slot[at][idx].ts
    /\ pc \in {"ts", "flush"} /\ at \notin OneLine => pslot[at][idx].val = new
    /\ pc = "flush" =>
        \/ pslot[at][idx] = slot[at][idx]
        \/ /\ pslot[at][idx].ts < t
           /\ pslot[at][idx].ts <= slot[at][1 - idx].ts
    /\ Good(LatestOf(pslot))

(***************************************************************************)
(* Between any two steps of checkpoint(), a crash and an eviction, the     *)
(* records in the cache, and before the first thread crash also those in   *)
(* persistent memory, replay to the logical execution.  (A thread crash    *)
(* leaves an unflushed record behind, which a system crash takes away.)    *)
(***************************************************************************)
RecordsReplay ==
    /\ LogicalOrder
    /\ lts <= clock
    /\ ClockAheadOfSlots
    /\ Good(LatestOf(slot))
    /\ ThreadState
    /\ tcrash = 0 => MemoryState
    /\ ReplayRebuildsLocals
=============================================================================
