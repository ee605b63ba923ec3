----------------------------- MODULE Combining -----------------------------
(***************************************************************************)
(* Detectable combining (src/ds/comb.rs): threads announce requests, the   *)
(* holder of CombiningLock serves them all on a private copy of the        *)
(* state, commits the copy by one pointer store and unlocks.  A crashed    *)
(* combiner keeps the lock and finishes the combine when re-executed.      *)
(* The sequential object is a log; serving a request appends it and        *)
(* returns its position (sfunc of the queue: enqueue_raw, dequeue_raw).    *)
(***************************************************************************)
EXTENDS Integers, Sequences, FiniteSets

CONSTANTS
    Threads,           \* 1..n, served in this order
    Rounds,            \* COMBINING_ROUNDS
    Scenarios          \* ops[t]: number of operations t performs; tcrash[t], scrash: bounds on the crashes

ASSUME CombAssumption ==
    /\ Cardinality(Threads) \in Nat /\ Threads = 1..Cardinality(Threads)
    /\ Rounds \in Nat \ {0}
    /\ \A z \in Scenarios : \A t \in Threads : z.ops[t] \in Nat \ {0}

VARIABLES
    scenario,
    request,   \* request[t]: arg and activate, in cached persistent memory
    state,     \* state[r]: the state records; <<t, 0>> and <<t, 1>> are t's
    pstate,    \* the record that is the stable state
    index,     \* index[t]: the record t copies to next
    lock,      \* CombiningLock: tid of the holder, record of the last combine
    chk,       \* chk[t][i]: activate as checkpointed for operation i, 0 if not
    retval,    \* retval[t][i]: return_val of operation i's memento
    disk,      \* the first four as a power failure would leave them
    th,        \* local state of the threads
    tcrash,
    scrash,
    res        \* history: res[t][i], what operation i returned

vars == <<scenario, request, state, pstate, index, lock, chk, retval, disk, th, tcrash, scrash, res>>
crashes == <<tcrash, scrash, scenario>>

Ops(t) == 1..scenario.ops[t]
First == <<0, 0>>   \* the record CombStruct starts with
Records == {First} \cup (Threads \X (0..1))
Fresh == [data |-> <<>>, ret |-> [t \in Threads |-> 0], deact |-> [t \in Threads |-> 0]]

Null == <<>>        \* PTR_NULL
NoResult == -1      \* the call has not returned
Free(r) == [tid |-> 0, ptr |-> r]
Held(t) == [tid |-> t, ptr |-> Null]

\* Persistent memory as the caches show it.  How it stands on the media is
\* kept only while a power failure is still to come.
Cached == [request |-> request, state |-> state, pstate |-> pstate, index |-> index]
Durable == scrash < scenario.scrash

Start == [pc |-> "activate", i |-> 1, rec |-> TRUE, act |-> 0, cur |-> Free(Null),
          u |-> 0, ta |-> 0, round |-> 0, served |-> FALSE, ret |-> 0]

Init ==
    /\ scenario \in Scenarios
    /\ request = [t \in Threads |-> [arg |-> 0, activate |-> 0]]
    /\ state = [r \in Records |-> Fresh]
    /\ pstate = First
    /\ index = [t \in Threads |-> 0]
    /\ lock = Free(Null)
    /\ chk = [t \in Threads |-> [i \in Ops(t) |-> 0]]
    /\ retval = [t \in Threads |-> [i \in Ops(t) |-> 0]]
    /\ disk = Cached
    /\ th = [t \in Threads |-> Start]
    /\ tcrash = [t \in Threads |-> 0]
    /\ scrash = 0
    /\ res = [t \in Threads |-> [i \in Ops(t) |-> NoResult]]

-----------------------------------------------------------------------------
\* apply_op.

Goto(t, pc) == th' = [th EXCEPT ![t].pc = pc]

Return(t, v) ==
    /\ res' = [res EXCEPT ![t][th[t].i] = v]
    /\ th' = [th EXCEPT ![t] = [Start EXCEPT !.i = th[t].i + 1, !.rec = th[t].rec,
                     !.pc = IF th[t].i = scenario.ops[t] THEN "done" ELSE "activate"]]

\* chk_activate: replayed when it is on record, else the next number.
Activate(t) ==
    /\ th[t].pc = "activate"
    /\ LET c == chk[t][th[t].i]
           a == request[t].activate + 1 IN
        \/ /\ th[t].rec /\ c > 0
           /\ th' = [th EXCEPT ![t].act = c, ![t].pc = "recover"]
           /\ UNCHANGED chk
        \/ /\ ~(th[t].rec /\ c > 0)
           /\ chk' = [chk EXCEPT ![t][th[t].i] = a]
           /\ th' = [th EXCEPT ![t].rec = FALSE, ![t].act = a, ![t].pc = "register"]
    /\ UNCHANGED <<request, state, pstate, index, lock, retval, disk, crashes, res>>

\* Performed last, and no combine of t is left to be finalized.
finalized(t) == th[t].act = state[pstate].deact[t] /\ lock.tid # t

\* Was the request performed before the crash?
Recover(t) ==
    /\ th[t].pc = "recover"
    /\ LET s == state[pstate]
           act == th[t].act IN
        \/ /\ act < s.deact[t]
           /\ Return(t, retval[t][th[t].i])
        \/ /\ finalized(t)
           /\ th' = [th EXCEPT ![t].ret = s.ret[t], ![t].pc = "backup"]
           /\ UNCHANGED res
        \/ /\ ~(act < s.deact[t]) /\ ~finalized(t)
           /\ IF act < request[t].activate
              THEN Return(t, retval[t][th[t].i])
              ELSE /\ th' = [th EXCEPT ![t].rec = FALSE, ![t].pc = "register"]
                   /\ UNCHANGED res
    /\ UNCHANGED <<request, state, pstate, index, lock, chk, retval, disk, crashes>>

RegisterArg(t) ==
    /\ th[t].pc = "register"
    /\ request' = [request EXCEPT ![t].arg = th[t].i]
    /\ Goto(t, "announce")
    /\ UNCHANGED <<state, pstate, index, lock, chk, retval, disk, crashes, res>>

Register(t) ==
    /\ th[t].pc = "announce"
    /\ request' = [request EXCEPT ![t].activate = th[t].act]
    /\ Goto(t, "lock")
    /\ UNCHANGED <<state, pstate, index, lock, chk, retval, disk, crashes, res>>

\* try_lock: the load, and the CAS from what was loaded.
TryLock(t) ==
    /\ th[t].pc = "lock"
    /\ \/ lock.tid = t /\ Goto(t, "ready")
       \/ lock.tid \notin {0, t} /\ Goto(t, "peek")
       \/ lock.tid = 0 /\ th' = [th EXCEPT ![t].cur = lock, ![t].pc = "acquire"]
    /\ UNCHANGED <<request, state, pstate, index, lock, chk, retval, disk, crashes, res>>

\* Variant: the lock is stored to instead of swapped.
unmoved_always(t) == TRUE

\* Variant: the outcome of the swap is taken the wrong way round.
unmoved_inverted(t) == lock # th[t].cur

unmoved(t) == lock = th[t].cur

Acquire(t) ==
    /\ th[t].pc = "acquire"
    /\ \/ unmoved(t) /\ lock' = Held(t) /\ Goto(t, "ready")
       \/ ~unmoved(t) /\ UNCHANGED lock /\ Goto(t, "peek")
    /\ UNCHANGED <<request, state, pstate, index, chk, retval, disk, crashes, res>>

-----------------------------------------------------------------------------
\* do_non_combine: wait for the unlock, look into the record it names.

\* Variant: the loop around peek is left at once.
released_anyway == TRUE

released == lock.tid = 0

Peek(t) ==
    /\ th[t].pc = "peek"
    /\ released
    /\ th' = [th EXCEPT ![t].cur = lock, ![t].pc = "check"]
    /\ UNCHANGED <<request, state, pstate, index, lock, chk, retval, disk, crashes, res>>

Check(t) ==
    /\ th[t].pc = "check"
    /\ th[t].cur.ptr # Null
    /\ Goto(t, IF request[t].activate <= state[th[t].cur.ptr].deact[t] THEN "take" ELSE "lock")
    /\ UNCHANGED <<request, state, pstate, index, lock, chk, retval, disk, crashes, res>>

Take(t) ==
    /\ th[t].pc = "take"
    /\ th' = [th EXCEPT ![t].ret = state[th[t].cur.ptr].ret[t], ![t].pc = "backup"]
    /\ UNCHANGED <<request, state, pstate, index, lock, chk, retval, disk, crashes, res>>

\* backup_retval persists the result in the memento, then the call returns.
Backup(t) ==
    /\ th[t].pc = "backup"
    /\ retval' = [retval EXCEPT ![t][th[t].i] = th[t].ret]
    /\ Return(t, th[t].ret)
    /\ UNCHANGED <<request, state, pstate, index, lock, chk, disk, crashes>>

-----------------------------------------------------------------------------
\* do_combine.

Mine(t) == <<t, index[t]>>

\* Variant: a combiner goes on from its own last state.
latest_own(t) == state[<<t, 1 - index[t]>>]

latest(t) == state[pstate]

\* The record is overwritten by a copy of the stable state.  The copy is a
\* plain assignment: a concurrent reader may see either array first.
CopyPart(t, parts) ==
    LET r == state[Mine(t)] IN
    state' = [state EXCEPT ![Mine(t)] =
                 [data |-> latest(t).data,
                  ret |-> IF "ret" \in parts THEN latest(t).ret ELSE r.ret,
                  deact |-> IF "deact" \in parts THEN latest(t).deact ELSE r.deact]]

Ready(t) ==
    /\ th[t].pc = "ready"
    /\ \/ CopyPart(t, {"ret"})
       \/ CopyPart(t, {"deact"})
    /\ Goto(t, "copy")
    /\ UNCHANGED <<request, pstate, index, lock, chk, retval, disk, crashes, res>>

Copy(t) ==
    /\ th[t].pc = "copy"
    /\ CopyPart(t, {"ret", "deact"})
    /\ th' = [th EXCEPT ![t].u = 1, ![t].round = 1, ![t].served = FALSE, ![t].pc = "serve"]
    /\ UNCHANGED <<request, pstate, index, lock, chk, retval, disk, crashes, res>>

\* The next request to look at: the next thread, the next round, or none.
Advance(t, served) ==
    LET l == th[t] IN
    th' = [th EXCEPT ![t] =
        IF l.u < Cardinality(Threads) THEN [l EXCEPT !.u = l.u + 1, !.served = served, !.pc = "serve"]
        ELSE IF served /\ l.round < Rounds
        THEN [l EXCEPT !.u = 1, !.round = l.round + 1, !.served = FALSE, !.pc = "serve"]
        ELSE [l EXCEPT !.u = 0, !.round = 0, !.served = FALSE, !.pc = "persist"]]

\* Variant: a request that is served already counts as active.
active_still(t, u) ==
    request[u].activate > 0 /\ request[u].activate >= state[Mine(t)].deact[u]

active(t, u) == request[u].activate > state[Mine(t)].deact[u]

Serve(t) ==
    /\ th[t].pc = "serve"
    /\ LET u == th[t].u IN
        IF active(t, u)
        THEN /\ state' = [state EXCEPT
                    ![Mine(t)].data = Append(state[Mine(t)].data, [by |-> u, i |-> request[u].arg]),
                    ![Mine(t)].ret[u] = Len(state[Mine(t)].data) + 1]
             /\ th' = [th EXCEPT ![t].ta = request[u].activate, ![t].pc = "deactivate"]
        ELSE /\ UNCHANGED state
             /\ Advance(t, th[t].served)
    /\ UNCHANGED <<request, pstate, index, lock, chk, retval, disk, crashes, res>>

Deactivate(t) ==
    /\ th[t].pc = "deactivate"
    /\ state' = [state EXCEPT ![Mine(t)].deact[th[t].u] = th[t].ta]
    /\ Advance(t, TRUE)
    /\ UNCHANGED <<request, pstate, index, lock, chk, retval, disk, crashes, res>>

Flushed(t) == [disk.state EXCEPT ![Mine(t)] = state[Mine(t)]]

\* final_func and the persist_obj of the record.
Persist(t) ==
    /\ th[t].pc = "persist"
    /\ disk' = IF Durable THEN [disk EXCEPT !.state = Flushed(t)] ELSE disk
    /\ Goto(t, "commit")
    /\ UNCHANGED <<request, state, pstate, index, lock, chk, retval, crashes, res>>

Commit(t) ==
    /\ th[t].pc = "commit"
    /\ pstate' = Mine(t)
    /\ Goto(t, "flush")
    /\ UNCHANGED <<request, state, index, lock, chk, retval, disk, crashes, res>>

FlushCommit(t) ==
    /\ th[t].pc = "flush"
    /\ disk' = IF Durable THEN [disk EXCEPT !.pstate = pstate] ELSE disk
    /\ Goto(t, "flip")
    /\ UNCHANGED <<request, state, pstate, index, lock, chk, retval, crashes, res>>

other(ind) == 1 - ind

Flip(t) ==
    /\ th[t].pc = "flip"
    /\ index' = [index EXCEPT ![t] = other(index[t])]
    /\ Goto(t, "unlock")
    /\ UNCHANGED <<request, state, pstate, lock, chk, retval, disk, crashes, res>>

\* The record of this combine is the one that is not next.
Unlock(t) ==
    /\ th[t].pc = "unlock"
    /\ LET r == <<t, 1 - index[t]>> IN
        /\ lock' = Free(r)
        /\ th' = [th EXCEPT ![t].ret = state[r].ret[t], ![t].pc = "backup"]
    /\ UNCHANGED <<request, state, pstate, index, chk, retval, disk, crashes, res>>

-----------------------------------------------------------------------------

\* The thread dies and is re-executed; the lock word keeps its name.
ThreadCrash(t) ==
    /\ th[t].pc # "done"
    /\ tcrash[t] < scenario.tcrash[t]
    /\ tcrash' = [tcrash EXCEPT ![t] = @ + 1]
    /\ th' = [th EXCEPT ![t] = Start]
    /\ UNCHANGED <<request, state, pstate, index, lock, chk, retval, disk, scrash, scenario, res>>

\* The cache writes a line back on its own; a record takes several lines.
WriteBack ==
    /\ Durable
    /\ \/ \E t \in Threads : disk' = [disk EXCEPT !.request[t] = request[t]]
       \/ \E t \in Threads : disk' = [disk EXCEPT !.index[t] = index[t]]
       \/ \E r \in Records, f \in {"data", "ret", "deact"} :
            disk' = [disk EXCEPT !.state[r][f] = state[r][f]]
       \/ disk' = [disk EXCEPT !.pstate = pstate]
    /\ disk' # disk
    /\ UNCHANGED <<request, state, pstate, index, lock, chk, retval, th, crashes, res>>

\* Power fails: the program goes on from the media, with a new static lock.
SystemCrash ==
    /\ Durable
    /\ scrash' = scrash + 1
    /\ request' = disk.request
    /\ state' = disk.state
    /\ pstate' = disk.pstate
    /\ index' = disk.index
    /\ lock' = Free(Null)
    /\ th' = [t \in Threads |-> Start]
    /\ UNCHANGED <<disk, chk, retval, tcrash, scenario, res>>

Step(t) ==
    \/ Activate(t) \/ Recover(t) \/ RegisterArg(t) \/ Register(t)
    \/ TryLock(t) \/ Acquire(t) \/ Peek(t) \/ Check(t) \/ Take(t) \/ Backup(t)
    \/ Ready(t) \/ Copy(t) \/ Serve(t) \/ Deactivate(t) \/ Persist(t)
    \/ Commit(t) \/ FlushCommit(t) \/ Flip(t) \/ Unlock(t)

Next ==
    \/ \E t \in Threads : Step(t) \/ ThreadCrash(t)
    \/ WriteBack
    \/ SystemCrash

Spec == Init /\ [][Next]_vars

\* A thread that is not crashed keeps running (the spin loops only wait).
FairSpec == Spec /\ \A t \in Threads : WF_vars(Step(t))

-----------------------------------------------------------------------------

\* The log l starts with s.
IsPrefix(s, l) == Len(s) <= Len(l) /\ SubSeq(l, 1, Len(s)) = s

Stable == state[pstate]
Served(t, i) == {p \in 1..Len(Stable.data) : Stable.data[p] = [by |-> t, i |-> i]}

(***************************************************************************)
(* Exactly once: the stable state holds each operation at most once, and   *)
(* holds it if its call has returned, whichever combiner served it and     *)
(* whoever crashed in between.                                             *)
(***************************************************************************)
AppliedOnce ==
    \A t \in Threads : \A i \in Ops(t) :
        /\ Cardinality(Served(t, i)) <= 1
        /\ res[t][i] # NoResult => Served(t, i) # {}

(***************************************************************************)
(* Until power fails, a committed state is only ever replaced by an        *)
(* extension of it: a combine starts from the state committed last, though *)
(* its copy, its commit and its unlock are apart and it may be re-run.     *)
(***************************************************************************)
CommittedGrows ==
    [][scrash' = scrash => IsPrefix(Stable.data, Stable'.data)]_vars

(***************************************************************************)
(* The state record the lock word names is not null when a non-combiner    *)
(* looks into it (do_non_combine unwraps it): a released lock has been     *)
(* released by a combiner.                                                 *)
(***************************************************************************)
PeekedIsNotNull == \A t \in Threads : th[t].pc = "check" => th[t].cur.ptr # Null

(***************************************************************************)
(* Two threads are never combining at once: the holder of the lock word is *)
(* the only one between ready and unlock, also after it crashed there.     *)
(***************************************************************************)
Combiners == {t \in Threads : th[t].pc \in {"ready", "copy", "serve", "deactivate", "persist",
                                            "commit", "flush", "flip", "unlock"}}
OneCombiner == \A t \in Combiners : lock = Held(t)

\* Every call returns, also of a thread that crashed as the combiner.
AllReturn == \A t \in Threads : <>(th[t].pc = "done")
=============================================================================
