--------------------------- MODULE DetectableCas ---------------------------
(***************************************************************************)
(* DetectableCASAtomic (src/ploc/detectable_cas.rs): threads update shared *)
(* locations by the retry loop every container uses,                       *)
(*     loop { old = Checkpoint(load()); if cas(old, new).is_ok() break }   *)
(* with helping through per-thread descriptors, thread crashes, system     *)
(* crashes and write-back caches.  One action per access to shared memory. *)
(* Checkpoint is used by what module Checkpoint shows of it: one durable   *)
(* record, replaced at once.                                               *)
(***************************************************************************)
EXTENDS CasObject

CONSTANTS
    Initial,           \* the pointer every location starts with
    Skew,              \* Skew[t]: how far t's rdtscp is ahead
    Offset,            \* tsc_offset, the Ordo boundary
    Reopen             \* time from Pool::open to the first exec_time
\* A scenario also has the bounds tcrash[t] on the crashes of t and scrash on the power failures.

ASSUME CasAssumption ==
    /\ Threads \subseteq Nat \ {0}
    /\ Offset \in Nat
    /\ Reopen \in Nat
    /\ \A t \in Threads : Skew[t] \in 0..Offset
    /\ \A z \in Scenarios : \A t \in Threads :
        /\ Len(z.prog[t]) \in Nat \ {0}
        /\ \A i \in 1..Len(z.prog[t]) : z.prog[t][i].loc \in Locs

VARIABLES
    mem,     \* the lines of persistent memory as the caches show them
    pm,      \* the same lines as a power failure would leave them
    pend,    \* pend[t]: lines t flushed (clwb) and has not fenced
    chk,     \* chk[t][i]: the Checkpoint record of the value update i loaded
    own,     \* cas_info.own: time and parity of the last CAS, in DRAM
    clock,   \* real time
    th,      \* th[t]: the thread's local state
    tcrash,  \* thread crashes so far, per thread
    scrash   \* power failures so far
\* log and acked of CasObject are history variables.

vars == <<mem, pm, pend, chk, own, clock, th, tcrash, scrash, scenario, log, acked>>

-----------------------------------------------------------------------------
\* Pointers: data, parity (aux bit), descriptor bit and tid in one word.

Clean(v) == [val |-> v, aux |-> 0, desc |-> 0, tid |-> 0]
Marked(v, p, t) == [val |-> v, aux |-> p, desc |-> 0, tid |-> t]
Descriptor(seq, t) == [val |-> seq, aux |-> 0, desc |-> 1, tid |-> t]

\* Cache lines: a location, help[t][p], help_desc[t], buf[s] of a Cas memento.
Loc(l) == <<"loc", l>>
Help(t, p) == <<"help", t, p>>
Desc(t) == <<"desc", t>>
Buf(t, i, s) == <<"buf", t, i, s>>

Lines ==
    {Loc(l) : l \in Locs}
        \cup {Help(t, p) : t \in Threads, p \in 0..1}
        \cup {Desc(t) : t \in Threads}
        \cup UNION {{Buf(t, i, s) : i \in Ops(t), s \in 0..1} : t \in Threads}

NoRecord == [ts |-> 0, par |-> 0, fail |-> FALSE]
Blank(line) ==
    CASE line[1] = "loc" -> Clean(Initial)
      [] line[1] = "help" -> 0
      [] line[1] = "desc" -> [tmp_new |-> Clean(Initial), seq |-> 0]
      [] line[1] = "buf" -> NoRecord

\* A handle as Handle::new makes it, about to execute the first update.
Start == [pc |-> "checkpoint", i |-> 1, rec |-> TRUE, lmax |-> 0, old |-> Clean(Initial),
          cur |-> Clean(Initial), k |-> "save", tcur |-> 0,
          tmp |-> Clean(Initial), thelp |-> 0]

Init ==
    /\ ObjectInit
    /\ mem = [x \in Lines |-> Blank(x)]
    /\ pm = mem
    /\ pend = [t \in Threads |-> {}]
    /\ chk = [t \in Threads |-> [i \in Ops(t) |-> [val |-> Clean(Initial), ts |-> 0]]]
    /\ own = [t \in Threads |-> NoRecord]
    /\ clock = 0
    /\ th = [t \in Threads |-> Start]
    /\ tcrash = [t \in Threads |-> 0]
    /\ scrash = 0

-----------------------------------------------------------------------------
\* Persistent memory (src/pmem/ll.rs).

\* Persistence matters as long as a system crash may still come.
Durable == scrash < scenario.scrash

Write(m) == mem' = m /\ UNCHANGED <<pm, pend>>

\* Write, then persist_obj(S, false): the lines are on their way.
WriteFlush(t, m, S) ==
    /\ mem' = m
    /\ pend' = IF Durable THEN [pend EXCEPT ![t] = @ \cup S] ELSE pend
    /\ UNCHANGED pm

\* What t flushed is durable once it fences or its atomic update succeeds.
\* After the write, t flushes and fences the lines S and flushes the lines P.
WriteFence(t, m, S, P) ==
    /\ mem' = m
    /\ pm' = IF Durable
             THEN [x \in Lines |-> IF x \in S THEN m[x]
                                   ELSE IF x \in pend[t] THEN mem[x] ELSE pm[x]]
             ELSE pm
    /\ pend' = IF Durable THEN [pend EXCEPT ![t] = P] ELSE pend

\* The cache writes a dirty line back on its own, or completes a clwb.
WriteBack(x) ==
    /\ Durable
    /\ pm[x] # mem[x]
    /\ pm' = [pm EXCEPT ![x] = mem[x]]
    /\ pend' = [t \in Threads |-> pend[t] \ {x}]
    /\ UNCHANGED <<mem, chk, own, clock, th, tcrash, scrash, scenario, log, acked>>

\* exec_time on t's core, when the clock shows c.
Time(t, c) == c + Skew[t]

-----------------------------------------------------------------------------
\* The running update, its location and its memento.

Op(t) == Prog[t][th[t].i]
At(t) == Loc(Op(t).loc)
stale(t) ==
    LET b(s) == Buf(t, th[t].i, s) IN
    IF mem[b(0)].ts < mem[b(1)].ts THEN b(0) ELSE b(1)
latest(t) ==
    LET b(s) == Buf(t, th[t].i, s) IN
    IF mem[b(0)].ts < mem[b(1)].ts THEN b(1) ELSE b(0)

Goto(t, pc) == th' = [th EXCEPT ![t].pc = pc]

\* The update returns: on to the next one.
Finish(t, lmax) ==
    /\ th' = [th EXCEPT ![t] =
                [Start EXCEPT !.i = th[t].i + 1, !.rec = th[t].rec, !.lmax = lmax,
                              !.pc = IF th[t].i = Len(Prog[t]) THEN "done" ELSE "checkpoint"]]
    /\ acked' = [acked EXCEPT ![t] = IF @ < th[t].i THEN th[t].i ELSE @]

\* load_help has v: it is returned to its caller when it is clean, else the
\* loop starts over.
Loaded(t, v) ==
    LET caller == CASE th[t].k = "save" -> "save"
                    [] th[t].k = "cas" -> IF v = th[t].old THEN "first" ELSE "fail"
                    [] th[t].k = "result" -> "result"
        back == IF v.tid = 0 THEN caller ELSE "time"
    IN  th' = [th EXCEPT ![t].cur = v, ![t].pc = back, ![t].tmp = Clean(Initial),
                         ![t].thelp = 0, ![t].tcur = 0]

-----------------------------------------------------------------------------
\* The client: old = checkpoint(load()).

Checkpoint(t) ==
    /\ th[t].pc = "checkpoint"
    /\ LET c == chk[t][th[t].i] IN
        \/ /\ th[t].rec /\ c.ts > th[t].lmax
           /\ th' = [th EXCEPT ![t].lmax = c.ts, ![t].old = c.val, ![t].pc = "cas"]
        \/ /\ ~(th[t].rec /\ c.ts > th[t].lmax)
           /\ th' = [th EXCEPT ![t].rec = FALSE, ![t].pc = "load", ![t].k = "save"]
    /\ UNCHANGED <<mem, pm, pend, chk, own, clock, tcrash, scrash, scenario, log, acked>>

Save(t) ==
    /\ th[t].pc = "save"
    /\ clock' = clock + 1
    /\ chk' = [chk EXCEPT ![t][th[t].i] = [val |-> th[t].cur, ts |-> Time(t, clock')]]
    /\ th' = [th EXCEPT ![t].lmax = Time(t, clock'), ![t].old = th[t].cur,
                        ![t].cur = Clean(Initial), ![t].k = "cas", ![t].pc = "first"]
    /\ UNCHANGED <<mem, pm, pend, own, tcrash, scrash, scenario, log, acked>>

-----------------------------------------------------------------------------
\* load() and load_help().

Load(t) ==
    /\ th[t].pc = "load"
    /\ Loaded(t, mem[At(t)])
    /\ UNCHANGED <<mem, pm, pend, chk, own, clock, tcrash, scrash, scenario, log, acked>>

\* Variant: the time is taken without waiting for the clock to move.
HelpWait_none == 0

HelpWait == Offset + 1

\* The time of the help is taken once the clocks of all cores have passed it.
TakeTime(t) ==
    /\ th[t].pc = "time"
    /\ clock' = clock + HelpWait
    /\ th' = [th EXCEPT ![t].tcur = Time(t, clock'), ![t].pc = "spin"]
    /\ UNCHANGED <<mem, pm, pend, chk, own, tcrash, scrash, scenario, log, acked>>

Spin(t) ==
    /\ th[t].pc = "spin"
    /\ LET c == mem[At(t)] IN
        IF c = th[t].cur THEN Goto(t, "patience") ELSE Loaded(t, c)
    /\ UNCHANGED <<mem, pm, pend, chk, own, clock, tcrash, scrash, scenario, log, acked>>

\* Patience is over: the location is flushed and the help begins.
Patience(t) ==
    /\ th[t].pc = "patience"
    /\ LET c == th[t].tcur + Offset - Skew[t] IN clock' = IF clock < c THEN c ELSE clock
    /\ WriteFlush(t, mem, {At(t)})
    /\ Goto(t, IF th[t].cur.desc = 0 THEN "register" ELSE "finalize")
    /\ UNCHANGED <<chk, own, tcrash, scrash, scenario, log, acked>>

\* register_help: the descriptor's sequence number, its content, the CAS.
RegisterSeq(t) ==
    /\ th[t].pc = "register"
    /\ Write([mem EXCEPT ![Desc(t)].seq = @ + 1])
    /\ Goto(t, "describe")
    /\ UNCHANGED <<chk, own, clock, tcrash, scrash, scenario, log, acked>>

\* Variants: the descriptor keeps its old content; it is not flushed.
Described_stale(t) == mem
DescFlush_none(t) == {}

Described(t) == [mem EXCEPT ![Desc(t)].tmp_new = th[t].cur]
DescFlush(t) == {Desc(t)}

RegisterTmp(t) ==
    /\ th[t].pc = "describe"
    /\ WriteFlush(t, Described(t), DescFlush(t))
    /\ Goto(t, "publish")
    /\ UNCHANGED <<chk, own, clock, tcrash, scrash, scenario, log, acked>>

my_new_seq(t) == mem[Desc(t)].seq

RegisterCas(t) ==
    /\ th[t].pc = "publish"
    /\ LET c == mem[At(t)]
           d == Descriptor(my_new_seq(t), t) IN
        IF c = th[t].cur
        THEN /\ WriteFence(t, [mem EXCEPT ![At(t)] = d], {}, {})
             /\ th' = [th EXCEPT ![t].cur = d, ![t].pc = "finalize"]
        ELSE /\ UNCHANGED <<mem, pm, pend>>
             /\ IF c.desc = 1
                THEN th' = [th EXCEPT ![t].cur = c, ![t].pc = "finalize"]
                ELSE Loaded(t, c)
    /\ UNCHANGED <<chk, own, clock, tcrash, scrash, scenario, log, acked>>

\* finalize_help at time tcur: read the leader's descriptor, check that it
\* is still the one the location named, raise the winner's help time and
\* only then swing the location to the winner's value.
FinalizeTmp(t) ==
    /\ th[t].pc = "finalize"
    /\ th' = [th EXCEPT ![t].tmp = mem[Desc(th[t].cur.tid)].tmp_new, ![t].pc = "seq"]
    /\ UNCHANGED <<mem, pm, pend, chk, own, clock, tcrash, scrash, scenario, log, acked>>

\* A helper whose help is void reloads; the winner of a cas just returns.
GiveUp(t) ==
    \/ th[t].k # "second" /\ Goto(t, "load") /\ UNCHANGED acked
    \/ th[t].k = "second" /\ Finish(t, th[t].lmax)

FinalizeSeq(t) ==
    /\ th[t].pc = "seq"
    /\ IF th[t].cur.val = mem[Desc(th[t].cur.tid)].seq
       THEN Goto(t, "help") /\ UNCHANGED acked
       ELSE GiveUp(t)
    /\ UNCHANGED <<mem, pm, pend, chk, own, clock, tcrash, scrash, scenario, log>>

Winner(t) == Help(th[t].tmp.tid, th[t].tmp.aux)

FinalizeHelp(t) ==
    /\ th[t].pc = "help"
    /\ LET h == mem[Winner(t)] IN
        IF th[t].tcur <= h
        THEN GiveUp(t)
        ELSE /\ th' = [th EXCEPT ![t].thelp = h, ![t].pc = "raise"]
             /\ UNCHANGED acked
    /\ UNCHANGED <<mem, pm, pend, chk, own, clock, tcrash, scrash, scenario, log>>

\* Variant: the help time is not flushed.
HelpFlush_none(t) == {}

HelpFlush(t) == {Winner(t)}

FinalizeRaise(t) ==
    /\ th[t].pc = "raise"
    /\ IF mem[Winner(t)] = th[t].thelp
       THEN /\ WriteFence(t, [mem EXCEPT ![Winner(t)] = th[t].tcur], {}, HelpFlush(t))
            /\ Goto(t, "swing")
            /\ UNCHANGED acked
       ELSE /\ UNCHANGED <<mem, pm, pend>>
            /\ GiveUp(t)
    /\ UNCHANGED <<chk, own, clock, tcrash, scrash, scenario, log>>

\* The flushed help time is durable with this CAS.
FinalizeCas(t) ==
    /\ th[t].pc = "swing"
    /\ LET c == mem[At(t)]
           v == Clean(th[t].tmp.val) IN
        IF c = th[t].cur
        THEN /\ WriteFence(t, [mem EXCEPT ![At(t)] = v], {}, {})
             /\ th' = [th EXCEPT ![t].cur = v, ![t].pc = "settle"]
        ELSE /\ UNCHANGED <<mem, pm, pend>>
             /\ th' = [th EXCEPT ![t].cur = c, ![t].pc = "settle"]
    /\ UNCHANGED <<chk, own, clock, tcrash, scrash, scenario, log, acked>>

FinalizePersist(t) ==
    /\ th[t].pc = "settle"
    /\ WriteFence(t, mem, {At(t)}, {})
    /\ IF th[t].k = "second"
       THEN Finish(t, th[t].lmax)
       ELSE Loaded(t, th[t].cur) /\ UNCHANGED acked
    /\ UNCHANGED <<chk, own, clock, tcrash, scrash, scenario, log>>

-----------------------------------------------------------------------------
\* cas() and cas_non_detectable().

\* The entry: a recovering thread first asks cas_result.
Cas(t) ==
    /\ th[t].pc = "cas"
    /\ LET r == mem[latest(t)]
           new == Op(t).new IN
        \/ /\ ~th[t].rec \/ Op(t).nd
           /\ th' = [th EXCEPT ![t].k = "cas", ![t].pc = "first"]
           /\ UNCHANGED <<mem, pm, pend, own, acked>>
        \* a failure is on record: the client goes round its loop
        \/ /\ th[t].rec /\ ~Op(t).nd /\ r.ts > th[t].lmax /\ r.fail
           /\ th' = [th EXCEPT ![t].lmax = r.ts, ![t].pc = "checkpoint"]
           /\ UNCHANGED <<mem, pm, pend, own, acked>>
        \* a success is on record: the location is cleaned up
        \/ /\ th[t].rec /\ ~Op(t).nd /\ r.ts > th[t].lmax /\ ~r.fail
           /\ IF r.ts >= own[t].ts
              THEN /\ own' = [own EXCEPT ![t] = r]
                   /\ IF mem[At(t)] = Marked(new, own[t].par, t)
                      THEN WriteFence(t, [mem EXCEPT ![At(t)] = Clean(new)], {}, {})
                      ELSE UNCHANGED <<mem, pm, pend>>
              ELSE UNCHANGED <<mem, pm, pend, own>>
           /\ Finish(t, r.ts)
        \* nothing on record: finalize whatever is at the location
        \/ /\ th[t].rec /\ ~Op(t).nd /\ r.ts <= th[t].lmax
           /\ th' = [th EXCEPT ![t].pc = "load", ![t].k = "result"]
           /\ UNCHANGED <<mem, pm, pend, own, acked>>
    /\ UNCHANGED <<chk, clock, tcrash, scrash, scenario, log>>

\* Variant: the helper's time is not looked at.
helped_never(t) == FALSE

helped(t) == own[t].ts < mem[Help(t, 1 - own[t].par)]

\* Did a helper finish the CAS of the crashed incarnation?
Result(t) ==
    /\ th[t].pc = "result"
    /\ IF helped(t)
       THEN th' = [th EXCEPT ![t].k = "result", ![t].pc = "succ"]
       ELSE th' = [th EXCEPT ![t].rec = FALSE, ![t].k = "cas", ![t].pc = "first"]
    /\ UNCHANGED <<mem, pm, pend, chk, own, clock, tcrash, scrash, scenario, log, acked>>

First(t) ==
    /\ th[t].pc = "first"
    /\ LET c == mem[At(t)]
           tmp_new == IF Op(t).nd THEN Marked(Op(t).new, 1, 0)
                      ELSE Marked(Op(t).new, 1 - own[t].par, t) IN
        IF c = th[t].old
        THEN /\ WriteFence(t, [mem EXCEPT ![At(t)] = tmp_new], {}, {})
             /\ log' = [log EXCEPT ![Op(t).loc] = Append(@, Update(t, th[t].i))]
             /\ th' = [th EXCEPT ![t].tmp = tmp_new, ![t].cur = Clean(Initial), ![t].pc = "persist"]
        ELSE /\ Loaded(t, c)
             /\ UNCHANGED <<mem, pm, pend, log>>
    /\ UNCHANGED <<chk, own, clock, tcrash, scrash, scenario, acked>>

\* checkpoint_fail; the client goes round its loop.
Fail(t) ==
    /\ th[t].pc = "fail"
    /\ IF Op(t).nd
       THEN Finish(t, th[t].lmax) /\ UNCHANGED <<mem, pm, pend, clock>>
       ELSE /\ clock' = clock + 1
            /\ LET r == [ts |-> Time(t, clock'), par |-> 0, fail |-> TRUE] IN
                WriteFence(t, [mem EXCEPT ![stale(t)] = r], {stale(t)}, {})
            /\ th' = [th EXCEPT ![t] = [Start EXCEPT !.i = th[t].i, !.rec = th[t].rec,
                                                   !.lmax = Time(t, clock')]]
            /\ UNCHANGED acked
    /\ UNCHANGED <<chk, own, tcrash, scrash, scenario, log>>

\* Variant: the location is not flushed before success is recorded.
LocFlush_none(t) == {}

LocFlush(t) == {At(t)}

Persist(t) ==
    /\ th[t].pc = "persist"
    /\ WriteFence(t, mem, LocFlush(t), {})
    /\ Goto(t, IF Op(t).nd THEN "second" ELSE "succ")
    /\ UNCHANGED <<chk, own, clock, tcrash, scrash, scenario, log, acked>>

\* checkpoint_succ: the memento, then the time in DRAM.
Succ(t) ==
    /\ th[t].pc = "succ"
    /\ clock' = clock + 1
    /\ LET r == [ts |-> Time(t, clock'), par |-> 1 - own[t].par, fail |-> FALSE] IN
        WriteFlush(t, [mem EXCEPT ![stale(t)] = r], {stale(t)})
    /\ th' = [th EXCEPT ![t].tcur = Time(t, clock'), ![t].pc = "own"]
    /\ UNCHANGED <<chk, own, tcrash, scrash, scenario, log, acked>>

Own(t) ==
    /\ th[t].pc = "own"
    /\ own' = [own EXCEPT ![t] = [ts |-> th[t].tcur, par |-> 1 - @.par, fail |-> FALSE]]
    /\ th' = [th EXCEPT ![t].lmax = th[t].tcur,
                        ![t].pc = IF th[t].k = "result" THEN "fence" ELSE "second"]
    /\ UNCHANGED <<mem, pm, pend, chk, clock, tcrash, scrash, scenario, log, acked>>

unhelped(t) == mem[At(t)] = th[t].tmp

Second(t) ==
    /\ th[t].pc = "second"
    /\ LET c == mem[At(t)] IN
        \/ /\ unhelped(t)
           /\ WriteFence(t, [mem EXCEPT ![At(t)] = Clean(Op(t).new)], {}, {})
           /\ Finish(t, th[t].lmax)
        \/ /\ ~unhelped(t)
           /\ IF c.desc = 1 /\ ~Op(t).nd
              THEN th' = [th EXCEPT ![t].cur = c, ![t].k = "second", ![t].pc = "finalize"]
              ELSE Goto(t, "fence")
           /\ UNCHANGED <<mem, pm, pend, acked>>
    /\ UNCHANGED <<chk, own, clock, tcrash, scrash, scenario, log>>

Fence(t) ==
    /\ th[t].pc = "fence"
    /\ WriteFence(t, mem, {}, {})
    /\ Finish(t, th[t].lmax)
    /\ UNCHANGED <<chk, own, clock, tcrash, scrash, scenario, log>>

-----------------------------------------------------------------------------
\* Crashes.

\* The thread dies and PoolHandle::execute runs its root memento again.
ThreadCrash(t) ==
    /\ tcrash[t] < scenario.tcrash[t]
    /\ th[t].pc # "done"
    /\ tcrash' = [tcrash EXCEPT ![t] = @ + 1]
    /\ th' = [th EXCEPT ![t] = Start]
    /\ pend' = [pend EXCEPT ![t] = {}]
    /\ UNCHANGED <<mem, pm, chk, own, clock, scrash, scenario, log, acked>>

\* The value a location stands for, through the descriptor that names it.
Resolve(m, l) ==
    LET c == m[Loc(l)] IN IF c.desc = 1 THEN m[Desc(c.tid)].tmp_new.val ELSE c.val

New(e) == Prog[e.by][e.i].new

Greatest(S) == CHOOSE n \in S : \A m \in S : m <= n

\* The position of the last update of l to v, 0 if there is none.
LastTo(l, v) == Greatest({0} \cup {n \in DOMAIN log[l] : New(log[l][n]) = v})

\* CasInner::filter: the latest successful CAS of each thread's mementos.
FilterOwn(t) ==
    LET R == {NoRecord} \cup {pm[Buf(t, i, s)] : i \in Ops(t), s \in 0..1}
    IN  CHOOSE r \in R : ~r.fail /\ \A q \in R : q.fail \/ q.ts <= r.ts

\* set_info: the largest of the own, help and checkpoint times.
MaxTs ==
    Greatest(UNION {{FilterOwn(t).ts, pm[Help(t, 0)], pm[Help(t, 1)]}
                    \cup {chk[t][i].ts : i \in Ops(t)} : t \in Threads})

\* Power fails; Pool::open filters the root memento and restarts the clock.
SystemCrash ==
    /\ Durable
    /\ scrash' = scrash + 1
    /\ mem' = pm
    /\ pend' = [t \in Threads |-> {}]
    /\ own' = [t \in Threads |-> FilterOwn(t)]
    /\ clock' = MaxTs + Reopen
    /\ th' = [t \in Threads |-> Start]
    /\ log' = [l \in Locs |-> SubSeq(log[l], 1, LastTo(l, Resolve(pm, l)))]
    /\ UNCHANGED <<pm, chk, tcrash, scenario, acked>>

Step(t) ==
    \/ Checkpoint(t) \/ Save(t) \/ Load(t) \/ TakeTime(t) \/ Spin(t) \/ Patience(t)
    \/ RegisterSeq(t) \/ RegisterTmp(t) \/ RegisterCas(t)
    \/ FinalizeTmp(t) \/ FinalizeSeq(t) \/ FinalizeHelp(t) \/ FinalizeRaise(t)
    \/ FinalizeCas(t) \/ FinalizePersist(t)
    \/ Cas(t) \/ Result(t) \/ First(t) \/ Fail(t) \/ Persist(t) \/ Succ(t) \/ Own(t)
    \/ Second(t) \/ Fence(t)

Next ==
    \/ \E t \in Threads : Step(t) \/ ThreadCrash(t)
    \/ \E x \in Lines : WriteBack(x)
    \/ SystemCrash

Spec == Init /\ [][Next]_vars

\* The operating system runs every thread; crashes just happen.
FairSpec == Spec /\ \A t \in Threads : WF_vars(Step(t))

-----------------------------------------------------------------------------

(***************************************************************************)
(* An update takes effect at most once, whatever crashes and retries.      *)
(***************************************************************************)
ExactlyOnce ==
    \A l \in Locs : \A m, n \in DOMAIN log[l] :
        m # n /\ ~Prog[log[l][m].by][log[l][m].i].nd => log[l][m] # log[l][n]

(***************************************************************************)
(* The location holds the value of the last update that took effect: no    *)
(* helper swings it to a value that was replaced already.                  *)
(***************************************************************************)
LocationFollowsLog ==
    \A l \in Locs :
        Resolve(mem, l) = IF log[l] = <<>> THEN Initial ELSE New(log[l][Len(log[l])])

(***************************************************************************)
(* A descriptor in a location is its leader's current one, in the caches   *)
(* and in what a power failure would leave, so that every thread can       *)
(* finish the help it announces.                                           *)
(***************************************************************************)
DescriptorIntact ==
    \A l \in Locs : \A m \in {mem, pm} :
        m[Loc(l)].desc = 1 => m[Desc(m[Loc(l)].tid)].seq = m[Loc(l)].val

(***************************************************************************)
(* What load() returned when a Checkpoint records it is durable: a power   *)
(* failure cannot take the location back to an older value, so nothing is  *)
(* ever built on an update that did not happen.                            *)
(***************************************************************************)
LoadedIsDurable ==
    \A t \in Threads : th[t].pc = "save" /\ Durable =>
        LET l == Op(t).loc IN LastTo(l, th[t].cur.val) <= LastTo(l, Resolve(pm, l))

(***************************************************************************)
(* Every update returns: no thread helps, spins or retries forever, not    *)
(* even when the helper that raised a help time crashed before it swung    *)
(* the location.                                                           *)
(***************************************************************************)
AllReturn == <>(\A t \in Threads : th[t].pc = "done")
=============================================================================
