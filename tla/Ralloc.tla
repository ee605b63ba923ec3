------------------------------- MODULE Ralloc -------------------------------
(***************************************************************************)
(* The allocator of src/ext/ralloc, through which the pool allocates       *)
(* (src/src/pmem/alloc/ralloc.rs).  The heap is an array of superblocks,   *)
(* each with a descriptor; a superblock is cut into blocks of one size     *)
(* class, or is the beginning of one large block.  Threads keep caches of  *)
(* free blocks; superblocks with free blocks are on the partial list of    *)
(* their class, the empty ones on the free list.  Both lists are stacks    *)
(* under a head with a counter.                                            *)
(*                                                                         *)
(* What the caches and the heads say is lost or stale after a crash of the *)
(* process; the next process finds the owner of a robust mutex dead, marks *)
(* what the roots reach and rebuilds the lists.  FLUSH is empty in this    *)
(* build (pfence_util.h:58): memory is what was stored last, and a power   *)
(* failure is outside the model.                                           *)
(*                                                                         *)
(* A loop that retries a CAS on one word, and computes the new value from  *)
(* the old one alone, is one step.  The stacks' loops, which also read or  *)
(* write the links of descriptors, are taken apart.                        *)
(***************************************************************************)
EXTENDS Integers, FiniteSetsExt, SequencesExt

CONSTANTS
    Threads,
    Scenarios,   \* prog[t]: the operations of thread t; bounds on the crashes and clean ends
                 \* of the process and on the threads that exit or crash
    BlockNum,    \* BlockNum[c]: the blocks of a superblock of class c (SBSIZE / block_size)
    Expand,      \* SB_REGION_EXPAND_SIZE / SBSIZE
    LargeSize,   \* the superblocks that a large block takes
    Region       \* the superblocks of the region

Large == 0   \* an operation that allocates a large block; c > 0 allocates one of class c
Free == -1   \* an operation that frees some block in use
NoOp == -2
Classes == DOMAIN BlockNum

ASSUME RallocAssumption ==
    /\ Classes = 1 .. Len(BlockNum)
    /\ \A c \in Classes : BlockNum[c] \in Nat \ {0}
    /\ Expand \in Nat \ {0, 1} /\ LargeSize \in Nat \ {0} /\ Region > Expand
    /\ \A z \in Scenarios :
           /\ \A t \in Threads : z.prog[t] \in Seq(Classes \cup {Large, Free})
           /\ {z.crashes, z.closes, z.stops} \subseteq Nat

VARIABLES
    scenario,
    cur,            \* curr_addr of the superblock region, in superblocks
    desc,           \* desc[s]: the descriptor of superblock s
    link,           \* link[s][i]: the first word of block i of superblock s, and one past the end
    avail_sb,       \* BaseMeta::avail_sb, head of the free superblocks
    partial_list,   \* partial_list[c]: ProcHeap::partial_list
    cache,          \* cache[t][c]: TCacheBin
    th,             \* local state of the threads
    live,           \* the blocks in use by the program, each with the operation that returned it
    phase,          \* "up", "down" or "gc"
    mtx,            \* dirty_mtx: "free", "held" or "ownerdied"
    gc,             \* local state of the garbage collection
    stops, crashes, closes,
    gone            \* history: how caches were dropped since the last collection

vars == <<scenario, cur, desc, link, avail_sb, partial_list, cache, th, live, phase, mtx, gc,
          stops, crashes, closes, gone>>
process == <<scenario, phase, mtx, gc, stops, crashes, closes, gone>>

Sbs == 0 .. Region - 1   \* the first one is never used: offset 0 is null
MaxNum == Max({BlockNum[c] : c \in Classes})
NoPtr == <<0, 0>>        \* null
UserData == <<0, 1>>     \* what the program writes over the link of its block
Top(ptr, cnt) == [ptr |-> ptr, cnt |-> cnt]
FullAnchor(n) == [avail |-> n, count |-> 0, state |-> "full"]

\* Descriptor()
Fresh == [next_free |-> 0, next_partial |-> 0, cls |-> -1, size |-> 0,
          anchor |-> [avail |-> 0, count |-> 0, state |-> "error"]]
FreshList(ss, last) ==
    [s \in ss |-> [Fresh EXCEPT !.next_free = IF s + 1 \in ss THEN s + 1 ELSE last]]
EmptyBin == [block |-> NoPtr, num |-> 0]
NoBins == [c \in Classes |-> EmptyBin]
Idle(i) == [pc |-> "idle", i |-> i, c |-> 0, old |-> Top(0, 0), nxt |-> 0, d |-> 0, k |-> 0, ret |-> "", blk |-> NoPtr]
NoGc == [s |-> 0, todo |-> {}, avail |-> 0]

Init ==
    /\ scenario \in Scenarios
    /\ cur = Expand
    /\ desc = [s \in Sbs |-> IF s \in 1 .. Expand - 1 THEN FreshList(1 .. Expand - 1, 0)[s] ELSE Fresh]
    /\ link = [s \in Sbs |-> [i \in 0 .. MaxNum |-> NoPtr]]
    /\ avail_sb = Top(1, 1)
    /\ partial_list = [c \in Classes |-> Top(0, 0)]
    /\ cache = [t \in Threads |-> NoBins]
    /\ th = [t \in Threads |-> Idle(1)]
    /\ live = {}
    /\ phase = "up" /\ mtx = "held" /\ gc = NoGc
    /\ stops = 0 /\ crashes = 0 /\ closes = 0 /\ gone = {}

-----------------------------------------------------------------------------

At(t, pc) == phase = "up" /\ th[t].pc = pc
Goto(t, pc) == th' = [th EXCEPT ![t].pc = pc]
Done(t) == th' = [th EXCEPT ![t] = Idle(th[t].i + 1)]
Op(t) == IF th[t].i \in DOMAIN scenario.prog[t] THEN scenario.prog[t][th[t].i] ELSE NoOp
\* A block that the current operation of t returns.
Object(t, s, i, c, n) == [sb |-> s, idx |-> i, cls |-> c, n |-> n, by |-> <<t, th[t].i>>]
Bin(t) == cache[t][th[t].c]
LinkOf(lk, b) == lk[b[1]][b[2]]

\* TCacheBin::pop_block of a bin that may just have been filled: the program gets the block.
PopBlock(t, c, bin, lk) ==
    /\ live' = live \cup {Object(t, bin.block[1], bin.block[2], c, 1)}
    /\ cache' = [cache EXCEPT ![t][c] = [block |-> LinkOf(lk, bin.block), num |-> bin.num - 1]]
    /\ link' = [lk EXCEPT ![bin.block[1]][bin.block[2]] = UserData]

\* TCacheBin::push_block
PushBlock(t, c, b) ==
    /\ link' = [link EXCEPT ![b[1]][b[2]] = cache[t][c].block]
    /\ cache' = [cache EXCEPT ![t][c] = [block |-> b, num |-> @.num + 1]]

-----------------------------------------------------------------------------
\* do_malloc of a small block.

MallocCached(t) ==
    /\ At(t, "idle") /\ Op(t) \in Classes
    /\ cache[t][Op(t)].num > 0
    /\ PopBlock(t, Op(t), cache[t][Op(t)], link)
    /\ Done(t)
    /\ UNCHANGED <<cur, desc, avail_sb, partial_list, process>>

\* fill_cache, malloc_from_partial.
FillCache(t) ==
    /\ At(t, "idle") /\ Op(t) \in Classes
    /\ cache[t][Op(t)].num = 0
    /\ th' = [th EXCEPT ![t].pc = "load_partial", ![t].c = Op(t)]
    /\ UNCHANGED <<cur, desc, link, avail_sb, partial_list, cache, live, process>>

\* heap_pop_partial
SeenPartial(t, head) ==
    th' = [th EXCEPT ![t].old = head, ![t].pc = IF head.ptr = 0 THEN "load_avail" ELSE "next_partial"]

LoadPartial(t) ==
    /\ At(t, "load_partial")
    /\ SeenPartial(t, partial_list[th[t].c])
    /\ UNCHANGED <<cur, desc, link, avail_sb, partial_list, cache, live, process>>

NextPartial(t) ==
    /\ At(t, "next_partial")
    /\ th' = [th EXCEPT ![t].nxt = desc[th[t].old.ptr].next_partial, ![t].pc = "cas_partial"]
    /\ UNCHANGED <<cur, desc, link, avail_sb, partial_list, cache, live, process>>

\* A pop keeps the counter; only pushes count.
PoppedHead(old, nxt) == Top(nxt, old.cnt)

CasPartial(t) ==
    LET c == th[t].c IN
    /\ At(t, "cas_partial")
    /\ \/ /\ partial_list[c] = th[t].old
          /\ partial_list' = [partial_list EXCEPT ![c] = PoppedHead(th[t].old, th[t].nxt)]
          /\ th' = [th EXCEPT ![t].d = th[t].old.ptr, ![t].pc = "take"]
       \/ /\ partial_list[c] # th[t].old
          /\ SeenPartial(t, partial_list[c])
          /\ UNCHANGED partial_list
    /\ UNCHANGED <<cur, desc, link, avail_sb, cache, live, process>>

\* Variant: an empty superblock is used like a partial one.
RetirableNever(a) == FALSE

Retirable(a) == a.state = "empty"

\* Every free block of the popped superblock goes to the cache; an empty superblock is retired.
TakePartial(t) ==
    LET d == th[t].d
        a == desc[d].anchor
        c == th[t].c IN
    /\ At(t, "take")
    /\ \/ /\ Retirable(a)
          /\ th' = [th EXCEPT ![t].pc = "link_free", ![t].k = 1, ![t].ret = "load_partial"]
          /\ UNCHANGED <<desc, link, cache, live>>
       \/ /\ ~Retirable(a)
          /\ desc' = [desc EXCEPT ![d].anchor = FullAnchor(BlockNum[c])]
          /\ PopBlock(t, c, [block |-> <<d, a.avail>>, num |-> a.count], link)
          /\ Done(t)
    /\ UNCHANGED <<cur, avail_sb, partial_list, process>>

-----------------------------------------------------------------------------
\* malloc_from_newsb, small_sb_alloc.

SeenAvail(t, head) ==
    th' = [th EXCEPT ![t].old = head, ![t].pc = IF head.ptr = 0 THEN "load_cur" ELSE "next_free"]

LoadAvail(t) ==
    /\ At(t, "load_avail")
    /\ SeenAvail(t, avail_sb)
    /\ UNCHANGED <<cur, desc, link, avail_sb, partial_list, cache, live, process>>

NextFree(t) ==
    /\ At(t, "next_free")
    /\ th' = [th EXCEPT ![t].nxt = desc[th[t].old.ptr].next_free, ![t].pc = "cas_avail"]
    /\ UNCHANGED <<cur, desc, link, avail_sb, partial_list, cache, live, process>>

CasAvail(t) ==
    /\ At(t, "cas_avail")
    /\ \/ /\ avail_sb = th[t].old
          /\ avail_sb' = PoppedHead(th[t].old, th[t].nxt)
          /\ th' = [th EXCEPT ![t].d = th[t].old.ptr, ![t].pc = "new_sb"]
       \/ /\ avail_sb # th[t].old
          /\ SeenAvail(t, avail_sb)
          /\ UNCHANGED avail_sb
    /\ UNCHANGED <<cur, desc, link, partial_list, cache, live, process>>

\* The list was seen empty.  The head is not read into oldhead again: this path is never left
\* for the list.
LoadCur(t) ==
    /\ At(t, "load_cur")
    /\ th' = [th EXCEPT ![t].k = cur, ![t].pc = "still_empty"]
    /\ UNCHANGED <<cur, desc, link, avail_sb, partial_list, cache, live, process>>

StillEmpty(t) ==
    /\ At(t, "still_empty")
    /\ \/ avail_sb.ptr # 0 /\ Goto(t, "load_cur")
       \/ avail_sb.ptr = 0 /\ th[t].k + Expand <= Region /\ Goto(t, "cas_cur")
    /\ UNCHANGED <<cur, desc, link, avail_sb, partial_list, cache, live, process>>

\* The first new superblock is kept, the others are put on the list.
CasCur(t) ==
    LET k == th[t].k IN
    /\ At(t, "cas_cur")
    /\ \/ /\ cur = k
          /\ cur' = k + Expand
          /\ th' = [th EXCEPT ![t].d = k + 1, ![t].k = Expand - 1, ![t].pc = "link_free", ![t].ret = "first_sb"]
       \/ /\ cur # k
          /\ Goto(t, "load_cur")
          /\ UNCHANGED cur
    /\ UNCHANGED <<desc, link, avail_sb, partial_list, cache, live, process>>

\* organize_sb_list, small_sb_retire: new descriptors, linked and then put on the free list.
Listed(t) == th[t].d .. th[t].d + th[t].k - 1

LinkFree(t) ==
    /\ At(t, "link_free")
    /\ desc' = [s \in Sbs |-> IF s \in Listed(t) THEN FreshList(Listed(t), avail_sb.ptr)[s] ELSE desc[s]]
    /\ th' = [th EXCEPT ![t].old = avail_sb, ![t].pc = "push_free"]
    /\ UNCHANGED <<cur, link, avail_sb, partial_list, cache, live, process>>

\* Variant: the counter of the head is kept.
PushedHeadSameCounter(old, ptr) == Top(ptr, old.cnt)

PushedHead(old, ptr) == Top(ptr, old.cnt + 1)

\* Where a thread goes on after a push: "first_sb" is the superblock before the listed ones.
Resume(t) ==
    th' = [th EXCEPT ![t] =
        CASE th[t].ret = "idle" -> Idle(th[t].i + 1)
          [] th[t].ret = "first_sb" -> [th[t] EXCEPT !.pc = "new_sb", !.d = th[t].d - 1]
          [] OTHER -> [th[t] EXCEPT !.pc = th[t].ret]]

\* Variant: the next attempt compares with the old head.
RetryPushStale(t, again) == UNCHANGED th

\* The head is loaded again before the next attempt.
RetryPush(t, again) == Goto(t, again)

PushFree(t) ==
    /\ At(t, "push_free")
    /\ \/ /\ avail_sb = th[t].old
          /\ avail_sb' = PushedHead(th[t].old, th[t].d)
          /\ Resume(t)
       \/ /\ avail_sb # th[t].old
          /\ RetryPush(t, "link_free")
          /\ UNCHANGED avail_sb
    /\ UNCHANGED <<cur, desc, link, partial_list, cache, live, process>>

\* The whole superblock goes to the cache, as a list in the order of addresses.
NewSb(t) ==
    LET d == th[t].d
        c == th[t].c
        n == BlockNum[c]
        lk == [link EXCEPT ![d] = [i \in DOMAIN @ |-> IF i < n - 1 THEN <<d, i + 1>> ELSE @[i]]] IN
    /\ At(t, "new_sb")
    /\ desc' = [desc EXCEPT ![d] = [(IF th[t].ret = "first_sb" THEN Fresh ELSE @)
                                     EXCEPT !.cls = c, !.size = 1, !.anchor = FullAnchor(n)]]
    /\ PopBlock(t, c, [block |-> <<d, 0>>, num |-> n], lk)
    /\ Done(t)
    /\ UNCHANGED <<cur, avail_sb, partial_list, process>>

-----------------------------------------------------------------------------
\* do_malloc of a large block: always from the end of the region.

ExpandLarge(t) ==
    /\ At(t, "idle") /\ Op(t) = Large
    /\ cur + LargeSize <= Region
    /\ cur' = cur + LargeSize
    /\ th' = [th EXCEPT ![t].d = cur, ![t].k = LargeSize, ![t].pc = "new_large"]
    /\ UNCHANGED <<desc, link, avail_sb, partial_list, cache, live, process>>

NewLarge(t) ==
    LET d == th[t].d IN
    /\ At(t, "new_large")
    /\ desc' = [desc EXCEPT ![d] = [Fresh EXCEPT !.cls = Large, !.size = LargeSize, !.anchor = FullAnchor(0)]]
    /\ live' = live \cup {Object(t, d, 0, Large, LargeSize)}
    /\ Done(t)
    /\ UNCHANGED <<cur, link, avail_sb, partial_list, cache, process>>

-----------------------------------------------------------------------------
\* do_free.

FreeLarge(t) ==
    \E o \in live :
        /\ At(t, "idle") /\ Op(t) = Free
        /\ desc[o.sb].cls = Large
        /\ live' = live \ {o}
        /\ th' = [th EXCEPT ![t].d = o.sb, ![t].k = desc[o.sb].size, ![t].pc = "link_free", ![t].ret = "idle"]
        /\ UNCHANGED <<cur, desc, link, avail_sb, partial_list, cache, process>>

CacheFull(t, c) == cache[t][c].num >= BlockNum[c]

FreeCached(t) ==
    \E o \in live :
        LET c == desc[o.sb].cls IN
        /\ At(t, "idle") /\ Op(t) = Free
        /\ c # Large /\ ~CacheFull(t, c)
        /\ live' = live \ {o}
        /\ PushBlock(t, c, <<o.sb, o.idx>>)
        /\ Done(t)
        /\ UNCHANGED <<cur, desc, avail_sb, partial_list, process>>

\* The cache is full and is flushed first.
FreeFlushing(t) ==
    \E o \in live :
        LET c == desc[o.sb].cls IN
        /\ At(t, "idle") /\ Op(t) = Free
        /\ c # Large /\ CacheFull(t, c)
        /\ live' = live \ {o}
        /\ th' = [th EXCEPT ![t].c = c, ![t].blk = <<o.sb, o.idx>>, ![t].pc = "flush"]
        /\ UNCHANGED <<cur, desc, link, avail_sb, partial_list, cache, process>>

\* Nothing is in use.
FreeNothing(t) ==
    /\ At(t, "idle") /\ Op(t) = Free /\ live = {}
    /\ Done(t)
    /\ UNCHANGED <<cur, desc, link, avail_sb, partial_list, cache, live, process>>

\* n blocks from b along the links.
Chain(lk, b, n) ==
    LET ch[k \in 1 .. n] == IF k = 1 THEN <<b>> ELSE Append(ch[k - 1], LinkOf(lk, Last(ch[k - 1])))
    IN IF n = 0 THEN <<>> ELSE ch[n]

\* The blocks at the front of the cache that are of the superblock of the first.
FrontRun(bin) ==
    LET ch == Chain(link, bin.block, bin.num)
        n == CHOOSE k \in 1 .. bin.num :
                 /\ \A j \in 1 .. k : ch[j][1] = ch[1][1]
                 /\ k = bin.num \/ ch[k + 1][1] # ch[1][1]
    IN SubSeq(ch, 1, n)

\* Variant: a full superblock stays full.
GivenBackFull(a, idx, n, max) ==
    IF a.count + n = max THEN [avail |-> idx, count |-> max - 1, state |-> "empty"]
    ELSE [avail |-> idx, count |-> a.count + n, state |-> a.state]

\* How the anchor of a superblock of max blocks takes n more, the first of which is idx.
GivenBack(a, idx, n, max) ==
    IF a.count + n = max THEN [avail |-> idx, count |-> max - 1, state |-> "empty"]
    ELSE [avail |-> idx, count |-> a.count + n, state |-> IF a.state = "full" THEN "partial" ELSE a.state]

\* Variant: every superblock given a run back goes to the partial list.
LeavesFullAlways(a) == TRUE

LeavesFull(a) == a.state = "full"

\* The loop of flush_cache: the run is put before the free blocks of its superblock.
FlushRun(t) ==
    LET c == th[t].c
        run == FrontRun(Bin(t))
        d == run[1][1]
        tail == Last(run)
        a == desc[d].anchor
        b == GivenBack(a, run[1][2], Len(run), BlockNum[desc[d].cls]) IN
    /\ At(t, "flush") /\ Bin(t).num > 0
    /\ cache' = [cache EXCEPT ![t][c] = [block |-> LinkOf(link, tail), num |-> @.num - Len(run)]]
    /\ link' = [link EXCEPT ![d][tail[2]] = <<d, a.avail>>]
    /\ desc' = [desc EXCEPT ![d].anchor = b]
    /\ th' = [th EXCEPT ![t] =
           IF ~LeavesFull(a) THEN @
           ELSE [@ EXCEPT !.d = d, !.k = 1, !.ret = "flush",
                          !.pc = IF b.state = "empty" THEN "link_free" ELSE "link_partial"]]
    /\ UNCHANGED <<cur, avail_sb, partial_list, live, process>>

FlushDone(t) ==
    /\ At(t, "flush") /\ Bin(t).num = 0
    /\ PushBlock(t, th[t].c, th[t].blk)
    /\ Done(t)
    /\ UNCHANGED <<cur, desc, avail_sb, partial_list, live, process>>

\* heap_push_partial
LinkPartial(t) ==
    LET d == th[t].d IN
    /\ At(t, "link_partial")
    /\ desc' = [desc EXCEPT ![d].next_partial = partial_list[desc[d].cls].ptr]
    /\ th' = [th EXCEPT ![t].old = partial_list[desc[d].cls], ![t].pc = "push_partial"]
    /\ UNCHANGED <<cur, link, avail_sb, partial_list, cache, live, process>>

PushPartial(t) ==
    LET c == desc[th[t].d].cls IN
    /\ At(t, "push_partial")
    /\ \/ /\ partial_list[c] = th[t].old
          /\ partial_list' = [partial_list EXCEPT ![c] = PushedHead(th[t].old, th[t].d)]
          /\ Resume(t)
       \/ /\ partial_list[c] # th[t].old
          /\ RetryPush(t, "link_partial")
          /\ UNCHANGED partial_list
    /\ UNCHANGED <<cur, desc, link, avail_sb, cache, live, process>>

-----------------------------------------------------------------------------
\* The ends of threads and of the process.

\* A thread exits or crashes: ~TCaches gives nothing back, what the thread had in hand is lost.
ThreadStops(t) ==
    /\ phase = "up" /\ stops < scenario.stops
    /\ stops' = stops + 1
    /\ gone' = gone \cup {"thread"}
    /\ cache' = [cache EXCEPT ![t] = NoBins]
    /\ th' = [th EXCEPT ![t] = Idle(th[t].i + IF th[t].pc = "idle" THEN 0 ELSE 1)]
    /\ UNCHANGED <<scenario, cur, desc, link, avail_sb, partial_list, live, phase, mtx, gc, crashes, closes>>

ThreadsEnd ==
    /\ cache' = [t \in Threads |-> NoBins]
    /\ th' = [t \in Threads |-> Idle(th[t].i + IF th[t].pc = "idle" THEN 0 ELSE 1)]

\* The kernel marks the mutex of a dead owner; what the roots reach is some part of what was in use.
Dies ==
    /\ ThreadsEnd
    /\ phase' = "down" /\ mtx' = "ownerdied" /\ gc' = NoGc
    /\ \E reach \in SUBSET live : live' = reach /\ (phase = "gc" => reach = live)
    /\ UNCHANGED <<scenario, cur, desc, link, avail_sb, partial_list, stops, closes, gone>>

Crash ==
    /\ phase \in {"up", "gc"} /\ crashes < scenario.crashes
    /\ crashes' = crashes + 1
    /\ Dies

\* The region is used up: an assertion fails.
OutOfSpace(t) ==
    \/ At(t, "still_empty") /\ avail_sb.ptr = 0 /\ th[t].k + Expand > Region
    \/ At(t, "idle") /\ Op(t) = Large /\ cur + LargeSize > Region
Abort(t) ==
    /\ OutOfSpace(t)
    /\ Dies
    /\ UNCHANGED crashes

\* RP_close: writeback and set_clean.
Close ==
    /\ phase = "up" /\ closes < scenario.closes
    /\ \A t \in Threads : th[t].pc = "idle"
    /\ closes' = closes + 1
    /\ gone' = gone \cup {"close"}
    /\ ThreadsEnd
    /\ phase' = "down" /\ mtx' = "free"
    /\ UNCHANGED <<scenario, cur, desc, link, avail_sb, partial_list, live, gc, stops, crashes>>

\* is_dirty, on what trylock of the mutex answers.
IsDirty == mtx = "ownerdied"

\* RP_init and RP_recover: restart.
RestartClean ==
    /\ phase = "down" /\ ~IsDirty
    /\ phase' = "up" /\ mtx' = "held"
    /\ UNCHANGED <<scenario, cur, desc, link, avail_sb, partial_list, cache, th, live, gc, stops, crashes, closes, gone>>

\* Everything transient is reset and everything the roots reach is marked.
RestartDirty ==
    /\ phase = "down" /\ IsDirty
    /\ phase' = "gc" /\ mtx' = "held"
    /\ avail_sb' = Top(0, 0)
    /\ partial_list' = [c \in Classes |-> Top(0, 0)]
    /\ gc' = [s |-> 1, todo |-> {<<o.sb, o.idx>> : o \in live}, avail |-> 0]
    /\ UNCHANGED <<scenario, cur, desc, link, cache, th, live, stops, crashes, closes, gone>>

-----------------------------------------------------------------------------
\* GarbageCollection::operator(): the sweep, one superblock or large block after the other.

Before(a, b) == a[1] < b[1] \/ (a[1] = b[1] /\ a[2] < b[2])
FirstMarked == CHOOSE b \in gc.todo : \A a \in gc.todo : a = b \/ Before(b, a)

\* The marked blocks of superblock s; they are met in the order of addresses.
Marked(s) ==
    LET range == s .. s + (IF desc[s].cls = Large THEN desc[s].size ELSE 1) - 1 IN
    IF desc[s].cls = -1 \/ gc.todo = {} \/ FirstMarked[1] \notin range THEN {}
    ELSE {b \in gc.todo : b[1] \in range}

SweepEmpty ==
    LET s == gc.s IN
    /\ phase = "gc" /\ s < cur
    /\ Marked(s) = {}
    /\ desc' = [desc EXCEPT ![s] = [Fresh EXCEPT !.next_free = gc.avail]]
    /\ gc' = [gc EXCEPT !.avail = s, !.s = s + 1]
    /\ UNCHANGED <<scenario, cur, link, avail_sb, partial_list, cache, th, live, phase, mtx, stops, crashes, closes, gone>>

SweepLarge ==
    LET s == gc.s IN
    /\ phase = "gc" /\ s < cur
    /\ Marked(s) # {} /\ desc[s].cls = Large
    /\ desc' = [desc EXCEPT ![s].next_free = 0, ![s].next_partial = 0, ![s].anchor = FullAnchor(0)]
    /\ gc' = [gc EXCEPT !.s = s + desc[s].size, !.todo = @ \ Marked(s)]
    /\ UNCHANGED <<scenario, cur, link, avail_sb, partial_list, cache, th, live, phase, mtx, stops, crashes, closes, gone>>

\* Variant: the block before a marked one is freed too.
UnmarkedOffByOne(s) ==
    {i \in 0 .. BlockNum[desc[s].cls] - 1 : <<s, i>> \notin Marked(s) \/ <<s, i + 1>> \in Marked(s)}

Unmarked(s) == {i \in 0 .. BlockNum[desc[s].cls] - 1 : <<s, i>> \notin Marked(s)}

\* The blocks that are not marked become the free list, the last one first.
SweepSmall ==
    LET s == gc.s
        c == desc[s].cls
        free == Unmarked(s)
        below(i) == {j \in free : j < i} IN
    /\ phase = "gc" /\ s < cur
    /\ Marked(s) # {} /\ desc[s].cls # Large
    /\ link' = [link EXCEPT ![s] = [i \in DOMAIN @ |->
           IF i \notin free THEN @[i] ELSE IF below(i) = {} THEN NoPtr ELSE <<s, Max(below(i))>>]]
    /\ \/ /\ free = {}
          /\ desc' = [desc EXCEPT ![s].next_free = 0, ![s].next_partial = 0, ![s].anchor = FullAnchor(BlockNum[c])]
          /\ UNCHANGED partial_list
       \/ /\ free # {}
          /\ desc' = [desc EXCEPT ![s].next_free = 0, ![s].next_partial = partial_list[c].ptr,
                 ![s].anchor = [avail |-> Max(free), count |-> Cardinality(free), state |-> "partial"]]
          /\ partial_list' = [partial_list EXCEPT ![c] = PushedHead(@, s)]
    /\ gc' = [gc EXCEPT !.s = s + 1, !.todo = @ \ Marked(s)]
    /\ UNCHANGED <<scenario, cur, avail_sb, cache, th, live, phase, mtx, stops, crashes, closes, gone>>

SweepDone ==
    /\ phase = "gc" /\ gc.s >= cur
    /\ avail_sb' = Top(gc.avail, 0)
    /\ phase' = "up" /\ gc' = NoGc /\ gone' = {}
    /\ UNCHANGED <<scenario, cur, desc, link, partial_list, cache, th, live, mtx, stops, crashes, closes>>

-----------------------------------------------------------------------------

Malloc(t) ==
    \/ MallocCached(t) \/ FillCache(t)
    \/ LoadPartial(t) \/ NextPartial(t) \/ CasPartial(t) \/ TakePartial(t)
    \/ LoadAvail(t) \/ NextFree(t) \/ CasAvail(t)
    \/ LoadCur(t) \/ StillEmpty(t) \/ CasCur(t) \/ NewSb(t)
    \/ ExpandLarge(t) \/ NewLarge(t)
FreeBlock(t) ==
    \/ FreeLarge(t) \/ FreeCached(t) \/ FreeFlushing(t) \/ FreeNothing(t)
    \/ FlushRun(t) \/ FlushDone(t) \/ LinkPartial(t) \/ PushPartial(t)
    \/ LinkFree(t) \/ PushFree(t)
Step(t) == Malloc(t) \/ FreeBlock(t) \/ Abort(t)
Restart == RestartClean \/ RestartDirty \/ SweepEmpty \/ SweepLarge \/ SweepSmall \/ SweepDone

Next ==
    \/ \E t \in Threads : Step(t) \/ ThreadStops(t)
    \/ Crash \/ Close \/ Restart

Spec == Init /\ [][Next]_vars

\* Every thread is scheduled, and a process that has ended is started again.
FairSpec == Spec /\ (\A t \in Threads : WF_vars(Step(t))) /\ WF_vars(Restart)

-----------------------------------------------------------------------------
\* Who has a superblock, and who has a block.

SbList(ptr, succ) ==
    LET path[k \in 0 .. Region] ==
            IF k = 0 THEN IF ptr = 0 THEN <<>> ELSE <<ptr>>
            ELSE LET p == path[k - 1] IN
                 IF p = <<>> \/ succ[Last(p)] = 0 THEN p ELSE Append(p, succ[Last(p)])
    IN path[Region]
AvailList == SbList(avail_sb.ptr, [s \in Sbs |-> desc[s].next_free])
PartialList(c) == SbList(partial_list[c].ptr, [s \in Sbs |-> desc[s].next_partial])

\* The superblocks that a thread is about to use or to put on the free list.
InHand(t) ==
    CASE th[t].pc = "new_sb" -> {th[t].d}
      [] th[t].pc = "new_large" -> Listed(t)
      [] th[t].pc \in {"link_free", "push_free"} ->
             Listed(t) \cup IF th[t].ret = "first_sb" THEN {th[t].d - 1} ELSE {}
      [] OTHER -> {}
Larges == {o \in live : o.cls = Large}

\* The superblocks that are not cut into blocks, and how often they are counted.
Uncut ==
    Range(AvailList) \cup UNION {InHand(t) : t \in Threads} \cup UNION {o.sb .. o.sb + o.n - 1 : o \in Larges}
UncutCount ==
    Len(AvailList) + MapThenSumSet(LAMBDA t : Cardinality(InHand(t)), Threads)
    + MapThenSumSet(LAMBDA o : o.n, Larges)
Carved == 1 .. cur - 1
Cut == Carved \ Uncut
Blocks == UNION {{<<s, i>> : i \in 0 .. BlockNum[desc[s].cls] - 1} : s \in {s \in Cut : desc[s].cls \in Classes}}

Cached(t, c) == Chain(link, cache[t][c].block, cache[t][c].num)
\* An empty superblock has one free block more than it counts.
FreeList(s) ==
    LET a == desc[s].anchor IN
    Chain(link, <<s, a.avail>>, a.count + IF a.state = "empty" THEN 1 ELSE 0)

\* The blocks in use, on their way to a cache, and in caches, with their classes.
Flushing == {t \in Threads : th[t].blk # NoPtr}
Taken ==
    {<< <<o.sb, o.idx>>, o.cls>> : o \in live \ Larges}
    \cup {<<th[t].blk, th[t].c>> : t \in Flushing}
    \cup UNION {{<<b, c>> : b \in Range(Cached(t, c))} : t \in Threads, c \in Classes}
Owned == {b[1] : b \in Taken} \cup UNION {Range(FreeList(s)) : s \in Cut}
OwnedCount ==
    Cardinality(live \ Larges) + Cardinality(Flushing)
    + MapThenSumSet(LAMBDA tc : cache[tc[1]][tc[2]].num, Threads \X Classes)
    + MapThenSumSet(LAMBDA s : Len(FreeList(s)), Cut)

-----------------------------------------------------------------------------
\* Properties.

\* No memory has two owners, through any interleaving of mallocs, frees, flushes and retirements,
\* after threads have died and after a recovery: a superblock is at most once on the free list, in
\* a thread's hands or under a large block, and then no block of it is anywhere else; a block is at
\* most once in use, in a cache, or on the free list of its superblock.
OneOwner ==
    phase = "up" =>
        /\ Cardinality(Uncut) = UncutCount
        /\ Cardinality(Owned) = OwnedCount
        /\ \A b \in Taken : b[1][1] \in Cut /\ desc[b[1][1]].cls = b[2]

AllOwned == Blocks \subseteq Owned /\ \A s \in Cut : desc[s].cls \in Classes

\* Nothing is forgotten: as long as no cache was dropped, and again after a collection, every
\* superblock is on the free list or in use, and every block of one in use has an owner.
NothingForgotten == phase = "up" /\ gone = {} => AllOwned

\* The partial list of a class holds superblocks of this class that are partial or have become
\* empty, each once and none that is also free; and a superblock that is partial or empty is
\* on the list, or a thread has just taken it or is about to put it there.
PartialListSound ==
    phase = "up" =>
        \A c \in Classes :
            LET l == PartialList(c)
                owed(s) == {t \in Threads : th[t].pc \in {"take", "link_partial", "push_partial"} /\ th[t].d = s} IN
            /\ IsInjective(l)
            /\ \A k \in DOMAIN l :
                   /\ desc[l[k]].cls = c /\ desc[l[k]].anchor.state \in {"partial", "empty"}
                   /\ l[k] \in Cut /\ owed(l[k]) = {}
            /\ gone = {} => \A s \in Cut :
                   desc[s].cls = c /\ desc[s].anchor.state \in {"partial", "empty"}
                       => \/ s \in Range(l)
                          \/ Cardinality(owed(s)) = 1

\* The assertions of the code that need other threads to keep their part: a superblock popped from
\* a partial list is partial or empty and gives at least a block; a superblock that gets a block
\* back is not full of free ones already; none is pushed on itself; and the sweep has met every
\* marked block when it ends.
CodeAssertions ==
    /\ \A t \in Threads :
           LET d == th[t].d IN
           /\ th[t].pc = "take" =>
                  \/ desc[d].anchor.state = "empty"
                  \/ /\ desc[d].anchor.state = "partial" /\ desc[d].anchor.count > 0
                     /\ desc[d].anchor.avail < BlockNum[th[t].c]
           /\ th[t].pc = "flush" /\ Bin(t).num > 0 =>
                  LET a == desc[Bin(t).block[1]].anchor IN
                  /\ a.count < BlockNum[th[t].c]
                  /\ a.avail < BlockNum[th[t].c] \/ a.state = "full"
           /\ th[t].pc = "link_partial" => partial_list[desc[d].cls].ptr # d
    /\ phase = "gc" /\ gc.s >= cur => gc.todo = {}

Promise == INSTANCE Allocator WITH up <- phase = "up"

\* The allocator implements its abstract specification: what malloc returns overlaps nothing in
\* use, and only free and the end of the process take blocks away.
AllocatorSpec == Promise!Spec

\* A free returns, whatever the flush of the cache meets; and a malloc returns, unless its thread
\* saw the free list empty and the list has been filled since: small_sb_alloc does not look at
\* the list again (BaseMeta.cpp:607, 628), and waits for others to use it up.
Spins(t) == th[t].pc \in {"load_cur", "still_empty"} /\ avail_sb.ptr # 0
OperationsReturn ==
    \A t \in Threads :
        /\ th[t].pc = "flush" ~> th[t].pc = "idle"
        /\ th[t].pc = "load_partial" ~> th[t].pc = "idle" \/ Spins(t)
=============================================================================
