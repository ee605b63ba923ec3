# Memento in TLA+

Memento is a Rust framework for programs on persistent memory whose operations
are *detectable*: after a crash a thread is run again from the beginning, replays
what it had done from records called mementos, and goes on where it stopped. This
directory holds TLA+ models of its primitives, of the data structures on top, of
the pool with its epoch-based reclamation and of the allocator underneath; TLC
configurations that check them on small instances; and TLAPS proofs about the
checkpoint primitive, the queues, the combining lock and reclamation. Paths below are relative
to the repository; `ploc/`, `ds/`, `pmem/` and `pepoch/` are under `src/`.
`PROJECT.json` gives the source lines of every definition.

## 1. The system

| part | state | operations | what makes it hard |
|---|---|---|---|
| `ploc/checkpoint.rs` | two slots of value and time | `checkpoint`, `peek` | torn and unflushed slots; loops that reuse a memento |
| `ploc/common.rs` | clock, `rec`, `local_max_time` | `exec_time`, `set_info`, `Handle::new` | the clock restarts after a power failure |
| `ploc/detectable_cas.rs` | location with parity, descriptor bit and tid; help times; descriptors; own record | `cas`, `cas_non_detectable`, `load`, helping, recovery | helpers finish the CAS of crashed threads |
| `ploc/insert_delete.rs` | link, replacement field of a node, record of failure | `insert`, `insert_lp`, `delete`, `load_help`, `load_lp` | success is recovered from the data structure |
| `ds/queue.rs`, `ds/queue_lp.rs` | head, tail, nodes | `enqueue`, `dequeue`, `contains`, `filter` | stale tail, unflushed links |
| `ds/queue_general.rs`, `ds/treiber_stack.rs` | head, tail, top, nodes | `enqueue`, `dequeue`, `push`, `pop` | replay through several mementos |
| `ds/list.rs` | ordered links with deletion marks | `insert`, `delete`, `lookup` | recorded links in unlinked nodes; any search unlinks |
| `ds/comb.rs`, `ds/queue_comb.rs` | requests, state records, index, lock | `apply_op`, combining, waiting | a crashed combiner keeps the lock |
| `ds/clevel.rs`, `crossbeam-channel` | levels, slots, resize requests | `insert`, `delete`, `search`, `resize` | slots move while they are searched |
| `pmem/pool.rs` | roots, clearing flags, barrier | `create`, `open`, `execute`, `clear_mmt` | a crash inside recovery |
| `crossbeam-epoch`, `pepoch/mod.rs` | epochs, bags, participants | `pin`, `repin_after`, `collect`, `old_guard`, `defer_pdestroy` | participants that outlive their thread |
| `ext/ralloc` | superblocks, descriptors, lists, caches | `malloc`, `free`, exit, close, recovery | lock-free lists; collection after a crash |
| `pmem/ll.rs`, `pepoch/atomic.rs`, `pmem/ptr.rs` | none; tagged words | flush, fence, tags | order of flushes |
| `pmem/alloc/*`, `derive`, test utilities, `ds/tlock.rs` | | | bindings, generated code, drivers; `tlock.rs` is not compiled |

The parts form layers. The data structures are written with checkpoints and
either detectable CAS, Insert and Delete, or combining. These take times from the
clock and flush through `ll.rs`. `PoolHandle::execute` re-runs a thread that died,
`Pool::open` rebuilds volatile state after a power failure by running the
`filter` of every reachable object, nodes that were removed go to the epoch
collector, and memory comes from the allocator.

Two kinds of crash are modelled. A *thread crash* loses the local state of one
thread; memory stays as the caches show it. A *power failure* loses every
thread and whatever had not reached persistent memory; for the allocator and the
collector it is the death of the process.

## 2. Modules

| module | models | abstract specification |
|---|---|---|
| `Replay` | what replay promises: each result obtained once, in program order | |
| `Checkpoint` | one thread running a prologue and a retry loop of checkpoints | `Replay` (`ReplaySpec`) |
| `CasObject` | what detectable CAS promises | |
| `DetectableCas` | `detectable_cas.rs`, one action per access to shared memory | `CasObject` (`ObjectSpec`) |
| `Containers` | a durable FIFO queue, LIFO stack and set of keys | |
| `SmoQueue` | `insert_delete.rs` with `queue.rs` and `queue_lp.rs` (`lp` says which) | `Containers` (`FifoSpec`) |
| `Mementos` | replay of operations made of checkpoints and CASes | |
| `TreiberStack`, `QueueGeneral`, `List` | the stack, the queue and the ordered list on `Mementos` | |
| `Pipeline` | all three, used by the same threads | `Containers` (`ContainerSpec`) |
| `Combining` | `comb.rs` with a log as the sequential object | |
| `Epoch` | `crossbeam-epoch`: participants, epochs, bags | |
| `PoolExecute` | `pool.rs`: threads of `execute` and others, on `Epoch` | |
| `Allocator` | what the allocator promises | |
| `Ralloc` | `ext/ralloc` | `Allocator` (`AllocatorSpec`) |
| `CheckpointProofs`, `DetectableCasProofs`, `CombiningProofs` | the theorems about `Checkpoint`, `DetectableCas` and `Combining` | |
| `SmoQueueFifo` | the refinement mapping from `SmoQueue` to `Containers` | |
| `SmoQueueInvariant`, `SmoQueueSteps`, `SmoQueueProofs`, `SmoQueueRefinement` | the inductive invariant of `SmoQueue`, what its steps have in common, one lemma per action with the theorems, and the refinement | |
| `PoolInvariant`, `PoolSteps`, `PoolExecuteProofs` | the inductive invariant of `PoolExecute`, the steps that keep it, and the theorems | |
| `MC*` | programs and crash bounds for TLC | |

Most modules have a variable `scenario`, chosen once in `Init`: the programs of
the threads and how often who may die. One run thus covers several programs.

**Checkpoint.** `slot` and `pslot` are `saved[2]` in the cache and in memory.
`Peek` is replay, `Run` the call of `val_func`, and `WriteVal`, `FlushVal`,
`WriteTs`, `Flush` the stores and flushes, on both sides of the size branch
(`OneLine`). `Evict` writes a line back at any moment. `lpc`, `lenv`, `lts`,
`llast` are history: the execution that the crashes are meant not to disturb. A
slot that fits a line is stored in one step; tearing inside it is not modelled.

**DetectableCas.** A pointer is a record of data, parity, descriptor bit and tid.
`mem` is what the caches show, `pm` what a power failure would leave, `pend` the
lines flushed and not fenced. Each thread runs the loop all containers use: record
a load, try the CAS, repeat. `log` and `acked` are the history of `CasObject`.

**SmoQueue.** `disk` holds lines as last flushed; a power failure leaves each line
so, or as written since. Insert and Delete record only failure, so recovery looks
for the node (`insert_result`) or for the deleter's name in it (`delete_result`).

**Mementos, TreiberStack, QueueGeneral, List, Pipeline.** A memento is its last
record and its time, and replay takes a record that is later than the last one
taken. Loads of two pointers are separate steps; a checkpoint or CAS is one durable
step. The list has two keys, which is enough for a chain of two marked nodes that a
search unlinks with one CAS and retires one by one.

**Combining.** Serving a request is two steps, the call of `sfunc` and the store
of `deactivate`, and commit, its flush, flip and unlock are four. The hooks of the
combining queue (`final_func`, `after_func`) are not in the model.

**Epoch, PoolExecute.** `loc[t]` is the participant (`Local`) of thread `t`, which
stays when the thread dies; `leaked` are the temporary participants of
`Local::find`, which are never unpinned because dropping a guard does nothing in
this fork (`guard.rs:430`). `epoch` and `queue` are those of `Global`. `th[t]` is
where the thread is: `pin`, `collect` and `unpin` are subroutines with one action
per access to shared memory (`PinLoad`, `PinStore`; `AdvanceLoad`, `AdvanceCheck`,
`AdvanceStore`, `Pop`; `Unpin`, `Seal`, `PushBag`, `UnpinStore`), and `Found`,
`OldGuard` and `Reset` are `old_guard`. A thread of kind `"root"` is started by
`execute` and waits at the barrier; a `"worker"` only uses a guard. An operation
reads a node of the structure or unlinks and retires one; its result is in the
memento `mem[t]` until `clear_mmt` (`ClearBegin`, `ClearSlot`, `ClearEnd`), and a
re-executed thread goes through it again and retires again. `hole` is history: the
thread died while its participant counted as pinned and was not.

**Ralloc.** `desc`, `avail_sb`, `partial_list` and `cache` are the descriptors,
the two kinds of list with their counters and the thread caches; `link` is the
first word of each block, which chains free blocks and belongs to the program when
the block is in use. Loops that also touch the links of descriptors are taken
apart step by step; a loop that retries a CAS on one word is one step. Threads
exit or die, the process closes cleanly or dies, also in the middle of the
collection that follows; what the roots reach is chosen. Flushes are empty in the
build (`pfence_util.h:58`), so there is no power failure.

### What the layers assume of each other

`SmoQueue` takes a checkpoint, and `Pipeline` a checkpoint and a CAS, as atomic
and durable. That is what `Checkpoint` and `DetectableCas` are checked for, and it
is **not** unconditional: section 4 shows executions of the code in which a
checkpoint is recomputed (a thread crash followed by a power failure) and in which
a CAS takes effect twice. What `SmoQueue` and `Pipeline` show is therefore
conditional: it is about these algorithms, given primitives that keep their
promise. In particular `smo_queue` includes a thread crash followed by a power
failure, where the real checkpoint does not keep it. In the same way `PoolExecute`
takes the structure, its mementos and the lock-free list and queue inside the
collector as atomic, and the containers take allocation as a fresh node and
recovery as keeping what is reachable, which is `Allocator`.

## 3. Runs that pass

| run | instance | properties | states |
|---|---|---|---|
| `checkpoint_replay` | a prologue of 1 and a loop of 2 mementos, 5 times, both layouts, 2 thread crashes, 1 power failure, no power failure after a thread crash | `TypeOK`, `RecordsReplay` (inductive), `ResumesWhereItStopped`, `ReplayRebuildsLocals`, `ClockAheadOfSlots`, `ReplaySpec`, `RecoveryEnds` | 312,846 |
| `cas_threads` | 2 threads with 1 update each; thread 1 dies once against a detectable update, twice against a non-detectable one | `LocationFollowsLog`, `ObjectSpec`, `AllReturn` | 206,381 |
| `cas_power` | 2 threads with 1 update each, 1 power failure, write-back at any moment | `DescriptorIntact`, `LoadedIsDurable`, `ObjectSpec` | 1,852,342 |
| `combining` | 2 threads; 2 operations each and 1 crash of thread 1, or 1 operation each and 1 power failure | `AppliedOnce`, `PeekedIsNotNull`, `OneCombiner`, `CommittedGrows`, `AllReturn` | 563,769 |
| `smo_queue` | enq, deq against deq, enq with 1 thread crash and 1 power failure; enq against enq, deq, deq with 1 thread crash; both queues | `QueueFollowsLinks`, `RetiredUnreachable`, `FifoSpec`, `AllReturn` | 253,105 |
| `pipeline` | six pairs of programs over stack, queue and list, 1 crash of either kind | `ContentsFollowLinks`, `RetiredUnreachable`, `AllRetired`, `ContainerSpec`, `AllReturn` | 215,331 |
| `pool` | 2 threads, 2 nodes, bags of 2; workers that retire and repin; threads of `execute` of which one dies; or the process dies | `NotWhileHeld`, `DestroyedOnce`, `RunsPinned`, `WholeMemento`, `PinKept`, `EpochNeverBack`, `AllFinish` | 441,983 |
| `ralloc_heap` | 2 threads, two classes with 1 and 2 blocks in a superblock, large blocks of 2, a region of 9; six programs with exits, a close, and up to 2 crashes of the process | `OneOwner`, `NothingForgotten`, `PartialListSound`, `CodeAssertions`, `AllocatorSpec`, `OperationsReturn` | 119,930 |

Every property is stated in words above its definition. What the runs show, in
short: replay rebuilds what was lost and resumes in the right place; CASes,
containers and allocator behave as their abstract specifications, each operation
taking effect once; one thread combines at a time and no request is lost or served
twice; nodes are retired once, when they are unreachable, and destroyed once, when
nobody holds them; and operations return.

**Bounds.** Two threads suffice for a race, a helper and a helped thread, and a
crash of one while the other goes on. The loop of `checkpoint_replay` is entered
again, so records of two rounds coexist. `PinsPerCollect = 2` and `MaxObjects = 2`
make every second pin collect and two retirements fill a bag; with three
iterations a bag expires and is popped. `Expand = 3` and `Region = 9` let the free
list run empty, the region grow and finally be used up; counters of list heads are
not bounded otherwise than by the programs. What the bounds leave out is as
important: three threads (except in the proofs), more than one CAS location, two
updates by one thread under power failures (section 4 says what happens with
more), clock skew (`Skew` and `Offset` are 0), keys beyond two in the list.
`RetiredUnreachable` and `AllRetired` speak of executions without a power failure
and without a crash respectively; section 4 says why. Deadlock is not checked,
because the programs end; that they end well is `AllReturn` and `AllFinish`.

**Fairness.** Liveness uses weak fairness of each thread's `Step`: the scheduler
runs every live thread, and `execute` re-runs a dead one, which is why the restart
is part of `Step`. In `Ralloc` a process that ended is also started again. Crashes
and write-backs are not fair. The number of operations is finite, so `AllReturn`
says that the calls of such a program return; it is not a claim of lock-freedom or
of absence of starvation under an endless supply of competing operations.
`OperationsReturn` excepts the loop described in section 4.

## 4. Where the code and its documentation disagree

Four runs are expected to find a violation. They are counterexamples of the
models; none was reproduced on the compiled program.

- `checkpoint_both`. A thread dies between storing a record and flushing it. Its
  successor replays the record from the cache without flushing it and records
  later results durably. A power failure keeps those and loses the first
  (`checkpoint.rs:94-95`, `121-131`).
- `cas_twice`. A helper that lost the registration of a descriptor finalizes the
  winner's with the time it took for an earlier pointer. The help is not above the
  owner's last CAS, so the owner's recovery concludes that nothing happened and
  performs the update again (`detectable_cas.rs:463-473`, `296-299`).
- `combining_flip`. A combiner dies between commit and flip, combines in place in
  the committed record, and dies again between `sfunc` and `deactivate`: the
  request is applied twice (`comb.rs:248-253`, `272-281`).
- `smo_reclaim`. After a power failure that keeps the names in deleted nodes and
  loses moves of head, a recovering deleter retires a node that is still on the
  list (`insert_delete.rs:400-407`).

Others were met while modelling or in exploratory instances and are not runs of
the project, so they should be read as leads.

- `detectable_cas.rs`: a crash between the two halves of `checkpoint_succ` leaves a
  mark with the wrong parity (`281`, `741-744`); `load_help` returns a marked
  pointer with tid 0 (`388`, against the comment at `381`); failed CASes are not in
  the maximum that restarts the clock (`721-723`). With two locations, a thread that
  dies after publishing a descriptor on one and, re-executed, helps on the other
  first moves its sequence number on; the first location then names a descriptor
  that `finalize_help` takes for a help that "has already done" (`546-549`).
- `comb.rs`: `activate` is never flushed, so its number can be used again after a
  power failure (`192`); a delayed non-combiner can read a record that is being
  overwritten (`316-318`).
- `queue_general.rs`: `filter` sets the tail back to the head, which a replayed
  dequeue can then retire (`144`). `list.rs`: a thread that dies between the CAS
  that unlinks a chain and the loop that retires it leaves nodes that nobody
  retires (`210`).
- Epochs. A thread that dies in `repin_after` after unpinning, or in `pin` between
  the count and the store, is taken over with a guard count of one, so that `pin`
  stores no epoch and the thread runs unpinned until it repins (`default.rs:38`
  says "we must ensure that there is a guard"); `RunsPinned` excepts it, and
  `NotWhileHeld` holds all the same because a temporary participant of
  `Local::find` is pinned. `dedup_by` drops only neighbouring duplicates
  (`internal.rs:683`), so a re-executed thread that retires two nodes puts both
  into bags twice; `DestroyedOnce` holds because, again, those participants keep
  bags from expiring. The same participants keep everything retired under
  `execute` from being destroyed until the process ends, while the test at
  `default.rs:169-183` expects drops.
- Allocator. `small_sb_alloc` reads the head of the free list once and, when the
  list was filled in between, goes round without reading it again
  (`BaseMeta.cpp:607`, `628-630`, against the comment at `653`). Blocks in the cache
  of a thread that exits are not given back (`TCache.hpp:72`). `is_dirty` says no
  when the lock is busy (`BaseMeta.cpp:181-183`).

## 5. Proofs

All theorems hold for every value of the constants that meets the named
assumptions: any number of threads, nodes and values, any programs, any number of
crashes. Where a theorem has a condition on crashes, its statement shows it.

| module | theorem | statement |
|---|---|---|
| `CheckpointProofs` | `TypeCorrect` | `Spec => []TypeOK` |
| | `RecordsAlwaysReplay` | `~Mixed /\ Spec => []RecordsReplay` |
| | `ResumeIsExact` | `~Mixed /\ Spec => []ResumesWhereItStopped` |
| | `LocalsAreRebuilt` | `~Mixed /\ Spec => []ReplayRebuildsLocals` |
| | `ClockStaysAhead` | `~Mixed /\ Spec => []ClockAheadOfSlots` |
| | `CheckpointRefinesReplay` | `~Mixed /\ Spec => ReplaySpec` |
| `DetectableCasProofs` | `HelpingKeepsTheValue` | `Spec => [](Steady => LocationFollowsLog)` |
| `CombiningProofs` | `MutualExclusion` | `Spec => []OneCombiner` |
| | `NonCombinerFindsRecord` | `Spec => []PeekedIsNotNull` |
| | `CommittedStateGrows` | `Spec => CommittedGrows` |
| | `RequestsAppliedOnce` | `Spec => [](Calm => AppliedOnce)` |
| `SmoQueueProofs` | `Invariance` | `Spec => []Inv` |
| | `RetiredSafely` | `Spec => []RetiredUnreachable` |
| | `LinksMakeTheQueue` | `Spec => [](scrash = 0 => QueueFollowsLinks)` |
| `SmoQueueRefinement` | `QueueIsFifo` | `Spec /\ [](scrash = 0) => FifoSpec` |
| `PoolExecuteProofs` | `Invariant` | `Spec => []Inv` |
| | `Reclamation` | `Spec => []NotWhileHeld` |
| | `DestroyedAtMostOnce` | `Spec => []DestroyedOnce` |
| | `AlwaysPinned` | `Spec => []RunsPinned` |
| | `MementoWhole` | `Spec => []WholeMemento` |
| | `PinStaysPut` | `Spec => PinKept` |
| | `EpochMonotone` | `Spec => EpochNeverBack` |

**Checkpoint.** The assumptions are `ProgramAssumption` and `FaultAssumption`,
which type the constants and say that the default value is not a result. `~Mixed`
says that no power failure follows a thread crash. It cannot be dropped: with
`Mixed`, `checkpoint_both` is a counterexample. That replay resumes in the right
place is not inductive: it depends on which records exist and on their times.
`RecordsReplay` adds what is needed. `Good(L)` says that the latest records are in
the order of the logical results and hold their values, except possibly one that
is recorded and not returned yet (`Pending`). `ThreadState` says that a recovering
thread is on its way through them or has consumed them, and what a writing thread
has in hand. `MemoryState` says that cache and memory differ only in the slot being
written, and that memory alone is `Good` too; it is claimed until the first thread
crash. Each action has a lemma. The refinement follows because only `Flush` and
the `Peek` of a pending record move the history.

**Detectable CAS.** The assumption `CasAssumption` says that 0 is no thread, that no
clock is ahead by more than the boundary, and that every program has an update and
updates locations. What a location stands for depends on the descriptor it names,
which its leader uses again for the next help, and on helpers that have read the
descriptor and come late. `CasInv` (in `DetectableCasProofs`) is about these two.

- `Place(t)`. In which call of `load_help` a thread is, and that what it swings the
  location to after its CAS is the value of its CAS.
- `Leads(d)`. A descriptor that a location names has the sequence number its leader
  gave it last, and the leader is not in `register_help`: it has to finish that help
  first, since it is in `load_help` for this location and holds this very pointer
  (`Helps`), unless it died.
- `Seen(t)`. A descriptor pointer that a thread holds is no newer than the descriptor.
  If it is not older either, the leader is not rewriting it, and the `tmp_new` that a
  helper has read is the present one. So a `finalize_help` that succeeds in swinging
  the location swings it to what the location stood for; a late one fails, or gives up
  at the check of the sequence number.

`Steady` says that power has not failed and that every thread that died updates one
location only. A re-executed thread with one location meets its own descriptor there
before it registers another help. One with several may go back to another location
first, and then the condition is needed: if thread 1 makes a non-detectable update of
location 1 and then updates location 2, dies while location 2 names its descriptor,
and on its way back registers help for location 1, the descriptor is rewritten under
location 2, and TLC finds `LocationFollowsLog` violated. TLC checked
`Inv` on 2 threads and 1 location with up to two updates and two deaths (17,718,323
distinct states) and on 2 locations (1,868,773).

**Combining.** The assumption `CombAssumption` says that thread ids are `1 .. n`,
so that none is 0, the id of a free lock, and that each has an operation to do.
`LockInv` is about the lock word alone: a
held word names the one thread inside, which may have died and come back, and a
released word names a record, unless nobody has taken the lock since the pool was
opened. `CommitInv` adds types and `Ahead`: the record the combiner works on is
ahead of the committed one, so that the commit extends it.

`RequestsAppliedOnce` needs to know which requests the log has and which it must
have. `Calm` says that power has not failed and that no thread has died twice; each
may die once, at any point. The condition is on the state, and it cannot be dropped:
`combining_flip` is a thread that dies twice and applies a request twice. `OnceInv`
is the invariant while `Calm` holds.

- `Numbered(t)`. The operation of a thread, its checkpoint and its request have the
  same number, so that a re-executed operation announces the request it announced
  before, if it did, and no other.
- `Performed(t)`. The stable state has performed all requests of `t` but perhaps the
  last one, and that one too when `t` has its result or has gone on. A thread that
  found the lock taken and now looks into a record looks into the stable one, unless
  its request has been performed since.
- `Exact`. A log holds the operations `1 .. deact[t]` of every thread, each once.
- `Work(t)`. The record that a combiner works on is `Exact`, except between the
  operation and the store of its number. When it is committed it has the requests of
  the combiner and of all threads that looked at the lock word before (`Counts`),
  in whatever round they came.
- The stable record is `Exact`, except while a combine works on it (`InPlace`). That
  takes a thread that died between the commit and the flip of its index: it comes
  back to copy the stable record onto itself. Were it to die again between an
  operation and its number, it would apply the operation again, hence `Calm`.

TLC checked `OnceInv` on 2 threads with 2 operations each, 2 rounds, each thread dying
at most once (511,962 distinct states), and on 3 threads with 1 operation each and 1
round (2,085,274). That `Cardinality` is 0 for the empty set and 1 for a singleton is
proved from its definition: the library's theorems on finite sets would have doubled
the time of all proofs in the module.

**Queues.** The assumption `QueueAssumption` says that 0 is no thread and that
programs are sequences of enqueues and dequeues. `scrash` counts the power failures
so far, so `scrash = 0` says that there was none; threads may die at any point and
any number of times. `Inv` (in `SmoQueueInvariant`) is `Types`, `Owners` (whoever
retires a node has its name in it) and, while `scrash = 0`, `Calm`:

- `List`. Links have one source each. A node that carries the name of its deleter
  names its successor as the new head, and the tail is beyond it (`Behind`). The
  nodes the head has passed (`Past`) come before those it has not (`Chain`), the
  head leads to all the others (`Whole`), and the values of the queue are what
  follows the first node without a name (`Contents`).
- `Mementos(t)`. The pair recorded by a dequeue was the head with its successor, and
  the tail has passed it. Records are in the order of time, none is made for an
  operation before the earlier ones took effect, and a replaying thread has not yet
  taken those of later operations (`Ordered`). What was returned is what was done.
- `Mine(t)`. A node was recorded before it was linked, and a pair before its first
  node was named: what the list shows of `t` is in its mementos too.
- `Knows(t)`, `Once(t)`. What the local variables say of the list; and a thread that
  is about to insert or to delete has not done so before. This is the heart of
  exactly-once: in recovery, absence from the list counts only together with the
  absence of a deleter's name (`recheck`).

Links, names, and being linked or passed are never undone while power does not fail
(`Grows`), so what other threads know stays true. Retired nodes are unreachable
because the nodes not passed are closed under links and contain the head, and
because the tail is beyond every named node. In the refinement the successful
compare-and-swap of insert is `Enqueue`, that of delete `Dequeue`, and the
checkpoint of a pair without a next node is `FindEmpty`; the return of a re-executed
operation stutters. `RetiredUnreachable` needs no condition in the theorem because
it states its own: one retirer always, unreachability until power fails. TLC checked
`Inv` on the instance of `smo_queue`. With power failures `QueueFollowsLinks` and
`FifoSpec` are only model-checked: an invariant would have to say of every line what
it may be on disk, and which flushes the mementos rely on.

**Reclamation.** The assumption `PoolAssumption` says that the bounds of the
collector are positive, that nodes are positive numbers and that programs are
sequences of operations. That no held node is destroyed is far from inductive. `Inv`
(in `PoolInvariant`) has four parts.

- `Own(t)` says where a thread is and when its participant is pinned. A memento is
  empty while its thread repins (`EmptyMemento`); a participant that is not pinned
  belongs to a thread that is on its way to pin it and that nobody counts on
  (`Unsettled`), or that died in the hole; and then, because it must have gone
  through `Local::find`, a temporary participant is pinned (`KnowsKind`). No value
  read from the epoch is ahead of it (`Behind`), and a thread in `try_advance` is
  itself pinned, or a temporary participant is pinned in the epoch it read
  (`HoldsIt`).
- `Anchors(t)` relates two threads in `try_advance`: if the one has not passed its
  own participant in vain, the epoch is at most one ahead of what it read, and
  whoever read a later epoch will still meet that participant. This is why the
  epoch never goes back.
- `Safe(t, s)` is why a bag sealed with epoch `s` cannot expire while `t` holds a
  node in it: the epoch is at most `s + 1`, `t` or a temporary participant is
  pinned no later than `s`, and whoever is about to move the epoch beyond still
  has to look at `t`.
- `Reclaim` says that a node of the structure is retired nowhere, and that every
  bag, sealed or pushed, with a node that someone holds is `Safe`.

That no node is destroyed twice needs more: `Single` says where retired nodes are. A
node that is retired is retired by one thread (`Apart`), and one that was destroyed
is nowhere (`Gone`). A worker is never re-executed and retires a node once, so its
bags share no node with any other (`Lone`, `RetiresOnce`). A re-executed thread does
retire its nodes again, into a second bag; but then its participant came from
`Local::find`, a temporary participant is pinned for good no later than the epoch
the bag is sealed with, and the bag never expires (`Frozen`). Every bag in the queue
is of one kind or the other (`Queues`).

`PoolSteps` has the lemmas about `Inv` and about `Single` for the steps of threads and
of the collector, and `PoolExecuteProofs` those for the initial state and for the death
of the process. The former takes the facts it uses of `Cardinality` as a hypothesis
(`Counting`), which the latter proves from the library. `Inv` was first
checked with TLC on the instance of `pool`, and `Single` on a larger one
(6,053,156 distinct states).

Only model-checked:

- all liveness, which is beyond the prover;
- `QueueFollowsLinks` and `FifoSpec` of `SmoQueue` after a power failure;
- `DescriptorIntact`, `LoadedIsDurable` and `ObjectSpec` of `DetectableCas`, and
  `LocationFollowsLog` where `Steady` does not hold. Not all of them can hold for every instance: `cas_twice` is one in
  which a CAS takes effect twice, and `DescriptorIntact` is not to be expected with
  two locations (section 4);
- `AppliedOnce` of `Combining` after a power failure. Which of two records is stable
  then depends on which lines were written back, so the invariant would have to speak
  of every line in both places;
- everything about `Pipeline` and `Ralloc`.

## 6. Not modelled

- **Clevel** (`ds/clevel.rs`) and the **channel** that feeds its resizer. Two levels
  of buckets with tagged slots are moved by one thread while others search,
  insert and delete in up to four buckets: the smallest instance in which a move
  and a search meet is far beyond the other runs. The channel is volatile and only
  Clevel uses it.
- **The combining queue** (`ds/queue_comb.rs`): two instances of `Combining` that
  share a list through `NEW_NODES` and `OLD_TAIL`. One instance alone has half a
  million states, and their product is out of reach.
- **Of the collector**: deferred persists, handle counts and `finalize`, and the
  lock-free list and queue inside (taken as atomic). The one participant whose
  count drops to zero holds nothing back that others do not (see `Epoch`).
- **Of the pool**: the checks of the pool file and the mapping of memory are I/O.
- **Of the allocator**: `aligned_alloc`, `realloc`, `RP_gc` at run time, the
  mapping of files, and the tracing of roots, which is a choice of what they reach.
- **Bindings** (`pmem/alloc`), the **derive macros**, **test utilities** and
  evaluation programs, and `tlock.rs`, which is not compiled.
- How the **Ordo boundary** is measured, the choice of **flush instruction**, and
  the packing of **tagged pointers** into 64 bits.
- `lookup` of the list is `find` and changes nothing else; `dequeue_some` is a loop
  around `dequeue`.
- **Relaxed memory.** Memory is sequentially consistent in all modules; where the
  code uses relaxed accesses the models do not show the extra behaviours.
- Detectable CAS and the clearing of mementos in one module: a delayed helper may
  raise the help time of a thread whose memento is being cleared (`pool.rs:94`).
  Each of the two is near the limit of what can be checked alone.
