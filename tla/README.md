# Pynerve in TLA+

Pynerve computes persistent homology. Most of its C++ core is numerical code, but its centre,
the reduction of boundary matrices and the machinery that runs it on many threads, is control:
loops whose order decides the answer, compare-and-swap races, queues, counters that decide when
a thread may leave. This directory holds TLA+ modules of that centre, TLC configurations that
check them on small instances, and theorems about them that TLAPS checks for instances of any
size.

## 1. Inventory

The library lives under `src/src` (C++), `src/python/pynerve` (bindings), `src/tests`, `src/doc`.

| Part | State it keeps | Operations | Interaction | What makes it correct |
|---|---|---|---|---|
| Lock-free parallel reducer (`persistence/reduction/reduction_lockfree_ops.cpp`) | columns, `reduced` flags, pivot table of atomics, `completed_columns` | setup, worker loop, apparent-pair claim, add, claim/steal of pivots, post-pass, extraction | N workers share columns and table without a lock; main thread joins them | no data race on columns, table tells the truth, left-to-right additions only, all columns reduced before anyone leaves, right number of pairs, it returns |
| Its work-stealing queue (same file) | ring buffer, `top_`, `bottom_` | push, pop, steal | one owner, many thieves | every item taken once; operations look indivisible |
| Sequential reducer (`reduction_ops.cpp`, `reduction_control_ops.cpp`) | reduced columns, `pivot_columns_`, cleared flags, pairs | twist pass, clearing, standard pass, extraction | reads a boundary matrix | the persistence pairing |
| Boundary matrix (`algebra/boundary`) | sparse entries, `last_low_row_to_col_` | pairs, essential cycles, echelon form | used by the reducers | pairing; the answer belongs to the matrix asked about |
| Building blocks (`reduction_lock_free_structures_*.cpp`) | open-addressing pivot table, queue of heap-allocated tasks, coordinator | insert/find, push/pop/steal, run | any number of threads | an inserted pivot is found; every task runs once |
| Thread pool (`include/threading`) | mutex queues, stop flag, counters | submit, worker loop, waitForAll, shutdown | N workers, any clients | an accepted task runs; waitForAll returns and only when done |
| Streaming containers (`include/nerve/streaming/lock_free_streaming.hpp`, `streaming/lockfree`) | ring buffer, window, queue of sequenced cells, linked queue with hazard pointers | push, pop, snapshot, rotate | producers and consumers | FIFO, nothing lost or duplicated, snapshots consistent |
| Feature cache (`cache`) | per-symbol rings, global map, counters | put, get, evict, clear | readers and writers under two lock levels | newest entry wins; no use after clear |
| Sharded boundary matrix, checkpoints, scheduler (`distributed`) | local columns, owners, remote cache, files | reduce, exchange, resolve, checkpoint, restore | ranks exchange by MPI collectives | same pairs as one rank; restore returns what was saved |
| Micro-batching (`include/nerve/batching`) | queue, counters, worker threads | add, flush, start, stop | clients and workers | every item processed once |
| Streaming persistence, memory pools, async I/O, feature flags, error registries | various | various | mostly one lock each | not modelled |
| VR engines, filtrations, GPU kernels, spectral/sheaf numerics, ML layers | floating-point data | pure computation | none | out of a model checker's reach |

The hard behaviours are therefore: interleavings on the pivot tables, queues and rings (and, for the
reducer's queue, the weak ordering of the owner's stores), counters that decide when a thread may
leave or a call may return, a post-pass that repairs what a race left behind, stale state carried
from one pass of a sequential algorithm into the next, snapshots taken without a lock, notifications
sent without one, ranks that wait for each other in collective calls, and jobs that die between two
checkpoint files. `PROJECT.json` lists 38 such hazards, each at its line, with the properties about it.

## 2. Modules

| Module | Models | Kind |
|---|---|---|
| `Z2Columns` | column arithmetic of the reducers; and, independent of any algorithm, what the persistence pairing is | operators |
| `LockfreeReduction` | `reduceMatrixLockfreeProfiled`, all of it | state machine |
| `WorkStealingQueue` | `WorkStealingQueue<T>` of that reducer, access by access, with a store buffer | state machine |
| `AbstractDeque` | what such a queue promises | abstract specification |
| `Reducer` | the sequential `Reducer`: `compute`, `cohomologyReduction`, `twistedReduction` and their passes | state machine |
| `PivotTable` | `LockFreePivotTable` | state machine |
| `LockFreeWorkQueue` | `LockFreeWorkQueue`, with its heap-allocated tasks | state machine |
| `ReductionCoordinator` | `LockFreeReductionCoordinator` and `LockFreePivotAnnounce` | state machine |
| `ThreadPool` | `ThreadPool` over its mutex queues | state machine |
| `AbstractPool` | what a pool promises: each accepted task is taken once and runs once | abstract specification |
| `CellQueue` | `LockFreeMPMCQueue`, the queue of cells with sequence numbers | state machine |
| `AbstractQueue` | a first-in first-out queue of many producers and consumers | abstract specification |
| `StreamingWindow` | `LockFreeStreamingWindow` on its `WaitFreeRingBuffer` | state machine, composition |
| `WindowManager` | `StreamingWindowManager` with its `LockFreeSPSCQueue` and `CircularBuffer` | state machine, composition |
| `MicroBatching` | `MicroBatchingEngine` | state machine |
| `FeatureCache` | `FeatureCache`'s rings under puts, evictions and clears | state machine |
| `ShardedBoundaryMatrix` | `ShardedBoundaryMatrix` and `DistributedPersistence::compute` over MPI ranks, with crashes and restarts | state machine, composition |
| `MCLockfreeReduction`, `MCReducer`, `MCThreadPool`, `MCShardedBoundaryMatrix` | instances of one component | model checking |
| `MCStructures`, `MCStreaming`, `MCReducerPool` | instances of several components that nothing in the code connects | model checking |
| `Z2ColumnsProofs`, `LockfreeReductionProofs`, `ReducerProofs`, `ThreadPoolProofs`, `ShardedBoundaryMatrixProofs` | theorems about one component | proofs |
| `StructuresProofs`, `StreamingProofs` | theorems about the components that `MCStructures` and `MCStreaming` set side by side | proofs |

`MCStructures`, `MCStreaming` and `MCReducerPool` check components side by side. The variable `subject` is chosen in
the initial state and says which component the behaviour is of; the others keep their initial values.
The state space is the disjoint union of theirs, so a property about one component says what it would
say in a run of its own.

### Columns

A `std::vector<int>` sorted ascending becomes the set of its elements, `indices.back()` becomes
`Low`, the merge of `addColumnLockfree` becomes the symmetric difference. `PersistencePivot(m, j)`
is the least low over all sums of column `j` with earlier columns. That value does not depend on
how a reduction proceeds, so it is a reference for every reducer, not a second implementation.

### LockfreeReduction

`setup` (main thread: `CreditEmptyColumn`, `PushColumn`, `LaunchWorkers`), `workers`
(each worker's loop, one action per access to shared state), `postpass`/`cascade` (main thread
after `JoinWorkers`), `done`. A worker's `pc` names the place in the code:

| `pc` | Code in `reductionWorker` |
|---|---|
| `check` | `while (completed_columns.load() < total_columns)` |
| `pop`, `steal` | own queue, then the scan over the other queues |
| `begin` | entry of `reduce_column`: `reduced` test and `isApparentPair` on the original matrix |
| `apparent` | the compare-and-swap of the apparent-pair shortcut |
| `loop`, `add`, `claim` | load of the owner; `addColumnLockfree`; compare-and-swap that claims or steals the pivot |
| `mark`, `count` | `reduced.store(true)`; `completed_columns.fetch_add(1)` |

An access to data that only the worker itself touches is merged into the neighbouring step. The
merge of two columns in `AddOwner` is one step although it reads another column without a lock;
that this is legitimate is exactly `AddedColumnIsSettled`, checked and proved: nobody can write
the column that is read. A queue operation is one step; `WorkStealingQueue` justifies that. A
thief that loses its compare-and-swap moves on to the next queue, so `ScanOn` does not ask
whether the victim is empty. Memory orderings on the pivot table are taken as sequentially
consistent: every access to one entry is atomic, and publication of a column's contents goes
through the release/acquire compare-and-swap on the table, so the happens-before edges match the
order of the steps. Profiling counters, timing and the wrappers that discard them are left out,
as are the row-dimension labels of pairs.

### WorkStealingQueue

All pushes happen before any thread exists, so `Push` is one step. `pop` and `steal` take one step
per atomic access. `bottom_` is written with relaxed stores; the model gives the owner a FIFO store
buffer that the sequentially consistent fence and the compare-and-swap drain (x86-TSO). Weaker
machines than that are not modelled. The history variable `taken` records who received what.
The refinement mapping presents `top .. End-1` as the contents of `AbstractDeque`, where `End`
still counts the item the owner is deciding about.

### Reducer

One thread, so the interleaving is that of *passes*: the apparent-pair scan, the twist pass over
pivot rows from the last to the first, the standard pass over columns from the first to the last,
and the extraction, which reads `pivot_columns_` and not the reduced columns. `phase` names the pass,
`next` its loop variable, `col` the column inside `while (true)`. Both passes have the same inner loop
in the code and share the actions `EnterColumn`, `LeaveEmptyColumn`, `ClaimRow` and `EliminatePivot`.
A reducer is called up to `MaxCalls` times: `Compute` loads the matrix, `CohomologyReduction` (and
`acceleratedReduction`, which does the same without a GPU) and `TwistedReduction` (and the other entry
points that are just `reduceMatrix()`) go on with the columns the previous call left. Filtration
values are left out: they ascend along rows and columns, and a pivot row is a face of a column that
was added, so `death >= birth` never drops a pair. Betti numbers count the infinite pairs. A matrix of
all dimensions numbers rows and columns alike; in a matrix of one dimension no row has a column
(`getColumnIndexForRowSimplex` returns -1).

### ThreadPool

Workers and clients share one `pc`. A worker goes `tryPop`, `trySteal`, and then either leaves (`exited`)
or blocks in `pop` (`lockPop`, `pop`, `asleep`); a task goes `begin`, `run`, `end` around the three counters.
A client goes `lockPush`, `push`, `notify` or `uncount` in `submit`; `readTotal`, `readCompleted`,
`readFailed`, `readActive` in `waitForAll`, one atomic load each; `lockClose`, `close`, `notifyClosed` for each
queue in `shutdown`. A mutex section is two steps, so that `try_lock` can fail; `notify` is a step of its
own after the section, as in the code. Only the worker itself sleeps on its queue's condition
variable. Histories record which tasks were accepted (and before shutdown), rejected, and ran.
A task's body touches no pool state (tasks that submit or wait themselves are not modelled), and the
destructor is `shutdown` followed by a join, after which what is still queued is dropped. The
counters are separate atomics with acquire/release accesses; `active_tasks_` is raised before and read
after the counters that `waitForAll` compares, so the reader sees the raise.
Refinement: `waiting` is what the queues hold, `running` what workers hold up to the count, `done`
what ran. A task lost from a queue, or taken twice, is a step `AbstractPool` does not have.

### PivotTable

One step per atomic access of `tryInsert` (`load`, `cas`, then the two stores `column` and
`occupied`, then `inserted`) and `find` (`findPivot`, `findOccupied`, `findColumn`). The hash enters as
the constant `Probe`: the slot that the k-th probe for a pivot looks at. `inserted` and `promised` are
histories: which column an insert of a pivot returned true for, and what was true of the pivot
when a find began. A find that meets a slot whose pivot is set and whose flag is not goes on probing and
reports the pivot absent; this is allowed, because no insert had returned yet, and it is why
`InsertedIsFound` speaks of inserts that had. `size_` and the memory statistics are left out.

### LockFreeWorkQueue

A Chase-Lev queue whose owner pushes while thieves steal, and whose slots hold a pointer and a flag.
The new point is that a thread takes the pointer out of its slot only *after* its compare-and-swap
on `top_` has freed the slot for the next push. A push that overtakes the winner finds the old
pointer and deletes it: the task never runs. `OnlyPendingDestroyed` says that this is the only way a
task is destroyed, `TasksAccounted` that no task runs twice or leaks. Accesses are sequentially
consistent here; the delayed stores of such a queue are the subject of `WorkStealingQueue`. The model
also shows that a slow winner may clear `ready` or empty a slot after the next push has filled it, so that
`pop` and `steal` fail at that index from then on; the queue promises nothing about that, and no property
is stated about it.

### ReductionCoordinator

`claimColumn`, `markReduced` (two steps: exchange of the flag, increment of the count), `announce` and
`clear`, and `isBeingWorkedOn`, which scans the slots one by one. Any thread may call anything.
`standing` is the history a scan is judged by: the threads that have announced its pivot ever since it
began.

### CellQueue

`tryEnqueue`: `readFree` (sequence number of the cell at the local position), `casEnqueue`, `write`,
`publish`; `tryDequeue`: `readFilled`, `casDequeue`, `take`, `release`; `reload...` when the position is
stale. A weak compare-and-swap may fail for no reason. The comment above the class
(`lock_free_streaming.hpp:182-185`) speaks of a Michael-Scott queue with hazard pointers; the code is a ring
of sequenced cells, and that is what is modelled. Refinement: `log` (history) holds the items in the order of the
winning compare-and-swaps on `enqueue_pos_`, an item is taken with that on `dequeue_pos_`.
`RefusalsJustified` adds what the refinement does not say, when a call may be refused.

### StreamingWindow

The producer's `addPoint` pushes, and pops the oldest point while the ring is full; the rotator's
`rotateWindow` pops as well: two consumers on a ring written for one. A reader takes
`getSnapshot`. Both poppers read the tail and store tail + 1 later, so a slow one moves the tail *back*; the
ring survives this because a point that comes back is still in its slot or already overwritten by a
newer one.

A point is a plain object of up to 64 bytes. The producer stores it, and the reader copies it, word by word
(`PushWord`, `SnapCopy`, the constant `Words`), in any order and with any steps of the other in between: so a
snapshot that the producer comes round to while it is taken may hold torn points. `SnapshotExactUnlessOverrun` says word for word what holds
nevertheless: exact points while the producer is less than a ring ahead, after that words of newer points of the
slot at worst, never of an older one or of none. The header promises more, atomic snapshots, and the run `streaming_snapshots` shows
that the code does not keep it (finding 4). The words of a point may be copied in any order, its points one after
the other, and the stores to the ring are seen in the order of the program, as on x86-64; a machine that lets the plain stores of the next point overtake the release of `head_`, or
the relaxed load of `tail_` in `tryPop` overtaken by another, is not modelled.
`window_start_`, written and never read, is left out, and so is the item `tryPop` copies, which both callers drop.

### WindowManager

Four threads: the feeder (`ingest`, which spins until `push` succeeds), the ingestion thread (queue
to circular buffer), the computation thread (`getWindow`, `processWindow`), the controller (`start`,
`stop`). `size_` counts past the capacity for a moment, and a window may be overwritten while it is copied.

`CircularBuffer::write` claims a slot (`ClaimSlot`), stores the item (line 359) and counts it (`GrowSize`, `DropOldest`,
`ShrinkSize`). All its atomics are `memory_order_relaxed`, so they publish nothing: the acquire load of `size_` in `getWindow` finds no release to
synchronise with. In the model the store is therefore not a step of the thread. From the claim on, the words of the item are `unseen`, and each becomes visible (`WordLands`)
whenever it likes, before or after the counters; only the next release store of the thread (`tail_`, when the next item is popped) waits for all of them, as does the
end of the thread, which `Join` synchronises with. `getWindow` reads `size_`, then `read_idx_`, then the items word by word, in any order within an item. `OnlyNewestMayBeMissing` says what a processed window is
worth under these rules: every word is of its position or of a later round, except that the newest item may still be, in part or as a whole, that of
the round before, or not written at all. So `processWindow` can be given an item that was never ingested in this form. No doc or comment says
anything about the contents of a window, so no run states that it may not. The counters themselves are seen in the order in which they
are written, and no store is seen before the steps that precede it, as on x86-64 (where only the compiler may delay the item's store past the counters); the relaxed
counters overtaking each other, which AArch64 allows, is not modelled.

Seen on the way and not stated as properties: `stop` leaves items in the queue, an `ingest` on a full queue of a stopped manager
spins until it is started again, and nothing checks that `window_size_` fits the circular buffer (if it does not, the
computation thread can see a window only in the moment in which `size_` exceeds the capacity).

### MicroBatching

A section under `queue_mutex_` is one step, except that `collectBatch` holds the mutex between the predicate and
the moment it sleeps (`holder`). `stop` sets `running_` and notifies without the mutex, so a worker between
the two misses the notification; its timed wait ends by itself (`Timeout`). `flush` takes a batch in the
caller's thread. `start` has no guard: called on a running engine it adds another `num_batch_threads` workers, which
`stop` joins with the others (`Workers` bounds their number); `stop` has none either, and of a stopped engine does all its steps. What `stop` leaves in the queue waits for a flush
or the next start, and `AcceptedIsProcessed` excuses it. Left out: statistics and sequence numbers (read and written without a lock, but nothing
depends on them), callbacks, the per-symbol engine, and a `max_wait_time_ms` of zero.

### FeatureCache

Sections under a symbol's mutex are one step; an eviction visits the symbols one mutex at a time,
with puts in between. An entry is the number of the put that stored it, and any set of entries may be
expired, since time stamps are the caller's. The code moves the entries that stay to the front and keeps `head`, so after an
eviction that refills, the ring may overwrite a newer entry before an older one; the model has this behaviour, and no doc says
otherwise. `EvictedStaysAway` is what does hold. `clearAll` frees rings that other calls may point to; it is
called between the other calls only, a rule for callers.

### ShardedBoundaryMatrix

Every rank executes the same sequence of operations (`plan`) at its own pace and meets the others in
MPI's collectives (`Barrier`, `ExchangeColumns`, `GatherRecords`). `Launch`, `CallAgain` and `Restart` start jobs; a
job dies in whatever state it is in when the next one starts. `file` survives. Writing a checkpoint is several steps:
the file is emptied, columns are added one by one, and each of them, and the opening itself, may fail without a
report, as in the code. `restore` takes what it finds. `origin` is history: the matrix whose columns the
rank holds, known if it was distributed, or restored from a whole file written by as many ranks, until the rank exchanges
columns with ranks that hold another matrix's. (Without the last clause a rank was said to hold a matrix after its columns had been reduced against
those of another one. That takes four jobs, so it came out of the search for an inductive invariant and not of a run.)
`NumRows` bounds the rows, which are non-negative numbers of type `int` in the code; `Merged` and `Only` are written out, instead of `@@` and `:>`, for the provers.
`MaxBytes` stands for `INT_MAX`: a rank whose payload is longer throws before the collective, and the
others wait for it (the one exception in `EveryJobEnds`). Left out: `.meta` and `num_columns_`
(written, never read back), the validation of negative rows, the scheduler's items, which only look at the rank's own columns and
are all run before `run()` returns, and the encoding of records as floating-point numbers.

## 3. Runs

| Run | Instance | Shows |
|---|---|---|
| `lockfree_outcome` | all 360 orders of four edges on four vertices, 2 workers | `PrefixSpansKept`: whatever the race, the columns up to `k` span what they spanned in the input (left-to-right reduction). `BirthsMatchSequential`: the reported birth rows, and the number of pairs, are those of the persistence pairing, so the post-pass never gives up on a column. `ApparentPairsFinal` |
| `lockfree_races` | four simplices over three vertices, the second with an empty boundary, 3 workers | `ColumnsHandedOutOnce`, `OwnerHasPivot`, `AddedColumnIsSettled` (no data race on a column), `LowestIndexOwns`, `OwnersOnlyDecrease`; `ExitMeansAllReduced` and `Termination` when empty, apparent and ordinary columns all contribute to the count |
| `reducer_and_pool` | reducer: a square with a diagonal in all 120 edge orders with 0, 1, 2 triangles, two tetrahedron boundaries, and the same edges as matrices of one dimension; two calls. Pool: 2 workers, 1 client, 2 tasks | `FinitePairsComplete`: no true finite pair is missing. `OnlyEssentialsAreHidden`: the damage of finding 2 is exactly that essential classes appear as deaths. `SecondResultExact`: a call on the reduced columns of an earlier one gives the exact pairing. `EveryCallReturns`, also on matrices of one dimension, the only ones on which `FindApparentPair` fires; the others are stated for matrices of all dimensions. Pool, in behaviours of its own: `AcceptedRuns`, `WaitEnds` (a client that was refused by a closed queue has uncounted its task, so waitForAll ends then, too), `WorkersLeave`: no wake-up is lost |
| `pool_safety` | 2 workers, 2 interchangeable clients, 2 tasks of which one throws | `WaitIsExact`: waitForAll returns only when all accepted tasks ran, unless a task was counted after it read `total_tasks_` (the exception is needed: such a task may run first, make up the count, and let waitForAll return while an older one still waits in its queue). `ImplementsPool` |
| `structures` | pivot table: 2 threads, 2 slots, 3 pivots of which two start at one slot; work queue: owner, 2 thieves, 2 slots, 4 tasks; coordinator: 2 threads, 2 columns, one pivot; cells: 2 threads, 2 cells, 4 enqueues; cache: 2 symbols, rings of 2, 5 puts | `OneSlotPerPivot`, `InsertedIsFound`; `TasksAccounted`, `OnlyPendingDestroyed`; `ReducedCountExact`, `NobodyIsTrue`; `ImplementsQueue`, `RefusalsJustified`; `EvictedStaysAway` |
| `streaming` | deque: 3 items, 2 thieves; window of 2 on 4 slots, 5 points of two words; manager: queue of 2, buffer and window of 2, 4 items of two words, 2 starts; engine: 2 workers, one per start, batches of 2, at least 2 to wake, queue of 2, 3 items, 3 starts | `ImplementsDeque`: pop and steal are indivisible although the owner's stores are late; `DequeDrained`; `SnapshotExactUnlessOverrun`, `AddPointReturns`; `OnlyNewestMayBeMissing`, `IngestedIsStored`; `CutIntoBatches`, `AcceptedIsProcessed`: also the item that no second one follows; `StopReturns` of manager and engine |
| `distributed` | 1 or 2 ranks, 4 matrices of 3 columns, 4 programs, 3 jobs | `ShardsSpanTheMatrix`: at any moment, whatever stage each rank has reached and whether its shard was restored, the shards are the matrix up to left-to-right additions. `ResultIsExact`: so the gathered result is the persistence pairing, also after a restart from checkpoints taken at different stages. `EveryJobEnds` |
| `lockfree_deaths` | hollow triangle, 1 worker | finding 1 |
| `reducer_essentials` | hollow triangle | finding 2 |
| `pool_shutdown` | 1 worker, 1 client | finding 3 |
| `streaming_snapshots` | window of 2 on 4 slots, 5 points of two words | finding 4 |
| `distributed_restore` | as `distributed` | finding 5 |

Why the bounds suffice. *Reducers:* a pivot can be stolen with two workers; stealing from a thief, and reading
a column while its pivot is being taken, need three. Four edges on four vertices contain a cycle
in every position and post-pass cascades of length two and more. With three workers and four columns two columns share a queue and
one worker has none of its own. The square with its diagonal has two independent cycles, so the last column of a
cycle is entered with a stale pivot in some order and not in others; its triangles make clearing fire, the tetrahedron adds a class of
dimension 2. With `MaxCalls` two, every call of a reducer follows every other; on a matrix of
all dimensions a second call without reloading changes no column any more, so further calls repeat it.
*Queues and rings:* three items and two thieves produce the race for the last item and every overlap of
`pop` with two `steal`s. Two cells or slots and four items or tasks make a second lap, with a thread of the first
still at work; five points on four slots, and a window of two, make the ring full, overrun and wrap. Two of the
pivots share their first slot and the third starts at the other, so that probing passes foreign pivots
from both ends, the table fills up, and inserts are refused. *Pool:* two workers are enough for a thief and
an owner on each queue, two clients for a submission that overlaps a wait or a shutdown, two tasks for one that
finishes in place of another. *Manager and engine:* four items fill queue and
buffer and overwrite the oldest, three items leave one alone behind a batch of two; two starts make a
restart with what the stop has left, a third start one that adds a thread to a running engine. Two words make a point or an item that is torn. *Ranks:* two ranks have remote columns and a shard that
is not a prefix; three jobs are one that saves, one that saves again and dies, and one that restores. The four `Samples` are a
cycle across ranks, a column that reduces against two others, and matrices that exceed `MaxBytes` (80
bytes, so that three rows more or less decide) on all ranks together or on rank 0 alone. Every other bound is a number of calls
(`MaxEnqueues`, `NumTasks`, `MaxClaims`, `MaxPuts`, `MaxPoints`, `MaxItems`, `MaxStarts`, `Tasks`). Much of it is in
addition proved for all sizes (section 5).

`Returned` (lock-free reducer) and `NoMoreJobs` (ranks) let a model that has ended stutter, and in `structures` and the pool some call is
always possible; so TLC's deadlock check stays on: a state in which no thread could move would be reported. It is off in the runs with
`Reducer` and in those of the streaming components, all of which may stop between calls: nobody is obliged to call again, and after
the bound nobody can. That a call that has begun goes on to its end is a liveness property there.

Fairness. *Lock-free reducer:* weak fairness of the main thread and of each worker separately, which is
what an operating system gives threads that never block (they spin and yield). Nothing is assumed about
which compare-and-swap wins. *Deque:* only the owner's calls are fair; thieves may stop in the
middle of a steal, and every store leaves the buffer eventually, as the hardware guarantees. *Sequential reducer:*
the steps of a running call are weakly fair, the calls are not. *Pool:* each worker and
each call in progress is weakly fair: locks are held for one step, and a worker that finds nothing
sleeps, so no lock is contended for ever. A client never has to give up or call again. *Window and manager:* each
thread, and each call once made, is weakly fair; they never block. *Engine:* the same, and strong fairness of a
worker's acquisition of the mutex, which the others release again and again: a mutex that starved one thread for ever
would make every timed wait endless. Clocks advance, so a timed wait ends. *Ranks:* each rank of a job that is
not killed keeps running, and a collective call that all ranks have reached completes. `structures` states no fairness: its
properties are safety.

## 4. Findings

1. **Deaths may be positive simplices.** The post-pass adds `columns[msb_owner]` to the column it
   re-reduces even when `msb_owner` is a *later* column (`reduction_lockfree_ops.cpp:601-603`). On the hollow triangle
   with edge order 02, 12, 01, a single worker takes pivot 1 with edge 01; the post-pass then
   empties the negative edge 12 and leaves the positive edge 01 as a death. The number of pairs and
   their births stay right (`BirthsMatchSequential` holds), the deaths do not.
   `doc/persistence/standard/algorithm.md:168` promises diagrams that are "topologically correct
   for the filtration".
2. **Essential classes reported as deaths.** The twist pass records the pivots of columns that are
   not reduced yet. When the standard pass reduces such a column to nothing it leaves the loop
   without resetting `pivot_columns_` (`reduction_ops.cpp:509-510`), and extraction reads that table. The hollow
   triangle with edges 01, 12, 02 gets three finite pairs and no 1-cycle, against
   `doc/persistence/standard/algorithm.md:155`; a following `cohomologyReduction` reports it right.
3. **A task accepted before shutdown may never run.** A worker that found nothing reads `stop_flag_`
   and leaves without looking at its queue again (`thread_pool.hpp:324`). With one worker: it finds its queue
   empty, `submit` pushes, `shutdown` sets the flag, the worker leaves; the future reports a broken
   promise. The same happens when `tryPop` fails only because `shutdown` holds the lock.
   `tests/cpp/thread_pool_regressions.cpp:164-181` expects the task to complete.
4. **Snapshots are not atomic.** `snapshotNewest` reads `head_` and `tail_` and then copies plain objects
   (`lock_free_streaming.hpp:156`) out of slots that `tryPush` (line 96) writes without asking for readers. When the producer comes round to them
   the snapshot mixes old and new points, and a point being copied may have words of two: the counterexample ends with a snapshot whose
   point is half one, half another. The comment above the class (`lock_free_streaming.hpp:280`) promises "Atomic snapshots for PH computation on
   streaming data".
5. **A restore may mix checkpoints.** `checkpoint` overwrites one file per rank with no barrier behind
   it, and `restore` (`sharded_boundary_matrix.cpp:220`) takes whatever it finds. A job that dies when one rank has written and another has not leaves shards
   of two different matrices, and the next job goes on with both. `doc/guides/distributed/checkpoint.md:14`
   promises "the last consistent global state". What does hold is `ShardsSpanTheMatrix`: checkpoints of the *same* matrix fit each
   other at whatever stage each rank saved.

Observations without a run: extraction of the lock-free reducer tests `pivot < filtration_values.size()`, a bound on columns, for
a row index (`reduction_lockfree_ops.cpp:634-636`), so a matrix with more rows than filtration values loses pairs; the runs give
enough values. `findApparentPairs` indexes columns with a row (`reduction_ops.cpp:376`): on a matrix of one dimension, for instance
the edges 02, 01, 12, 03, 23, two columns can end with one pivot. The runs state the pairing for matrices of all dimensions.

## 5. Theorems

All of them hold for every value of the constants that satisfies the assumptions named; each module below
states an inductive invariant (checked by TLC before it was proved), one lemma per action or kind of action, and the
theorems listed in `PROJECT.json`.

`Z2ColumnsProofs` has the facts about columns and their spans. `PrefixSpan` is a recursive function, and the provers
have no induction over data with an operator parameter; each induction is instead an argument by least counterexample in a set
of numbers. From the recursion equation (`SpanStep`) it follows that a span is the least set that has
the columns and is closed under addition (`SpanLeast`, `SpanClosed`), and from that everything else: adding an earlier column keeps every
span (`SpanKeptByAddition`), and so does replacing a column by another modulo the rest of the span (`SpanKeptByExchange`).
`ReducedColumnPivot`: in a matrix whose spans are those of the input and whose lows are distinct, the low of a column is its persistence pivot.
Clearing needs chains as well: a column of such a matrix is also a set of columns, whose boundary `BoundaryOf` counts rows modulo two.
That boundaries add (`BoundaryOfSum`) carries `BoundaryOfBoundaryEmpty` from the columns to every combination of them (`SpanHasNoBoundary`), hence the lowest
row of a combination, taken as a column, is the sum of other rows, taken as columns: `BirthsArePositive`.
`PersistenceBirths`: a row is a birth of the pairing exactly if some element of the whole span has it as its low. The
births of a matrix therefore depend on the span of all its columns alone, which is why the post-pass may
reorder deaths and still report the right births.

`LockfreeReductionProofs` proves an inductive invariant `IInv` of `LockfreeReduction`,
for every matrix, number of columns and number of threads, from `SizesAssumption` and
`InputsAssumption` alone.

The properties are not inductive, and the argument for the central one runs in a circle that only
the whole invariant closes. A worker may read another column without a lock because that column is
settled (`AddedColumnIsSettled`). It is settled because the table pointed to it, and a column
enters the table only in the step after which its worker never writes it again; that a *second*
worker does not write it needs `ColumnsHandedOutOnce`; that needs the queues to hold each column
once, between `top` and `bottom`, with everything outside that range taken (the queue part of
`IInv`). That the table still names a column with the right pivot when the worker uses it
(`OwnerHasPivot`) needs the settled column to be frozen. `LowestIndexOwns` and
`OwnersOnlyDecrease` need what a worker knows at its label: at `add` the owner it loaded is smaller
than its column, at `claim` it is absent or larger. Apparent pairs are final because the first
cofacet of a row is the smallest column that can ever have that row as a pivot, which needs the
invariant that columns only change by adding smaller ones. `ExitMeansAllReduced` needs
the exact bookkeeping of `completed` against reduced columns and workers between `mark` and `count`,
as an equation between cardinalities. `BirthsDistinct` needs the post-pass part: columns already
passed own their pivots in `pivot_map`, which is therefore injective on them.

The result is a second invariant, `ResultInv`, on top of `IInv`. While workers run, every addition is of an earlier column,
so `PrefixSpansKept` is an induction over steps. In the post-pass additions of later columns destroy the prefix spans,
but exchange columns within the whole span. `BirthsAreSequential` also needs that the post-pass *concludes* each cascade instead of
dropping the column when its iterations run out: every addition lowers the pivot strictly and each pivot met belongs to another column
already passed, so there are at most as many iterations as columns passed, one less than the bound. Then all lows are distinct, and the reported rows are the
births of the input. The theorem has one hypothesis, that every row and column has a filtration value:
without it extraction drops pairs, as section 4 says.

`ReducerProofs` proves the three properties of the sequential reducer for every matrix and any sequence of calls. It has one hypothesis beyond
`ReducerAssumption`, `BoundaryMatrices`: in an input of all dimensions, faces are numbered before the simplices they are faces of, and the boundary of a
boundary is empty. Every simplicial complex has such a matrix, and TLC evaluates the hypothesis on all inputs of the run `reducer_and_pool`. It is needed because clearing
empties columns without reducing them: `BirthsArePositive` turns it into the fact that a column whose row is the lowest of some combination
depends on the columns before it, so emptying it keeps every span (`SpanInv`, `SpanKeptByClearing`). In the twist pass each row has one candidate
with that pivot, so it always finds its row unclaimed and never adds (`TwistInv`). In the standard pass the columns passed
have distinct pivots, which are therefore their persistence pivots, and each stands in `pivot_columns_` and has cleared its birth column (`StandardInv`,
`Settled`); clearing there changes nothing. At the end a pivot in `pivot_columns_` is true, or was left by the twist pass on a column
that has become empty. Such a column depends on earlier ones, and no pair kills its class, or it would be cleared: it is the column of an essential class. That is
finding 2 seen from the other side: the stale entry is the *only* way in which the result goes wrong. In a call on columns that an earlier one reduced, empty
columns are cleared from the start and nothing is stale (`AgainInv`). On the way, `IdleOnAllDimensions`: the apparent-pair scan, which takes a pivot row for a column, can
find nothing on such a matrix.

`StructuresProofs` is about the specification the run `structures` checks. *Queue of cells* (`CapacityAssumption` and `NoneAssumption`, for any number of threads, items and
calls): it proves `ImplementsQueue` and `RefusalsJustified`. The core is the meaning of a sequence number: a thread past its
compare-and-swap owns the cell of its position (`WriterInv`, `ReaderInv`, `DistinctInv`); a cell whose number says filled
for a position holds the item of that position (`FilledInv`); and a cell whose number is behind a position is so only because somebody
of an earlier lap is still at work on it (`LapInv`). They support each other through arithmetic: positions
less than a lap apart have different cells, a lap apart the same. That the number read before a compare-and-swap is still there
when it succeeds (`PendingInv`) is what makes the two separate atomics safe. *Coordinator* (`CoordinatorSizes`: the numbers of threads and columns are
natural numbers): `ReducedCountExact` is an equation between cardinalities that every step keeps; `NobodyIsTrue` needs that the scan has not yet
reached any thread that has announced its pivot all along (`ScanInv`). *Feature cache* (`CacheSizes`: rings of at least one entry): no visible entry
shows twice (`OnceInv`), what shows was stored and is not gone (`ShownInv`), nothing stored or gone has a number still to be given out (`NumberInv`), and the
newest put of a symbol shows or is gone (`LatestInv`). *Pivot table* (`Probing`: at least one slot, `None` is no pivot and no column, and probes look at slots; that
the probes of a pivot visit every slot is not needed): the table only grows, so a probe once `Passed` stays passed. `ChainInv`: a pivot
stands in the first slot of its probes that it could have, hence in one slot. One thread writes a slot (`OneWriter`), the column of an
occupied slot is final (`Held`), and a find whose pivot was promised meets only passed slots before the one that holds it
(`PromiseInv`, `FindInv`). *Work queue* (`WorkQueueSizes`: a capacity of one or more, and an owner who is no thief): `TasksAccounted` needs only that
a slot is filled with a new task and emptied by an exchange (`PlaceInv`). `OnlyPendingDestroyed` needs the whole queue: a task in a slot is
at an index between `top_` and `bottom_`, or is being pushed, or its index was won and its slot not emptied (`CoverInv`), so a push, which
has seen less than a capacity between the two, can meet only the last kind. That the range never turns negative (`RaceInv`) is the
argument of the algorithm: a thief can win only an index that is in use, and an owner that pops without a compare-and-swap
works on one that no thief has seen in use.

`StreamingProofs` is about the specification the run `streaming` checks. *Window* (`WindowSizes`: a ring of at least one slot; that it is larger than the
window is not needed): the tail may move back when one of the two
poppers stores late, but never overtakes the head (`TailInv`). A word of a slot is that of its point until the producer comes round to it, and
one of a newer point of the slot after (`BufferInv`), and what a reader copies has been published (`SnapInv`).
*Manager* (`ManagerSizes`): its history counts what was published to the queue, taken from it and stored; these three and
the counters of the code determine where every item stands (`QueueInv`, with the one slot of the queue that stays free; `SizeInv`, which relates `size_` to the two positions). Only the newest item can still have words that are not
visible, because the next one is claimed after a release store (`StoreInv`); these words of its slot are those of the round before, all others of their item or a later one (`RingInv`). `getWindow` reads
`size_` and the read position separately and without a lock, so what it copies has been *claimed* (`CopyInv`), not stored: word for word it is of the position, of a later round, or, at the
last position of the window only, of the round before (`CopiedInv`). That `size_` orders nothing is thus part of the theorem. The hypotheses include that the window is no larger than the circular buffer. The constructor does not enforce that, and without it the property
fails: `size_` may exceed the capacity for a moment, and a window of one item more than the buffer then wraps round onto its own beginning.
*Engine* (`EngineSizes`: batches of at least one item; the controller is no worker): the items handed out are cut at positions of the order of acceptance; the stretches between cuts
are disjoint (`ApartInv`), cover everything handed out (`CoverInv`), and every batch a caller holds or has processed is one of them (`CallersInv`, `StretchInv`). The argument speaks of occurrences and
not of values, so items that are equal do no harm.
*Deque* (`DequeSizes`: at least one slot; that the code's capacity is a power of two is not needed, and could not be used, since the provers know no
powers): `DequeInvariant` and the refinement `DequeIsAQueue`. The owner's place in `pop` determines what may wait in its store buffer: nothing,
the reservation of item `b`, the store that puts `bottom_` back, or the latter with the next reservation behind it (`StoresInv`). So the thieves never see
a `bottom_` beyond the end of the queue, which still includes the item the owner is deciding on: a restored `bottom_` they see late only makes them give up, and a decrement they
see late only matters until the fence, since when the owner reads `top_` its reservation has landed. A thief that has read `top_` and `bottom_` may still win only while `top_` stays
where it was, and then it has read the oldest item of the queue (`RaceInv`). The owner, with more than one item left, takes its own without a compare-and-swap because
a thief that may still win has read a smaller one; for the last item both go through `top_`. Nothing is pushed once the threads run, so a slot is written once (`SlotsInv`).
A step that decides an operation is the step of the queue, every other one leaves its contents alone.

`ThreadPoolProofs` assumes `ThreadPoolAssumption` (finitely many workers, clients and tasks, kept apart) and proves
`WaitIsExact` and `ImplementsPool`. Every step is first shown to be of one of a few kinds (`Takes`, `Runs`, `Counts`,
`Pushes`, `Uncounts`, or `Quiet`: no task moves); the kinds are what the invariant and the refinement reason about. The
mutexes are in the model as what makes the body of a queue operation one step; beyond that the argument does not ask who
holds one, since the step that takes from a queue also tests that it is not empty. A task stands
in one place of one queue, or in one worker's hands, or is on its way into a queue (`QueueInv`, `HandInv`, `SubmitInv`), so
`total_tasks_` is what was accepted plus what is being submitted, and `completed_tasks_ + failed_tasks_` what has run
(`CountersInv`). What `allTasksCompleted` reads one counter after the other only gets older in the safe direction as long as no
task is counted meanwhile: the total may fall, the other two only rise (`WaitInv`).
Accepted tasks then cannot outnumber the finished ones, which are among them.

`ShardedBoundaryMatrixProofs` assumes `ShardsAssumption` (matrices of `NumColumns` columns and `NumRows` rows, programs of at least one operation)
and proves `ShardsSpanTheMatrix` and `ResultIsExact` for any number of ranks and jobs. The loop over `pivot_to_column` is a recursive function on columns, and has a value
on each because every addition lowers the pivot (least counterexample again). The loop keeps every column in its coset modulo the columns before it
(`ReductionKeepsCosets`); columns in the cosets of those of a matrix span what it spans (`CosetsSpan`); and once all columns of a
matrix are reduced together, each shows the pivot of its persistence pair (`ReductionShowsPivots`, from `ReducedColumnPivot`). The invariant says this of every rank (`RankInv`: it holds
its part of its matrix, its cache holds the rest from the exchange on, and what was reduced stays so until other columns come in) and of every whole file (`FileIsPart`). A file counts as
whole only from its last column on, and while it is written the rank's columns do not change (`WritesOwn`), so a restored shard
is its part again. For the results the ranks have to be seen together (`Together`: none passes a collective before all
have reached it): a rank that gathers finds the records of all, of the same reduction. `ResultIsExact` has one hypothesis beyond the assumption, `ReportsReduced`: a program
reads or gathers only after a reduction that nothing has replaced since. TLC evaluates it on the programs of the run (`ProgramsReport`). A
program that reads first is reported the lows of the raw columns, which are not births.

Only model-checked: all liveness (`Termination`, `DequeDrained`, `EveryCallReturns`, `AcceptedRuns`, `WaitEnds`, `WorkersLeave`,
`EveryJobEnds`, `AddPointReturns`, `IngestedIsStored`, `AcceptedIsProcessed`, `StopReturns`), which is out of the prover's reach.
Every invariant and every action property of the passing runs is stated by a theorem.

## 6. Plan

Done: the reducers and their queue, the building blocks, the pool, the streaming containers, the manager, micro-batching, the
feature cache and the sharded matrix, with the proofs of section 5.

Left, in order of worth:

1. The linked queue of `streaming_lockfree_ops.cpp`, whose `pop` reads the data of a node after the compare-and-swap under
   hazard pointers that a model has to follow pointer by pointer, with reclamation.
2. The asynchronous reader, memory pools and concurrent vector: mostly one lock each.
3. Thread-pool tasks that submit or wait themselves.
4. Streaming persistence over the window (the vineyard updates are numerical, the rest is calls of the window).

### Not modelled

The repository has some 240,000 lines, and the modules map a small share of them. Most of the rest is out of a model
checker's reach or has nothing for it to find: Vietoris-Rips and other engines, spectral and sheaf numerics, machine-learning
layers, anomaly scores and SIMD kernels are floating-point computation in one thread; GPU kernels repeat reductions under a
memory model of their own; bindings and serialization convert data. The boundary matrix of the algebra layer is sequential code on one
matrix; its one hazard, `last_low_row_to_col_` going stale when `setEntry`, `swapRows` or the row-echelon form follow a reduction, involves no
second actor and a unit test reaches it. `PROJECT.json` lists every component with its reason.
