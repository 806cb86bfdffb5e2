# TLA+ models of ZenDNN

ZenDNN is a CPU library of deep-learning primitives, derived from oneDNN. An
application thread describes an operation, creates a *primitive* for it (code
is generated and cached) and executes it; the execution splits its work over an
OpenMP team. The arithmetic is in generated kernels. What can go wrong without
any single line being wrong is in the parts around them: a cache that several
threads fill at the same time, a pool of buffers, hand-made barriers and flags
in shared memory, and the integer formulas that give each thread its piece.
These modules model those parts.

Paths are relative to the repository. `PROJECT.json` maps each definition to
the lines it models and lists the hazards, runs, mutants and theorems.

1. [Inventory](#1-inventory)
2. [Modules and how they correspond to the code](#2-modules-and-how-they-correspond-to-the-code)
3. [Runs, bounds and fairness](#3-runs-bounds-and-fairness)
4. [Proofs](#4-proofs)
5. [Findings](#5-findings)
6. [What is not modelled, and why](#6-what-is-not-modelled-and-why)
7. [Plan](#7-plan)

## 1. Inventory

| Component | State it keeps | Operations | What makes it hard |
|---|---|---|---|
| Primitive cache (`common/primitive_cache.cpp`, `primitive.hpp`) | a list of entries in order of use, a map from key to list node, the capacity; a future per entry; pointers of each key into a primitive descriptor | `get_or_add`, `update_entry`, `remove_if_invalidated`, `set_capacity`; `create_primitive_common` around them | other threads hit, evict, insert again and resize between any two steps of a creation; creations fail, nest and wait for each other |
| Memory pool (`common/zendnn_utils.hpp`) | up to `zenLibBufPoolLimit` slots with pointer, size and status | `getZenLibMemPool`, `acquireZenLibPoolBuf`, `zenLibMemPoolFree`, `resetLibPoolStatus`, `freeZenLibMemPool` | concurrent convolutions, reallocation of idle buffers, allocations that fail, a pool that is full, deleted or reset |
| Barrier (`cpu/x64/cpu_barrier.cpp`) | a counter and a sense per context | `barrier` | it is reused at once by threads that are still leaving |
| Work division (`common/zendnn_thread*.hpp`) | none; per thread a position in an n-dimensional range | `balance211`, `nd_iterator_*`, `for_nd`, `parallel_nd` | counts that do not divide, fewer items than threads, fewer threads than asked for |
| Reduction (`cpu/x64/cpu_reducer.*`) | the division into groups, jobs and threads; a shared space for partial results | `balance`, `get_local_ptr`, `reduce` | three index formulas in three places must agree; a barrier per group |
| 1x1 convolution, gradient of the weights (`cpu/x64/jit_avx512_common_1x1_convolution.cpp`) | transposed copies of the source, a workspace per image thread, two kinds of barrier | `balance`, `execute_backward_weights` | threads share a copy that they overwrite step by step; loops of different threads must agree on the number of steps |
| AVX sgemm (`cpu/x64/gemm/f32/jit_avx_gemm_f32.cpp`, `cpu/gemm/f32/gemm_utils_f32.cpp`) | buffers for parts of k, a flag per thread | `calc_nthr_nocopy_avx`, the parallel region, `sum_later` | threads spin on each other's flags and add into one matrix; a thread may fail or be missing |
| Settings (`common/utils.hpp`, `cpu/x64/cpu_isa_traits.cpp`) | a value and an atomic state | `set`, `get`, soft `get` | a value that must not change once code was generated for it, guarded by a hand-made spinlock |
| Scratchpads (`common/scratchpad.cpp`, `primitive.cpp`) | per thread a storage, its size and a reference count; per primitive its scratchpad | `create_scratchpad`, `zendnn_primitive::init`, `execute`, destruction | primitives of one thread share a storage that grows and may fail to; they are destroyed on another thread than created |
| Blocked gemm (`cpu/x64/gemm/gemm_driver.cpp`, `gemm_threading.hpp`, `gemm_partition.hpp`) | the division of the product, per slice its result and a flag, a copy of A shared by the team | `gemm_threading_driver`, `parallel_a_copy`, `sum_k_blocks` | barriers that every thread must pass equally often; fewer threads than slices; memory that some threads do not get; a choice made before the region and again inside it |
| Threadpool runtime (`common/counting_barrier.hpp`) | a counter with a waiter bit | `notify`, `wait` | not built by the Makefile |
| Descriptors, attributes, memory descriptors | values | checks and queries | sequential |
| Kernels (JIT, reference, RNN, Winograd, direct convolution) | arrays | arithmetic | numeric |
| AArch64, logging, vendored code | | | a copy, output, not the project's |

How they interact. `zendnn_primitive_create` enters `create_primitive_common`,
which uses the cache; the `init()` it calls may create nested primitives, that
is, enter it again on the same thread (`ref_deconvolution`, `ref_concat`,
`ref_sum`, `ref_fused_convolution`). Generating code reads the settings, and so
locks them, when the library is built with them (`inc/zendnn_config.h:95` and `:105`
leave both out by default). An execution starts a parallel region through `parallel` or
`parallel_nd`, divides its range with `balance211` and, where several threads
contribute to one result, meets at barriers (`simple_barrier`) inside the region,
reduces with `cpu_reducer_t` or a loop of its own, or waits on flags (both gemms).
`gemm_threading_driver` hands a product of floats on to the AVX sgemm when it is not
worth copying. A primitive's scratchpad is created with it and read at the start of
each execution. ZenDNN's own convolutions take their buffers from the memory pool.

What makes each component correct:

- *Cache*: list and map agree and stay within the capacity; keys never point to
  dead objects; an answer never changes; a failure that is removed takes no newer
  entry with it, and is reported to the application; a waiting thread is told; and the whole is a least-recently-used cache.
- *Pool*: no buffer has two users, none is smaller than its user or the pool
  believes, every buffer comes back.
- *Barrier*: nobody leaves a round before all have arrived; everybody leaves.
- *Division*: every item is done exactly once by the team that was granted.
- *Reductions, 1x1 convolution, both gemms*: no place is written by one thread while
  another one uses it; the result has every term exactly once; everyone finishes
  (in the gemms: if there are threads for the division that was chosen).
- *Settings*: what a get has returned is the value for ever after.
- *Scratchpads*: an execution has a storage, large enough and to itself; none is lost.
  The code gives this only as long as primitives are destroyed where they were created
  and no two allocations fail.

## 2. Modules and how they correspond to the code

Names follow the source. Data that no property looks at (numbers in matrices,
generated code, descriptors) is abstracted: a result is the set or number of the
terms in it, a key is a value up to `operator==`, a buffer is a block with a
size. A section that runs under a lock is one action; unlocked code is split at
every access that another thread can see. Operators marked `MUTANT of X` are not
part of the model: each is the form `X` would have with a plausible bug, and
`PROJECT.json` names the property that notices it.

### Primitive cache

`PrimitiveCache` has `capacity_`, `cache_list_` and `cache_mapper_` as in the
class. A list node is identified by the future it carries, and so is an iterator
of the map. `shared` is what each promise was set to, `writer` the holder of the
write lock across actions, and `stack` the active calls of
`create_primitive_common` of each thread, since calls nest. Actions:

| Action | Code |
|---|---|
| `Call`, `CreateNested` | the start of `create_primitive_common`, by the application or from an `init()` |
| `ReadCapacity`, `FindDisabled`, `Hit`, `Miss` | `get_or_add`: its read-locked check, then its write-locked section with `get`, `add` and `evict` |
| `GetFuture` | `p_future.get()` of a thread that hit |
| `InitEnds`, `InitSucceeds`, `InitFails` | `init()` and `set_value` |
| `UpdateEntry` | `update_entry` with its check of the thread id |
| `LockAndFind`, `EraseInvalidated` | `remove_if_invalidated`, the one section that waits (for `value.get()`) with the lock held |
| `SetCapacity` | `set_capacity` |

`desc` records where the pointers of a key point: into the descriptor of the
caller or the copy inside the primitive. `LruCacheSpec` is the abstract cache: a
set of keys, the order in which they were used and a capacity, with operations that
take effect at once. `PrimitiveCacheLru` maps the one to the other; the order of use
is the history `earlier` of lookups, a relation that influences nothing, and not the
list's own order, which is what has to be shown right.

### Memory pool

`ZenLibMemoryPool` keeps the pool pointer (`none`, `live`, `deleted`), the
slots, the size in use, `max_size` and the setting `max_size_enable` (read from the
environment when the pool is created), next to a `heap` of blocks with their real
sizes and the state of the convolution on each thread. `acquireZenLibPoolBuf` is
an OpenMP critical section, hence one action per way through it: a free slot
that fits (`AcquireFree`), one that is reallocated (`AcquireEnlarged`), a new slot
(`AcquireNew`), or failure (`AcquireFails`), after which the convolution falls back
to its own allocation (`Fallback`). Allocations may fail `MaxFaults` times.
`Reset` and `FreePool` are calls of the framework while no convolution runs.

### Barrier

`SimpleBarrier` is `simple_barrier::generate` by instruction: load of the sense,
`lock xadd`, and then reset and flip, or the spin loop. `Barrier` is the abstract
one: threads arrive, the barrier opens when all have, threads leave. The mapping
takes a thread as arrived from its `xadd` to the flip.

### Work division

`Balance211` has `balance211`, `div_up` and the two `nd_iterator` operations as
pure operators; `ParallelNd` is `parallel_nd` over two dimensions under OpenMP.
The region may be granted any number of threads from one to what it asked for.

### Reduction

`ReduceBalancer` is `reduce_balancer_t::balance`, one action per candidate of its
loop. `CpuReducer` is the use that `jit_avx2_convolution` makes of it for the
bias: each thread computes rows of its jobs into its local place
(`local_off`, `get_local_ptr`), meets its group at the barrier, and adds up its
slice; or, without barriers in the region, a second region adds up
(`thr_syncable`). `Writes` and `Reads` say what the next step of a thread touches, so
a data race is a state in which two threads are about to touch one place.

### 1x1 convolution, gradient of the weights

`ConvBwdWeights1x1` starts from a division that `balance()` can choose. Its cost
model is abstracted to a choice among the candidates, so what is shown holds for
all of them. Threads walk the images and places as the source's loops do,
transpose their share of the source between two barriers, multiply, and add up
the images behind the last barrier. The barriers are phase counters: what
`SimpleBarrier` is proved to implement.

### Gemm

`NocopyPartition` is `calc_nthr_nocopy_avx` and `partition_unit_diff` with the
block constants as parameters (the real ones are too large to enumerate).
`GemmKSum` is the parallel region of `jit_avx_gemm_f32`: each thread computes its
part, sets its flag, and adds its columns of all the parts of its block, its own
first. The region asks for all threads there are and may get fewer (`MayShrink`).
A driver may fail, or the flags, buffers or work space not be had before the region
(`CallFails`), by `MaxFaults`. The accesses are taken in program order, as they are on x86.

`GemmThreading` has the operators of the blocked gemm: the test whether copying is
worth it, `partition_1d` and `partition_2d`, `choose_blocking`, `get_thread_slice`,
and the sizes of what is copied. `ParallelGemm` is `gemm_threading_driver` with them:

| Action | Code |
|---|---|
| `CallAlone`, `Call` | the driver up to its region; how many threads work, by which division |
| `Allocate`, `GetMemory`, `Copy`, `Multiply`, `MultiplyFails`, `Advance` | `parallel_a_copy`: the shared copy of A, its barriers, and the loops over blocks of k and m |
| `Compute`, `ComputeFails` | `gemm_kernel_driver`, into C or the slice's own C |
| `Publish`, `AddOwn`, `AddOther` | `compute_done` and `sum_k_blocks(…, true)`, when the region has a thread for every slice |
| `EndCompute`, `BeginLater`, `SumLater`, `EndLater` | the second region, `sum_k_blocks(…, false)` |
| `Spin`, `Return` | waiting; the end of the call |

A barrier of the team is a count of rounds per thread: it is passed when all have
entered it as often. A thread that takes up several slices (`ithr += nthr`) passes
through the same states once more, and so meets the others at the wrong block if a
division does not suit the team. A place of C is the set of the places of k summed in
it; a row of the shared copy of A is the row and block it was copied from. The
thresholds by which the code chooses the number of threads and the kind of
division are choices of a `Problem`, except that in two dimensions the loop that gives
one, two or four threads to the rows is the code's (`nthrs_m_2d`); the division of a matrix packed before is
kept as it was packed, with `goal` threads.

`GemmDriver` composes the two: a product goes to `GemmKSum` or is computed by
`ParallelGemm`, as `nocopy_checker` says, and the properties are those of either. It
names the one condition under which a success is the whole product, `TeamSuffices`:
the region of the former has a thread for every part of its partition, which the code
asserts (line 2557), and a matrix packed for a shared copy of A meets the number of
threads it was packed for (`SuitsTeam`), which nothing ensures.

### Scratchpads

`GlobalScratchpad` has the three thread-local variables of `global_scratchpad_t` per
thread, the `heap` of storages with their real sizes, the primitives with what
they need and have, and the executions under way, each with the storage it found at
its start. A creation or destruction touches only variables of its thread and is one
action; `Constructed` gives all outcomes of the constructor (large enough, at
least the old size, nothing). `disturbed` and `forsaken` record that a primitive was
destroyed on another thread than created, or that its storage was lost to two failing
allocations; both are history and influence nothing. The reference count is
unsigned and wraps at `UINT`.

### Settings

`SetBeforeFirstGet` has one action per access to `state_` or `value_`. `Setting`
is the abstract one with calls that take effect at once. A set has taken effect
at its write, a get when it has seen or made the state locked.

## 3. Runs, bounds and fairness

| Run | What it asks | Bounds |
|---|---|---|
| `cache_evict` | consistency of list, map, keys and futures; every call returns | 3 threads, 2 keys, capacities 0 to 2, 3 calls, one creation nested in the other |
| `cache_nested` | types and finality of answers; a removal takes failures only; refinement of `LruCacheSpec` | 2 threads, 3 keys, capacities 0 and 2, 5 calls, one creation nested |
| `pool` | no shared and no short buffer, users and statuses agree, nothing leaks | 3 threads, 2 slots, 2 sizes, 2 failing allocations, reset and free |
| `barrier` | refinement of `Barrier`, nobody is left spinning | 5 threads, unbounded rounds |
| `parallel_nd` | each item once | up to 3 by 3 items on 3 threads |
| `reducer` | the balancer's division; bounds, races, result, end | up to 4 threads, 3 jobs, 3 rows, jobs of 1 and 3 elements, both kinds of runtime |
| `conv1x1` | team, races, result, end | up to 4 threads, 2 or 7 images, 2 groups, 3 blocks, source transposed or not |
| `gemm` | both gemms: slices, partition, races, result, end | over 100 products on up to 8 threads, all kinds of division, small blocks and thresholds, one failing allocation or driver, short teams |
| `scratchpad` | service, separation and release of storages, except of primitives forsaken and threads disturbed | 2 threads, 3 primitives, 4 storages, 2 sizes, 2 failing allocations |
| `setting` | refinement of `Setting`, finality, races, end | 3 threads, 2 values, 2 calls |

The violation runs are described under [Findings](#5-findings).

Why the bounds are enough to be interesting. In the cache a thread can find its
entry evicted by a second thread and inserted again by a third, which is the
case the thread-id check of `update_entry` exists for. The pool has one slot fewer
than threads, so it runs full; one of the two sizes needs an idle buffer of the
other to be reallocated. Five threads at the barrier are enough for some to be two
steps into the next round while others still spin. The ranges, jobs and products
include fewer items than threads, as many, and numbers that do not divide. The
products of `gemm` lie on both sides of the thresholds, and on both with fewer threads
than asked for; they have slices of k on teams that are large enough and too small,
blocks of A that leave threads without rows, rows divided between two and four threads
with more of them than columns, and packed matrices. In the
reductions there are groups with several threads, with one, and idle threads; in
the 1x1 convolution threads that start in the middle of an image, that take whole
images, and that end with short steps. `MaxCalls` bounds the calls of the
application in the cache and settings, `MaxFaults` the failures in the pool, the
gemms and the scratchpads; everything else in the runs is finite by itself.

`CHECK_DEADLOCK FALSE` is set where a behaviour ends by design: when the bounded
calls are used up (cache, settings), and in the pool when a convolution enters a
deleted pool. Real deadlocks of cache and settings are covered by their liveness
properties. All other runs check deadlock.

Fairness is weak, per thread, and only on the steps *inside* the library: a
thread that can run is run by the operating system (cache, settings, barrier),
and the threads of an OpenMP team all run until the region ends (`Step`,
`Return`; of the gemms `ThreadSteps`, `CallGoesOn`). Nothing makes an application
call the library. The barrier's run also assumes that every thread comes back to
the barrier (`SharedSpec`), since otherwise the others rightly wait. Weak fairness is enough for the cache's lock
because with bounded calls it is eventually free for good; the settings run, too,
has bounded calls: under an endless stream of sets the spinlock promises nothing
to a particular thread.

In the sgemm that copies nothing `EveryCallReturns` excepts calls in which a driver
failed: the threads that wait for its part spin for ever, which the model shows and
the hazards list. The blocked gemm needs no such exception: its threads announce
their slices and pass the barriers with memory or without. It excepts a matrix B that
was packed for a shared A with another number of threads (`SuitsTeam`, see
[Findings](#5-findings)), where threads do wait for ever. In `cache_evict` what may fail creates nothing itself;
otherwise the calls that `cache_deadlock` shows would not return.

Every property is broken by a mutant of a mapped definition.

The type invariants of `SimpleBarrier`, `ParallelNd` and `SetBeforeFirstGet` are in no
run: they are part of the inductive invariants proved below.

## 4. Proofs

TLC checks instances; the proof modules show the following for every value of
the constants, from the assumptions named in the modules.

**`PrimitiveCacheProofs`**, for any threads, keys, nesting and capacities. From
`IInv` (`Invariant`): `TypeCorrect`, `ListAndMapperAlwaysAgree`,
`CapacityIsNeverExceeded`. List/map agreement is not inductive by itself:
`EraseInvalidated` uses an iterator found by an earlier action, and a thread on a
nested call must not lose its frame. `IInv` adds to the types and the agreement
that the thread which is removing holds the lock and its iterator is valid, that only
frames in the right place hold futures, and that what is evicted leaves both
structures. Each operation on list and map (`evict`, `get`, `add`, erase, update)
has a lemma that it keeps them in agreement; each action has one that it keeps `IInv`.

From `OwnerInv` (`OwnersInvariant`): `KeysAlwaysPointToLivingObjects`,
`InvalidatedEntryIsAlwaysBeingRemoved` and `OutcomesStayFinal`. `OwnerInv` gives each
promise that somebody can still see one owner, the call that made it, and says
what it holds at each stage of that call; of each entry it says that its key points
either into its own finished primitive or into the descriptor of the call that will
repair or remove it, whatever entry is under that key by then. That a thread can
have only finitely many calls under way is `NestingAssumption`: nesting has no cycle.

`OnlyFailuresAreEverRemoved` is a property of steps from both: an entry leaves the
list by `evict`, which ends with a full cache, by `set_capacity`, or by
`remove_if_invalidated`, which has waited for the very promise whose entry it erases and
has seen a failure, whoever evicted and inserted under that key since the call failed.

`CacheImplementsLru` is the refinement of `LruCacheSpec`: the list is in the order
of `earlier`, so that what `evict` takes from its end is the least recently used
key. Each action maps to one abstract operation or to none.

**`Balance211Proofs`**: `EveryItemHasAThread` and `PiecesAreOrdered`: for any
number of items and threads the pieces of `balance211` are consecutive, in order
and cover the range. The lemmas are about quotient and remainder. The module also has
what proofs about other divisions cite: that loops written as recursive functions
compute something (`LoopExists`, `LoopInvariant`) and, by the least number for which it
would be false, what a loop with a decreasing measure ends at.

**`ParallelNdProofs`** has two parts, of what all primitives use.

`NoItemTwice` and `NoItemLeftOut`, for any number of threads and any dimensions, from
the above. `IInv` relates the position of a thread's iterator to its count, and the
set of called items to all the positions passed.

Of the settings `SettingIsImplemented` (refinement of `Setting`), `GetsStayFinal` and
`NoRaceOnValue`, for any threads and values. `SettingInv` says that between CAS and
release a set owns the busy state, that a get about to read has a locked one, and
which operation each place belongs to.

**`CpuReducerProofs`**, for any number of threads, jobs, rows and sizes, any cache
line and both kinds of runtime. Of the balancer `DivisionAlwaysValid` and
`CheapestAlwaysKept`: `BalancerInv` says that the best division so far is a
candidate's, and that none tried is cheaper. Of the reducer
`AccessesAreAlwaysInBounds`, `NeverADataRace` and `ResultIsAlwaysComplete`, from
`ReducerInv` (`ReducerInvHolds`), in four parts:

- `BalancerInv`: because the division is valid, the areas that `local_off` gives the
  members of all groups lie in the two arrays and are disjoint (`AreasFit`,
  `AreasAreDisjoint`), and the slices that the members of a group add up divide its
  elements (`SlicesDivide`, from `balance211`).
- `ControlInv`: the set that has arrived at a group's barrier is the set of its
  members that have summed (`BarrierInv`), hence a thread that adds up finds its whole
  group done with summing, with the barrier or in the second region (`PhaseInv`).
- `ProgressInv`: the row of a thread lies in its piece, and is its end once it has summed.
- `DataInv`: the element at an offset in a thread's area holds the terms of the rows that
  thread has passed, each once; in the destination it holds all rows once the thread
  whose slice it is in has added the others.

None is inductive without those above it. The sums are finite functions, not
folds, so that the prover can reason about them.

**`ConvBwdWeights1x1Proofs`** has two parts.

The convolution, for every problem and settings of `ShapesAssumption` and every division
of `Divisions`: `DivisionFitsTheTeam`, `ConvNeverRaces` and `GradientIsAlwaysComplete`,
from `ConvInv` (`ConvInvHolds`), in four parts:

- `ControlInv`: a thread stays in its ranges, which are not empty because `balance()`
  gives no dimension more threads than it has items, and whoever adds up has seen
  everybody at the reduction barrier.
- `LockInv`: the threads that share a transposed source keep step. Threads pass the
  barrier twice in a step, so that the parity of the arrivals tells on which side of
  the transposition they are (`ParityInv`); none is more than one arrival ahead of a
  mate (`BehindInv`, by counting the mates that have arrived); and those with as many
  arrivals are in, or come to, the same step (`StepInv`). This is where the proof uses
  that the loops do not depend on the output blocks. Without it the next part is not
  inductive: a mate could overwrite the copy.
- `SourceInv`: what the mates that have arrived transposed for a step is there until the
  thread has multiplied.
- `WeightsInv`: an element of a thread's part holds the terms of the places the thread has
  come past, each once; one of `diff_weights` holds all of them once it was added up.
  That the parts' terms are disjoint and complete is `balance211` again, on the images.

The barrier on which these threads wait: `BarrierIsImplemented` (refinement of `Barrier`)
and `CounterAlwaysCounts`, for any finite non-empty set of threads. `SimpleInv` says that
the sense a waiting thread has saved is the current one, that the thread in `reset` or
`flip` is the only one and everybody has arrived, and that the counter is the number of
threads between `xadd` and reset.

**`ZenLibMemoryPoolProofs`**: `BuffersAreNotShared`, `BuffersAreLargeEnough`,
`UsedSlotsHaveUsers` and `PoolLosesNothing`, for any threads, sizes, blocks, slot limit
and number of failing allocations; the sizes must be positive. `IInv` says that the
slots hold different blocks, as large as recorded while the pool lives, that a
convolution with a buffer of the pool has a slot that is marked (`PooledHaveSlots`),
that the block of one with its own is in no slot (`OwnAreApart`), and that a slot
without a block means a failure. Two lemmas carry it over the steps: one for those that
hand out nothing (`NothingHandedOut`), one for the three ways to hand a slot out
(`HandedOut`).

**`GlobalScratchpadProofs`**: `ScratchpadsSuffice`, `StoragesAreNotShared` and
`NoStorageLeaks`, for any threads, primitives, sizes and storages; the primitives
must be fewer than the values of the reference count. `IInv` says that every storage
in the heap has exactly one owner (`Memory`), that the count of a thread that no
foreign primitive disturbed is the number of its own living ones (`Counted`), that its
storage has the recorded size and this suffices for each (`Enough`), and that an
execution works in its primitive's storage or its thread's (`Executions`). The first
excepts primitives that were forsaken and those of a disturbed thread, the third storages
of a disturbed thread: what becomes of them is in the [Findings](#5-findings).

**`GemmDriverProofs`**: `PartitionsAreExact`, `SlicesStayExact`, `NobodyEverRaces`,
`ProductIsAlwaysComplete` and `FullTeamsSuffice`, all of `DriverSpec` and thus of both
gemms and the choice between them, for any products, blockings, thresholds, divisions
and number of failing allocations. The first two hold for any teams. So does
`NobodyEverRaces` for C and the buffers; for the shared copy it needs `SuitsTeam`, without
which threads do race for it. `ProductIsAlwaysComplete` has the condition `TeamSuffices`,
without which products do lack parts; `FullTeamsSuffice` says where no such condition is
needed: regions get the threads they ask for (`MayShrink` is false) and no matrix was packed
for a shared copy with another number of threads than there are. Assumed are positive
blocks (`BlocksAssumption`, `ArgAssumption`), at least five rows per thread before rows
are divided in two (the code's 384; from five on `partition_2d` uses all threads that the
rows were given, with fewer it may not, and then leaves places out),
thresholds that are numbers (`NocopyAssumption`) and, of a product, that it has positive
sizes and was not divided for more threads than its `goal`, nor for more than there are
(`ProblemsAssumption`; see [Findings](#5-findings)).
The proof follows the two ways of a call.

The sgemm that copies nothing:

- `PartInv`: the partition is the one `calc_nthr_nocopy_avx` computes, and `CalcFacts`
  says that it fits the threads and that its blocks cover the product, none of them
  empty. Its two loops are recursive functions with decreasing measures
  (`ShrunkIsALoop`, `GrownIsALoop`), to which the lemmas about loops apply.
- `KInv`: a thread's flag says whether its part is computed; who adds other parts finds
  part 0 in C, because it waited for that flag; and `Has` is the set of parts in the
  columns of each thread, neither fewer nor more. The flags keep the threads off each
  other's places, `Has` makes the result complete.

The blocked gemm:

- Geometry: every kind of division (`partition_1d`, `partition_2d`, `choose_blocking`)
  cuts a dimension into consecutive runs (`Splits`), hence slices cover C, and those
  of one block differ in their part of k only.
- `BControl`: what threads, slices and flags there are in each region, and where a thread
  may be. It holds the choices together: the region adds parts up only if it has a thread
  for every slice, and a shared copy of A never goes with parts of k.
- `BLock` (`LockHolds`): threads that share a copy of A are at most one barrier apart, and
  on the same block between the same barriers. It says of every two threads (`InStep`)
  which places they can be at together, and holds since a thread passes a barrier only
  when no other is behind. From this and the geometry the absence of races follows,
  also of the thread that frees the copy: it has passed the last barrier, so nobody reads
  the copy any more.
- `BCopied`: the rows of the copy that a thread is about to multiply are those of its
  block, because all threads copied their bands of it before the barrier.
- `BValues`: in a call that has not failed, what is in each place of C and of the buffers
  is what the threads responsible for it have come past: all blocks of k before the
  present one (`BMultiplied`), its own part (`BComputed`), or the parts added up so far,
  inside the region (`BSummed`) or after it (`BLater`).

Model-checked only: the liveness properties (`EveryCallReturns` of the cache, the
settings and the gemms, `EveryoneGetsOut` of the barrier, and `Terminates` of the
reductions), which are out of the prover's reach, as is `ENABLED`.
All safety properties and refinements that passing runs check are proved.

## 5. Findings

Two have a run in which TLC finds the code's behaviour against the quoted line.

- `cache_deadlock` (`primitive_cache.cpp:144`): a failing creation whose entry was
  evicted and inserted again waits for the other thread's future while it holds
  the write lock, which that thread needs for its nested creation.
- `cache_dropped` (`ref_concat.hpp:135`, also `ref_sum.hpp:123` and
  `ref_fused_convolution.hpp:351`): the status of a nested creation is dropped, a
  primitive without its parts is cached as a success, and the application is told success.
  The model's constant `Checks` has the keys whose `init()` checks; it is empty here
  and in `cache_evict`, and has the one nesting key in `cache_nested`.

Others are steps of the models, or facts beside them, that no run is spent on; they
are in the hazards of `PROJECT.json`:

- `zendnn_utils.hpp:241`: after a failed `realloc` a slot has a null pointer and its old
  size, and hands it out with status 0, so the convolution gives up where the
  comment at `zendnn_convolution_gemm.cpp:546` promises a fallback.
- `zendnn_utils.hpp:202`: a deleted pool stays in the array and is handed out.
- `gemm_driver.cpp:1661`: a matrix B packed for the shared copy of A carries the number
  of threads it was packed with, and a multiplication takes that number for
  `nthr_eff` whatever the region has. With more threads, those beyond never come
  to the barriers of `parallel_a_copy`; with fewer, each takes several slices one
  after the other and the first frees, and loses, the copy that others still use.
  `SuitsTeam` names the calls that are safe. A matrix packed for more threads than
  there are also has more slices than `thread_arg` (line 1740) has places.
- `gemm_driver.cpp:1856`: the route that copies nothing inside the region, for "less
  threads being spawned than expected", is never taken with the AVX2 test: what is
  worth copying with some threads is so with fewer (`SlicesAreExact` would fail, as
  its mutant shows). If it were, the slices would have no size, since
  `thread_m`, `thread_n` and `thread_k` are -1.
- `jit_avx_gemm_f32.cpp:2572`: the partition is made for the threads asked for. When the
  region gets fewer, the blocks of the missing threads are not computed, and where k is
  divided the second region adds buffers that nobody filled; the call reports success.
  The assertion at line 2557 excludes this in builds with assertions; nothing else does.
- `jit_avx_gemm_f32.cpp:2674`: `CHECK(st)` returns without freeing the flags, buffers and
  work space, which only lines 2745 to 2747 free.
- `jit_avx_gemm_f32.cpp:2480`: `ref_gemm` is given `p_lda` where `p_ldb` belongs.
- `cpu_isa_traits.cpp:189`: the getter of the hints tests `ENDNN_ENABLE_CPU_ISA_HINTS`,
  which nobody defines: with the feature on the hints are never read, hence never obeyed,
  and never locked, so that they can be set again after code was generated.
- `scratchpad.cpp:114`: when neither the larger storage nor one of the old size can
  be had, the primitives created before stay alive with no storage, and an execution
  of one works with a null pointer.
- `scratchpad.cpp:159`: `#if ZENDNN_ENABLE_CONCURRENT_EXEC` gives primitives the common
  scratchpad when the macro is 1 and private ones when it is 0, its default
  (`inc/zendnn_config.h:109`); the option is described the other way round
  (`inc/zendnn_types.h:2348`).
- `scratchpad.cpp:125`: a primitive destroyed on another thread than created is counted off
  that thread's count: its storage may be deleted under living primitives, or the
  count pass below zero.
- `primitive_hashing.cpp:182`: `operator==` of the cache's keys has no case for
  `embedding_bag`, and `init_mds` none either: two such descriptors that differ only in
  `op_desc` count as equal.
- `zendnn_convolution_winograd.cpp:705`: the fallback of the winograd convolution keeps
  its buffers and their sizes in function-static variables, without a lock.
- `cpu_reducer.cpp:91`: the assertion "no reduction buffer overflow" does not hold for
  the call at `jit_avx2_convolution.hpp:247` with 128 threads and large kernels; the
  space is booked from the division, so only builds with assertions notice.

## 6. What is not modelled, and why

- Arithmetic and generated code: no interaction, and outside TLC's reach.
- Weak memory: the code is for x86, whose order the flags of the sgemm and the
  barrier rely on; the models are sequentially consistent. The one reordering
  x86 allows (a store after a later load of another place) is not represented.
- Other runtimes (threadpool, TBB, sequential), except that `reducer`
  covers the variant without barriers inside a region.
- Smaller teams for the 1x1 convolution: its barriers wait for `jcp.nthr` threads
  whatever OpenMP grants, so a smaller team hangs; `parallel` asserts against it.
- Failures inside `std::promise`, `malloc` of bookkeeping structures other than the
  sgemm's, and the end of the process.
- Of the sgemm that copies nothing: the call without a region for one thread, which the
  model runs as a region in which one thread has work.
- Of the blocked gemm: the offsets and row sums of the integer types, packing a
  matrix and its storage, the jumps to gemv, `partition_2d_minblk` (the numbers of
  slices in three dimensions are a choice of the `Problem`), the AVX-512 test for
  copying, and the integer types' division in two dimensions under AVX-512, which may give
  the rows more than four threads (lines 1121 to 1131) or go by `calc_nthr_2d`.
- Of the scratchpads: the registry of named places, nested scratchpads, and page
  protection for debugging.
- AArch64, RNN, logging, vendored code: see the inventory and `PROJECT.json`.

## 7. Plan

Done, in this order: cache, pool, barrier, work division, reducer, 1x1
convolution, sgemm, settings, blocked gemm and its composition with the sgemm,
scratchpads, each with its run; proofs of the safety properties of all of them.

Next, the model:

1. `WeightsReduction`: the reduction of `jit_avx512_common_convolution` and of
   `jit_brgemm_inner_product`, composed with `Barrier`.
2. `CountingBarrier`: the threadpool runtime's `notify` and `wait`, as a refinement of
   a barrier for one waiter.
3. `balance2D`, `partition_2d_minblk` and the 2D reducer.
4. `MemoryTracking`: the registry of named scratchpad places (alignment, overlap).
5. The loops of `sgemm_nocopy_driver` over blocks of m, n and k, as functions: each
   place is computed once, with the first block of k replacing and the rest adding.
6. Packing: `gemm_pack_storage_t` shared by calls with different teams.
7. Smaller teams for the 1x1 convolution, and the reductions in more dimensions of
   `parallel_nd`.

Next, the proofs:

1. Cache: that no key is built twice at a time while the capacity is not smaller
   than the number of keys.
2. Settings, cache and barrier: the liveness properties, once a prover for them is at hand.
