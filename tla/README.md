# A TLA+ model of testsan and of the runtime it is built on

The repository is a tutorial on writing an LLVM sanitizer.  It contains the whole
LLVM tree (LLVM, clang, compiler-rt) with a small sanitizer added to it, *testsan*.
This directory models testsan itself and the concurrent parts of the
sanitizer runtime library it links: TLA+ modules translated from the
source, TLC configurations that check them on small instances, and TLAPS proofs.

## The system

A program compiled with `-fsanitize=test` goes through these parts.

| part | where | state | operations |
|---|---|---|---|
| instrumentation passes | `llvm/lib/Transforms/Instrumentation/TestPass.cpp` | the IR module being rewritten, the iterators over it | `runOnModule`, `runOnFunction`, `runOnBasicBlock` |
| clang driver and pipeline | `BackendUtil.cpp`, `CommonArgs.cpp`, `Sanitizers.def` | none | add the passes, link the runtime |
| testsan runtime | `compiler-rt/lib/testsan/testsan.cpp` | `REAL(malloc)`, the shadow region | `testsan_Init`, the malloc interceptor, three hooks |
| interception | `compiler-rt/lib/interception` | the `REAL` pointers | `INTERCEPT_FUNCTION` |
| mutexes | `sanitizer_mutex.h`, `sanitizer_linux.cc` | one word each | lock, unlock, read lock, read unlock |
| thread registry | `sanitizer_thread_registry.{h,cc}` | contexts, counters, two queues | create, start, finish, join, detach, find, name |
| stack depot | `sanitizer_stackdepot*`, `sanitizer_persistent_allocator.h` | hash table of stack traces | put, get, lock all |
| hash map | `sanitizer_addrhashmap.h` | buckets of cells | acquire, release |
| quarantine | `sanitizer_quarantine.h` | per-thread and global queues of freed blocks | put, drain, recycle |
| deadlock detector | `sanitizer_deadlock_detector*`, `sanitizer_bvgraph.h` | lock-order graph, epochs | on lock, on unlock, remove node |
| allocator | `sanitizer_allocator_*` | size classes, caches, regions | allocate, deallocate |
| lock-free stack | `sanitizer_lfstack.h` | head with an ABA counter | push, pop |
| stop-the-world | `sanitizer_stoptheworld_linux_libcdep.cc` | the traced threads | suspend, resume |
| simpsan | `compiler-rt/lib/simpsan` | as testsan | an earlier testsan that no build file compiles |

How they interact.  clang adds the three passes to the legacy pass manager, which
runs them over a module; the passes insert calls of `testsan_HelloFunction`,
`testsan_EndOfMain` and `testsan_AfterMalloc`, and the runtime defines these and
intercepts `malloc`.  The loader runs `testsan_Init` from `.preinit_array`.  The
other parts are the library on which full sanitizers (and a testsan that grows) keep
their bookkeeping: `BlockingMutex` guards the thread registry, `RWMutex` the
buckets of the hash map, spin locks the quarantine and the persistent allocator,
from which the stack depot takes its nodes.  TSan's interceptors of the pthread
functions call the registry; MSan's interceptor of fork locks the depot; TSan's
mutex hooks call the deadlock detector.

What is hard:

* the passes insert into the lists they iterate over, and each pass sees what the
  previous ones and it itself inserted;
* the interceptor is linked in before `REAL(malloc)` is known, and from then on is
  entered by all threads;
* the fast path of `BlockingMutex::Lock` overwrites the mark that says threads sleep;
* a reader of `RWMutex` changes the word before it knows whether it may enter;
* `JoinThread` polls and gives its mutex up in between, while contexts are
  recycled; a thread may be detached at any moment of its life, or never start; a
  thread is looked up by a `pthread_t` that the system gives to the next one;
* the depot, the hash map and the deadlock detector each have a path without a lock
  beside one with it: what the first saw may have changed when the second acts, and
  what the second changes is read by the first while it changes;
* a fork stops all threads but one in the child, wherever they are in the depot;
* the quarantine decides by a size that is kept by additions and subtractions and
  read without a lock, while batches are transferred, merged and taken out;
* nodes of the lock-order graph are few: they are recycled, and all are taken away
  at once by a flush, while threads keep records in terms of them.

`PROJECT.json` lists these and the rest as hazards, each at its line, with the
properties that cover it.

## Modules

| module | models | state → code |
|---|---|---|
| `TestIR` | what testsan looks at in the IR | an instruction is its class and callee; a call through a pointer or a cast has no called function |
| `TestPass`, `MCTestPass` | the passes under the legacy pass manager | `funcs` the module, `pc` the running pass, `fi`/`bi`/`ii` the iterators |
| `TestSan`, `MCTestSan` | the runtime under an instrumented multi-threaded program | `real` = `REAL(malloc)`, `shadow`, `inside` the threads in `testsan_Malloc`, `out` what is reported per thread |
| `RWLock` | abstract specification: what a lock promises | `mode` of each thread |
| `LockThreads` | what the two locks' modules share | `Threads`, `pc` the threads' places in the code of a lock |
| `BlockingMutex` | the futex mutex, one step per atomic access or system call; its definitions are named `Futex...` where `RWMutex` has one of the same name, so that one module can prove about both | `m` = `opaque_storage_[0]`, `pc` |
| `RWMutex` | the reader-writer spin lock, one step per atomic access | `state` = `state_`, `pc` |
| `ThreadRegistry` | registry and contexts, one step per critical section | `reg` the object, `handles` the program's threads |
| `PersistentAllocator`, `MCPersistentAllocator` | the bump allocator, one step per atomic access | `region_pos`, `region_end`, `mtx`, `alloc` the threads in `alloc`, `blocks` what was handed out, a history variable |
| `Depot` | abstract specification: what the depot promises | `ids` of the stacks, `call` of each thread |
| `StackDepot` | `StackDepotBase` on `PersistentAllocator`, and fork | `tab` the lists, `lockBit` the low bits of their heads, `seq`, `op` the threads' places |
| `StackDepotReverseMap`, `MCStackDepot` | the snapshot and its search, composed with the depot | `map_`; `before` is a history variable |
| `AddrMap` | abstract specification: a map with exclusive creation and removal | `present`, `handle` of each thread |
| `AddrHashMap`, `MCAddrHashMap` | one bucket, on the abstract `RWLock` | `mode` = `mtx`, `cells`, `add` the array and its generation, `h` the handles |
| `Quarantine`, `MCQuarantine` | per-thread caches, the global cache, recycling | `global` = `cache_`, `local`, the two mutexes, `th` the threads and their `tmp` |
| `DeadlockDetector`, `MCDeadlockDetector` | nodes, epochs, edges, fast and slow paths | `id` of a mutex, `dd` the detector, `dtls` the threads' records, `held` what they really hold; `nested` is a history variable |
| `TestPass_proofs`, `TestSan_proofs`, `Mutex_proofs` (both locks), `ThreadRegistry_proofs`, `StackDepotReverseMap_proofs`, `AddrHashMap_proofs`, `Quarantine_proofs`, `DeadlockDetector_proofs` | the theorems about each; those about `PersistentAllocator` and `StackDepot` are in `StackDepotReverseMap_proofs` | |

How they compose: `TestPass` and `TestSan` through `ExpectedBlock`; `StackDepotReverseMap` extends
`StackDepot`, which extends `PersistentAllocator`; `AddrHashMap` uses `RWLock`, which `RWMutex`
implements.  `RWMutex`, `BlockingMutex`, `StackDepotReverseMap` and `AddrHashMap` are each
shown to implement an abstract specification.

Each definition's lines are in `PROJECT.json`.  Definitions commented "Mutant" are
deliberately wrong variants, used by nothing: replacing the definition that
follows by one of them must break a property.

Choices worth knowing:

* **TestPass.**  `Module::getOrInsertFunction` yields a bitcast when the symbol has
  another type, so the call built from it has no called function.  A program that
  declares `testsan_AfterMalloc` as `testsan.h` does (`void(char*)`, not
  `i8*(i8*)`) is such a program.  Only `CallInst` is instrumented; an `invoke` of
  malloc is not.  Printing is left out.  `Modules` are the modules compiled.  They may declare a hook but
  neither define nor call one (`Instrumentable`): the hooks are defined in the runtime.
* **TestSan** takes each function's code to be `ExpectedBlock` of its blocks.  This is
  what the theorem `HooksExact` of TestPass shows the passes produce, and the
  two modules compose through it.  Programs define `main` and `foo`, each of their blocks ends in a
  terminator, and they contain no indirect calls, because on those the compiler crashes (below).  Library constructors run before main and
  may call malloc.  `Preinit` is TRUE: testsan is built with `-fPIE`, without
  `-DPIC`, on Linux, so `SANITIZER_CAN_USE_PREINIT_ARRAY` is 1.  `mmap` of the
  shadow may fail, and then the process dies.  `dlsym` is taken to find libc's malloc.
* **BlockingMutex, RWMutex.**  Each is one word accessed by atomic operations, so
  interleaving of single accesses is adequate; the orders on other memory are not
  modelled.  The Linux branch is modelled (futex).  `owner_` is never written there.
  The compare-exchange of `LockSlow` is weak and may fail spuriously; the one in
  `Lock` is strong.  A futex wait may return by itself.
* **ThreadRegistry.**  Operations hold `mtx_`, a `BlockingMutex`, whose exclusion is
  proved, so each is one step; a round of `JoinThread` is one step and the loop is
  not.  A failed CHECK clears `reg.ok` and ends the process.  The clients follow
  the life of a pthread: created, then started or given up by its creator,
  finished, and if joinable joined or detached by one client, in the order of
  TSan's interceptors: the lookup by user id, the system's call, the registry's.
  A timed join may fail, and then the id is put back.  The system gives an id to
  a new thread as soon as nobody can use it for the old one (`FreeIds`).  Hooks
  (`OnDead`, ...) belong to the tools and are left out; so are names.
  `ThreadQuarantineSize` is at least 1.  With 0, `FinishThread` would set
  `thread_destroyed` on a context that the push has just reset (no caller in the
  tree uses 0).
* **PersistentAllocator, StackDepot.**  Every atomic access is a step, except that a
  list once its head was loaded is searched in the same step: nodes never change and
  are only added in front of that head.  The kernel places a mapping at the highest free
  address of `Bases`.  A weak compare-exchange that fails spuriously only goes round the loop.
  Each entry of `blocks` says whether it is `stale`: `region_end` had moved between the load of it that the block was found to
  fit below and the exchange that cut the block off.
  A depot has one part (`kPartSize = kTabSize`), so that `Get` has several lists to
  walk.  After a fork the behaviour goes on in the parent or in the child.
  The snapshot is taken by a thread of its own, as the leak checker takes it;
  `MapNodes` and `MayCall` bound when it is begun and who calls meanwhile, for the reason
  given there.
* **AddrHashMap.**  The header promises whoever removes an element exclusive access, but a
  handle found in an embedded cell holds no lock.  The clients of the map remove an
  element only when nobody else uses it (its synchronisation object is being destroyed),
  and so do those of the model; without that the CHECK at release can fail.
* **Quarantine.**  `Init` runs once.  A Put that finds its cache full, its drain and its
  recycling are separate steps; a critical section is one step, except that of `Recycle`,
  whose extraction is stepwise so that unlocked reads of the size see it.  The recycle mutex is given
  up after the cache mutex, and the chunks are given back under none.  The emptied batches of a merge,
  which hold no chunk, are not modelled.  The properties see a cache as the sequence of the chunks in it
  (`Kept`), however these are cut into batches.
* **DeadlockDetector.**  The locked parts are one step; the lock-free `onFirstLock`, and
  `hasAllEdges` edge by edge, are interleaved with them.  `held` is what the program holds,
  so the properties compare the detector's records with the truth.  The program may
  deadlock: the detector only reports.  `Shared`, `Tried` and `Dying` say which mutexes of an
  instance are read-write locks, are tried, and may be destroyed.  A record has room for 64 locks and for 64 recursive ones, and `addLock`
  CHECKs it (`sanitizer_deadlock_detector.h:65`, `:69`): a program that holds more dies.  The two sizes are the variable `limits`, chosen among
  `Limits` and then constant; a thread whose lock finds no room goes to `full`, and no step follows.  Reports have no effect on the
  state but the edges that are then added at once.

## Runs

| run | bounds | shows |
|---|---|---|
| `testpass` | `main` of 1–2 blocks, `foo` of up to 2 instructions and a terminator or a declaration, at most one hook declared by the program, with either type: 26 880 modules | the iterators stay valid and no symbol is declared twice (`TypeOK`); the program is at all times the original with hook calls added (`OriginalPreserved`); a function the passes left has exactly its hooks (`Instrumented`); compilation crashes on exactly the modules with a call without a called function (`CrashesExactlyOnNullCallee`); the passes stop (`PassesTerminate`) |
| `testpass_null_callee` | as above, `foo` of at most 1 instruction, no hook declared by the program (`Typed = {}`), so that only a call through a pointer lacks a called function | **violated**: `CalledFunctionKnown`, see Findings |
| `testsan` | three `main`s, three `foo`s, two more threads, one malloc by a constructor | `ReadyBeforeUse`, `EachMallocReported`, `EndOfMainReported` |
| `blocking_mutex` | 4 threads | exclusion and the mark (`HolderMarked`), `NoLostWakeup`, `ImplementsMutex`, and a free lock that is wanted is taken (`LockProgress`) |
| `rw_mutex` | 4 threads, word modulo 16 | exact count (`StateCounts`), `NoWriterOvertakes`, `ImplementsLock`, every reader gets in (`ReaderEnters`) |
| `thread_registry` | 3 contexts, quarantine of 1, 2 uses of a context, 2 user ids, 6 threads created | no CHECK fails and no join or detach misses its thread (`NoCheckFails`); `CountersMatch`; a thread that lives or can be joined owns its context (`ContextIsOwn`); a lookup finds the thread that has the id (`UserIdFindsThread`); no context is lost or queued twice, none is used too often (`ContextsAccounted`); `DeadStayQuarantined`; `JoinReturns` |
| `persistent_allocator` | 2 threads, 4 blocks, two adjacent regions of 2 units | **violated**: `BlocksDisjoint`, see Findings |
| `stack_depot` | 2 threads, 3 stacks in 2 buckets, regions of 3 units with a gap between them, one fork, one snapshot | blocks disjoint (`BlocksDisjoint`); one identifier per stack, leading back to it, nothing inserted during a fork (`ImplementsDepot`); every call returns, in parent and child (`CallsReturn`); the snapshot has all that was stored before it and finds it (`SnapshotComplete`) |
| `reverse_map` | as above, no fork, identifiers newer than the snapshot looked up | **violated**: `LookupsSafe`, see Findings |
| `addr_hash_map` | 3 threads, 3 addresses, 1 embedded cell, first array of 1 cell | `NoCheckFails`; handles lead to the right value and keep what they need locked (`HandlesValid`); `ImplementsMap` |
| `quarantine` | 2 threads, 4 chunks of 2 sizes, batches of 2, limits that drain at once, that fill a batch first, and none | `SizesExact`, `EachChunkOnce`, `PurgeComplete`, `OldestFirst` |
| `deadlock_detector` | 2 threads holding up to 3 locks between them, 3 mutexes on 2 nodes, 2 epochs after the first flush; records with room for 2 locks and 1 recursive one, and for 1 and none | no CHECK fails, except for want of room in a record of a thread that really holds more locks than fit, and nodes are not shared (`NoCheckFails`); no edge is invented (`EdgesReal`); between two mutexes a thread has on record in the present epoch, the first not taken again after the second, none is missed by the fast path (`EdgesComplete`) |

Why the bounds are enough.  *testpass*: every instruction class occurs in first, middle
and last position, in and out of main, with each insertion next to every
other class; the passes keep no state from one function to the next except which hooks are
declared.  *Locks*: with 4 threads a holder, a sleeper, a waker and a barging thread exist at the same
time, and safety is proved for every number of threads.  *thread_registry*: 6 threads on 3 contexts
fill the quarantine, reuse a context, retire it and hit the thread limit; with 2 ids
each is reused while the registry still keeps an earlier owner.  *stack_depot*: two stacks share
a bucket and one has its own, and a region holds any two of the nodes but not all, so two Puts race for a
bucket, for a region and for the allocator's mutex.  *addr_hash_map*: one thread moves cells while
a second scans and a third waits to grow the array; three elements overflow the embedded cell and
the first array.  *quarantine*: four chunks make two full batches, or four that merge, and one thread
recycles while the other transfers.  *deadlock_detector*: three mutexes on two nodes force a flush, a
destroyed one a recycling; three locks let one thread take a lock again that the flush between made it forget.  Of the two sizes of a record,
the larger is exceeded only by a lock taken three times, so behaviours go on as with 64; with the smaller any second lock meets
one of the limits.  `MaxTotal` and `MaxCtor` bound behaviours, not
the code; the limit `MaxThreads` is the code's own.

Deadlock checking is off in `testsan` and `thread_registry`, where the
process may exit or die and creation is bounded; in `persistent_allocator`, where the number of
blocks is bounded; and in `deadlock_detector`, whose program may deadlock.  It is on elsewhere: that the
depot, the hash map and the quarantine never block for ever is part of those runs.

Fairness.  `TestPass`: the compiler's one thread goes on.  Locks: each
thread in an operation or holding the lock goes on (the scheduler runs it, and
clients give locks back); nobody has to ask for a lock and no wait has to be interrupted, so
progress never rests on a spurious wake-up.
`StackDepot`: a thread that has called Put, Get or LockAll is run again (`Run`); nobody has to call, no
fork has to come, and which process is followed after a fork is free.  The spin locks need no strong fairness
here because a behaviour makes finitely many insertions and forks.
`ThreadRegistry`: a joiner that yields runs again; threads may run for ever.
Writers of `RWMutex` can starve under readers that overlap; this is the lock's design and no
property claims otherwise.

## Findings

`TestSanitizerBlock::runOnBasicBlock` calls `getName()` on the result of
`getCalledFunction()` without testing it (`TestPass.cpp:128`).  The comment two lines
above takes for granted that there is one; `InstrTypes.h:1179` says it is null for an
indirect call.  `testpass_null_callee` shows the null dereference on programs
that declare no hook: the module of the counterexample has a call through a pointer in `main`, and the pass reaches it.  `CrashesExactlyOnNullCallee`
(run `testpass`) characterises the modules affected: those with an indirect call, and those
where a hook is declared with another type, whose inserted call the pass
then visits itself.

`PersistentAllocator::tryAlloc` (`sanitizer_persistent_allocator.h:38-41`) compares `region_pos` with the value it loaded,
but the position may have come back to that value.  Region B is in use and its first byte is the
position a thread has loaded; others use B up and map region C, which the kernel puts directly
below B; when C is full the position is C's end, which is B's first byte.  The delayed exchange then succeeds and
hands out memory of B a second time.  "All allocations are forever", says the header (line 11).  `persistent_allocator` shows
it.  It needs a thread delayed for two regions of 64 KB; with a gap between the
regions (`stack_depot`) the property holds.

`StackDepotReverseMap::Get` (`sanitizer_stackdepot.cc:158`) tests `idx > map_.size()`, where `>=` is meant: the
identifier of a stack stored after the snapshot makes the vector's `CHECK_LT` fail instead of
returning no trace, though the header (`sanitizer_stackdepot.h:46-49`) foresees use beside a growing
depot.  `reverse_map` shows it.

Without a run of its own: LSan looks a thread up like TSan, but its `FindThreadByUid`
(`lsan_thread.cc:106-112`) leaves the user id in the context.  The mutant `LookupKeepsId` of
`ThreadRegistry` is that code; with it `UserIdFindsThread` is violated, and so is `NoCheckFails`, by a join that
lands in a context which is dead already (CHECK at `sanitizer_thread_registry.cc:59`).

## Proofs

The theorems hold for every set of threads and every value of the constants that meets the
assumptions named, each stated with `ASSUME` in the module it is about and evaluated by TLC on the runs.
Each rests on an inductive invariant (`IInv` of the proof module, `FutexIInv` for the second lock of `Mutex_proofs`) that TLC checked on the
run's instance first.

*BlockingMutex* (no assumption): `FutexTypeCorrect`, `MutualExclusion` (`[]HolderMarked`), `WakeupNotLost`
(`[]NoLostWakeup`) and `FutexRefinement` (`FutexSpec => ImplementsMutex`).  The inductive invariant is
`FutexTypeOK /\ HolderMarked /\ NoLostWakeup`.  The argument for wake-ups: a step that removes
`MtxSleeping` from the word leaves its own thread in the slow path or about to
wake, and a thread leaves those places only by writing `MtxSleeping` or by
moving a sleeper into the slow path.  This is why `NoLostWakeup` mentions the
threads in `slow` and `wake`: without them it is not even true, since the fast path overwrites the mark.

*RWMutex*, under `RWMutexAssumption` (finitely many threads, an even modulus, and
`2·|Threads| + 1` below it, so that the count cannot wrap; 2^32 in the code): `TypeCorrect`,
`CountsCorrect` (`[]StateCounts`), `Exclusion`, `ReadersFirst` (`NoWriterOvertakes`) and `Refinement`.  The
inductive invariant is `TypeOK /\ StateCounts /\ WriterExcludes`: the exact count
decodes the word an operation reads (`kUnlocked`: nobody is in or announced; writer's
bit off: no writer is in), and exclusion is needed because
`Unlock` subtracts one writer and the count has room for only one.

*ThreadRegistry*, under `RegistryAssumption` (at least one context, a quarantine of at least one, 0 is nobody's
`pthread_t`): `TypeCorrect`, `ChecksPass` (`[]NoCheckFails`), `CountersAreRight`, `ContextsAreOwned`,
`IdsFindThreads`, `EveryContextAccounted`, and the action property `DeadAreKept`
(`DeadStayQuarantined`).  The checked invariants say little about a context whose thread is over, so none is
inductive.  What carries all of them: a context in use names by `unique_id` the thread it serves and
says of it what the thread, its creator and its joiner did (`Serves`); a thread not over
yet has such a context (`HandlesOK`); the two queues hold, once each, exactly the dead contexts and the
reusable ones (`Queues`); and a context has served `reuse_count` threads besides
the present one (`Uses`).  The last three bring out facts that no comment mentions and the
CHECKs rest on: a context never handed out has `reuse_count` 0, one that is ready for reuse has
`thread_destroyed` cleared, and `reuse_count` never passes `max_reuse`.

*AddrHashMap*, under `BucketAssumption` (at least one embedded cell, a first array of at least one):
`ChecksPass` (`[]NoCheckFails`), `HandlesStayValid` (`[]HandlesValid`) and `MapImplemented`
(`Spec => ImplementsMap`), for any addresses and however often the array grows.  A thread's mode in the bucket's lock is a
function of its place (`LockInv`), so the abstract lock's exclusion says who can be where at once; a cell's
address is in one cell, or in two while the thread that holds the lock for writing is in `clear`
(`CellInv`); and the holder of a handle into the array keeps the lock (`HeldOK`), which is why no growth
frees that array under it.  The proof takes the lock to be `RWLock`, which `Mutex_proofs` shows the
spin lock implements.

*Quarantine*, under `QuarantineAssumption` (sizes are natural numbers, a batch is not empty memory and can hold a
chunk, the limits pass the CHECK of `Init`): `SizesAreExact` (`[]SizesExact`), `ChunksAreOnce` (`[]EachChunkOnce`),
`PurgeIsComplete` (`[]PurgeComplete`) and the action property `OldestGoFirst` (`OldestFirst`).  First every
cache is shown to be well formed: its batches hold 1 to `kSize` chunks each, and its size is the sum of its chunks' sizes and
one overhead per batch.  That is why the loop that takes batches out stops before the list is empty.
Then, to the keepers of chunks (the global cache, each thread's, what each thread took out), every step is one of four
things: a chunk more at one's end, chunks moved from the front of one to the end of another, chunks given back, or nothing; a merge
is nothing, since a cache is the concatenation of its batches however they are cut.  On these four rest the
other parts of the invariant: no number occurs twice and those that occur are 1 to `puts` (`Each`); each thread's chunks
stand in ascending order in the global cache and in its own, and those in the global cache are older (`InOrder`); and
a chunk that a purge found is in no other thread's cache, from the drain on not in its own, and, once the purge gives the locks up, not
in the global one (`Swept`).

*DeadlockDetector*, under `NodesAssumption` (at least one node), `LimitsAssumption` (a record has room for one lock at least) and `MutexesAssumption`: `ChecksPass`
(`[]NoCheckFails`), `NoEdgeInvented` (`[]EdgesReal`) and `NoEdgeMissed` (`[]EdgesComplete`).  A record says nothing
once the epoch has moved on, and a flush makes it forget what the thread still holds, so the
invariant counts: of each node in a record of the present epoch the thread holds more locks than the
record has recursive ones.  That is what keeps `bv_`
from losing a node that is held when one of several locks of it is released.  It also bounds the record:
as no two mutexes share a node, a record lists no more nodes than the thread holds mutexes, and of the locks
of a mutex all but the first have room for its recursive entries, so that all records together with these never list more than is held.
From this, and because what the fast path read about its record is still so when it adds the lock, a second invariant follows (`RoomInv`):
a record without room is that of a thread that holds more than fits (`HoldsTooMany`).  The fast paths read
without the mutex; what they read is of the present epoch or they give up, and an edge, once there, goes only
with a node that is recycled, which no thread holds, or with the epoch.  The attempt at this proof corrected
`EdgesComplete`: an earlier form, which had no condition on a lock taken again, held only because the run let a
thread hold two locks.

*StackDepot and its snapshot*, under `DepotAssumption` (a table and parts of positive size, the parts dividing
the table, a hash within it, at least one identifier): `DepotImplemented` (`Spec => ImplementsDepot`).  A bucket has one owner at most:
the Put that set its bit, or the forking thread (`StackDepotReverseMap_proofs` writes down which places own what).
An owner knows that its stack is not in the list, because the list it searched without the lock is the tail of the
one it found when it locked, and it searched what lay in front (`seen`).  Identifiers differ because each part numbers
its own.  A `Get` that has not found its node yet has it in one of the lists still to walk.  The child of a
fork keeps the invariant because the forking thread owned every bucket.

`SnapshotIsComplete` (`[]SnapshotComplete`) is about the reverse map on such a depot.  The list of a bucket only grows at
its head and the nodes behind a head never change, so whatever was stored when the snapshot was begun is still in the list when its
bucket is read, whether or not the bucket is locked then.  The array the code sorts holds finitely many nodes with different
identifiers; that its sorted order exists is proved by ranks (the number of nodes with a smaller identifier is a
bijection onto the positions).  The binary search is a recursive function on intervals; that it returns the first
position not below the identifier is an induction on the interval's length.  `Get` then finds each node of the snapshot
and answers with its stack.

*PersistentAllocator*, under `AllocatorAssumption` and as the depot uses it: `OnlyStaleBlocksOverlap` (`Spec => []OverlapsAreStale`), for
any sizes and any placement of the regions, adjacent ones included.  `BlocksDisjoint` itself is false of the code
(see Findings).  The theorem says that the history found there is the only way: blocks overlap, or leave their region, only
after some exchange succeeded although `region_end` was no longer what the thread had compared with.
The argument: the block a thread is about to take ends below the end it loaded; if the end is
still that one and the position is the one it loaded, the block lies in the unused part of the region in use, and only
one thread at a time, with the mutex, replaces the region.  Once a stale block exists nothing more is claimed, so the inductive formula is
`SomeStale \/ AllocInv`, with the types beside it.

*TestPass*, under `NamesAssumption` and `ModulesAssumption` (every module is `Instrumentable`): `TypeCorrect`,
`ProgramPreserved` (`[]OriginalPreserved`), `HooksExact` (`[]Instrumented`) and `CrashExact`
(`[]CrashesExactlyOnNullCallee`).  The invariant says what each pass has made of each function: a block being scanned is
what the pass makes of the instructions behind its iterator, in front of those not reached yet, untouched.
Whether the inserted calls of a hook are direct is decided by the module alone, and what the block pass has left behind contains no
call without a called function.  Erasing the inserted calls gives the original back, and what the function
pass and the block pass do to a block composes to `Expanded`.  The blocks are `FlattenSeq`s, defined by recursion on the
length; the induction over naturals this takes is itself proved (`NatInd`, from finite sets), because
the library's theorem cannot be instantiated.

*TestSan*, under `RuntimeAssumption` and `ProgramAssumption`: `RuntimeIsReady` (`[]ReadyBeforeUse`, for `Preinit`
TRUE), `MallocsAreReported` (`[]EachMallocReported`) and `EndIsReported` (`[]EndOfMainReported`).  Where there is no
`.preinit_array`, a constructor that calls malloc crashes the process, and the mutant `CtorsFirst` shows it.  The instrumented code is
*woven*: each malloc stands in front of its hook, each return of main behind the end hook, a hook
nowhere else.  A thread's place then says what was reported for it last: a malloc hooked and not yet reported exactly at the hook, the end exactly at the return of
main.  Frames that wait stand behind a call of `foo`, and `main` is the outermost frame of the main thread and of no other.

Model-checked only: the five liveness properties, which are out of the prover's reach (`PassesTerminate`, `LockProgress`,
`ReaderEnters`, `JoinReturns`, `CallsReturn`).  `BlocksDisjoint` is model-checked only, too: it holds in `stack_depot`, whose regions have a gap between them, and not
for every placement.  Every other invariant, action property and refinement that a passing run checks is stated by a theorem.

## Not modelled

The clang driver and pipeline (straight-line option handling), interception (`dlsym`), stop-the-world (mostly the
kernel's ptrace), simpsan (compiled by no build file), the rest of LLVM (vendored upstream code;
`getOrInsertFunction`, `getCalledFunction`, `IRBuilder` and the pass manager's loops are modelled as
far as testsan uses them), weak memory, platforms other than Linux.  Of the library: the allocators (layout of memory,
arithmetic on size classes that its own `Validate` checks for every size, and page release), the lock-free stack (used by
nothing), thread names, the second deadlock detector (Go builds only), the reports of the first one.
Of the modelled parts: two threads that close a cycle of locks at the same time are not reported
before they deadlock (`sanitizer_deadlock_detector.h:203` promises it only "ideally"); the quarantine's size can stay above its
limit when the recycle mutex is busy.  No property is claimed for either.

## Plan

Done, in this order: the passes and the runtime of testsan; the locks with their proofs; the thread registry
with user ids; the persistent allocator, the depot and its snapshot; the hash map; the quarantine; the
deadlock detector.

Proved since: the thread registry, the hash map with its refinement, the deadlock detector, the depot with its
refinement, the allocator up to stale exchanges, the passes, the runtime, the snapshot with its sort and its search, and the
quarantine.

Left: liveness, which TLC checks and the prover cannot, and the parts not modelled, of which the allocator's caches (the
protocol of `sanitizer_allocator_local_cache.h`) are the first worth a module.
