# Verification of atomsnap

TLA+ models of the atomsnap library (`src/atomsnap.c`), of its test program and
of its benchmarks, model-checked with TLC. The safety of the library itself (the
reclamation protocol, the words it is built from, the slot allocator with its
pages, and the thread registry) and of benchmark 2 (both backends, the pool of
payloads and the statistics) is also proved with TLAPS, for any number of
threads, versions, arenas, slots, ids, shards, blocks and tags.

## 1. The system

atomsnap lets readers and writers share an object through a *gate*. A gate has
one or more *control blocks* (slots); each names the current *version* of one
object. Readers acquire and release versions, writers replace them, and a
version's object is freed, by a user callback, once it has been replaced and
its last reader is gone.

| Part | Source | What is hard about it |
|---|---|---|
| Gate and version protocol | `atomsnap.c` 699-781, 857-1163 | two counters that wrap independently; release racing the detach; one finalizer among many; retry loops |
| Handle and word encoding | `atomsnap.c` 85-140, 248-296 | a counter above a handle or above flags in one word, changed by one addition; HANDLE_NULL among the handles |
| Version slot allocator | `atomsnap.c` 298-338, 411-697 | pushes by all threads racing a steal by the owner; pages dropped on a depth read earlier; `self_handle` and `next_handle` share a word; failing allocations; whole pages dropped for an arena that is not whole pages |
| Thread registry | `atomsnap.c` 340-409, 783-855 | non-atomic scan for an id; adoption of a context its last thread is leaving; failures after the claim |
| CAS and exchange programs of benchmark 1 | `microbench/bench1/*/atomsnap_example.cpp` | ABA, lost updates, monotonic reads, what is left at the end |
| `shared_ptr` programs of benchmark 1 | `microbench/bench1/*/shared_ptr_example.cpp` | a pool of control blocks with a list that everybody pushes to, without tags |
| Lock programs of benchmark 1 | `mutex_example.cpp`, `spinlock_example.cpp` | updates in place |
| atomsnap backend of benchmark 2 | `microbench/bench2/bench_all.cpp` 553-790 | a block reused while a reader checks it; `pending` reported as zero without looking |
| liburcu backend of benchmark 2 | `bench_all.cpp` 265-520, 862-935 | callbacks and batches left over at the end |
| Payload pool of benchmark 2 | `microbench/bench2/lf_pool.hpp` | ABA after 16 operations |
| Latency statistics of benchmark 2 | `LatencyStats` in `bench_all.cpp` | a maximum in a CAS loop |
| Options, timing, output of benchmark 2 | `bench_all.cpp`, `bench_common.hpp` | sequential input and output |
| Wrap-around tests | `test/wraparound_test.c` | counters set by hand under running readers; counts asserted after a join |

How the parts meet: `atomsnap_make_version` takes a thread's context from the
registry and a slot from the allocator. The protocol decides when a version is
garbage and gives its slot back with `free_slot`, on whatever thread found out.
The allocator's private lists and vectors are unsynchronised and rely on the
registry giving a context to one thread at a time.

The models are put together along the same seams. `GateWords` implements `Gate`
and `Gate` implements `VersionStore`; `Gate` takes for granted that a slot it is
given is nobody else's until it gives it back, which is what `Arena` implements
(`SlotPool`); the contexts that `Arena` takes to have
one thread at a time are what `Registry` provides (`ContextExclusive`). The
programs are conjunctions of their own steps with those of `Gate`, or with those
of the pool they use.

## 2. Modules

| Module | Models | Kind |
|---|---|---|
| `Gate` | the protocol, on records | specification, properties, inductive invariant |
| `VersionStore` | what the protocol promises: acquire and replace are atomic, and only what nobody can reach is reclaimed | abstract specification |
| `GateRefinement` | the mapping from `Gate` to `VersionStore` | refinement |
| `GateWords` | the protocol on the packed words of the code | detailed specification, mapping to `Gate` |
| `GateProofs`, `GateWordsProofs` | theorems about these, and the lemmas they rest on | TLAPS |
| `Arena` | the allocator | specification, properties, inductive invariant |
| `LinkedList`, `LinkedListProofs` | what a chain of links leads to, and when it is a list or a stack | operators, TLAPS |
| `ArenaProofs` | theorems about `Arena`, and the lemmas they rest on | TLAPS |
| `SlotPool` | what the allocator promises: a slot is handed out only while nobody has it, and given back once | abstract specification |
| `ArenaPages` | the bytes and pages under the arenas | specification |
| `Registry` | the thread registry | specification |
| `RuntimeProofs` | theorems about `Registry` and `ArenaPages` | TLAPS |
| `GateClient` | what programs on a gate have in common | composition |
| `CasClient`, `ExchangeClient` | the atomsnap programs of benchmark 1 | composition with `Gate` |
| `OwnerPool` | `PoolAllocator` of the `shared_ptr` programs | specification |
| `SharedPtrClient` | the two `shared_ptr` programs | composition with `OwnerPool` |
| `LockClient` | the mutex and the spinlock program | specification |
| `WraparoundTest` | the three tests of the test program | composition with `Gate` |
| `AtomSnapBackend`, `BackendProofs` | the atomsnap side of benchmark 2 | composition with `Gate`, inductive invariant, TLAPS |
| `UrcuBackend` | the liburcu side of benchmark 2 | specification, inductive invariant |
| `TaggedFreeList` | the payload pool of benchmark 2 | specification, inductive invariant |
| `LatencyStats` | its latency statistics | specification, inductive invariant |
| `Benchmark2Proofs` | theorems about the two backends in the benchmark | TLAPS |
| `SharedProofs` | theorems about the pool and the statistics they share | TLAPS |
| `MCPrograms`, `MCBenchmark2` | one of the programs, or one part of benchmark 2, at a time, each with its variables and those of the others at NULL | instances |
| other `MC*` | the instances of the library's modules | instances |

Definitions called "Faulty variant of X" are not part of any specification.
Each is X with a plausible bug; putting it in X's place makes the property it
was written for fail, which shows that the property depends on that code.

### Gate

A thread of the model is one client activity that holds at most one acquired
version (README, "No Nested Acquires") and has at most one version it made and
has not published. A program thread that holds versions of several slots at
once, as README's multi-slot example does, is several activities.

| Code | Model |
|---|---|
| `control_block`, `extra_control_blocks` | `cb[c] = [refs, handle]` |
| `inner_state` | `inner[v] = [cnt, flags]` |
| `object` and the callback | `object[v]`: `"unset"`, `"live"`, `"freed"` |
| the allocator | `pool`, the set of free version slots |
| locals `old_refs`, `cur`, `slot_idx`, `current_val`, the version an operation works on | `refs`, `cur`, `slot`, `val`, `job` |

Every call is cut at its atomic accesses. `release` is a `fetch_add`
(`ReleaseVersion`), and if it produced a detached zero, `Finalize`, `Callback`,
`FreeSlot`. `exchange` is the atomic exchange (`ExchangeVersion`) followed by
the load and the CAS loop of `detach_and_adjust` (`DetachLoads`,
`DetachRetries`, `DetachSucceeds`) and perhaps the same tail. `compare_exchange`
is a load (`CompareExchange`) and a CAS loop (`CasSucceeds`, `CasRetries`,
`CasFails`). Counters are numbers modulo `M`, 2^32 in the code. A failing
`compare_exchange_weak` that reloads an unchanged word is a stuttering step.
Calls that fail before they change anything are stuttering steps too.

The client obeys README: it releases what it acquires, it uses a version it
made only until it publishes or frees it, it passes to `compare_exchange` a
version it still holds (or NULL), and it destroys a gate only when no version
is in use. Everything else is arbitrary.

### GateWords

The same steps on what the code stores: `cb[c]` is one integer, counter times
`H` plus handle, `inner[v]` one integer, counter times `H` plus flags, both
modulo `M * H` (2^64). Acquire adds `REF_COUNT_INC` to the whole word, release
adds to the whole `inner_state`, `detach_and_adjust` masks, subtracts and sets a
bit. A handle is `arena * S + slot`, HANDLE_NULL the largest value of the lower
half. That a slot's handle is not HANDLE_NULL is not assumed: it follows from
`N < S`, since the slot number of HANDLE_NULL is at least `N`. The widths `M`,
`A`, `S` are parameters.

### Arena

A thread of the model is a thread context with the program thread that has it
at the moment: contexts are never freed and are adopted with all they own, so
an exit is `ThreadExit` followed by more calls of the adopter. `Registry`
justifies it: a context has one thread at a time. The history variable `out`
counts for each slot the hand-outs that were not given back; no guard reads it.

`top[a] = [depth, handle]` is the shared stack word, `word[h]` the one word
that is `self_handle` or `next_handle`, `owned[t]` the two parallel vectors as
one sequence whose length is `vector_capacity`, and `vector[t]` says whether
the pointers to them are good. `alloc_slot` is `AllocSlot`, the optional
`ReclaimLoads` and `Madvise`, `PopLocal` or `PopEmpty`, `ScanArena` for each
active arena, and `StealBatch` or one of the outcomes of `init_arena`
(`ReuseArena`, `NewArena`, `MaxArenasReached`, `ArenaMemoryFails`,
`VectorMemoryFails`). Steps on memory only the owner can reach are merged with
the atomic access before them. `free_slot` is `FreeSlot`, `LinkSlot` and
`PushSucceeds` or `PushRetries`. A read through a dangling vector pointer is
undefined behaviour; the thread's further steps are not modelled
(`UseDangling`).

### ArenaPages

A heap of words of 8 bytes. `aligned_alloc` puts an arena at any page boundary
where its words are free (it is asked for the struct, 24 bytes less than 32
pages), the rest of the process allocates anywhere else, and `Reclaim` drops the
pages that the arena touches. Which arenas are empty is `Arena`'s business.

### Registry

`used`, `exists`, `tls` are `g_tid_used`, `g_thread_contexts` and the TLS slot.
The load and the CAS on an id are two steps. `leaked` is a history variable:
ids that a failed `pthread_setspecific` has left claimed.

### CasClient, ExchangeClient, AtomSnapBackend, WraparoundTest

`cpc` says where a thread is in its own loop; every statement that touches the
gate or an object is a step, conjoined with the action of `Gate` it calls;
`LibraryStep` is any step of `Gate` inside a call. They run until their threads
have been joined.

- `CasClient`: a new object's values are whatever they are, as the program
  does not initialise them.
- `ExchangeClient`: the new values pass through an `int`, which wraps at
  `2 * Half`. Its readers compare the two values of an object and nothing else,
  and a writer replaces whatever is current, so that updates may be lost there.
- `AtomSnapBackend`: the shards are gates of one control block each with a
  common callback; they are the control blocks of one gate here. Objects come
  from a set of blocks, and the callback gives a block back, which writes the
  pool's link over `v1`, the first word. `main` clears `running`, joins and stops the backend.
- `WraparoundTest`: test 1 stores the last value in the inner counter of a
  current version and releases; its version then has an inner counter that does
  not match the outer one and is never reclaimed, which the model keeps as a
  lost version. In test 2 the exchange that follows runs `detach_and_adjust` on
  a slot that was already freed; nothing else uses the slot by then. Test 3
  runs readers and a writer. Sleeps are dropped: a join follows any schedule.

### OwnerPool, SharedPtrClient, LockClient

`OwnerPool` is `PoolAllocator`: `head[a]` is the list anybody pushes on, without
a tag, and `local[a]` the owner's. The owner takes the whole list by exchange,
so that a push whose head came back in between is right all the same;
`EveryBlockAtHome` says so. `OwnerPoolAssumption`, that there are arenas for all
threads, is a restriction of the model: `main` accepts any positive number of
threads and `get_tid` does not check its ids, so that with more than
`kMaxThreads` the code indexes behind its array. `SharedPtrClient` adds the two programs; the
`std::atomic_...` functions on a `shared_ptr` are external and one step each,
the deallocation by the last owner is cut like the pool. `LockClient` takes the
lock as external and reads and writes the fields one by one.

### UrcuBackend, TaggedFreeList, LatencyStats

`UrcuBackend` has one step per access to `gptrs`, to the two fields of an object,
to `pending` and to the pool. liburcu is external: `grace` and `wait` are the
readers that a `synchronize_rcu` or a queued callback still waits for. The pool
is a set of blocks there, and a block that goes back has the pool's link in `v1`
(`FreeBlock`); `TaggedFreeList` is about its inside: `head` is
`head_`, `next` the first word of each block, which a client overwrites while it
has the block (`USER`). The load, the read or write of a `next` field and the
CAS are steps of their own; a weak CAS may fail for no reason. Two history
variables say how far the tag is relied on: `missed` counts the changes of
`head_` since a thread read it, `lapsed` is set when a CAS succeeds after `T` or
more of them. From then on the list may be damaged; the model stops there and
claims nothing. `LatencyStats` is `add`, cut at its three atomics. The history
variable `added` is the samples of all calls; their sum is the number of elements
of `Units`, one pair for each nanosecond of each sample, which the provers can
reason about and a recursive sum is not.

## 3. Runs

| Run | Instance | Checks | Shows |
|---|---|---|---|
| `gate` | 3 threads, 2 versions, 1 slot, M = 4 | `TypeOK`, `HeldIsIntact`, `NoDoubleFinalize`, `NoOrphan`, `DestroyedGateLeaksNothing`, `IInv` | the protocol is safe under every interleaving, across wrap-around; the invariant of the proofs |
| `gate_refinement` | 2 threads, 2 versions, 1 slot, M = 3, fair | `ImplementsStore`, `ImplementsFairStore`, `ExchangeReturns`, `CasLoopsOnlyUnderTraffic`, `RetiredIsRecycled` | the protocol implements `VersionStore`, recycles all garbage, and its loops are lock-free |
| `gate_words` | 2 threads, 3 versions, 1 slot, M = 3, 2 arenas, 4 slot numbers | `ImplementsGate` | the arithmetic on words does what the records say |
| `cas_starvation` | as `gate_refinement` | `CompareExchangeReturns` (violated) | a `compare_exchange` can be kept in its loop by other threads forever |
| `arena` | 2 contexts, 2 arenas of 2 slots and a sentinel, any allocation may fail, fair | `AllocatorInv`, `EverySlotOnce`, `DepthIsLength`, `DroppedArenaIsUnused`, `StealFindsSlots`, `AllocReturns`, `ReturnedSlotIsFound`, `ImplementsPool`, `PushLoopsOnlyUnderTraffic` | no slot is lost or handed out twice, only unused arenas are dropped, an allocation and a thread exit end, returned slots are found again also after allocations have failed, a free is lock-free, and both make up a pool as `Gate` takes it to be; the invariant of the proofs |
| `arena_vectors` | 2 contexts, 3 arenas of 1 slot | `FailureLeavesVectorsValid` (violated) | a half-failed growth leaves a dangling pointer |
| `arena_pages` | a heap of 6 pages of 4 words | `ActiveArenaIntact` | dropping an arena's pages takes nothing from another arena |
| `arena_pages_others` | the same | `OthersIntact` (violated) | it may take the last words of the last page from somebody else |
| `registry` | 3 threads, 3 ids, calloc and setspecific may fail, fair | `CountInv`, `ContextExclusive`, `UsedIffHad`, `NoSpuriousRefusal`, `InitReturns` | contexts are exclusive, ids are not lost, nobody is refused while there is room; the invariant of the proofs |
| `programs` | 2 writers and 1 reader (the test: a writer and 3 readers), 4 versions, 5 blocks, 3 updates | `NoInvalidRead`, `NoUpdateIsLost`, `EndLeavesNoGarbage`, `EveryBlockAtHome`, `TestsPass` | the checks of the six programs and the assertions of the tests hold under every schedule; nothing replaced is left at the end |
| `programs_end` | 1 writer, 1 reader (the test: 2 readers), fair | `ProgramEnds` | each program comes to its end |
| `benchmark2` | atomsnap: 1 writer, 1 reader, 2 shards; liburcu: 2 writers, 1 reader, 2 shards, both modes; pool: 2 threads, 4 tags; statistics: 2 threads; fair | `NoMismatch`, `BlockHasOneOwner`, `PendingIsRight`, `StaleWordDiffers`, `EveryBlockOnce`, `StatsAreExact`, `BenchmarkEnds` | readers see whole objects, all memory comes back, the reports are right, the program ends |

`NothingLags`, a part of `TestsPass`, is stronger than what the test
asserts: `wraparound_test.c:259` allows for ten versions because "reclamation may
lag", and none does once the threads are joined.

**Bounds.** Three threads give a writer that detaches, a reader that releases
and a third party that acquires or replaces, which is what every race of the
protocol needs; with M one more than the number of threads both counters wrap
within a few calls and the wrapped difference still distinguishes 0 to 3
holders. `CountAssumption` (fewer activities than M) is what the code has, with
2^20 threads and 2^32 counter values, and it is necessary: with M holders a
wrapped difference of zero would not mean nobody. The runs of the protocol have
one control block; two at a time occur in `benchmark2`, and the theorems hold for
any number. In `gate_words` three versions in two arenas make handles with
equal slot and with equal arena number. In `arena`, two slots per arena are the
least for a stack with an order and for a half-returned arena, and two arenas
the least for one that is dropped and set up again, with a vector that grows
(first capacity 1, 4 in the code). `allocs` is counted modulo `N`, which is all
the code looks at. `arenas` stops at `MaxArenas`; the code's counter goes on,
without effect. In `arena_pages` an arena of 11 words touches three pages of 4
and leaves one word (3 in the code); the heap has room for two arenas, or for
one and another block that begins in that word.

`MaxUpdates`, `MaxOps`, `MaxWrites`, `MaxSeq` and `MaxAdds` bound how often the
programs go round; three updates are enough for every version and block to be
used again, and three operations for an owner of a pool to steal what others
gave back. The blocks and versions are enough that no writer waits for memory
which nobody will give back, something the programs do not meet. In the pool one
thread can sleep while the other changes the list, with enough blocks for the
same one to be on top again; the tag wraps at 4 instead of 16, and the run
reaches states in which it has been fooled. With liburcu four blocks make the
writers reuse memory that was just retired.

**Symmetry** is used where only invariants are checked: threads, versions and
slots of `Gate` are interchangeable, and so are the writers and the versions of
the programs.

**Fairness.** A thread inside a call keeps being scheduled (weak fairness of its
steps); this is all that `Arena` and `Registry` assume. The programs and backends
assume the same of all their threads, of the timer and of liburcu's own thread.
`Gate` also assumes that a client releases what it acquired, as README demands
("Acquire-Release Pairing"), even if it makes other calls in between (strong
fairness of `ReleaseVersion`). No thread of `Gate` is assumed to call anything
else. `RetiredIsRecycled` says that a replaced version is recycled, provided no
thread is stuck in `compare_exchange`, since one that is stuck cannot release.
`ProgramEnds` needs two more: a thread that looks at the clock again and again
finds its time is up (strong fairness of `Stops`), and the weak CAS of the
`shared_ptr` pool does not fail for no reason for ever (strong fairness of
`Pushes`). The locks are not taken to be fair.

## 4. Proofs

| Theorem | Module | Statement |
|---|---|---|
| `GateInvariant` | `GateProofs` | `Spec => []IInv` |
| `GateTypeCorrect` | `GateProofs` | `Spec => []TypeOK` |
| `GateNoPrematureFree` | `GateProofs` | `Spec => []HeldIsIntact` |
| `GateNoDoubleFinalize` | `GateProofs` | `Spec => []NoDoubleFinalize` |
| `GateNoOrphan` | `GateProofs` | `Spec => []NoOrphan` |
| `GateLeaksNothing` | `GateProofs` | `Spec => []DestroyedGateLeaksNothing` |
| `GateImplementsStore` | `GateProofs` | `Spec => ImplementsStore` |
| `WordsImplementGate` | `GateWordsProofs` | `Spec => ImplementsGate` |
| `RegistryInvariant` | `RuntimeProofs` | `Spec => []RegistryInv` |
| `RegistryExclusive` | `RuntimeProofs` | `Spec => []ContextExclusive` |
| `RegistryLosesNoId` | `RuntimeProofs` | `Spec => []UsedIffHad` |
| `RegistryTypeCorrect` | `RuntimeProofs` | `Spec => []TypeOK` |
| `RegistryCountInvariant` | `RuntimeProofs` | `Spec => []CountInv` |
| `RegistryRefusesNobody` | `RuntimeProofs` | `Spec => []NoSpuriousRefusal` |
| `ArenaInvariant` | `ArenaProofs` | `Spec => []Inv` |
| `ArenaTypeCorrect` | `ArenaProofs` | `Spec => []TypeOK` |
| `ArenaAllocatorInv` | `ArenaProofs` | `Spec => []AllocatorInv` |
| `ArenaEverySlotOnce` | `ArenaProofs` | `Spec => []EverySlotOnce` |
| `ArenaDepths` | `ArenaProofs` | `Spec => []DepthIsLength` |
| `ArenaDropsUnused` | `ArenaProofs` | `Spec => []DroppedArenaIsUnused` |
| `ArenaSteals` | `ArenaProofs` | `Spec => []StealFindsSlots` |
| `ArenaSelfHandles` | `ArenaProofs` | `Spec => []LiveKnowsItself` |
| `HandedOutOnce` | `ArenaProofs` | `Spec => []OutIsInUse` |
| `ArenaImplementsPool` | `ArenaProofs` | `Spec => ImplementsPool` |
| `ReclaimKeepsOtherArenas` | `RuntimeProofs` | `PagesSpec => []ActiveArenaIntact` |
| `ReadersSeeNoMismatch` | `Benchmark2Proofs` | `BenchSpec => []NoMismatch` |
| `OneOwnerPerBlock` | `Benchmark2Proofs` | `BenchSpec => []BlockHasOneOwner` |
| `ReportedPendingIsRight` | `Benchmark2Proofs` | `BenchSpec => []PendingIsRight` |
| `PoolWordIsFresh` | `SharedProofs` | `BenchSpec => []StaleWordDiffers` |
| `PoolKeepsBlocks` | `SharedProofs` | `BenchSpec => []EveryBlockOnce` |
| `StatisticsAreExact` | `SharedProofs` | `BenchSpec => []StatsAreExact` |

They hold for every value of the constants that satisfies the assumptions:
`NullAssumption` and `CountAssumption` (a finite set of threads, fewer than M)
for `Gate`, `WordsAssumption` (room for the flags and for a sentinel, distinct
places of versions) for `GateWords`, `RegistryAssumption` and
`ThreadsAssumption` (finitely many threads) for `Registry`, `SizeAssumption` (an
arena has a slot beside its sentinel, there is room for one arena) and
`NullAssumption` for `Arena`, and `PagesAssumption` (positive sizes) for
`ArenaPages`. Nothing is assumed of the number of threads of `Arena`. Benchmark 2
adds `BackendAssumption` (writers and readers are different threads, there is a
shard) and `Benchmark2Assumption`: at least one shard and one tag, a batch of at
least one, and finitely many blocks for the pool and for liburcu.

**The argument for Gate.** `HeldIsIntact` is not inductive: it does not say why
a zero counter means nobody. `IInv` adds where a version can be and what its
counters mean there.

- `OneHome`: a version is free, private to its maker, in one control block, or
  worked on by one thread; or else it waits for its readers.
- `CurrentCount`: in a control block, the outer count minus the inner count is
  the number of holders, modulo M.
- `DetachingCount`: between the swap and the detaching CAS, the same holds with
  the swapped-out count the thread carries.
- `WaitingCount`: after the detach, the inner counter is minus the number of
  holders, which is not zero.
- `ReclaimingIsUnheld`, `FreedIsGone`, `PrivateIsFresh`, `CallState`: what
  follows for a version being reclaimed, freed or not yet published.

Because there are fewer threads than M, the difference modulo M is the number
of holders itself, so a release or a detach that sees a detached zero is the
last one, and no other can see it. The proof has lemmas on the modular
arithmetic (`SubIncLeft`, `SubIncRight`, `SubFlip`, `SubZero`), lemmas on how
an acquire and a release change the number of holders, and lemmas on what a step
must leave alone to keep each conjunct, and then one lemma per action.
The refinement proof maps the claim of FINALIZED to `Reclaim` and uses `IInv`
to show that the version is garbage then; the CAS loops map to stuttering.

**The argument for the words.** The mapping decodes every word. Lemmas say what
the one addition, subtraction or bit does to the two halves: a counter that
wraps carries out of the word and not into the lower half, and a handle decodes
to the version it was made from. They need the invariant `WordsInv`, that each
word is within its width and its lower half is a handle of a version or
HANDLE_NULL, or a set of the two flags; it is inductive, and with it every step
decodes to a step of `Gate`.

**The argument for Registry.** An id is used exactly when a thread has it or it
leaked; so a CAS that finds it unused gives it to a thread that alone has it.
That nobody is refused while there is room takes counting, because the scan is
not atomic: ids come free behind a thread and are taken again. `ScanCount` says,
for every k: when some thread has an id at or beyond k or looks there, then at
least k threads or leaked ids are below k. To pass id k a thread must see it
used, so one more thread or leak is there; a thread that gives an id back only
leaves. At k = `MaxThreads` a refused thread makes the bound exceed the number of
threads and leaks.

**The argument for Arena.** Neither `EverySlotOnce` nor `DepthIsLength` says
enough about the links to survive a push. The invariant `Inv` says that there is
a way to give each slot a kind of place (not in use by an active arena, live,
being pushed, on its arena's stack, on a thread's private list), an owner if it
is in a thread's hands, and a rank if it is on a list, such that

- `ArenasOwned`: an arena has one place in the vectors of one context;
- `Placed`: kinds and owners agree with the active arenas, with what is live and
  with what threads are freeing;
- `StackLinked`, `LocalLinked`: the slots of a stack or private list form a list
  (`IsList` of `LinkedList`): the ranks count from 1 at the end, no two are equal,
  each link leads to the rank below, and the first slot's rank is the depth;
- `CallState`: what a call has read and relies on still holds: a stack that its
  owner found non-empty or full stays so, since nobody else takes from it and a
  full one has no slot left to be pushed;
- `LiveKnowsItself`.

Ranks replace recursion along the links: a step shows that the ranks can be kept
(`ListKept`), extended by one (`ListPushed`), cut by one (`ListPopped`) or given
anew (`SetupInv`), which needs no induction. That `Reach`, which follows the links
as often as there are slots, finds just the elements of a list, as many as the
first rank, is proved once in `LinkedListProofs` (`ReachOfList`, `RankIsLength`): it is
compared with a closed form at the least step where the two could differ, which
takes the place of an induction. The theorems on `Chain`,
`Homes` and the depths follow, and so does `AllocatorInv`, which is `Inv` with the
kinds, owners and ranks that TLC can compute from the state.

Two facts need the number of slots and are hypotheses of the lemmas on steps,
discharged where these are put together: a stack as deep as its arena has slots holds all of
them (`DepthCounts`, so that `madvise` drops nothing in use and a push stays
within the depth's range), and a context that can add an arena has fewer than all
(`RoomLeft`).

The refinement maps `out` to the variable of `SlotPool`, where a slot goes from 0 to
1 and back and nowhere else, so that a second hand-out of a slot in use is not a
step of the pool. That the count before a pop is 0 is the work of
`HandedOutOnce`: pops, steals and new arenas hand out a slot which `Inv` puts on
a list or in no active arena, hence not in use, and the successful push gives
back one that is in use. All other steps leave `out` alone.

**The argument for the pages.** `PagesInv` says that arenas begin at page
boundaries and allocations do not overlap. The pages dropped for an arena end at
the first boundary behind it, and an arena that has a word below that boundary
and none of the dropped arena's would have to begin within the last page.

**The argument for the atomsnap backend.** `BackendInv` is `IInv` of `Gate` and
what the backend adds to it, so that each step of the backend is first a step of
`Gate`, for which the lemmas of `GateProofs` are used as they are, and then a step
on blocks, fields and counters.

- `WriterInv`, `ReaderInv`: what a thread has where it is in its loop: the version
  a writer has made and the block it fills, the version a reader holds and the
  block it looks at, which is the object of that version.
- `LiveInv`, `OwnerInv`: the versions with a live object have a block each, no two
  the same; a block is the pool's, one writer's or one such version's. A version
  has a live object from `atomsnap_set_object` until its callback.
- `FilledInv`: the two fields of the object of such a version agree. A reader's
  version is one of them, since it is held and so has not been called back
  (`IInv`): this is why the abort is not reached.
- `CountInv`: the versions with a live object and those called back are the first
  of each shard, the ones created, and those whose writer has not counted yet.
- `OpenInv`, `StoppedInv`: all this holds while the gates are there; `stop()` keeps
  what it came to. When the threads are joined nothing is held or worked on, so
  that the live versions are those in the shards, as many as there are shards, and
  `created` is `freed`.

**The argument for liburcu.** `UrcuInv`: each block is in one of the places a block
can be in, the shards, the hands of a writer, its batch, the queue of callbacks,
the callback that runs, or the pool (`OnePlace`, with functions that say which);
what a reader has dereferenced is not in the pool nor being filled, and if it was
retired, the grace period that guards it still waits for that reader (`ReaderInv`);
fields agree in blocks that are not being filled (`ValueInv`); `pending` counts the
callbacks not run and those about to be queued. A grace period ends only when the
readers that were inside at its beginning have left, and a reader that enters
later cannot find the block in a shard any more.

**The argument for the pool.** `FreeListInv` describes the list as `Arena`'s does,
by ranks (`IsStack` of `LinkedList`), with one more difficulty: `alloc` reads
`p->next` of a block that may have been taken. What it read is right if `head_` is
still the word it loaded, and that word comes back only after `T` changes:
`CallInv` says that `head_`'s tag is the loaded one plus the number of changes
missed, modulo `T`, and that as long as none was missed the block read is the top
of the list and its `next` is what was read.

**The argument for the statistics.** `StatsInv` says that `samples` lacks exactly
the calls that have not counted, that `sum_ns` lacks the units of the calls that
have not added (two finite sets whose cardinalities differ by a sample at each
step), and that `max_ns` is at least every sample whose call has passed the loop
and is one of the samples.

**Model-checked only**: all liveness properties and the fair refinement
(temporal reasoning with fairness is beyond the proof system); and the programs of
benchmark 1 and the tests. The tests write into `inner_state` past the protocol,
so that the invariant of `Gate` does not hold in them.

Some proof modules begin with a `USE` of provers: it changes the order in which
the provers try each step, and nothing else.

## 5. Where code and documents disagree

- `arena_vectors`: `ensure_vector_capacity` (`src/atomsnap.c:431`) keeps the old
  pointers when one of its two `realloc` calls fails, although the other call
  may have freed the old block. The thread's next allocation or its exit then
  reads freed memory. It takes an out-of-memory condition at that moment.
- `cas_starvation`: `src/README.md:138` says "No starvation". That sentence
  sums up a measurement; the code guarantees less. `compare_exchange` retries
  whenever a reader's acquire changed the outer count, so that one writer may
  retry forever while others make progress.
- `arena_pages_others`: `init_arena` (`src/atomsnap.c:523`) asks `aligned_alloc`
  for 131,048 bytes, and the `madvise` at `src/atomsnap.c:332` drops 131,072.
  `src/README.md:347` counts the difference as the arena's ("Wasted: `24B` per
  arena"), but the allocator may give those bytes to somebody else, who then
  finds zeros there. Whether a particular `malloc` does is outside the
  repository. Other arenas are safe (`ReclaimKeepsOtherArenas`).

Two more, which no run is about: `src/README.md:154` says of benchmark 2's
shards that "atomsnap uses multi-slot gates", while `AtomSnapBackend::init`
makes one gate per shard, each without extra control blocks; and a comment names
`ATOMSNAP_DISABLE_FINALIZE_CHECK`, which no code tests.

## 6. Not modelled

- Memory orders. Every atomic access is taken as sequentially consistent; the
  code uses acquire/release orders in the protocol.
- What is outside the program: where a particular `malloc` puts its blocks,
  `pthread_once`, exhaustion of TLS keys, the insides of liburcu, of
  `std::shared_ptr` and of the locks.
- Clients that break README's rules: releasing before the CAS, acquiring
  without release, destroying a gate in use
  (`src/README.md:429`: "Undefined behavior if versions are still in use"), other than benchmark 2's `stop`, which destroys
  gates that still hold their last version.
- More threads in the `shared_ptr` programs than `kMaxThreads`, see `OwnerPool`.
- `atomsnap_make_version` returning NULL to the benchmark programs, which do not
  test for it: `MakeVersion` waits for a free slot there.
- `atomsnap_get_object`, which changes nothing.
- `Gate` and `Arena` in one state space. The two are tied by `ImplementsPool`
  instead, since a product of the two is far beyond what TLC can enumerate. `Gate`
  takes a free slot in `MakeVersion` and gives it back in `FreeSlot`, as
  `SlotPool` allows; in return `Arena` relies on a slot being freed only by a client
  that has it, once (`NoDoubleFinalize`). A failing allocation is a stuttering step
  of `Gate`.
- The options, clocks, CPU pinning, rate limit and output of benchmark 2: one
  thread's input and output.
- A `TaggedFreeList` whose tag has been fooled: 16 or more changes of `head_`
  between one thread's load and its CAS.

## 7. What could follow

1. Proofs about the programs of benchmark 1: `NoUpdateIsLost` for `CasClient` from
   `IInv`, `EveryBlockAtHome` for `OwnerPool` with the lemmas on `LinkedList`.
2. The acquire/release orders of the protocol, with a view of memory per thread.
