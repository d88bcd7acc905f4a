# Verification of cucascade-rocm and cuco-rocm

This directory holds TLA+ models of this repository, of its concurrent parts above
all, the TLC configurations that check them on small instances, and theorems about them
that TLAPS proves for every instance. Paths below are relative to
`src/cucascade-rocm/include/cucascade/`, or to `src/cuco-rocm/include/cuco/` for
the two hash structures.

## 1. The system

A GPU query engine (Sirius, hipDF) uses this library for memory: it asks a
**reservation manager** for a reservation, the manager asks its **memory
spaces**, the holder of a reservation allocates page-locked host memory from the
**pinned pool** or device memory through the **allocation adaptor**, on streams
lent by **stream pools**. Batches of data move between memory tiers and through
repositories. Independently, `cuco` offers hash structures that kernels fill and
probe. Everything runs in one process; nothing is persisted and no messages are
exchanged. Components meet through calls, through release callbacks that
reservations carry, and through atomics that many threads change.

| Component | State | Operations | What is hard | What makes it correct |
|---|---|---|---|---|
| Pinned pool `memory/fixed_size_host_memory_resource.hpp`, `memory_reservation.hpp` | `total_allocated_`, `peak_allocated_` (atomics, no lock); trackers and live blocks under `mutex_` | reserve, grow_by, ~reservation, allocate/deallocate_multiple_blocks, unmanaged allocate/deallocate | compare-and-swap loops against critical sections; credit computed from a tracker that has moved since the charge; roll-back; identity of a reservation is an address | never past `mem_limit_`; every byte counted; credits equal charges; no tracker dies under a call; the peak misses nothing |
| Memory spaces `memory/memory_space.hpp` | `reserved_memory_`, `max_memory_` (atomics) | make_reservation, _or_null, _upto, release_reservation, set_max_memory | three lock-free admission loops; the limit moves | never past a limit; nothing lost; a partial reservation takes what fits |
| Reservation manager `memory/memory_reservation_manager.hpp` | the spaces, `active_reservations_`, `shutdown_flag_` | request_reservation, the release callback, shutdown | check-then-act over several spaces; late callbacks | refused only when full; the count is exact, and 0 after shutdown but for callbacks that shutdown overtook |
| GPU allocation adaptor `memory/reservation_aware_resource_adaptor.hpp`, `oom_handling_policy.hpp` | per-stream charge, peak and policy, total, `host_spilled_`, under `tracker_mutex_` | allocate, deallocate, attach, reset, defragment | three critical sections per allocation; cascade of allocators; address reuse; foreign code under the lock | counters equal live bytes; the spill map is exact; nothing leaks |
| Stream pool `memory/stream_pool.hpp` | streams, free flags (under a mutex), wrappers | acquire, return, moves of `borrowed_stream` | ownership by moves; streams that cannot be created | lent once, none lost, grows on demand only |
| Static hash set `static_set.cuh` | the slots in device memory | insert and probe kernels, `set_ref` | thousands of threads, atomics against plain loads, probe sequences that cross | no duplicate, no false absence |
| Bloom filter `bloom_filter.cuh`, `bloom_filter_policies.cuh` | bit blocks in device memory | construct, add and probe kernels, destroy | atomicOr against plain loads; streams that are not ordered; sizes that overflow | no false negative; nothing outside the buffer; nothing found that was not added |
| Disk access limiter `memory/disk_access_limiter.hpp` | one atomic | try_acquire, release | two compare-and-swap loops; releases of what was never acquired | at most one too many for each stray release; never locked up |
| Data batches `data/data_batch.hpp`, `representation_converter.hpp` | lifecycle state, representation, views, registry of converters | make, transitions, views, set_data, convert, clone | unlocked transitions, views that outlive them, one object behind many pointers | no representation has two owners |
| Repositories `data/data_repository.hpp`, `data_repository_manager.hpp` | batches per operator port and partition | add, broadcast, pop, pop by id, replace, clear | removal from the middle, silent replacement, broadcast of one batch | order of arrival; a loss is reported |
| Topology and configuration `memory/topology_discovery.hpp`, `reservation_manager_configurator.hpp`, the manager's constructor | discovered GPUs, settings, configurations, spaces, two views of them | discover, build, construct, clear, lookups, strategies | HIP and drm number devices differently; files missing; indices against ids; two views of one set of spaces | each GPU its own node; the spaces asked for; lookups and requests agree; no view points to a space that is gone |
| The rest | representations, events, built-in converters, shims | | no shared state of their own | |

`PROJECT.json` lists each component with its status, and under `hazards` what
can go wrong in it, at its line, with the properties that would show it.

## 2. The plan

In order of importance; all steps but the last are done.

1. **Pinned pool** — `HostPool`, implementing the abstract `CapacityLedger`;
   proofs in `HostPoolProofs`.
2. **Memory spaces** — `MemorySpace`, implementing the same ledger. **Manager** —
   `ReservationManager` composes the spaces with the request walk, the callbacks and
   shutdown; `RequestHistory` adds what is needed to judge a refusal and
   the count after shutdown.
3. **From the machine to the spaces** — `TopologyDiscovery`, and `Deployment`, which
   composes it with the configurator and the manager's constructor. The proofs of 2
   and 3 are in `ManagerProofs`.
4. **Stream pool** — `StreamPool`; **disk limiter** — `DiskLimiter`; the proofs of
   both in `TransferProofs`.
5. **Allocation adaptor** — `GpuAdaptor`, `GpuAdaptorProofs`.
6. **Static set** — `StaticSet`, `StaticSetProofs`; **Bloom filter** — `BloomFilter`,
   `BloomFilterProofs`.
7. **Repositories and batches** — `DataRepository`, and `DataBatch`, which composes
   it with batches, views and converters; `DataBatchProofs`.
8. **Sums** over finite sets, for the conservation laws of the pool, the spaces, the
   adaptor and the repositories: `Sums`.
9. *Open*: the pinned pool as the host space of the manager, so that one
   reservation is followed from request to release.

The suite is kept to a dozen runs that finish within minutes; the small parts that share
no state with others are run together (`MCParts`).

## 3. The modules

A step of every model is one access to a shared atomic, one critical section of
a mutex (up to the first access to an atomic that others reach without it), or
one call of an external allocator; thread-local work belongs to the step it
follows. Each thread runs one call at a time, with its position in `pc` and the
locals of its call in `call`. All atomics are modelled as sequentially
consistent: each loop works on a single atomic, whose modification order is total
at any memory order, and the value a loop read is kept in `call` for as long as
the code keeps it, so that it is stale when others move on. A spurious failure of
a weak compare-and-swap changes only how often a loop goes round.

**CapacityLedger** (abstract). A caller asks for or owes an amount; a request is
granted or refused in one step, refused only at a moment when it does not fit,
and what is paid back had been committed. Refusals are decided before they are
learnt, which is the point where the loops linearize.

**HostPool.** `total`, `peak` are the atomics; `active`, `used`, `size`
`active_reservations_` with trackers and arenas, keyed by address as in the code,
so that an address can be reused; `liveAllocs`, `owner`, `bytes` the block
table; `pinned` what HIP has page-locked. `Reserve`/`Register` are the two ends
of `reserve`, `Allocate`/`Track`/`Malloc` of `allocate_multiple_blocks`,
`Unmap`/`FreeHost` of its deallocation, `Release`/`Unregister` of `~reservation`;
`Charge*`, `Peak*`, `Credit*` are `do_reserve`, `update_peak` and `do_release`,
shared by all callers. `OverflowCharge`, `OverflowCredit` and `Unconsumed` are
the three places where what a reservation covers is worked out. Sizes are words
of `SizeMax + 1` values; `Signed` is the cast to `int64_t`. `Grow` changes
`bytes_` and nothing else, as `grow_by` does.

**MemorySpace.** `reserved`, `limit` are the atomics of each space; `home`,
`bytes` the reservation handles. `Make`–`LoadReserved`–`Check`–`Admit` is the
admission loop of all three operations, which differ in `Share`, `Fits` and what
a refusal does; `Release`–`Uncharge` the release with its underflow guard.

**ReservationManager** extends it: `Request`, `ScanLoad`, `ScanHint` are the
first pass of `request_reservation` with its hint read in one step and used in
another, `SecondPass` the second, `CountUp`, `Callback`, `CountDown` the count,
`Shutdown*` the three stages of `shutdown`. `ReleaseIntoNowhere` is the release
of a handle that outlived its space. **RequestHistory** extends the manager with three
history variables: the most that each space had reserved and the smallest limit it had
since a request began, which a claim about refusals needs, and the callbacks that were
between the flag and the count when shutdown zeroed it (`overtaken`), which a claim about
the count after shutdown needs. The two extremes need not
be of one moment: a loop compares a counter it has loaded with a limit it loads later,
so a request may be refused although at each single moment the space had room for it
(the limit was lowered only after the counter had gone down). `NullMeansFirstWasFull`
claims what the code keeps.

**GpuAdaptor.** `place` is what the allocators have handed out, `spilled` is
`host_spilled_`, `held` what the application holds, and `current`, `peak`,
`total`, `policy` the books. `Allocate` is the limit check, `Upstream`/`SpillTo`/
`Exhausted` the cascade, `Charge`/`Spill` the critical section that books the
block, `Deallocate*`/`Free`/`Credit` the two paths back. A policy that retries
runs between `PolicyRuns` and `Recovered` or `GivesUp` with the mutex held. An
allocator may return any address that is free, which covers every pattern of reuse.

**StreamPool.** `streams`, `free` are the parallel vectors, `holds` the wrappers.
`Create`/`CreateFails` are the constructor's turns, `Borrow`, `Grow`, `Release`,
`Move`, `Assign` the rest.

**StaticSet.** `slots` is the table; an insert thread claims or collides, one
`atomicCAS` per step; a probe thread loads one slot per step and may get what the
slot held when its kernel was launched (plain loads are not coherent with the
atomics of a concurrent kernel). `Slot` is double hashing with wrap-around; the
64-bit hash is an arbitrary constant function of the keys.

**BloomFilter.** `bits` is the set of bits that are set, `words` the size of the
allocation, `queue` what each stream has been given. `Construct` accepts an extent
by the two overflow checks and leaves any content in memory until `ClearBits`, the
queued memset, which is one step and undoes what kernels on other streams have done by
then; `Launch` puts an addition or a probe on any stream at any time, as `add_async` and
`contains_async` do, `Begin` and `End` bound its run, `SetBit`, `BitIsSet`, `BitIsMissing` are the word accesses of its
threads; `Destroy` and `Free` are the two halves of the destructor. `HashOf` is the
arithmetic of both policies, with their widths; `Shift` is the power of two by which
`arrow_filter_policy` shifts. A thread's index is computed in 32
bits (`IndexWord`). The histories `added`, `offered` and `before` say which additions
had ended or begun when a probe began, and `ordered` which kernels began after the memset:
an addition that began before it, on a stream the constructor's does not order, may be
undone by it, and a probe that did may find what the memory held.

**DiskLimiter.** `current` is the atomic; `Start*` is the load of a loop, `Take` and
`GiveBack` its exchange, `*Retry` a lost one. A release by a user without a slot is
a step like any other; it is remembered in `stray` while it runs and counted in `strays`.

**DataRepository.** `repos` holds the partitions of each port; entries carry the
number of their arrival as a history. **DataBatch** extends it: `kind`, `state`, `data`
are the objects, `owned`, `view`, `holds` and the repositories the pointers to them, and
`Settle`, at the end of every step, destroys what nothing points to any more.
`CheckState` and `SetState` are the two halves of a transition; `Derive`, `SetData`,
`ConvertTo`, `Clone`, `CloneTo` the operations of views, `Register`, `Unregister`,
`Converts` the registry.

**TopologyDiscovery.** The machine (what HIP and sysfs show) is a value chosen at
the start; `Discover`, `ScanGpu`, `FinishDiscovery` are `discover`, GPU by GPU, with
`ReadFile` the scan of render nodes, then cards, for the first file that opens.
**Deployment** extends it: `Build` is the configurator's `build`, before or after
discovery; `MakeSpaces` (its loop is `SpacesOf`) and `FileSpace` are the two loops of the
manager's constructor, of which the second files a pointer to each space in `tiers`
(`tier_spaces_`) and `all` (`all_spaces_`), a turn at a time; `ClearAllSpaces`, `ClearTierSpaces`,
`ClearSpaces` the order in which `shutdown` empties the three containers. `GetMemorySpace`
looks in the view of a tier, `FirstAsked` is where the walk of `request_reservation` in the
view of all begins, `Preferred`, `InTiers`, `WithId`, `ToDowngrade` and `ToUpgrade` are the
spaces that the strategies match.

The `MC*` modules give constants to TLC. **MCParts** runs the stream pool, the disk limiter,
the repositories and the deployment, each by itself: `part` says which one a behaviour is
of, since no state of one is seen by another. Definitions marked *Mutation* are
plausible bugs of the definition that follows them; nothing uses them except the
check that a property can fail.

## 4. The runs

| Run | Instance | Shows |
|---|---|---|
| `pool` | 2 threads, 2 arenas, 2 blocks, limit 5, block size 2, sizes 1 and 3, unmanaged 3, fair | `EveryByteCounted`, `CreditIsExact`, `PinnedCoveredAtRest`, `TrackerOutlivesCall`; the counter keeps a byte nobody claims only after a stale arena pointer (`SurplusOnlyFromStaleTracker`); the loops implement `CapacityLedger`; a call starves only behind others |
| `pool_unlimited` | `mem_limit_` 0, words of 8 values, growing reservations | types under saturation and sign change, the peak against a plain fetch_add |
| `spaces` | 3 threads, one space of 3, requests of 0 and 2, fair | `ReservedIsHeld`, the ledger, progress |
| `manager` | 3 threads, two spaces of 2 and 1, limits lowered to 0, whole and partial requests, shutdown | `NeverPastAnyLimit`, `UptoTakesWhatFits`, `CountIsExact`, `NullMeansFirstWasFull`, `OnlyOvertakenSpoil` |
| `adaptor` | 2 threads, 2 addresses, 2 streams (one reset), policies that throw or retry | `BooksAreExact` (counters, resets, peak), `SpillMapIsExact`, `NothingLeaks`, `PolicyOutlivesItsCall` |
| `parts` | each by itself: 4 wrappers, a pool of 2 whose construction may fail; 3 users of 2 disk slots, up to 2 stray releases; 3 batches, 2 ports of 2 partitions, 4 arrivals; machines with 0, 2 and 3 GPUs on 2 boards, drm devices in both orders, hidden, with missing or unreadable files, and ids out of order and twice, counts, defaults, host and disk | `LentOnce`, `BusyIsHeld`, `GrowsOnDemandOnly`; `CountIsSlots`, `NeverLocksUp`; `ServedInOrder`, `LossIsReported`; `NumaIsItsOwn`, `LinksAreMutual`, `GpuAndHostSpacesAreTheRequested`, `LookupsAndRequestsAgree`, `NoDanglingView` |
| `static_set` | 2 inserters, 1 prober, 4 keys, 3 slots, words of 16 values | `NoDuplicates`, `AbsentWasAbsent`, `KeptOrCrowdedOut` |
| `bloom` | 2 kernels, 2 streams, launched before or after the memset, 3 keys, blocks of 2 words of 2 bits, extents 0, 2, 9, 17 with sizes up to 31 | `NoFalseNegative`, `KernelsStayInside`, `FoundIsExplained` |
| `batches` | 2 threads, 2 batches, 2 representations, 2 views, 2 ports, a converter | `OneOwner` |

Three runs end in a counterexample, each to a sentence of the comments:

* `tries_all` (`memory_reservation_manager.hpp:133-137`): the second pass is said to try
  every matching space; it returns after the first, so a request is refused although
  another space had room throughout.
* `shutdown` (`memory_reservation_manager.hpp:196-199, 212-214`): the count is said to be
  reset and late callbacks to be no-ops; a callback that read the flag before it was raised
  subtracts after the reset, and the count is `SIZE_MAX`. `OnlyOvertakenSpoil` is what
  holds: nothing but such callbacks spoils the zero, each by one.
* `exclusive` (`data_batch.hpp:84`): a mutable view is said to hold exclusive access;
  `to_mutable` looks at the state of the batch, which `readonly_to_mutable` leaves alone, so
  that two mutable views share a representation even within one thread.

Section 6 lists other sentences the code does not keep.

**Bounds.** `AddressLeft` and `HandleLeft` stop a call from starting when the names
of reservations are used up, in flight included; names are reused, so the runs
go round for ever and reach every pattern of reuse that so many names allow. Two
arenas and two blocks are what reuse, mixing and mis-attribution of memory need;
limit 5 with whole blocks of 2 makes one reservation of 4 fit, two not, and a
managed 2 beside it not either, with an odd remainder. An unmanaged 3 shows a size
that is no whole number of blocks. Two threads are enough for a lost update, three in
`spaces` and `manager` for a third to slip between a failed exchange and its
retry. `ShutdownFlag` happens once, when no request is under way: the class does
not lock its vectors against that, so it is the caller's duty. Deadlock is
checked in all runs except those with a shutdown of the manager, which may rightly stop;
in `parts` the deployment may stop when it is down. Three slots are the fewest in which the probe sequences of four keys
cross, wrap around the word and, with a stride that is a multiple of the capacity,
stand still. In `bloom` an extent of 9 passes the first overflow check and fails the
second, 17 fails both; three hash functions with room for two exercise the cap, and
ranges longer than `IndexWord` the keys without a thread. `MaxArrivals` bounds how many
batches arrive between two clears, `Spare` how many representations callers hold
outside batches. Two batches, representations and views are what sharing between two
of them needs. `MaxStrays` bounds the stray releases of a run: two let every slot be
given back without an owner. Symmetry is used for interchangeable names, never in runs with liveness.

**Fairness.** `FairSpec` and `FairSpaceSpec` assume weak fairness of `Step(t)` for
each thread: a thread inside a call is scheduled by the operating system as long
as it can move. Starting a call is not assumed fair. Neither mutexes nor
compare-and-swap loops are fair in the code, so the properties claim no more than
this: a call that does not end is starved by another thread that keeps completing
calls.

## 5. The theorems

All hold for any number of threads, arenas, blocks, spaces, handles, wrappers, users,
streams, addresses, slots, kernels, batches, representations and ports, for any limits,
hash functions, machines and settings, and for any word widths. Assumptions are those
named at the constants, finiteness of the sets of names among them, and the three named
below (`Accountable`, `Steady`, `CountIsWideEnough`). Every invariant and every action
property of the passing runs is proved.

*Sums.* The models state conservation laws with the folds of the community modules.
`Sums` proves what such a sum does when one summand changes, an element comes or goes,
or two functions agree. Induction over a finite set is done by hand, with the least
subset that fails, because strict inclusion is well founded; `UnfoldedExists` and
`UnfoldedAgree` show that the recursion of the fold has exactly one solution.

*Pinned pool.* `TypeCorrect` needs `TypeInv`, which ties the label of a thread to
the kind of its call. `NeverPastLimit` follows from the exchange alone.
`TrackersOutliveCalls` is `MutexInv`: exactly the labels inside the critical
section hold the mutex, with a tracker that is registered. `PeakIsNeverBehind`
is `PeakInv`, which follows a charge through `update_peak`. `LedgerInvariance`
is the conservation law, `total_allocated_` at least the claims of reservations,
blocks and calls: `LedgerInv` states the sum over function-valued partial sums,
because an action changes two or three summands, and `AccountInv` carries what a call
has worked out but not yet applied. `EachByteIsCounted` turns it into the sums of the
model; `CreditsAreExact` and `PinnedIsCoveredAtRest` follow from it, and
`SurplusIsExplained` compares both sides of each step. They assume `Accountable`:
reservations are not grown (`grow_by` charges nothing, so the law is false with it), a
limit is set and is at most `SizeMax \div 2`, and so is every request rounded to whole
blocks, so that sizes survive the casts to `int64_t` (the refused and rolled-back ones
too). `AdmissionIsAtomic` is the refinement of `CapacityLedger`: initial states map
to initial states and each action to one ledger step or none; it needs `PositiveInv`
(no loop runs for 0 bytes) and, for payments, the conservation law.

*Memory space.* `NeverPastLimits` from `LimitInv`, which remembers that a thread about
to exchange has checked against a limit the space was given. `ReservedIsAlwaysHeld` from
`FlowInv`: the exact sum, and that a release never loads less than it will subtract, so
that the underflow guard never bites. `UptoNeverTakesLess` from `UptoInv`: what is about
to be charged is all that was asked, or fills the space to one of its limits.
`AdmissionsAreAtomic` is the refinement of the ledger by every space at once; it assumes
`Steady`, since a ledger has one limit and knows no partial request, and needs `AskInv`
(amounts are those of requests) and `SeenInv` (what the ledger sees of a call, by its place).

*Manager.* `ManagerInv` adds to the types of the spaces that a request has a first match
and that its second pass asks that space for what was requested.
`ManagerKeepsLimits`, `ManagerUptoTakesAll` and
`ReservedWhileStanding` carry the results about spaces over to the manager, the last one
until shutdown destroys the spaces, because a later release subtracts from nothing.
`ActiveIsCounted` counts the handles and the threads on their way with finite sets; it
assumes `CountIsWideEnough`, so that the word does not wrap before shutdown.
`OnlyOvertakenCallbacksSpoil` is `OvertakenInv`, on top of that count: a callback that is
past the flag once it is raised was past it when the count was zeroed, and the count after
that is minus the number of those that have subtracted. `NullAnswersAreDue` is
`HistoryInv`: the extremes enclose the present and what a loop has loaded, and a call
that was refused has seen them too tight. `HistoryOnlyWatches` says that the histories change
nothing.

*Deployment.* `NodesAreOwn`, `LinksAgree`, `SpacesAreAsAsked`, `LookupsMatchRequests` and
`ViewsNeverDangle` from `DeploymentInv`: the descriptions are those of the first GPUs,
configurations are what `build` made of some discovery, spaces what the constructor made of
them, and each view lists, in rising order, the pointers filed so far, or nothing once it is
cleared; the spaces outlive both views. They
assume that sysfs shows in a device's directory what belongs to the board behind it
(`Genuine`); that the right directory is read is what is proved. The constructor's loop
is a recursive function; `ConstructionExists` and `Countdown` do its induction.

*Stream pool.* `LendingInv` joins types, `LentOnce` and `BusyIsHeld`, none of
which is inductive alone. `GrowthBounded` adds a pigeonhole argument: when no stream is free the
wrappers' indices are an injection.

*Disk limiter.* `CountIsSlotsAlways` is inductive with types and with what a release under
way has still to give back: a stray release takes away a count that stands for somebody's
slot, so that one user too many is let in, and `strays` bounds how many. `NeverLocksUpAlways` is
not: a release that loaded zero will give nothing back although its caller may have
had a slot. `Covered` strengthens it: the count is at most the users that have a slot
or are leaving one, those whose release loaded zero left out.

*Adaptor.* `AdaptorInv`: an address is free, held by the application, or carried by
exactly one call that knows its tier (`CarriedOK`, `CarriedOnce`), the spill map follows
the held blocks (`HeldOK`), and a policy runs under the lock (`CallsOK`). From it
`SpillMapAlwaysExact`, `NothingEverLeaks` and `PoliciesOutliveTheirCalls`. An address
between its free and the credit belongs to no call, which is why it may be handed out
again there and the map is still right. `BooksAlwaysBalance` sums over blocks and
crediting calls.

*Static set.* `SetInv`: the table and every table a probe was launched on are
*chained* (a key lies behind slots taken by other keys), what an inserter passed is
taken by others, and launched tables are pasts of the table. From it `KeysAreUnique`,
`AbsenceIsReal` and `InsertionsLast`, for every hash function and capacity.

*Bloom filter.* `BloomInv` has four parts: the memset stands only
at the head of the constructor's stream (`QueueInv`), threads stay within their keys and
hashes (`ShapeInv`), the bits that are set once the memset is through are those of keys
offered, with all bits of keys whose addition began after it and ended (`BitsInv`), and the
snapshot and threads of a running kernel that began after it agree with that (`RunInv`). `AddedIsFound` and `FindsAreExplained` follow.
`AccessesStayInside` adds `SizeInv`: what the two overflow checks accept fits the
buffer, and `BitInside` that no hash of either policy leads out of it.

*Batches and repositories.* `OwnersStayApart` from `OwnerInv`: ownership is exclusive and
what is referred to is alive; `Settle` at the end of each step is what has to be followed.
`ArrivalOrderIsKept` from `OrderInv`: arrivals in a partition rise from the
last one served, and partitions share none. `LossesAreReported` counts: the entries of a
port are as many as the lengths of its partitions add up to. `BatchesUseRepositories` is
the refinement: each step of the whole is a step of the repositories or leaves them alone.

Only model-checked: `StarvesOnlyBehindOthers` and `LoopsStarveOnlyBehindOthers`, because
TLAPS has no rule for fairness and `ENABLED` here; and the three counterexamples.

## 6. Differences noted but not run

* `grow_by` enlarges a reservation without charging it: reported reserved bytes
  can exceed the counter (`fixed_size_host_memory_resource.hpp:162-164, 512`).
* With `mem_limit_` 0 `get_available_memory()` is 0 and `reserve` admits all (`:143, 432`).
* A reservation that outlives `shutdown` calls into a destroyed space before the
  flag is looked at (`memory_space.hpp:131`).
* A stream that cannot be created shifts the parity that decides priorities
  (`stream_pool.hpp:92, 159`); policy BLOCK does not block.
* `reset_stream_reservation` keeps the attached reservation, and the retry of a
  policy ignores the alignment (`reservation_aware_resource_adaptor.hpp:81, 305`).
* A release of a disk slot never taken gives back somebody else's, and one user too many
  is let in; the comment (`disk_access_limiter.hpp:31-35`) promises only that nobody is
  locked out, which `NeverLocksUp` shows.
* `static_set` drops a key when its odd stride shares a factor with the capacity,
  though other slots are free (`static_set.cuh:41-42`), and when the table is full.
* Keying trackers by arena address is said to be safe
  (`fixed_size_host_memory_resource.hpp:496-498`); a block that outlives its reservation
  debits the next reservation at that address, whose release then credits too little,
  for ever. `SurplusOnlyFromStaleTracker` says that nothing else loses bytes.
* The counter is said to be the committed bytes bounded by `mem_limit_` (`:11-12`); the
  bytes return to the reservation before `hipFreeHost`, so page-locked memory may exceed
  the limit for a while. `PinnedCoveredAtRest` is what holds.
* The adaptor's limit is said to be respected
  (`reservation_aware_resource_adaptor.hpp:67-69`); the check and the charge are two
  critical sections, so two allocations of a stream may both pass. A policy that calls
  `defragment()` of the adaptor, which the comment at `:84-85` suggests, locks
  `tracker_mutex_` twice.
* Beside what `exclusive` shows: `to_mutable` succeeds while read-only views are held, two
  threads may both find a batch idle and open it, `set_data` changes the view and not the
  batch, `to_idle` changes nothing, and so the second consumer of a broadcast batch is
  refused `to_read_only` (`data_batch.hpp:104, 156-187`).
* `add_new_repository` replaces a repository with what is in it, unreported, and a batch
  whose ports do not exist is destroyed (`data_repository_manager.hpp:44-57`).
* The manager is said to work across the tiers GPU, host and disk
  (`memory_reservation_manager.hpp:75`); its constructor has no branch for a disk (`:81-96`),
  so that a configured one gets no space. `GpuAndHostSpacesAreTheRequested` speaks of the
  other two tiers only.
* The manager's constructor applies no capacity: `max_memory_` is 0 until
  `set_max_memory`. `any_memory_space_in_tier_with_preference`
  requires the device it prefers. The const `get_memory_space` throws for a tier without
  spaces, where the other answers null (`memory_reservation_manager.hpp:35-118`). `build` before `discover` yields no GPU.
* A Bloom filter call with more than 2^32 keys leaves the ones beyond without a
  thread (`bloom_filter.cuh:38`). Nothing orders a call on another stream after the memset
  of the constructor (`:144, 174-203`): keys added before it may be lost and a probe before
  it may find anything, which is the caller's to prevent; the properties speak of kernels
  that begin after it.

## 7. Not modelled

Destruction of pools, spaces, adaptor and set; failure of the host heap (a throw after a
charge in `memory_space.hpp:129` would leave the bytes reserved); memory orders
weaker than sequential consistency, for the reason in section 3; contents of blocks and
alignment; `defragment` (reads a size and trims an external pool); the constructor's
kernel of the set, which the caller must order before its insertions
(`static_set.cuh:209`); sums over several spaces, which promise nothing; subscriber counts
and probes of batches, which nothing reads; settings of the configurator that nothing
reads. The representations in `cudf/`, the built-in converters and `cuda/event.hpp` are
copies done by HIP and cudf; their headers are left out of the compile test and do not
compile as they stand (`space()` is undefined, a protected constructor is used through
`make_unique`). The shims redirect names and have no behaviour of their own.

## 8. Running

    tlc -workers 2 -config MCHostPool_pool.cfg MCHostPool
    tlapm HostPoolProofs.tla

The largest proof module takes about five minutes.

`PROJECT.json` names the module and the configuration of every run, the lines each
definition stands for, and a mutation for every property that the run detects.
