------------------------------ MODULE HostPool ------------------------------
(***************************************************************************)
(* The pinned host memory pool                                             *)
(* cucascade/memory/fixed_size_host_memory_resource.hpp.                   *)
(*                                                                         *)
(* One counter, total_allocated_, is charged by reservations and by        *)
(* allocations and bounded by mem_limit_.  It is updated by compare-and-   *)
(* swap loops without a lock; the reservation trackers and the table of    *)
(* live allocations are guarded by mutex_.  Each thread runs one call at a *)
(* time.  A step of the model is one access to an atomic, or one critical  *)
(* section up to its first access to an atomic (everything else such a     *)
(* section touches is protected by the mutex).                             *)
(***************************************************************************)
EXTENDS Integers, FiniteSets, FiniteSetsExt

CONSTANTS
  Threads,      \* threads calling into the pool
  Arenas,       \* addresses at which make_unique can place a reserved_arena
  Blocks,       \* names of pinned blocks: entries of live_allocs_, raw pointers
  NoThread,     \* "mutex_ is free"
  NoArena,      \* the null reservation
  Requests,     \* byte counts asked of reserve and allocate_multiple_blocks
  RawRequests,  \* byte counts asked of the unmanaged allocate
  GrowBy,       \* byte counts passed to reservation::grow_by
  MemLimit,     \* mem_limit_; 0 stands for "unlimited", as in the code
  BlockSize,    \* block_size_
  SizeMax       \* SIZE_MAX; int64_t ranges over -(SizeMax+1)/2 .. SizeMax \div 2

ASSUME PoolAssumption ==
  /\ IsFiniteSet(Threads) /\ IsFiniteSet(Arenas) /\ IsFiniteSet(Blocks)
  /\ NoThread \notin Threads
  /\ NoArena \notin Arenas
  /\ SizeMax \in Nat
  /\ MemLimit \in 0 .. SizeMax
  /\ BlockSize \in 1 .. SizeMax
  /\ Requests \subseteq 0 .. SizeMax
  /\ RawRequests \subseteq 0 .. SizeMax
  /\ GrowBy \subseteq 0 .. SizeMax

VARIABLES
  total,        \* total_allocated_
  peak,         \* peak_allocated_
  mutex,        \* holder of mutex_
  active,       \* keys of active_reservations_
  used,         \* allocation_tracker::allocated_bytes of each arena address
  size,         \* reserved_arena_bytes::bytes_ of each arena address
  handles,      \* arenas whose reservation handle the callers still own
  liveAllocs,   \* keys of live_allocs_
  rawBlocks,    \* blocks handed out by the unmanaged allocate
  bytes,        \* bytes of each block
  owner,        \* multiple_blocks_allocation::arena_ of each block
  pinned,       \* bytes page-locked by HIP: hipMallocHost minus hipFreeHost
  pc,           \* where each thread is
  call          \* the arguments and locals of each thread's call

counters == <<total, peak>>
registry == <<active, used, size, handles>>
blocks   == <<liveAllocs, rawBlocks, bytes, owner, pinned>>
vars     == <<counters, mutex, registry, blocks, pc, call>>

-----------------------------------------------------------------------------
(* Conversions *)

\* align_up: the next multiple of the block size, saturating at SIZE_MAX.
AlignUp(n) ==
  IF n > SizeMax - (BlockSize - 1)
    THEN SizeMax
    ELSE ((n + BlockSize - 1) \div BlockSize) * BlockSize

\* The bytes of an allocation: whole blocks, which a saturated size is not.
WholeBlocks(n) == (AlignUp(n) \div BlockSize) * BlockSize

\* static_cast<int64_t> of a size_t.
Signed(n) == IF n > SizeMax \div 2 THEN n - (SizeMax + 1) ELSE n

\* reserved_arena_bytes::grow_by saturates.
GrownSize(s, n) == IF n > SizeMax - s THEN SizeMax ELSE s + n

\* Mutation: nothing recognises an allocation that fits in its reservation.
OverflowChargeUnclamped(pre, n, reserved) == pre + Signed(n) - reserved

\* Bytes of an allocation of n that the reservation does not already cover,
\* its tracker showing pre before the allocation.
OverflowCharge(pre, n, reserved) ==
  LET post == pre + Signed(n) IN
  CASE post <= reserved -> 0
    [] post > reserved /\ pre < reserved -> post - reserved
    [] OTHER -> n

\* Mutation: a deallocation credits its bytes whoever had paid for them.
OverflowCreditFull(pre, n, reserved) == n

\* What a deallocation of n credits, its tracker showing pre before it.
OverflowCredit(pre, n, reserved) ==
  CASE pre <= reserved -> 0
    [] pre > reserved /\ pre - Signed(n) < reserved -> pre - reserved
    [] OTHER -> n

\* Mutation: a release credits the reservation, consumed or not.
UnconsumedWhole(reserved, tracked) == IF reserved > 0 THEN reserved ELSE 0

\* The part of a reservation its allocations did not consume.
Unconsumed(reserved, tracked) ==
  LET current == IF tracked > 0 THEN tracked ELSE 0
  IN  IF reserved > current THEN reserved - current ELSE 0

-----------------------------------------------------------------------------
(* Calls *)

Ops == {"none", "reserve", "allocate", "allocateRaw",
        "deallocate", "deallocateRaw", "release"}

\* A call of op on n bytes that charges or credits c; seen and now are the
\* values its loops last read.
Call(op, n, c, a) ==
  [op |-> op, bytes |-> n, charge |-> c, arena |-> a, seen |-> 0, now |-> 0]

NoCall == Call("none", 0, 0, NoArena)

\* The call once the locals of a loop have gone out of scope.
LoopDone(c) == Call(c.op, c.bytes, c.charge, c.arena)

Goto(t, label) == pc' = [pc EXCEPT ![t] = label]
Enter(t, c)    == call' = [call EXCEPT ![t] = c]
Return(t)      == Goto(t, "idle") /\ Enter(t, NoCall)
UnlockForgotten(t) == mutex' = mutex          \* mutation
Unlock(t)      == mutex' = IF mutex = t THEN NoThread ELSE mutex

\* Where do_reserve returns to, and where it starts: charging 0 is a no-op.
Granted(op)      == IF op = "reserve" THEN "register" ELSE "malloc"
ChargeFrom(op, c) == IF c = 0 THEN Granted(op) ELSE "chargeLoad"

Init ==
  /\ total = 0 /\ peak = 0
  /\ mutex = NoThread
  /\ active = {} /\ handles = {}
  /\ used = [a \in Arenas |-> 0]
  /\ size = [a \in Arenas |-> 0]
  /\ liveAllocs = {} /\ rawBlocks = {}
  /\ bytes = [b \in Blocks |-> 0]
  /\ owner = [b \in Blocks |-> NoArena]
  /\ pinned = 0
  /\ pc = [t \in Threads |-> "idle"]
  /\ call = [t \in Threads |-> NoCall]

-----------------------------------------------------------------------------
(* do_reserve: charge call[t].charge to the counter, then update the peak. *)

ChargeLoad(t) ==
  /\ pc[t] = "chargeLoad"
  /\ MemLimit # 0
  /\ call[t].charge <= MemLimit
  /\ Enter(t, [call[t] EXCEPT !.seen = total])
  /\ Goto(t, "chargeCas")
  /\ UNCHANGED <<counters, mutex, registry, blocks>>

\* Mutation: the check of a loaded counter, then a fetch_add.
ChargeWithoutCompare(t) ==
  /\ pc[t] = "chargeCas"
  /\ call[t].seen <= MemLimit - call[t].charge
  /\ total' = total + call[t].charge
  /\ Goto(t, "peakNow")
  /\ Enter(t, LoopDone(call[t]))
  /\ UNCHANGED <<peak, mutex, registry, blocks>>

\* The compare-and-swap finds the counter as it was read.
Charge(t) ==
  /\ pc[t] = "chargeCas"
  /\ call[t].seen <= MemLimit - call[t].charge
  /\ call[t].seen = total
  /\ total' = total + call[t].charge
  /\ Goto(t, "peakNow")
  /\ Enter(t, LoopDone(call[t]))
  /\ UNCHANGED <<peak, mutex, registry, blocks>>

\* The compare-and-swap of either loop fails and reloads the counter.
CasRetry(t) ==
  /\ \/ pc[t] = "chargeCas" /\ call[t].seen <= MemLimit - call[t].charge
     \/ pc[t] = "creditCas"
  /\ call[t].seen # total
  /\ Enter(t, [call[t] EXCEPT !.seen = total])
  /\ UNCHANGED <<counters, mutex, registry, blocks, pc>>

\* Unlimited mode: a plain fetch_add.
ChargeUnlimited(t) ==
  /\ pc[t] = "chargeLoad"
  /\ MemLimit = 0
  /\ total' = (total + call[t].charge) % (SizeMax + 1)
  /\ Goto(t, "peakNow")
  /\ UNCHANGED <<peak, mutex, registry, blocks, call>>

RollBackForgotten(t) == used' = used            \* mutation

\* An allocation that fails takes its bytes off the reservation's tracker.
RollBackTracker(t) ==
  used' = IF call[t].op = "allocate" /\ call[t].arena # NoArena
            THEN [used EXCEPT ![call[t].arena] = @ - Signed(call[t].bytes)]
            ELSE used

\* The charge does not fit: reserve returns null, the allocations throw.
ChargeRefused(t) ==
  /\ MemLimit # 0
  /\ \/ pc[t] = "chargeLoad" /\ call[t].charge > MemLimit
     \/ pc[t] = "chargeCas" /\ call[t].seen > MemLimit - call[t].charge
  /\ RollBackTracker(t)
  /\ Unlock(t)
  /\ Return(t)
  /\ UNCHANGED <<counters, active, size, handles, blocks>>

PeakLoadNow(t) ==
  /\ pc[t] = "peakNow"
  /\ Enter(t, [call[t] EXCEPT !.now = total])
  /\ Goto(t, "peakOld")
  /\ UNCHANGED <<counters, mutex, registry, blocks>>

PeakLoadOld(t) ==
  /\ pc[t] = "peakOld"
  /\ Enter(t, [call[t] EXCEPT !.seen = peak])
  /\ Goto(t, "peakCas")
  /\ UNCHANGED <<counters, mutex, registry, blocks>>

\* Mutation: the peak is stored without comparing it again.
PeakStore(t) ==
  /\ pc[t] = "peakCas"
  /\ peak' = IF call[t].now > call[t].seen THEN call[t].now ELSE peak
  /\ Enter(t, LoopDone(call[t]))
  /\ Goto(t, Granted(call[t].op))
  /\ UNCHANGED <<total, mutex, registry, blocks>>

\* Nothing to raise, or the compare-and-swap raises the peak.
PeakRaise(t) ==
  /\ pc[t] = "peakCas"
  /\ \/ call[t].now <= call[t].seen /\ UNCHANGED peak
     \/ call[t].now > call[t].seen /\ call[t].seen = peak /\ peak' = call[t].now
  /\ Enter(t, LoopDone(call[t]))
  /\ Goto(t, Granted(call[t].op))
  /\ UNCHANGED <<total, mutex, registry, blocks>>

PeakRetry(t) ==
  /\ pc[t] = "peakCas"
  /\ call[t].now > call[t].seen /\ call[t].seen # peak
  /\ Enter(t, [call[t] EXCEPT !.seen = peak])
  /\ UNCHANGED <<counters, mutex, registry, blocks, pc>>

-----------------------------------------------------------------------------
(* do_release: credit call[t].charge to the counter, clamped at 0.  It is  *)
(* the last thing its callers do, except that a failed allocation still    *)
(* rolls back its tracker, and that leaving the scope drops the mutex.     *)

CreditLoad(t) ==
  /\ pc[t] = "creditLoad"
  /\ Enter(t, [call[t] EXCEPT !.seen = total])
  /\ Goto(t, "creditCas")
  /\ UNCHANGED <<counters, mutex, registry, blocks>>

\* Mutation: the difference is stored over whatever the counter holds by now.
CreditStore(t) ==
  /\ pc[t] = "creditCas"
  /\ total' = IF call[t].seen >= call[t].charge
                THEN call[t].seen - call[t].charge ELSE 0
  /\ RollBackTracker(t)
  /\ Unlock(t)
  /\ Return(t)
  /\ UNCHANGED <<peak, active, size, handles, blocks>>

Credit(t) ==
  /\ pc[t] = "creditCas"
  /\ call[t].seen = total
  /\ total' = IF total >= call[t].charge THEN total - call[t].charge ELSE 0
  /\ RollBackTracker(t)
  /\ Unlock(t)
  /\ Return(t)
  /\ UNCHANGED <<peak, active, size, handles, blocks>>

-----------------------------------------------------------------------------
(* reserve, reservation::grow_by and ~reservation *)

\* Bound: a reservation is only asked for while an address is left for it.
AddressLeft ==
  Cardinality(handles)
    + Cardinality({t \in Threads : call[t].op \in {"reserve", "release"}})
      < Cardinality(Arenas)

Reserve(t, n) ==
  LET need == AlignUp(n) IN
  /\ pc[t] = "idle"
  /\ AddressLeft
  /\ MemLimit = 0 \/ need <= MemLimit        \* otherwise reserve throws
  /\ Enter(t, Call("reserve", need, need, NoArena))
  /\ Goto(t, ChargeFrom("reserve", need))
  /\ UNCHANGED <<counters, mutex, registry, blocks>>

\* An address is free once the reservation that held it has been destroyed.
FreeAddress(a) ==
  /\ a \notin handles
  /\ \A t \in Threads : ~(call[t].op = "release" /\ call[t].arena = a)

Register(t, a) ==
  /\ pc[t] = "register"
  /\ mutex = NoThread
  /\ FreeAddress(a)
  /\ active' = active \cup {a}
  /\ used' = [used EXCEPT ![a] = 0]
  /\ size' = [size EXCEPT ![a] = call[t].bytes]
  /\ handles' = handles \cup {a}
  /\ Return(t)
  /\ UNCHANGED <<counters, mutex, blocks>>

Grow(t, a, n) ==
  /\ pc[t] = "idle"
  /\ a \in handles
  /\ size' = [size EXCEPT ![a] = GrownSize(@, n)]
  /\ UNCHANGED <<counters, mutex, active, used, handles, blocks, pc, call>>

\* ~reservation runs the release callback, which asks for the mutex.
Release(t, a) ==
  /\ pc[t] = "idle"
  /\ a \in handles
  /\ handles' = handles \ {a}
  /\ Enter(t, Call("release", 0, 0, a))
  /\ Goto(t, "releaseLock")
  /\ UNCHANGED <<counters, mutex, active, used, size, blocks>>

\* release_reservation: drop the tracker, credit the unconsumed part.
Unregister(t) ==
  LET a == call[t].arena
      reclaimed == Unconsumed(Signed(size[a]), used[a])
  IN
  /\ pc[t] = "releaseLock"
  /\ mutex = NoThread
  /\ active' = active \ {a}
  /\ used' = [used EXCEPT ![a] = 0]
  /\ size' = [size EXCEPT ![a] = 0]
  /\ \/ reclaimed = 0 /\ Return(t) /\ UNCHANGED mutex
     \/ /\ reclaimed # 0
        /\ Enter(t, [call[t] EXCEPT !.charge = reclaimed])
        /\ Goto(t, "creditLoad")
        /\ mutex' = t
  /\ UNCHANGED <<counters, handles, blocks>>

-----------------------------------------------------------------------------
(* allocate_multiple_blocks and the unmanaged allocate *)

\* res->arena() is read before the mutex is taken.
Allocate(t, n, a) ==
  /\ pc[t] = "idle"
  /\ n # 0
  /\ Enter(t, Call("allocate", WholeBlocks(n), 0, a))
  /\ Goto(t, "allocateLock")
  /\ UNCHANGED <<counters, mutex, registry, blocks>>

\* Mutation: the lock is dropped once the tracker has been charged.
TrackAndUnlock(t) ==
  LET a == call[t].arena
      n == call[t].bytes
      charge == IF a = NoArena THEN n
                ELSE OverflowCharge(used[a], n, Signed(size[a]))
  IN
  /\ pc[t] = "allocateLock"
  /\ mutex = NoThread
  /\ a \in active \cup {NoArena}
  /\ used' = IF a = NoArena THEN used ELSE [used EXCEPT ![a] = @ + Signed(n)]
  /\ Enter(t, [call[t] EXCEPT !.charge = charge])
  /\ Goto(t, ChargeFrom("allocate", charge))
  /\ UNCHANGED <<counters, mutex, active, size, handles, blocks>>

\* Under the mutex: the tracker takes the bytes, the overflow is charged.
Track(t) ==
  LET a == call[t].arena
      n == call[t].bytes
      charge == IF a = NoArena THEN n
                ELSE OverflowCharge(used[a], n, Signed(size[a]))
  IN
  /\ pc[t] = "allocateLock"
  /\ mutex = NoThread
  /\ a \in active \cup {NoArena}
  /\ mutex' = t
  /\ used' = IF a = NoArena THEN used ELSE [used EXCEPT ![a] = @ + Signed(n)]
  /\ Enter(t, [call[t] EXCEPT !.charge = charge])
  /\ Goto(t, ChargeFrom("allocate", charge))
  /\ UNCHANGED <<counters, active, size, handles, blocks>>

\* "reservation has been freed already".
TrackRefused(t) ==
  /\ pc[t] = "allocateLock"
  /\ mutex = NoThread
  /\ call[t].arena \notin active \cup {NoArena}
  /\ Return(t)
  /\ UNCHANGED <<counters, mutex, registry, blocks>>

AllocateRaw(t, n) ==
  /\ pc[t] = "idle"
  /\ n # 0
  /\ Enter(t, Call("allocateRaw", n, n, NoArena))
  /\ Goto(t, ChargeFrom("allocateRaw", n))
  /\ UNCHANGED <<counters, mutex, registry, blocks>>

\* hipMallocHost succeeds; a managed block is entered in live_allocs_.
Malloc(t, b) ==
  /\ pc[t] = "malloc"
  /\ b \notin liveAllocs \cup rawBlocks
  /\ pinned' = pinned + call[t].bytes
  /\ bytes' = [bytes EXCEPT ![b] = call[t].bytes]
  /\ \/ /\ call[t].op = "allocate"
        /\ liveAllocs' = liveAllocs \cup {b}
        /\ owner' = [owner EXCEPT ![b] = call[t].arena]
        /\ UNCHANGED rawBlocks
     \/ /\ call[t].op = "allocateRaw"
        /\ rawBlocks' = rawBlocks \cup {b}
        /\ UNCHANGED <<liveAllocs, owner>>
  /\ Unlock(t)
  /\ Return(t)
  /\ UNCHANGED <<counters, registry>>

\* hipMallocHost fails: roll back the counter, then the tracker.
MallocFails(t) ==
  /\ pc[t] = "malloc"
  /\ \/ /\ call[t].charge = 0
        /\ RollBackTracker(t)
        /\ Unlock(t)
        /\ Return(t)
     \/ /\ call[t].charge # 0
        /\ Goto(t, "creditLoad")
        /\ UNCHANGED <<mutex, used, call>>
  /\ UNCHANGED <<counters, active, size, handles, blocks>>

-----------------------------------------------------------------------------
(* deallocate_multiple_blocks and the unmanaged deallocate *)

\* Under the mutex: the entry and its tracked bytes go, the credit is computed.
Unmap(t, b) ==
  LET a == owner[b]
      n == bytes[b]
      credit == IF a \in active
                  THEN OverflowCredit(used[a], n, Signed(size[a]))
                  ELSE n
  IN
  /\ pc[t] = "idle"
  /\ b \in liveAllocs
  /\ mutex = NoThread
  /\ liveAllocs' = liveAllocs \ {b}
  /\ bytes' = [bytes EXCEPT ![b] = 0]
  /\ owner' = [owner EXCEPT ![b] = NoArena]
  /\ used' = IF a \in active THEN [used EXCEPT ![a] = @ - Signed(n)] ELSE used
  /\ Enter(t, Call("deallocate", n, credit, NoArena))
  /\ Goto(t, "free")
  /\ UNCHANGED <<counters, mutex, active, size, handles, rawBlocks, pinned>>

\* hipFreeHost, outside the mutex.
FreeHost(t) ==
  /\ pc[t] = "free"
  /\ pinned' = pinned - call[t].bytes
  /\ \/ call[t].charge = 0 /\ Return(t)
     \/ call[t].charge # 0 /\ Goto(t, "creditLoad") /\ UNCHANGED call
  /\ UNCHANGED <<counters, mutex, registry, liveAllocs, rawBlocks, bytes, owner>>

\* The unmanaged deallocate: hipFreeHost first, the credit after it.
DeallocateRaw(t, b) ==
  /\ pc[t] = "idle"
  /\ b \in rawBlocks
  /\ rawBlocks' = rawBlocks \ {b}
  /\ bytes' = [bytes EXCEPT ![b] = 0]
  /\ pinned' = pinned - bytes[b]
  /\ Enter(t, Call("deallocateRaw", bytes[b], bytes[b], NoArena))
  /\ Goto(t, "creditLoad")
  /\ UNCHANGED <<counters, mutex, registry, liveAllocs, owner>>

-----------------------------------------------------------------------------
(* The steps a call takes once started, and the calls a thread may start. *)

Step(t) ==
  \/ ChargeLoad(t) \/ Charge(t) \/ CasRetry(t)
  \/ ChargeUnlimited(t) \/ ChargeRefused(t)
  \/ PeakLoadNow(t) \/ PeakLoadOld(t) \/ PeakRaise(t) \/ PeakRetry(t)
  \/ CreditLoad(t) \/ Credit(t)
  \/ \E a \in Arenas : Register(t, a)
  \/ Unregister(t) \/ Track(t) \/ TrackRefused(t)
  \/ \E b \in Blocks : Malloc(t, b)
  \/ MallocFails(t)
  \/ FreeHost(t)

Start(t) ==
  \/ \E n \in Requests : Reserve(t, n)
  \/ \E n \in Requests, a \in handles \cup {NoArena} : Allocate(t, n, a)
  \/ \E n \in RawRequests : AllocateRaw(t, n)
  \/ \E a \in Arenas : Release(t, a)
  \/ \E a \in Arenas, n \in GrowBy : Grow(t, a, n)
  \/ \E b \in Blocks : Unmap(t, b) \/ DeallocateRaw(t, b)

Next == \E t \in Threads : Step(t) \/ Start(t)

Spec == Init /\ [][Next]_vars

\* Every thread inside a call keeps being scheduled; none has to start one.
FairSpec == Spec /\ \A t \in Threads : WF_vars(Step(t))

-----------------------------------------------------------------------------
(* What a thread in the middle of a call stands for. *)

\* The mutex is held from Track to the end of the call.
Charging == {"chargeLoad", "chargeCas", "peakNow", "peakOld", "peakCas", "malloc"}
Crediting == {"creditLoad", "creditCas"}

\* do_reserve has charged the counter for this call and nothing holds it yet.
Charged(t) == pc[t] \in {"peakNow", "peakOld", "peakCas", "malloc", "register"}

\* Bytes of an unfinished call that the counter stands for.  Before its charge
\* an allocation stands for the bytes it took off its reservation; until it has
\* rolled its tracker back it stands for all of its bytes.
InFlight(t) ==
  LET c == call[t] IN
  CASE pc[t] \in {"chargeLoad", "chargeCas"} ->
         IF c.op = "allocate" THEN c.bytes - c.charge ELSE 0
    [] Charged(t) -> c.bytes
    [] pc[t] \in Crediting -> IF c.op = "allocate" THEN c.bytes ELSE c.charge
    [] pc[t] = "free" -> c.charge
    [] OTHER -> 0

\* What a reservation still keeps free for the allocations to come.
Unused(a) == IF size[a] > used[a] THEN size[a] - used[a] ELSE 0

Claims ==
    MapThenSumSet(Unused, active)
  + MapThenSumSet(LAMBDA b : bytes[b], liveAllocs \cup rawBlocks)
  + MapThenSumSet(InFlight, Threads)

-----------------------------------------------------------------------------
(* Properties *)

Labels == Charging \cup Crediting \cup
          {"idle", "register", "allocateLock", "releaseLock", "free"}

CallType ==
  [op : Ops, bytes : 0 .. SizeMax, charge : 0 .. SizeMax,
   arena : Arenas \cup {NoArena}, seen : 0 .. SizeMax, now : 0 .. SizeMax]

\* Type invariant: counters and sizes stay size_t values, a tracker is a
\* signed number, every table names known reservations and blocks.
TypeOK ==
  /\ total \in 0 .. SizeMax
  /\ peak \in 0 .. SizeMax
  /\ mutex \in Threads \cup {NoThread}
  /\ active \subseteq Arenas
  /\ used \in [Arenas -> Int]
  /\ size \in [Arenas -> 0 .. SizeMax]
  /\ handles \subseteq Arenas
  /\ liveAllocs \subseteq Blocks
  /\ rawBlocks \subseteq Blocks
  /\ bytes \in [Blocks -> 0 .. SizeMax]
  /\ owner \in [Blocks -> Arenas \cup {NoArena}]
  /\ pinned \in Int
  /\ pc \in [Threads -> Labels]
  /\ call \in [Threads -> CallType]

\* The compare-and-swap of do_reserve never lets the counter past mem_limit_,
\* whatever two threads charge at once (lines 193-197).
TotalWithinLimit == MemLimit # 0 => total <= MemLimit

\* Each byte is counted: the counter covers what reservations keep free, the
\* blocks handed out and the charges and credits on their way (lines 11-22).
EveryByteCounted == total >= Claims

\* While no deallocation has taken a block out of the table and not freed it
\* yet, page-locked memory is bounded by
\* the counter, and so by mem_limit_.
PinnedCoveredAtRest ==
  (\A t \in Threads : pc[t] # "free") => pinned <= total

\* While a call holds a tracker (from its fetch_add to its roll-back or the
\* registration of its block) no release destroys it (lines 240-246, 491-493).
TrackerOutlivesCall ==
  \A t \in Threads :
    call[t].op = "allocate" /\ pc[t] \in Charging \cup Crediting =>
      /\ mutex = t
      /\ call[t].arena \in active \cup {NoArena}

\* The peak is at least the counter, unless a charge that has just raised the
\* counter is still inside update_peak (lines 454-459).
PeakCoversTotal ==
  \/ total <= peak
  \/ \E t \in Threads :
       \/ pc[t] = "peakNow"
       \/ pc[t] \in {"peakOld", "peakCas"} /\ total <= call[t].now

\* do_release never needs its clamp: what is credited had been charged
\* (lines 440-441 clamp "so a bookkeeping asymmetry can never underflow").
CreditIsExact ==
  [][\A t \in Threads :
       pc[t] = "creditCas" /\ pc'[t] = "idle" => total' = total - call[t].charge]_vars

\* The counter only ever stops standing for a byte when a reservation is
\* dropped whose tracker a stale arena pointer had driven below zero.
SurplusOnlyFromStaleTracker ==
  [][(total - Claims)' # total - Claims =>
       \E a \in active : used[a] < 0 /\ a \notin active']_vars

\* The call as the atomic ledger sees it: a request is undecided until its
\* loop has read a counter it does not fit in, or has swapped it in.
LedgerKind(t) ==
  CASE pc[t] = "chargeLoad" -> "ask"
    [] pc[t] = "chargeCas" ->
         IF call[t].seen > MemLimit - call[t].charge THEN "refused" ELSE "ask"
    [] pc[t] \in Crediting -> "owe"
    [] OTHER -> "none"

LedgerRequest(t) ==
  [kind |-> LedgerKind(t),
   n |-> IF LedgerKind(t) = "none" THEN 0 ELSE call[t].charge]

Ledger ==
  INSTANCE CapacityLedger
    WITH Callers <- Threads, Limit <- MemLimit, Amounts <- 1 .. SizeMax,
         committed <- total, request <- [t \in Threads |-> LedgerRequest(t)]

\* do_reserve and do_release implement atomic admission: no request is granted
\* past the limit, none is refused unless it did not fit at some moment of the
\* call, and no credit exceeds what is committed.
ImplementsLedger == Ledger!LedgerSpec

-----------------------------------------------------------------------------
(* Liveness, under FairSpec *)

\* A call that never ends is starved by another thread that completes calls for
\* ever (a compare-and-swap or a lock lost each time); no set of calls blocks
\* itself.
StarvesOnlyBehindOthers ==
  \A t \in Threads :
    \/ []<>(pc[t] = "idle")
    \/ \E u \in Threads \ {t} : []<>(pc[u] = "idle") /\ []<>(pc[u] # "idle")
=============================================================================
