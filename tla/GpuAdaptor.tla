------------------------------ MODULE GpuAdaptor ------------------------------
(***************************************************************************)
(* The GPU allocation adaptor                                              *)
(* cucascade/memory/reservation_aware_resource_adaptor.hpp: allocate with  *)
(* its per-stream limit, the spill cascade device - managed - pinned host, *)
(* the out-of-memory policy that runs under the lock, deallocate, attach   *)
(* and reset.                                                              *)
(*                                                                         *)
(* All counters and both maps are touched under tracker_mutex_ only, so a  *)
(* critical section is one step, except the one a policy runs in: the      *)
(* thread keeps the mutex while the policy tries the upstream again.       *)
(***************************************************************************)
EXTENDS Integers, FiniteSets, FiniteSetsExt

CONSTANTS
  Threads,
  Streams,
  Addresses,    \* what the allocators below can return
  Nobody,
  NoStream,
  NoAddress,
  Limit,        \* reservation_limit_; 0: no limit
  Sizes,        \* byte counts asked for
  Policies,     \* out-of-memory policies attached: "none", "throws", "retries"
  Resettable    \* streams reset_stream_reservation is called on

ASSUME AdaptorAssumption ==
  /\ IsFiniteSet(Threads) /\ IsFiniteSet(Streams) /\ IsFiniteSet(Addresses)
  /\ Nobody \notin Threads
  /\ NoStream \notin Streams
  /\ NoAddress \notin Addresses
  /\ Limit \in Nat
  /\ Sizes \subseteq Nat
  /\ Policies \subseteq {"none", "throws", "retries"}
  /\ Resettable \subseteq Streams

VARIABLES
  place,      \* what the allocators have allocated at each address
  spilled,    \* host_spilled_: the tier recorded for a spilled address
  held,       \* the blocks the application holds
  current,    \* current_bytes of each stream
  peak,       \* peak_bytes of each stream
  total,      \* total_allocated_
  policy,     \* oom_policy of each stream
  mutex,      \* who is inside tracker_mutex_ across steps
  pc,
  call        \* arguments and locals of each thread's call

counters == <<current, peak, total>>
blocks   == <<place, spilled, held>>
vars     == <<blocks, counters, policy, mutex, pc, call>>

NoBlock == [stream |-> NoStream, bytes |-> 0]
NoCall  == [stream |-> NoStream, bytes |-> 0, ptr |-> NoAddress, tier |-> "none"]

Goto(t, label) == pc' = [pc EXCEPT ![t] = label]
Return(t) == Goto(t, "idle") /\ call' = [call EXCEPT ![t] = NoCall]

Init ==
  /\ place = [a \in Addresses |-> "none"]
  /\ spilled = [a \in Addresses |-> "none"]
  /\ held = [a \in Addresses |-> NoBlock]
  /\ current = [s \in Streams |-> 0]
  /\ peak = [s \in Streams |-> 0]
  /\ total = 0
  /\ policy = [s \in Streams |-> "none"]
  /\ mutex = Nobody
  /\ pc = [t \in Threads |-> "idle"]
  /\ call = [t \in Threads |-> NoCall]

-----------------------------------------------------------------------------
(* allocate: the limit, then one allocator after the other                 *)

OverLimit(s, n) == Limit # 0 /\ (n > Limit \/ current[s] > Limit - n)

\* The charge of the stream is read under the lock and compared outside it.
Allocate(t, s, n) ==
  /\ pc[t] = "idle"
  /\ mutex = Nobody
  /\ call' = [call EXCEPT ![t] = [NoCall EXCEPT !.stream = s, !.bytes = n]]
  /\ Goto(t, IF OverLimit(s, n) THEN "policy" ELSE "upstream")
  /\ UNCHANGED <<blocks, counters, policy, mutex>>

\* An allocator gives the call an address.
Obtain(t, tier) ==
  \E a \in Addresses :
    /\ place[a] = "none"
    /\ place' = [place EXCEPT ![a] = tier]
    /\ call' = [call EXCEPT ![t].ptr = a, ![t].tier = tier]

Upstream(t) ==
  /\ pc[t] = "upstream"
  /\ Obtain(t, "device")
  /\ Goto(t, "charge")
  /\ UNCHANGED <<spilled, held, counters, policy, mutex>>

\* hipMallocManaged, then hipMallocHost.
SpillTo(t, from, tier) ==
  /\ pc[t] = from
  /\ Obtain(t, tier)
  /\ Goto(t, "spill")
  /\ UNCHANGED <<spilled, held, counters, policy, mutex>>

\* An allocator has nothing left and the cascade goes on.
Exhausted(t, from, next) ==
  /\ pc[t] = from
  /\ Goto(t, next)
  /\ UNCHANGED <<blocks, counters, policy, mutex, call>>

-----------------------------------------------------------------------------
(* The out-of-memory policy, for a limit exceeded and for a full cascade   *)

\* No policy, or one that rethrows.
PolicyThrows(t) ==
  /\ pc[t] = "policy"
  /\ mutex = Nobody
  /\ policy[call[t].stream] # "retries"
  /\ Return(t)
  /\ UNCHANGED <<blocks, counters, policy, mutex>>

\* Mutation: the policy is called outside the lock.
PolicyRunsUnlocked(t) ==
  /\ pc[t] = "policy"
  /\ mutex = Nobody
  /\ policy[call[t].stream] = "retries"
  /\ Goto(t, "retry")
  /\ UNCHANGED <<blocks, counters, policy, mutex, call>>

PolicyRuns(t) ==
  /\ pc[t] = "policy"
  /\ mutex = Nobody
  /\ policy[call[t].stream] = "retries"
  /\ mutex' = t
  /\ Goto(t, "retry")
  /\ UNCHANGED <<blocks, counters, policy, call>>

\* The policy's retry gets a block of the upstream.
Recovered(t) ==
  /\ pc[t] = "retry"
  /\ Obtain(t, "device")
  /\ mutex' = Nobody
  /\ Goto(t, "charge")
  /\ UNCHANGED <<spilled, held, counters, policy>>

\* The retry throws or the policy returns null; allocate throws.
GivesUp(t) ==
  /\ pc[t] = "retry"
  /\ mutex' = Nobody
  /\ Return(t)
  /\ UNCHANGED <<blocks, counters, policy>>

-----------------------------------------------------------------------------
(* Charging                                                                *)

Charged(s, n) ==
  /\ current' = [current EXCEPT ![s] = @ + n]
  /\ peak' = [peak EXCEPT ![s] = Max({@, current[s] + n})]
  /\ total' = total + n

Delivered(t) ==
  held' = [held EXCEPT ![call[t].ptr] =
             [stream |-> call[t].stream, bytes |-> call[t].bytes]]

\* A device block is charged to its stream and returned.
Charge(t) ==
  /\ pc[t] = "charge"
  /\ mutex = Nobody
  /\ Charged(call[t].stream, call[t].bytes)
  /\ Delivered(t)
  /\ Return(t)
  /\ UNCHANGED <<place, spilled, policy, mutex>>

\* Mutation: every spill is recorded as managed memory.
SpillAsManaged(t) ==
  /\ pc[t] = "spill"
  /\ mutex = Nobody
  /\ spilled' = [spilled EXCEPT ![call[t].ptr] = "managed"]
  /\ Charged(call[t].stream, call[t].bytes)
  /\ Delivered(t)
  /\ Return(t)
  /\ UNCHANGED <<place, policy, mutex>>

\* A spilled block is recorded with its tier as well.
Spill(t) ==
  /\ pc[t] = "spill"
  /\ mutex = Nobody
  /\ spilled' = [spilled EXCEPT ![call[t].ptr] = call[t].tier]
  /\ Charged(call[t].stream, call[t].bytes)
  /\ Delivered(t)
  /\ Return(t)
  /\ UNCHANGED <<place, policy, mutex>>

-----------------------------------------------------------------------------
(* deallocate, with the stream and the size of the allocation              *)

\* clamped_sub
Less(counter, n) == IF counter > n THEN counter - n ELSE 0

Credited(s, n) ==
  /\ current' = [current EXCEPT ![s] = Less(@, n)]
  /\ total' = Less(total, n)
  /\ UNCHANGED peak

\* A free function does nothing to memory of another tier but fail.
FreeAs(a, tier) ==
  place' = IF place[a] = tier THEN [place EXCEPT ![a] = "none"] ELSE place

\* Mutation: the entry of a freed block stays in host_spilled_.
DeallocateSpilledKept(t, a) ==
  /\ pc[t] = "idle"
  /\ mutex = Nobody
  /\ held[a] # NoBlock
  /\ spilled[a] # "none"
  /\ FreeAs(a, spilled[a])
  /\ Credited(held[a].stream, held[a].bytes)
  /\ held' = [held EXCEPT ![a] = NoBlock]
  /\ UNCHANGED <<spilled, policy, mutex, pc, call>>

\* A spilled block is freed, forgotten and credited in one critical section.
DeallocateSpilled(t, a) ==
  /\ pc[t] = "idle"
  /\ mutex = Nobody
  /\ held[a] # NoBlock
  /\ spilled[a] # "none"
  /\ FreeAs(a, spilled[a])
  /\ spilled' = [spilled EXCEPT ![a] = "none"]
  /\ Credited(held[a].stream, held[a].bytes)
  /\ held' = [held EXCEPT ![a] = NoBlock]
  /\ UNCHANGED <<policy, mutex, pc, call>>

\* Any other block goes back to the upstream outside the lock ...
Deallocate(t, a) ==
  /\ pc[t] = "idle"
  /\ mutex = Nobody
  /\ held[a] # NoBlock
  /\ spilled[a] = "none"
  /\ call' = [call EXCEPT ![t] =
       [NoCall EXCEPT !.stream = held[a].stream, !.bytes = held[a].bytes, !.ptr = a]]
  /\ held' = [held EXCEPT ![a] = NoBlock]
  /\ Goto(t, "free")
  /\ UNCHANGED <<place, spilled, counters, policy, mutex>>

Free(t) ==
  /\ pc[t] = "free"
  /\ FreeAs(call[t].ptr, "device")
  /\ call' = [call EXCEPT ![t].ptr = NoAddress]
  /\ Goto(t, "credit")
  /\ UNCHANGED <<spilled, held, counters, policy, mutex>>

\* Mutation: the normal path does not decrement the total.
CreditStreamOnly(t) ==
  /\ pc[t] = "credit"
  /\ mutex = Nobody
  /\ current' = [current EXCEPT ![call[t].stream] = Less(@, call[t].bytes)]
  /\ Return(t)
  /\ UNCHANGED <<blocks, peak, total, policy, mutex>>

\* ... and is credited in a second critical section.
Credit(t) ==
  /\ pc[t] = "credit"
  /\ mutex = Nobody
  /\ Credited(call[t].stream, call[t].bytes)
  /\ Return(t)
  /\ UNCHANGED <<blocks, policy, mutex>>

-----------------------------------------------------------------------------
(* attach_reservation_to_tracker and reset_stream_reservation              *)

\* The previous policy of the stream is destroyed.  The reservation that comes
\* along is held until the next attach and takes no part in the accounting.
Attach(t, s, p) ==
  /\ pc[t] = "idle"
  /\ mutex = Nobody
  /\ policy' = [policy EXCEPT ![s] = p]
  /\ UNCHANGED <<blocks, counters, mutex, pc, call>>

Reset(t, s) ==
  /\ pc[t] = "idle"
  /\ mutex = Nobody
  /\ current' = [current EXCEPT ![s] = 0]
  /\ peak' = [peak EXCEPT ![s] = 0]
  /\ UNCHANGED <<blocks, total, policy, mutex, pc, call>>

-----------------------------------------------------------------------------

Step(t) ==
  \/ Upstream(t) \/ Exhausted(t, "upstream", "managed")
  \/ SpillTo(t, "managed", "managed") \/ Exhausted(t, "managed", "pinned")
  \/ SpillTo(t, "pinned", "pinned") \/ Exhausted(t, "pinned", "policy")
  \/ PolicyThrows(t) \/ PolicyRuns(t) \/ Recovered(t) \/ GivesUp(t)
  \/ Charge(t) \/ Spill(t)
  \/ Free(t) \/ Credit(t)

Start(t) ==
  \/ \E s \in Streams, n \in Sizes : Allocate(t, s, n)
  \/ \E a \in Addresses : Deallocate(t, a) \/ DeallocateSpilled(t, a)
  \/ \E s \in Streams, p \in Policies : Attach(t, s, p)
  \/ \E s \in Resettable : Reset(t, s)

Next == \E t \in Threads : Step(t) \/ Start(t)

Spec == Init /\ [][Next]_vars

-----------------------------------------------------------------------------
(* Properties *)

Tiers == {"none", "device", "managed", "pinned"}

BlockType ==
  [stream : Streams \cup {NoStream}, bytes : Nat]

CallType ==
  [stream : Streams \cup {NoStream}, bytes : Nat,
   ptr : Addresses \cup {NoAddress}, tier : Tiers]

\* Type invariant: the counters are size_t values that have not wrapped.
TypeOK ==
  /\ place \in [Addresses -> Tiers]
  /\ spilled \in [Addresses -> {"none", "managed", "pinned"}]
  /\ held \in [Addresses -> BlockType]
  /\ current \in [Streams -> Nat]
  /\ peak \in [Streams -> Nat]
  /\ total \in Nat
  /\ policy \in [Streams -> {"none", "throws", "retries"}]
  /\ mutex \in Threads \cup {Nobody}
  /\ pc \in [Threads -> {"idle", "upstream", "managed", "pinned", "policy", "retry",
                         "charge", "spill", "free", "credit"}]
  /\ call \in [Threads -> CallType]

Crediting == {t \in Threads : pc[t] \in {"free", "credit"}}

\* Bytes of a stream that are charged and not yet credited.
Live(s) ==
    MapThenSumSet(LAMBDA a : held[a].bytes, {a \in Addresses : held[a].stream = s})
  + MapThenSumSet(LAMBDA t : call[t].bytes, {t \in Crediting : call[t].stream = s})

\* The books balance over every order of charges, credits and resets:
\* total_allocated_ is the live bytes of all streams, and so is the charge of a
\* stream that nobody resets.  A stream reset with blocks outstanding is charged
\* for no more than it has (frees of old blocks eat into the charge of new ones,
\* not beyond), and the peak that backpressure reads covers the charge
\* (lines 126-129, 223-229, 243-248, 263-264).
BooksAreExact ==
  /\ total = MapThenSumSet(Live, Streams)
  /\ \A s \in Streams \ Resettable : current[s] = Live(s)
  /\ \A s \in Streams : current[s] \in 0 .. Min({Live(s), peak[s]})

\* host_spilled_ knows exactly the spilled blocks in use and their tiers,
\* however addresses are reused (lines 203-215, 271-273, 376-378).
SpillMapIsExact ==
  \A a \in Addresses :
    spilled[a] # "none" <=>
      held[a] # NoBlock /\ place[a] = spilled[a]

\* Every allocated address is held by the application or by one call, so that
\* each is freed by the function of its allocator and none leaks.
NothingLeaks ==
  \A a \in Addresses :
    place[a] # "none" =>
      \/ held[a] # NoBlock
      \/ \E t \in Threads : call[t].ptr = a

\* The policy a thread runs is not destroyed under it (lines 82-83).
PolicyOutlivesItsCall ==
  [][\A t \in Threads :
       pc[t] = "retry" => policy'[call[t].stream] = policy[call[t].stream]]_vars

=============================================================================
