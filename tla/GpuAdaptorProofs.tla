--------------------------- MODULE GpuAdaptorProofs ---------------------------
(***************************************************************************)
(* Theorems about GpuAdaptor, for all finite sets of threads, streams and  *)
(* addresses, all policies and every limit: the spill map and the books    *)
(* are exact, no block leaks and no policy is destroyed while it runs.     *)
(***************************************************************************)
EXTENDS GpuAdaptor, Sums

-----------------------------------------------------------------------------
(* The invariant *)

\* A call that has an address: of a block on its way to the application, or of
\* one on its way back to the upstream.
Carries(t) == pc[t] \in {"charge", "spill", "free"}

\* Such a call, and no other, has a pointer; what it points to is nobody else's
\* and not in host_spilled_ yet, or any more.
CarriedOK ==
  \A t \in Threads :
    IF Carries(t)
      THEN /\ call[t].ptr \in Addresses
           /\ held[call[t].ptr] = NoBlock
           /\ spilled[call[t].ptr] = "none"
           /\ pc[t] # "spill" => place[call[t].ptr] = "device"
           /\ pc[t] = "spill" =>
                /\ call[t].tier \in {"managed", "pinned"}
                /\ place[call[t].ptr] = call[t].tier
      ELSE call[t].ptr = NoAddress

CarriedOnce ==
  \A t, u \in Threads :
    Carries(t) /\ Carries(u) /\ call[t].ptr = call[u].ptr => t = u

\* A held block is known by its tier, an address that is not held not at all.
HeldOK ==
  \A a \in Addresses :
    IF held[a] = NoBlock
      THEN spilled[a] = "none"
      ELSE /\ held[a].stream \in Streams
           /\ place[a] # "none"
           /\ spilled[a] = IF place[a] = "device" THEN "none" ELSE place[a]

\* A call knows its stream, and a policy runs under the lock.
CallsOK ==
  \A t \in Threads :
    /\ pc[t] # "idle" => call[t].stream \in Streams
    /\ pc[t] = "retry" => mutex = t

AdaptorInv == TypeOK /\ CarriedOK /\ CarriedOnce /\ HeldOK /\ NothingLeaks /\ CallsOK

USE DEF Tiers

LEMMA AdaptorInit == Init => AdaptorInv
<1> SUFFICES ASSUME Init PROVE AdaptorInv
  OBVIOUS
<1>1. TypeOK
  BY DEF Init, TypeOK, NoBlock, NoCall, BlockType, CallType
<1> QED
  BY <1>1 DEF Init, AdaptorInv, CarriedOK, CarriedOnce, HeldOK, NothingLeaks, CallsOK,
              Carries, NoCall

-----------------------------------------------------------------------------
(* The types *)

LEMMA SumsAreNat == \A n \in Nat, m \in Nat : n + m \in Nat /\ Less(n, m) \in Nat
  BY DEF Less

\* Max of two sizes is a size.
LEMMA MaxOfTwo == \A n \in Nat, m \in Nat : Max({n, m}) \in Nat
<1> SUFFICES ASSUME NEW n \in Nat, NEW m \in Nat PROVE Max({n, m}) \in Nat
  OBVIOUS
<1>1. \E x \in {n, m} : \A y \in {n, m} : x >= y
  OBVIOUS
<1>2. Max({n, m}) \in {n, m}
  BY <1>1 DEF Max
<1> QED
  BY <1>2

\* Whatever a step of a thread does to its own call leaves a table of calls.
LEMMA TableTyped ==
  ASSUME call \in [Threads -> CallType], NEW t \in Threads, NEW c \in CallType,
         call' = [call EXCEPT ![t] = c]
  PROVE  call' \in [Threads -> CallType]
  OBVIOUS

LEMMA ObtainTyped ==
  ASSUME TypeOK, NEW t \in Threads, NEW tier \in Tiers, Obtain(t, tier)
  PROVE  call' \in [Threads -> CallType] /\ place' \in [Addresses -> Tiers]
<1>1. PICK a \in Addresses :
        /\ place' = [place EXCEPT ![a] = tier]
        /\ call' = [call EXCEPT ![t] = [call[t] EXCEPT !.ptr = a, !.tier = tier]]
  BY DEF Obtain, TypeOK
<1>2. call[t] \in CallType /\ call \in [Threads -> CallType]
  BY DEF TypeOK
<1>3. [call[t] EXCEPT !.ptr = a, !.tier = tier] \in CallType
  BY <1>2 DEF CallType
<1>4. call' \in [Threads -> CallType]
  BY <1>1, <1>2, <1>3, TableTyped
<1> QED
  BY <1>1, <1>4 DEF TypeOK

LEMMA ReturnTyped ==
  ASSUME TypeOK, NEW t \in Threads, Return(t)
  PROVE  call' \in [Threads -> CallType]
<1>1. NoCall \in CallType
  BY DEF NoCall, CallType
<1> QED
  BY <1>1 DEF TypeOK, Return

\* Everything but the call of the thread.
RestTyped ==
  /\ place \in [Addresses -> Tiers]
  /\ spilled \in [Addresses -> {"none", "managed", "pinned"}]
  /\ held \in [Addresses -> BlockType]
  /\ current \in [Streams -> Nat]
  /\ peak \in [Streams -> Nat]
  /\ total \in Nat
  /\ policy \in [Streams -> {"none", "throws", "retries"}]
  /\ mutex \in Threads \cup {Nobody}
  /\ pc \in [Threads -> {"idle", "upstream", "managed", "pinned", "policy", "retry",
                         "charge", "spill", "free", "credit"}]

LEMMA NoBlockTyped == NoBlock \in BlockType
  BY DEF NoBlock, BlockType

LEMMA TypeStep ==
  ASSUME AdaptorInv, Next
  PROVE  TypeOK'
<1>0. RestTyped /\ TypeOK /\ call \in [Threads -> CallType]
  BY DEF AdaptorInv, TypeOK, RestTyped
<1> SUFFICES RestTyped' /\ call' \in [Threads -> CallType]
  BY DEF TypeOK, RestTyped
<1>1. PICK t \in Threads : Step(t) \/ Start(t)
  BY DEF Next
<1>c. /\ call[t] \in CallType
      /\ call[t].bytes \in Nat /\ call[t].ptr \in Addresses \cup {NoAddress}
  BY <1>0 DEF CallType
<1> USE <1>0, AdaptorAssumption DEF Goto
<1>2. CASE Upstream(t) \/ SpillTo(t, "managed", "managed") \/ SpillTo(t, "pinned", "pinned")
  <2>1. PICK tier \in Tiers : Obtain(t, tier)
    BY <1>2 DEF Upstream, SpillTo
  <2>2. call' \in [Threads -> CallType] /\ place' \in [Addresses -> Tiers]
    BY <2>1, ObtainTyped
  <2>3. RestTyped'
    BY <1>2, <2>2 DEF RestTyped, Upstream, SpillTo, counters
  <2> QED
    BY <2>2, <2>3
<1>3. CASE \/ Exhausted(t, "upstream", "managed") \/ Exhausted(t, "managed", "pinned")
           \/ Exhausted(t, "pinned", "policy")
  BY <1>3 DEF Exhausted, RestTyped, blocks, counters
<1>4. CASE PolicyThrows(t) \/ GivesUp(t)
  <2>1. call' \in [Threads -> CallType]
    BY <1>4, ReturnTyped DEF PolicyThrows, GivesUp
  <2> QED
    BY <1>4, <2>1 DEF PolicyThrows, GivesUp, Return, RestTyped, blocks, counters
<1>5. CASE PolicyRuns(t)
  BY <1>5 DEF PolicyRuns, RestTyped, blocks, counters
<1>6. CASE Recovered(t)
  <2>1. call' \in [Threads -> CallType] /\ place' \in [Addresses -> Tiers]
    BY <1>6, ObtainTyped DEF Recovered
  <2> QED
    BY <1>6, <2>1 DEF Recovered, RestTyped, counters
<1>7. CASE Charge(t) \/ Spill(t)
  <2>1. call[t].stream \in Streams /\ call[t].ptr \in Addresses
    BY <1>7 DEF Charge, Spill, AdaptorInv, CallsOK, CarriedOK, Carries
  <2>2. current' \in [Streams -> Nat] /\ peak' \in [Streams -> Nat] /\ total' \in Nat
    <3>1. Charged(call[t].stream, call[t].bytes)
      BY <1>7 DEF Charge, Spill
    <3> QED
      BY <1>c, <2>1, <3>1, SumsAreNat, MaxOfTwo DEF Charged, RestTyped
  <2>3. held' \in [Addresses -> BlockType]
    BY <1>7, <1>c, <2>1 DEF Charge, Spill, Delivered, RestTyped, BlockType
  <2>4. spilled' \in [Addresses -> {"none", "managed", "pinned"}]
    BY <1>7, <2>1 DEF Charge, Spill, AdaptorInv, CarriedOK, Carries, RestTyped
  <2>5. call' \in [Threads -> CallType]
    BY <1>7, ReturnTyped DEF Charge, Spill
  <2> QED
    BY <1>7, <2>2, <2>3, <2>4, <2>5 DEF Charge, Spill, Return, RestTyped
<1>8. CASE Free(t)
  <2>1. [call[t] EXCEPT !.ptr = NoAddress] \in CallType
    BY <1>c DEF CallType
  <2>2. call' \in [Threads -> CallType]
    BY <1>8, <2>1 DEF Free
  <2> QED
    BY <1>8, <2>2 DEF Free, FreeAs, RestTyped, counters
<1>9. CASE Credit(t)
  <2>1. call[t].stream \in Streams
    BY <1>9 DEF Credit, AdaptorInv, CallsOK
  <2>2. current' \in [Streams -> Nat] /\ peak' = peak /\ total' \in Nat
    BY <1>9, <1>c, <2>1, SumsAreNat DEF Credit, Credited, RestTyped
  <2>3. call' \in [Threads -> CallType]
    BY <1>9, ReturnTyped DEF Credit
  <2> QED
    BY <1>9, <2>2, <2>3 DEF Credit, Return, RestTyped, blocks
<1>10. CASE \E s \in Streams, n \in Sizes : Allocate(t, s, n)
  <2>1. PICK s \in Streams, n \in Sizes : Allocate(t, s, n)
    BY <1>10
  <2>2. [NoCall EXCEPT !.stream = s, !.bytes = n] \in CallType
    BY DEF NoCall, CallType
  <2>3. call' \in [Threads -> CallType]
    BY <2>1, <2>2 DEF Allocate
  <2> QED
    BY <2>1, <2>3 DEF Allocate, RestTyped, blocks, counters
<1>11. CASE \E a \in Addresses : Deallocate(t, a)
  <2>1. PICK a \in Addresses : Deallocate(t, a)
    BY <1>11
  <2>2. held[a].bytes \in Nat /\ held[a].stream \in Streams \cup {NoStream}
    BY DEF RestTyped, BlockType
  <2>3. [NoCall EXCEPT !.stream = held[a].stream, !.bytes = held[a].bytes, !.ptr = a]
          \in CallType
    BY <2>2 DEF NoCall, CallType
  <2>4. call' \in [Threads -> CallType]
    BY <2>1, <2>3 DEF Deallocate
  <2> QED
    BY <2>1, <2>4, NoBlockTyped DEF Deallocate, RestTyped, counters
<1>12. CASE \E a \in Addresses : DeallocateSpilled(t, a)
  <2>1. PICK a \in Addresses : DeallocateSpilled(t, a)
    BY <1>12
  <2>2. held[a].bytes \in Nat
    BY DEF RestTyped, BlockType
  <2>3. current' \in [Streams -> Nat] /\ peak' = peak /\ total' \in Nat
    BY <2>1, <2>2, SumsAreNat DEF DeallocateSpilled, Credited, RestTyped
  <2> QED
    BY <2>1, <2>3, NoBlockTyped DEF DeallocateSpilled, FreeAs, RestTyped
<1>13. CASE \E s \in Streams, p \in Policies : Attach(t, s, p)
  BY <1>13 DEF Attach, RestTyped, blocks, counters
<1>14. CASE \E s \in Resettable : Reset(t, s)
  BY <1>14 DEF Reset, RestTyped, blocks
<1> QED
  BY <1>1, <1>2, <1>3, <1>4, <1>5, <1>6, <1>7, <1>8, <1>9, <1>10, <1>11, <1>12, <1>13,
     <1>14 DEF Step, Start
-----------------------------------------------------------------------------
(* The blocks *)

BlocksInv == CarriedOK /\ CarriedOnce /\ HeldOK /\ NothingLeaks

\* The step of a thread touches no other thread's call.
OthersKeep(t) == \A u \in Threads \ {t} : call'[u] = call[u] /\ pc'[u] = pc[u]

\* A step that moves no block, of a call without one.
LEMMA NoBlockMoves ==
  ASSUME AdaptorInv, NEW t \in Threads, UNCHANGED blocks, OthersKeep(t),
         ~Carries(t), ~Carries(t)', call'[t].ptr = NoAddress
  PROVE  BlocksInv'
<1>1. CarriedOK' /\ CarriedOnce'
  BY DEF AdaptorInv, CarriedOK, CarriedOnce, Carries, OthersKeep, blocks
<1>2. HeldOK'
  BY DEF AdaptorInv, HeldOK, blocks
<1>3. NothingLeaks'
  <2> SUFFICES ASSUME NEW a \in Addresses, place[a] # "none", held[a] = NoBlock
               PROVE  \E u \in Threads : call'[u].ptr = a
    BY DEF NothingLeaks, blocks
  <2>1. PICK u \in Threads : call[u].ptr = a
    BY DEF AdaptorInv, NothingLeaks
  <2>2. u # t
    BY <2>1, AdaptorAssumption DEF AdaptorInv, CarriedOK
  <2> QED
    BY <2>1, <2>2 DEF OthersKeep
<1> QED
  BY <1>1, <1>2, <1>3 DEF BlocksInv

\* An allocator gives the call a block that nobody knew.
LEMMA BlockObtained ==
  ASSUME AdaptorInv, NEW t \in Threads, ~Carries(t), OthersKeep(t),
         NEW a \in Addresses, NEW tier \in {"device", "managed", "pinned"},
         place[a] = "none", place' = [place EXCEPT ![a] = tier],
         UNCHANGED <<spilled, held>>,
         call'[t].ptr = a, call'[t].tier = tier,
         pc'[t] = IF tier = "device" THEN "charge" ELSE "spill"
  PROVE  BlocksInv'
<1>1. /\ place'[a] = tier
      /\ \A b \in Addresses \ {a} : place'[b] = place[b]
  BY DEF AdaptorInv, TypeOK
<1>2. held[a] = NoBlock /\ spilled[a] = "none"
  BY DEF AdaptorInv, HeldOK
<1>3. \A u \in Threads : call[u].ptr # a
  BY AdaptorAssumption DEF AdaptorInv, CarriedOK
<1>4. Carries(t)'
  BY DEF Carries
<1>5. CarriedOK'
  <2> SUFFICES ASSUME NEW u \in Threads
               PROVE  IF Carries(u)'
                        THEN /\ call'[u].ptr \in Addresses
                             /\ held[call'[u].ptr] = NoBlock
                             /\ spilled[call'[u].ptr] = "none"
                             /\ pc'[u] # "spill" => place'[call'[u].ptr] = "device"
                             /\ pc'[u] = "spill" =>
                                  /\ call'[u].tier \in {"managed", "pinned"}
                                  /\ place'[call'[u].ptr] = call'[u].tier
                        ELSE call'[u].ptr = NoAddress
    BY DEF CarriedOK
  <2>1. CASE u = t
    BY <1>1, <1>2, <1>4, <2>1
  <2>2. CASE u # t
    BY <1>1, <1>3, <2>2 DEF AdaptorInv, CarriedOK, Carries, OthersKeep
  <2> QED
    BY <2>1, <2>2
<1>6. CarriedOnce'
  BY <1>3 DEF AdaptorInv, CarriedOnce, Carries, OthersKeep
<1>7. HeldOK'
  BY <1>1, <1>2 DEF AdaptorInv, HeldOK
<1>8. NothingLeaks'
  <2> SUFFICES ASSUME NEW b \in Addresses, place'[b] # "none", held[b] = NoBlock
               PROVE  \E u \in Threads : call'[u].ptr = b
    BY DEF NothingLeaks
  <2>1. CASE b = a
    BY <2>1
  <2>2. CASE b # a
    <3>1. PICK u \in Threads : call[u].ptr = b
      BY <1>1, <2>2 DEF AdaptorInv, NothingLeaks
    <3>2. u # t
      BY <3>1, AdaptorAssumption DEF AdaptorInv, CarriedOK
    <3> QED
      BY <3>1, <3>2 DEF OthersKeep
  <2> QED
    BY <2>1, <2>2
<1> QED
  BY <1>5, <1>6, <1>7, <1>8 DEF BlocksInv

\* A block leaves its call: it is delivered, with its tier if it was spilled, or
\* it has been freed and nobody holds it.
LEMMA BlockLeaves ==
  ASSUME AdaptorInv, NEW t \in Threads, Carries(t), ~Carries(t)', OthersKeep(t),
         call'[t].ptr = NoAddress, NEW a \in Addresses, a = call[t].ptr,
         \A b \in Addresses \ {a} :
           place'[b] = place[b] /\ held'[b] = held[b] /\ spilled'[b] = spilled[b],
         IF held'[a] = NoBlock
           THEN spilled'[a] = "none" /\ place'[a] = "none"
           ELSE /\ held'[a].stream \in Streams
                /\ place'[a] # "none"
                /\ spilled'[a] = IF place'[a] = "device" THEN "none" ELSE place'[a]
  PROVE  BlocksInv'
<1>1. \A u \in Threads \ {t} : Carries(u) => call[u].ptr # a
  BY DEF AdaptorInv, CarriedOnce
<1>2. CarriedOK'
  BY <1>1 DEF AdaptorInv, CarriedOK, Carries, OthersKeep
<1>3. CarriedOnce'
  BY DEF AdaptorInv, CarriedOnce, Carries, OthersKeep
<1>4. HeldOK'
  BY DEF AdaptorInv, HeldOK
<1>5. NothingLeaks'
  <2> SUFFICES ASSUME NEW b \in Addresses, place'[b] # "none", held'[b] = NoBlock
               PROVE  \E u \in Threads : call'[u].ptr = b
    BY DEF NothingLeaks
  <2>1. b # a
    OBVIOUS
  <2>2. PICK u \in Threads : call[u].ptr = b
    BY <2>1 DEF AdaptorInv, NothingLeaks
  <2> QED
    BY <2>1, <2>2 DEF OthersKeep
<1> QED
  BY <1>2, <1>3, <1>4, <1>5 DEF BlocksInv

\* A held block is taken from the application by a call that had none.
LEMMA BlockReturned ==
  ASSUME AdaptorInv, NEW t \in Threads, ~Carries(t), OthersKeep(t),
         NEW a \in Addresses, held[a] # NoBlock, spilled[a] = "none",
         held' = [held EXCEPT ![a] = NoBlock], UNCHANGED <<place, spilled>>,
         call'[t].ptr = a, pc'[t] = "free"
  PROVE  BlocksInv'
<1>1. /\ held'[a] = NoBlock
      /\ \A b \in Addresses \ {a} : held'[b] = held[b]
  BY DEF AdaptorInv, TypeOK
<1>2. place[a] = "device"
  BY DEF AdaptorInv, HeldOK
<1>3. \A u \in Threads : call[u].ptr # a
  BY AdaptorAssumption DEF AdaptorInv, CarriedOK
<1>4. CarriedOK'
  BY <1>1, <1>2, <1>3 DEF AdaptorInv, CarriedOK, Carries, OthersKeep
<1>5. CarriedOnce'
  BY <1>3 DEF AdaptorInv, CarriedOnce, Carries, OthersKeep
<1>6. HeldOK'
  BY <1>1 DEF AdaptorInv, HeldOK
<1>7. NothingLeaks'
  <2> SUFFICES ASSUME NEW b \in Addresses, place[b] # "none", held'[b] = NoBlock
               PROVE  \E u \in Threads : call'[u].ptr = b
    BY DEF NothingLeaks
  <2>1. CASE b = a
    BY <2>1
  <2>2. CASE b # a
    <3>1. PICK u \in Threads : call[u].ptr = b
      BY <1>1, <2>2 DEF AdaptorInv, NothingLeaks
    <3>2. u # t
      BY <3>1, AdaptorAssumption DEF AdaptorInv, CarriedOK
    <3> QED
      BY <3>1, <3>2 DEF OthersKeep
  <2> QED
    BY <2>1, <2>2
<1> QED
  BY <1>4, <1>5, <1>6, <1>7 DEF BlocksInv

\* A spilled block is freed and forgotten in one step.
LEMMA SpilledFreed ==
  ASSUME AdaptorInv, NEW a \in Addresses, held[a] # NoBlock, spilled[a] # "none",
         FreeAs(a, spilled[a]), spilled' = [spilled EXCEPT ![a] = "none"],
         held' = [held EXCEPT ![a] = NoBlock], UNCHANGED <<pc, call>>
  PROVE  BlocksInv'
<1>1. place[a] = spilled[a]
  BY DEF AdaptorInv, HeldOK
<1>2. /\ place'[a] = "none" /\ held'[a] = NoBlock /\ spilled'[a] = "none"
      /\ \A b \in Addresses \ {a} :
           place'[b] = place[b] /\ held'[b] = held[b] /\ spilled'[b] = spilled[b]
  BY <1>1 DEF AdaptorInv, TypeOK, FreeAs
<1>3. \A u \in Threads : call[u].ptr # a
  BY AdaptorAssumption DEF AdaptorInv, CarriedOK
<1>4. CarriedOK' /\ CarriedOnce'
  BY <1>2, <1>3 DEF AdaptorInv, CarriedOK, CarriedOnce, Carries
<1>5. HeldOK'
  BY <1>2 DEF AdaptorInv, HeldOK
<1>6. NothingLeaks'
  BY <1>2 DEF AdaptorInv, NothingLeaks
<1> QED
  BY <1>4, <1>5, <1>6 DEF BlocksInv

-----------------------------------------------------------------------------
(* The steps *)

LEMMA BlocksStep ==
  ASSUME AdaptorInv, Next
  PROVE  BlocksInv' /\ CallsOK'
<1>1. PICK t \in Threads : Step(t) \/ Start(t)
  BY DEF Next
<1>2. /\ pc \in [Threads -> {"idle", "upstream", "managed", "pinned", "policy", "retry",
                             "charge", "spill", "free", "credit"}]
      /\ call \in [Threads -> CallType] /\ call[t] \in CallType
      /\ held \in [Addresses -> BlockType]
      /\ NoCall.ptr = NoAddress /\ NoCall.stream = NoStream
  BY DEF AdaptorInv, TypeOK, NoCall
<1>3. ~Carries(t) => call[t].ptr = NoAddress
  BY DEF AdaptorInv, CarriedOK
<1> USE <1>2 DEF Goto, Return
<1>4. CASE Upstream(t) \/ Recovered(t)
  <2>1. PICK a \in Addresses :
          /\ place[a] = "none" /\ place' = [place EXCEPT ![a] = "device"]
          /\ call' = [call EXCEPT ![t] = [call[t] EXCEPT !.ptr = a, !.tier = "device"]]
    BY <1>4 DEF Upstream, Recovered, Obtain
  <2>2. /\ OthersKeep(t) /\ pc'[t] = "charge"
        /\ call'[t].ptr = a /\ call'[t].tier = "device" /\ call'[t].stream = call[t].stream
        /\ ~Carries(t) /\ UNCHANGED <<spilled, held>>
    BY <1>4, <2>1 DEF Upstream, Recovered, OthersKeep, Carries, CallType
  <2>3. BlocksInv'
    BY <2>1, <2>2, BlockObtained
  <2>4. CallsOK'
    <3>1. \A u \in Threads \ {t} : pc[u] = "retry" => mutex' = u
      BY <1>4, AdaptorAssumption DEF AdaptorInv, CallsOK, Upstream, Recovered
    <3> QED
      BY <1>4, <2>2, <3>1 DEF AdaptorInv, CallsOK, OthersKeep, Upstream, Recovered
  <2> QED
    BY <2>3, <2>4
<1>5. CASE SpillTo(t, "managed", "managed") \/ SpillTo(t, "pinned", "pinned")
  <2>1. PICK tier \in {"managed", "pinned"} : SpillTo(t, tier, tier)
    BY <1>5
  <2>2. PICK a \in Addresses :
          /\ place[a] = "none" /\ place' = [place EXCEPT ![a] = tier]
          /\ call' = [call EXCEPT ![t] = [call[t] EXCEPT !.ptr = a, !.tier = tier]]
    BY <2>1 DEF SpillTo, Obtain
  <2>3. /\ OthersKeep(t) /\ pc'[t] = "spill" /\ pc[t] # "idle"
        /\ call'[t].ptr = a /\ call'[t].tier = tier /\ call'[t].stream = call[t].stream
        /\ ~Carries(t) /\ UNCHANGED <<spilled, held, mutex>>
    BY <2>1, <2>2 DEF SpillTo, OthersKeep, Carries, CallType
  <2>4. BlocksInv'
    BY <2>2, <2>3, BlockObtained
  <2>5. CallsOK'
    BY <2>3 DEF AdaptorInv, CallsOK, OthersKeep
  <2> QED
    BY <2>4, <2>5
<1>6. CASE \/ Exhausted(t, "upstream", "managed") \/ Exhausted(t, "managed", "pinned")
           \/ Exhausted(t, "pinned", "policy") \/ PolicyRuns(t)
  <2>1. /\ OthersKeep(t) /\ UNCHANGED <<blocks, call>> /\ ~Carries(t) /\ ~Carries(t)'
    BY <1>6 DEF Exhausted, PolicyRuns, OthersKeep, Carries
  <2>2. BlocksInv'
    BY <1>3, <2>1, NoBlockMoves
  <2>3. CallsOK'
    <3>1. CASE PolicyRuns(t)
      BY <3>1, AdaptorAssumption DEF PolicyRuns, AdaptorInv, CallsOK
    <3>2. CASE ~PolicyRuns(t)
      BY <1>6, <3>2 DEF Exhausted, AdaptorInv, CallsOK
    <3> QED
      BY <3>1, <3>2
  <2> QED
    BY <2>2, <2>3
<1>7. CASE PolicyThrows(t) \/ GivesUp(t) \/ Credit(t)
  <2>1. /\ OthersKeep(t) /\ UNCHANGED blocks /\ ~Carries(t) /\ ~Carries(t)'
        /\ call'[t] = NoCall /\ pc'[t] = "idle"
    BY <1>7 DEF PolicyThrows, GivesUp, Credit, OthersKeep, Carries
  <2>2. BlocksInv'
    BY <2>1, NoBlockMoves
  <2>3. CallsOK'
    <3>1. \A u \in Threads \ {t} : pc[u] = "retry" => mutex' = u
      BY <1>7, AdaptorAssumption DEF AdaptorInv, CallsOK, PolicyThrows, GivesUp, Credit
    <3> QED
      BY <2>1, <3>1 DEF AdaptorInv, CallsOK, OthersKeep
  <2> QED
    BY <2>2, <2>3
<1>8. CASE Charge(t) \/ Spill(t)
  <2>1. /\ Carries(t) /\ ~Carries(t)' /\ OthersKeep(t) /\ call'[t] = NoCall
        /\ pc'[t] = "idle" /\ UNCHANGED <<place, mutex>>
    BY <1>8 DEF Charge, Spill, Carries, OthersKeep
  <2> DEFINE a == call[t].ptr
  <2>2. /\ a \in Addresses /\ call[t].stream \in Streams
        /\ spilled[a] = "none"
        /\ Charge(t) => place[a] = "device"
        /\ Spill(t) => place[a] = call[t].tier /\ call[t].tier \in {"managed", "pinned"}
    BY <1>8, <2>1 DEF Charge, Spill, AdaptorInv, CarriedOK, CallsOK, Carries
  <2>3. /\ held'[a] = [stream |-> call[t].stream, bytes |-> call[t].bytes]
        /\ \A b \in Addresses \ {a} : held'[b] = held[b] /\ spilled'[b] = spilled[b]
    BY <1>8, <2>2 DEF Charge, Spill, Delivered, AdaptorInv, TypeOK
  <2>4. held'[a] # NoBlock /\ held'[a].stream \in Streams
    BY <2>2, <2>3, AdaptorAssumption DEF NoBlock
  <2>5. spilled'[a] = IF place'[a] = "device" THEN "none" ELSE place'[a]
    BY <1>8, <2>1, <2>2 DEF Charge, Spill, AdaptorInv, TypeOK
  <2>6. place'[a] # "none"
    BY <1>8, <2>1, <2>2
  <2>7. BlocksInv'
    BY <2>1, <2>2, <2>3, <2>4, <2>5, <2>6, BlockLeaves
  <2>8. CallsOK'
    BY <2>1 DEF AdaptorInv, CallsOK, OthersKeep
  <2> QED
    BY <2>7, <2>8
<1>9. CASE Free(t)
  <2> DEFINE a == call[t].ptr
  <2>1. /\ Carries(t) /\ ~Carries(t)' /\ OthersKeep(t) /\ pc'[t] = "credit"
        /\ call'[t].ptr = NoAddress /\ call'[t].stream = call[t].stream
        /\ UNCHANGED <<spilled, held, mutex>>
    BY <1>9 DEF Free, Carries, OthersKeep, CallType
  <2>2. /\ a \in Addresses /\ held[a] = NoBlock /\ spilled[a] = "none"
        /\ place[a] = "device" /\ call[t].stream \in Streams
    BY <1>9, <2>1 DEF Free, AdaptorInv, CarriedOK, CallsOK, Carries
  <2>3. place'[a] = "none" /\ \A b \in Addresses \ {a} : place'[b] = place[b]
    BY <1>9, <2>2 DEF Free, FreeAs, AdaptorInv, TypeOK
  <2>4. BlocksInv'
    BY <2>1, <2>2, <2>3, BlockLeaves
  <2>5. CallsOK'
    BY <2>1, <2>2 DEF AdaptorInv, CallsOK, OthersKeep
  <2> QED
    BY <2>4, <2>5
<1>10. CASE \E s \in Streams, n \in Sizes : Allocate(t, s, n)
  <2>1. PICK s \in Streams, n \in Sizes : Allocate(t, s, n)
    BY <1>10
  <2>2. /\ OthersKeep(t) /\ UNCHANGED <<blocks, mutex>> /\ ~Carries(t) /\ ~Carries(t)'
        /\ call'[t] = [NoCall EXCEPT !.stream = s, !.bytes = n]
        /\ pc'[t] \in {"policy", "upstream"}
    BY <2>1 DEF Allocate, OthersKeep, Carries
  <2>3. call'[t].ptr = NoAddress /\ call'[t].stream = s
    BY <2>2 DEF NoCall
  <2>4. BlocksInv'
    BY <2>2, <2>3, NoBlockMoves
  <2>5. CallsOK'
    BY <2>2, <2>3 DEF AdaptorInv, CallsOK, OthersKeep
  <2> QED
    BY <2>4, <2>5
<1>11. CASE \E a \in Addresses : Deallocate(t, a)
  <2>1. PICK a \in Addresses : Deallocate(t, a)
    BY <1>11
  <2>2. /\ OthersKeep(t) /\ UNCHANGED <<place, spilled, mutex>> /\ ~Carries(t)
        /\ call'[t] = [NoCall EXCEPT !.stream = held[a].stream,
                                     !.bytes = held[a].bytes, !.ptr = a]
        /\ pc'[t] = "free"
    BY <2>1 DEF Deallocate, OthersKeep, Carries
  <2>3. call'[t].ptr = a /\ call'[t].stream = held[a].stream
    BY <2>2 DEF NoCall
  <2>4. BlocksInv'
    BY <2>1, <2>2, <2>3, BlockReturned DEF Deallocate
  <2>5. held[a].stream \in Streams
    BY <2>1 DEF Deallocate, AdaptorInv, HeldOK
  <2>6. CallsOK'
    BY <2>2, <2>3, <2>5 DEF AdaptorInv, CallsOK, OthersKeep
  <2> QED
    BY <2>4, <2>6
<1>12. CASE \E a \in Addresses : DeallocateSpilled(t, a)
  <2>1. PICK a \in Addresses : DeallocateSpilled(t, a)
    BY <1>12
  <2>2. BlocksInv'
    BY <2>1, SpilledFreed DEF DeallocateSpilled
  <2>3. CallsOK'
    BY <2>1 DEF DeallocateSpilled, AdaptorInv, CallsOK
  <2> QED
    BY <2>2, <2>3
<1>13. CASE \/ \E s \in Streams, p \in Policies : Attach(t, s, p)
            \/ \E s \in Resettable : Reset(t, s)
  <2>1. UNCHANGED <<blocks, mutex, pc, call>>
    BY <1>13 DEF Attach, Reset
  <2>2. BlocksInv'
    BY <2>1 DEF AdaptorInv, BlocksInv, CarriedOK, CarriedOnce, HeldOK, NothingLeaks,
                Carries, blocks
  <2>3. CallsOK'
    BY <2>1 DEF AdaptorInv, CallsOK
  <2> QED
    BY <2>2, <2>3
<1> QED
  BY <1>1, <1>4, <1>5, <1>6, <1>7, <1>8, <1>9, <1>10, <1>11, <1>12, <1>13 DEF Step, Start

LEMMA AdaptorStep == AdaptorInv /\ [Next]_vars => AdaptorInv'
<1> SUFFICES ASSUME AdaptorInv, [Next]_vars PROVE AdaptorInv'
  OBVIOUS
<1>1. CASE Next
  BY <1>1, TypeStep, BlocksStep DEF AdaptorInv, BlocksInv
<1>2. CASE UNCHANGED vars
  BY <1>2 DEF vars, blocks, counters, AdaptorInv, TypeOK, CarriedOK, CarriedOnce, HeldOK,
              NothingLeaks, CallsOK, Carries
<1> QED
  BY <1>1, <1>2

-----------------------------------------------------------------------------
(* The theorems *)

\* The invariant holds in every state of the adaptor.
THEOREM AdaptorInvariant == Spec => []AdaptorInv
<1> QED
  BY AdaptorInit, AdaptorStep, PTL DEF Spec

\* The counters are never below zero and the tables are well formed, through the
\* clamped subtractions of deallocate and every reset.
THEOREM AdaptorTypeCorrect == Spec => []TypeOK
<1>1. AdaptorInv => TypeOK
  BY DEF AdaptorInv
<1> QED
  BY <1>1, AdaptorInvariant, PTL

\* host_spilled_ names exactly the spilled blocks in use, with their tiers, for
\* any number of threads and however often addresses are given out again.
THEOREM SpillMapAlwaysExact == Spec => []SpillMapIsExact
<1>1. AdaptorInv => SpillMapIsExact
  <2> SUFFICES ASSUME AdaptorInv, NEW a \in Addresses
               PROVE  spilled[a] # "none" <=> held[a] # NoBlock /\ place[a] = spilled[a]
    BY DEF SpillMapIsExact
  <2>1. CASE held[a] = NoBlock
    BY <2>1 DEF AdaptorInv, HeldOK
  <2>2. CASE held[a] # NoBlock
    BY <2>2 DEF AdaptorInv, HeldOK
  <2> QED
    BY <2>1, <2>2
<1> QED
  BY <1>1, AdaptorInvariant, PTL

\* No path of allocate or deallocate drops a block: the policy's retry, the
\* spills and the two-part deallocation included.
THEOREM NothingEverLeaks == Spec => []NothingLeaks
<1>1. AdaptorInv => NothingLeaks
  BY DEF AdaptorInv
<1> QED
  BY <1>1, AdaptorInvariant, PTL

\* A policy stays attached while a thread runs it: attach waits for the lock the
\* thread keeps.
THEOREM PoliciesOutliveTheirCalls == Spec => PolicyOutlivesItsCall
<1>1. AdaptorInv /\ [Next]_vars =>
        [\A t \in Threads :
           pc[t] = "retry" => policy'[call[t].stream] = policy[call[t].stream]]_vars
  <2> SUFFICES ASSUME AdaptorInv, [Next]_vars, NEW t \in Threads, pc[t] = "retry"
               PROVE  policy' = policy
    OBVIOUS
  <2>1. mutex # Nobody
    BY AdaptorAssumption DEF AdaptorInv, CallsOK
  <2>2. CASE UNCHANGED vars
    BY <2>2 DEF vars
  <2>3. CASE Next
    <3>1. PICK u \in Threads : Step(u) \/ Start(u)
      BY <2>3 DEF Next
    <3>2. CASE Step(u)
      BY <3>2 DEF Step, Upstream, Exhausted, SpillTo, PolicyThrows, PolicyRuns,
                  Recovered, GivesUp, Charge, Spill, Free, Credit
    <3>3. CASE Start(u)
      BY <2>1, <3>3 DEF Start, Allocate, Deallocate, DeallocateSpilled, Attach, Reset
    <3> QED
      BY <3>1, <3>2, <3>3
  <2> QED
    BY <2>2, <2>3
<1> QED
  BY <1>1, AdaptorInvariant, PTL DEF Spec, PolicyOutlivesItsCall

-----------------------------------------------------------------------------
(* The books: the live bytes as sums over all addresses and all threads     *)

\* The bytes by which a block, or a call on its way to the credit, counts for s.
Weight(b, s) == IF b.stream = s THEN b.bytes ELSE 0
Owing(t, s) == IF t \in Crediting THEN Weight(call[t], s) ELSE 0

HeldSum(s) == Sum([a \in Addresses |-> Weight(held[a], s)], Addresses)
OwedSum(s) == Sum([t \in Threads |-> Owing(t, s)], Threads)
LiveSum(s) == HeldSum(s) + OwedSum(s)
AllLive == Sum([s \in Streams |-> LiveSum(s)], Streams)

LEMMA HeldIsSum ==
  ASSUME TypeOK, NEW s \in Streams
  PROVE  MapThenSumSet(LAMBDA a : held[a].bytes, {a \in Addresses : held[a].stream = s})
           = HeldSum(s)
<1> DEFINE T == {a \in Addresses : held[a].stream = s}
           f == [a \in Addresses |-> Weight(held[a], s)]
           M == MapThenSumSet(LAMBDA a : held[a].bytes, T)
           U(g) == g = [r \in SUBSET T |-> IF r = {} THEN 0
                          ELSE held[First(r)].bytes + g[r \ {First(r)}]]
<1>1. M = (CHOOSE g : U(g))[T]
  BY DEF MapThenSumSet, MapThenFoldSet, First
<1>2. \A r \in SUBSET T : r # {} => held[First(r)].bytes = f[First(r)]
  BY FirstIsIn DEF Weight
<1>3. \A g : U(g) <=> Unfolded(g, f, T)
  BY <1>2 DEF Unfolded
<1>4. IsFiniteSet(T) /\ T \in SUBSET Addresses
  BY AdaptorAssumption, FS_Subset
<1>5. \E g : U(g)
  BY <1>3, <1>4, UnfoldedExists
<1> DEFINE h == CHOOSE g : U(g)
<1>6. U(h)
  BY <1>5
<1>7. Unfolded(h, f, T)
  BY <1>3, <1>6
<1>8. (\A a \in Addresses : f[a] \in Int) /\ \A a \in Addresses \ T : f[a] = 0
  BY DEF TypeOK, BlockType, Weight
<1>9. HeldSum(s) = Sum(f, Addresses)
  BY DEF HeldSum
<1> HIDE DEF h, U, f, T
<1>10. M = Sum(f, T)
  BY <1>1, <1>4, <1>7, SumIsUnfolded, T \in SUBSET T DEF h
<1>11. Sum(f, T) = Sum(f, Addresses)
  BY <1>4, <1>8, AdaptorAssumption, SumOfPart
<1> QED
  BY <1>9, <1>10, <1>11 DEF M, T

LEMMA OwedIsSum ==
  ASSUME TypeOK, NEW s \in Streams
  PROVE  MapThenSumSet(LAMBDA t : call[t].bytes, {t \in Crediting : call[t].stream = s})
           = OwedSum(s)
<1> DEFINE T == {t \in Crediting : call[t].stream = s}
           f == [t \in Threads |-> Owing(t, s)]
           M == MapThenSumSet(LAMBDA t : call[t].bytes, T)
           U(g) == g = [r \in SUBSET T |-> IF r = {} THEN 0
                          ELSE call[First(r)].bytes + g[r \ {First(r)}]]
<1>1. M = (CHOOSE g : U(g))[T]
  BY DEF MapThenSumSet, MapThenFoldSet, First
<1>2. \A r \in SUBSET T : r # {} => call[First(r)].bytes = f[First(r)]
  BY FirstIsIn DEF Owing, Weight, Crediting
<1>3. \A g : U(g) <=> Unfolded(g, f, T)
  BY <1>2 DEF Unfolded
<1>4. IsFiniteSet(T) /\ T \in SUBSET Threads
  BY AdaptorAssumption, FS_Subset DEF Crediting
<1>5. \E g : U(g)
  BY <1>3, <1>4, UnfoldedExists
<1> DEFINE h == CHOOSE g : U(g)
<1>6. U(h)
  BY <1>5
<1>7. Unfolded(h, f, T)
  BY <1>3, <1>6
<1>8. (\A t \in Threads : f[t] \in Int) /\ \A t \in Threads \ T : f[t] = 0
  BY DEF TypeOK, CallType, Owing, Weight
<1>9. OwedSum(s) = Sum(f, Threads)
  BY DEF OwedSum
<1> HIDE DEF h, U, f, T
<1>10. M = Sum(f, T)
  BY <1>1, <1>4, <1>7, SumIsUnfolded, T \in SUBSET T DEF h
<1>11. Sum(f, T) = Sum(f, Threads)
  BY <1>4, <1>8, AdaptorAssumption, SumOfPart
<1> QED
  BY <1>9, <1>10, <1>11 DEF M, T

LEMMA LiveIsSum ==
  ASSUME TypeOK, NEW s \in Streams
  PROVE  Live(s) = LiveSum(s)
BY HeldIsSum, OwedIsSum DEF Live, LiveSum

LEMMA AllLiveIsSum ==
  ASSUME TypeOK
  PROVE  MapThenSumSet(Live, Streams) = AllLive
<1> DEFINE f == [s \in Streams |-> LiveSum(s)]
           U(g) == g = [r \in SUBSET Streams |-> IF r = {} THEN 0
                          ELSE Live(First(r)) + g[r \ {First(r)}]]
<1>1. MapThenSumSet(Live, Streams) = (CHOOSE g : U(g))[Streams]
  BY DEF MapThenSumSet, MapThenFoldSet, First
<1>2. \A r \in SUBSET Streams : r # {} => Live(First(r)) = f[First(r)]
  BY FirstIsIn, LiveIsSum
<1>3. \A g : U(g) <=> Unfolded(g, f, Streams)
  BY <1>2 DEF Unfolded
<1>4. IsFiniteSet(Streams)
  BY AdaptorAssumption
<1>5. \E g : U(g)
  BY <1>3, <1>4, UnfoldedExists
<1> DEFINE h == CHOOSE g : U(g)
<1>6. U(h)
  BY <1>5
<1>7. Unfolded(h, f, Streams)
  BY <1>3, <1>6
<1> HIDE DEF h, U, f
<1> QED
  BY <1>1, <1>4, <1>7, SumIsUnfolded, Streams \in SUBSET Streams DEF h, AllLive, f


-----------------------------------------------------------------------------
(* How a step moves the sums                                                *)

LEMMA WeightsAreNat ==
  ASSUME TypeOK
  PROVE  /\ \A a \in Addresses : \A s \in Streams : Weight(held[a], s) \in Nat
         /\ \A t \in Threads : \A s \in Streams : Owing(t, s) \in Nat
BY DEF TypeOK, BlockType, CallType, Weight, Owing

\* The live bytes of a stream cover each block and each call that counts for it,
\* and those of all streams the live bytes of each.
LEMMA LiveCovers ==
  ASSUME TypeOK, NEW s \in Streams
  PROVE  /\ HeldSum(s) \in Nat /\ OwedSum(s) \in Nat /\ LiveSum(s) \in Nat
         /\ \A a \in Addresses : LiveSum(s) >= Weight(held[a], s)
         /\ \A t \in Threads : LiveSum(s) >= Owing(t, s)
<1> DEFINE f == [a \in Addresses |-> Weight(held[a], s)]
           g == [t \in Threads |-> Owing(t, s)]
<1>1. (\A a \in Addresses : f[a] \in Nat) /\ \A t \in Threads : g[t] \in Nat
  BY WeightsAreNat
<1>2. IsFiniteSet(Addresses) /\ IsFiniteSet(Threads)
  BY AdaptorAssumption
<1>3. HeldSum(s) = Sum(f, Addresses) /\ OwedSum(s) = Sum(g, Threads)
  BY DEF HeldSum, OwedSum
<1>4. ASSUME NEW a \in Addresses PROVE HeldSum(s) >= Weight(held[a], s)
  <2>1. f[a] = Weight(held[a], s)
    OBVIOUS
  <2> HIDE DEF f
  <2> QED
    BY <1>1, <1>2, <1>3, <2>1, SumCovers
<1>5. ASSUME NEW t \in Threads PROVE OwedSum(s) >= Owing(t, s)
  <2>1. g[t] = Owing(t, s)
    OBVIOUS
  <2> HIDE DEF g
  <2> QED
    BY <1>1, <1>2, <1>3, <2>1, SumCovers
<1>6. HeldSum(s) \in Nat /\ OwedSum(s) \in Nat
  <2> HIDE DEF f, g
  <2> QED
    BY <1>1, <1>2, <1>3, SumNat
<1> QED
  BY <1>4, <1>5, <1>6, WeightsAreNat DEF LiveSum

LEMMA AllLiveCovers ==
  ASSUME TypeOK, NEW s \in Streams
  PROVE  AllLive \in Nat /\ AllLive >= LiveSum(s)
<1> DEFINE f == [u \in Streams |-> LiveSum(u)]
<1>1. \A u \in Streams : f[u] \in Nat
  BY LiveCovers
<1>2. AllLive = Sum(f, Streams) /\ f[s] = LiveSum(s) /\ IsFiniteSet(Streams)
  BY AdaptorAssumption DEF AllLive
<1> HIDE DEF f
<1> QED
  BY <1>1, <1>2, SumCovers, SumNat

\* One address changes hands.
LEMMA HeldMoves ==
  ASSUME TypeOK, TypeOK', NEW a \in Addresses, NEW s \in Streams,
         \A b \in Addresses \ {a} : held'[b] = held[b]
  PROVE  HeldSum(s)' = HeldSum(s) + Weight(held'[a], s) - Weight(held[a], s)
<1> DEFINE f == [b \in Addresses |-> Weight(held[b], s)]
           g == [b \in Addresses |-> Weight(held'[b], s)]
<1>1. (\A b \in Addresses : f[b] \in Int) /\ g[a] \in Int
  BY DEF TypeOK, BlockType, Weight
<1>2. \A b \in Addresses \ {a} : g[b] = f[b]
  OBVIOUS
<1>3. /\ HeldSum(s) = Sum(f, Addresses) /\ HeldSum(s)' = Sum(g, Addresses)
      /\ f[a] = Weight(held[a], s) /\ g[a] = Weight(held'[a], s)
  BY DEF HeldSum
<1> HIDE DEF f, g
<1>4. Sum(g, Addresses) = Sum(f, Addresses) + g[a] - f[a]
  BY <1>1, <1>2, AdaptorAssumption, SumChange
<1> QED
  BY <1>3, <1>4

\* One call changes.
LEMMA OwedMoves ==
  ASSUME TypeOK, TypeOK', NEW t \in Threads, NEW s \in Streams, OthersKeep(t)
  PROVE  OwedSum(s)' = OwedSum(s) + Owing(t, s)' - Owing(t, s)
<1> DEFINE f == [u \in Threads |-> Owing(u, s)]
           g == [u \in Threads |-> Owing(u, s)']
<1>1. (\A u \in Threads : f[u] \in Int) /\ g[t] \in Int
  BY DEF TypeOK, CallType, Owing, Weight
<1>2. \A u \in Threads \ {t} : g[u] = f[u]
  BY DEF OthersKeep, Owing, Crediting
<1>3. OwedSum(s) = Sum(f, Threads) /\ f[t] = Owing(t, s) /\ g[t] = Owing(t, s)'
  BY DEF OwedSum
<1>4. OwedSum(s)' = Sum(g, Threads)
  BY DEF OwedSum
<1> HIDE DEF f, g
<1>5. Sum(g, Threads) = Sum(f, Threads) + g[t] - f[t]
  BY <1>1, <1>2, AdaptorAssumption, SumChange
<1> QED
  BY <1>3, <1>4, <1>5

\* The live bytes of one stream change.
LEMMA AllLiveMoves ==
  ASSUME TypeOK, TypeOK', NEW s \in Streams,
         \A u \in Streams \ {s} : LiveSum(u)' = LiveSum(u)
  PROVE  AllLive' = AllLive + LiveSum(s)' - LiveSum(s)
<1> DEFINE f == [u \in Streams |-> LiveSum(u)]
           g == [u \in Streams |-> LiveSum(u)']
<1>1. \A u \in Streams : f[u] \in Int
  BY LiveCovers
<1>2. g[s] \in Int
  <2>1. HeldSum(s)' \in Int /\ OwedSum(s)' \in Int
    <3> DEFINE h == [a \in Addresses |-> Weight(held'[a], s)]
               o == [t \in Threads |-> Owing(t, s)']
    <3>1. (\A a \in Addresses : h[a] \in Int) /\ \A t \in Threads : o[t] \in Int
      BY DEF TypeOK, BlockType, CallType, Owing, Weight
    <3>2. HeldSum(s)' = Sum(h, Addresses)
      BY DEF HeldSum
    <3>3. OwedSum(s)' = Sum(o, Threads)
      BY DEF OwedSum
    <3> HIDE DEF h, o
    <3> QED
      BY <3>1, <3>2, <3>3, AdaptorAssumption, SumInt
  <2> QED
    BY <2>1 DEF LiveSum
<1>3. \A u \in Streams \ {s} : g[u] = f[u]
  OBVIOUS
<1>4. AllLive = Sum(f, Streams) /\ f[s] = LiveSum(s) /\ g[s] = LiveSum(s)'
  BY DEF AllLive
<1>5. AllLive' = Sum(g, Streams)
  BY DEF AllLive
<1> HIDE DEF f, g
<1>6. Sum(g, Streams) = Sum(f, Streams) + g[s] - f[s]
  BY <1>1, <1>2, <1>3, AdaptorAssumption, SumChange
<1> QED
  BY <1>4, <1>5, <1>6

-----------------------------------------------------------------------------
(* The books balance *)

Books ==
  /\ total = AllLive
  /\ \A s \in Streams \ Resettable : current[s] = LiveSum(s)
  /\ \A s \in Streams : current[s] <= LiveSum(s) /\ current[s] <= peak[s]

LEMMA BooksInit == Init => Books
<1> SUFFICES ASSUME Init PROVE Books
  OBVIOUS
<1>1. TypeOK
  BY AdaptorInit DEF AdaptorInv
<1>2. ASSUME NEW s \in Streams PROVE LiveSum(s) = 0
  <2> DEFINE f == [a \in Addresses |-> Weight(held[a], s)]
             g == [t \in Threads |-> Owing(t, s)]
  <2>1. \A a \in Addresses : f[a] = 0
    BY DEF Init, NoBlock, Weight
  <2>2. \A t \in Threads : g[t] = 0
    BY DEF Init, Owing, Crediting
  <2>3. LiveSum(s) = Sum(f, Addresses) + Sum(g, Threads)
    BY DEF LiveSum, HeldSum, OwedSum
  <2> HIDE DEF f, g
  <2>4. Sum(f, Addresses) = 0 /\ Sum(g, Threads) = 0
    BY <2>1, <2>2, AdaptorAssumption, SumIsZero
  <2> QED
    BY <2>3, <2>4
<1>3. AllLive = 0
  <2> DEFINE f == [s \in Streams |-> LiveSum(s)]
  <2>1. \A s \in Streams : f[s] = 0
    BY <1>2
  <2>2. AllLive = Sum(f, Streams)
    BY DEF AllLive
  <2> HIDE DEF f
  <2> QED
    BY <2>1, <2>2, AdaptorAssumption, SumIsZero
<1> QED
  BY <1>2, <1>3 DEF Init, Books

\* No live byte moves; a stream may be reset.
LEMMA BooksRest ==
  ASSUME TypeOK, TypeOK', Books, \A s \in Streams : LiveSum(s)' = LiveSum(s),
         total' = total,
         \A s \in Streams :
           \/ current'[s] = current[s] /\ peak'[s] = peak[s]
           \/ s \in Resettable /\ current'[s] = 0
  PROVE  Books'
<1>1. AllLive' = AllLive
  BY DEF AllLive
<1>2. \A s \in Streams : LiveSum(s) \in Nat /\ current[s] \in Nat /\ peak'[s] \in Nat
  BY LiveCovers DEF TypeOK
<1> QED
  BY <1>1, <1>2 DEF Books

LEMMA BooksUp ==
  ASSUME TypeOK, TypeOK', Books, NEW s \in Streams, NEW n \in Nat, Charged(s, n),
         LiveSum(s)' = LiveSum(s) + n, \A u \in Streams \ {s} : LiveSum(u)' = LiveSum(u)
  PROVE  Books'
<1>1. AllLive' = AllLive + LiveSum(s)' - LiveSum(s)
  BY AllLiveMoves
<1>2. LiveSum(s) \in Nat /\ AllLive \in Nat
  BY LiveCovers, AllLiveCovers
<1>3. total' = AllLive'
  BY <1>1, <1>2 DEF Charged, Books
<1>4. /\ current'[s] = current[s] + n
      /\ \A u \in Streams \ {s} : current'[u] = current[u] /\ peak'[u] = peak[u]
  BY DEF TypeOK, Charged
<1>5. peak'[s] >= current'[s]
  <2>1. peak'[s] = Max({peak[s], current[s] + n})
    BY DEF TypeOK, Charged
  <2>2. peak[s] \in Nat /\ current[s] + n \in Nat
    BY DEF TypeOK
  <2>3. \E x \in {peak[s], current[s] + n} : \A y \in {peak[s], current[s] + n} : x >= y
    BY <2>2
  <2>4. \A y \in {peak[s], current[s] + n} : Max({peak[s], current[s] + n}) >= y
    BY <2>3 DEF Max
  <2> QED
    BY <1>4, <2>1, <2>4
<1>6. \A u \in Streams : current[u] \in Nat /\ peak'[u] \in Nat /\ LiveSum(u) \in Nat
  BY LiveCovers DEF TypeOK
<1>7. \A u \in Streams \ Resettable : current'[u] = LiveSum(u)'
  BY <1>2, <1>4 DEF Books
<1>8. \A u \in Streams : current'[u] <= LiveSum(u)' /\ current'[u] <= peak'[u]
  BY <1>2, <1>4, <1>5, <1>6 DEF Books
<1> QED
  BY <1>3, <1>7, <1>8 DEF Books

\* The credit of live bytes never meets the clamp of the total; that of a stream
\* that was reset may.
LEMMA BooksDown ==
  ASSUME TypeOK, TypeOK', Books, NEW s \in Streams, NEW n \in Nat, Credited(s, n),
         n <= LiveSum(s),
         LiveSum(s)' = LiveSum(s) - n, \A u \in Streams \ {s} : LiveSum(u)' = LiveSum(u)
  PROVE  Books'
<1>1. AllLive' = AllLive + LiveSum(s)' - LiveSum(s)
  BY AllLiveMoves
<1>2. LiveSum(s) \in Nat /\ AllLive \in Nat /\ AllLive >= LiveSum(s)
  BY LiveCovers, AllLiveCovers
<1>3. total' = AllLive'
  BY <1>1, <1>2 DEF Credited, Books, Less
<1>4. /\ current'[s] = Less(current[s], n)
      /\ \A u \in Streams \ {s} : current'[u] = current[u]
      /\ \A u \in Streams : peak'[u] = peak[u]
  BY DEF TypeOK, Credited
<1>5. \A u \in Streams : current[u] \in Nat /\ peak[u] \in Nat /\ LiveSum(u) \in Nat
  BY LiveCovers DEF TypeOK
<1>6. \A u \in Streams \ Resettable : current'[u] = LiveSum(u)'
  BY <1>2, <1>4, <1>5 DEF Books, Less
<1>7. \A u \in Streams : current'[u] <= LiveSum(u)' /\ current'[u] <= peak'[u]
  BY <1>2, <1>4, <1>5 DEF Books, Less
<1> QED
  BY <1>3, <1>6, <1>7 DEF Books

LEMMA BooksStep ==
  ASSUME AdaptorInv, Books, Next, TypeOK'
  PROVE  Books'
<1>1. PICK t \in Threads : Step(t) \/ Start(t)
  BY DEF Next
<1>2. /\ TypeOK
      /\ pc \in [Threads -> {"idle", "upstream", "managed", "pinned", "policy", "retry",
                             "charge", "spill", "free", "credit"}]
      /\ call \in [Threads -> CallType] /\ call[t] \in CallType /\ call[t].bytes \in Nat
  BY DEF AdaptorInv, TypeOK, CallType
<1>t. OthersKeep(t)
  BY <1>1, <1>2 DEF OthersKeep, Step, Start, Goto, Return, Upstream, Exhausted, SpillTo,
     PolicyThrows, PolicyRuns, Recovered, GivesUp, Charge, Spill, Free, Credit, Allocate,
     Deallocate, DeallocateSpilled, Attach, Reset, Obtain
<1>o. \A s \in Streams : /\ Owing(t, s) \in Nat /\ Owing(t, s)' \in Nat
                         /\ HeldSum(s) \in Nat /\ OwedSum(s) \in Nat
  BY <1>2, LiveCovers DEF TypeOK, CallType, Owing, Weight
<1>b. /\ pc[t] \notin {"free", "credit"} => \A s \in Streams : Owing(t, s) = 0
      /\ pc[t] \in {"free", "credit"} =>
           \A s \in Streams : Owing(t, s) = Weight(call[t], s)
      /\ pc'[t] \notin {"free", "credit"} => \A s \in Streams : Owing(t, s)' = 0
      /\ pc'[t] \in {"free", "credit"} =>
           \A s \in Streams : Owing(t, s)' = Weight(call'[t], s)
  BY DEF Owing, Crediting
<1>3. ASSUME UNCHANGED held, \A s \in Streams : Owing(t, s)' = Owing(t, s)
      PROVE  \A s \in Streams : LiveSum(s)' = LiveSum(s)
  <2> TAKE s \in Streams
  <2>1. HeldSum(s)' = HeldSum(s)
    BY <1>3 DEF HeldSum
  <2>2. OwedSum(s)' = OwedSum(s)
    BY <1>2, <1>3, <1>t, <1>o, OwedMoves
  <2> QED
    BY <2>1, <2>2 DEF LiveSum
<1>4. CASE \/ Upstream(t) \/ SpillTo(t, "managed", "managed")
           \/ SpillTo(t, "pinned", "pinned") \/ Recovered(t)
           \/ Exhausted(t, "upstream", "managed") \/ Exhausted(t, "managed", "pinned")
           \/ Exhausted(t, "pinned", "policy") \/ PolicyRuns(t)
           \/ PolicyThrows(t) \/ GivesUp(t)
           \/ \E s \in Streams, n \in Sizes : Allocate(t, s, n)
           \/ \E s \in Streams, p \in Policies : Attach(t, s, p)
  <2>1. UNCHANGED <<held, current, peak, total>>
    BY <1>4 DEF Upstream, SpillTo, Recovered, Exhausted, PolicyRuns, PolicyThrows, GivesUp,
                Allocate, Attach, blocks, counters
  <2>2. \/ pc[t] \notin {"free", "credit"} /\ pc'[t] \notin {"free", "credit"}
    BY <1>2, <1>4 DEF Upstream, SpillTo, Recovered, Exhausted, PolicyRuns, PolicyThrows,
                GivesUp, Allocate, Attach, Goto, Return
  <2>3. \A s \in Streams : LiveSum(s)' = LiveSum(s)
    BY <1>3, <1>b, <2>1, <2>2
  <2> QED
    BY <1>2, <2>1, <2>3, BooksRest
<1>5. CASE Free(t)
  <2>1. UNCHANGED <<held, current, peak, total>> /\ pc[t] = "free" /\ pc'[t] = "credit"
    BY <1>2, <1>5 DEF Free, counters, Goto
  <2>2. call'[t].stream = call[t].stream /\ call'[t].bytes = call[t].bytes
    BY <1>2, <1>5 DEF Free, CallType
  <2>3. \A s \in Streams : Owing(t, s)' = Owing(t, s)
    BY <1>b, <2>1, <2>2 DEF Weight
  <2>4. \A s \in Streams : LiveSum(s)' = LiveSum(s)
    BY <1>3, <2>1, <2>3
  <2> QED
    BY <1>2, <2>1, <2>4, BooksRest
<1>6. CASE \E s \in Resettable : Reset(t, s)
  <2>1. PICK s \in Resettable : Reset(t, s)
    BY <1>6
  <2>2. UNCHANGED <<held, pc, call, total>>
    BY <2>1 DEF Reset, blocks
  <2>3. \A u \in Streams : Owing(t, u)' = Owing(t, u)
    BY <2>2 DEF Owing, Crediting
  <2>4. \A u \in Streams : LiveSum(u)' = LiveSum(u)
    BY <1>3, <2>2, <2>3
  <2>5. \A u \in Streams : \/ current'[u] = current[u] /\ peak'[u] = peak[u]
                           \/ u \in Resettable /\ current'[u] = 0
    BY <1>2, <2>1 DEF Reset, TypeOK
  <2> QED
    BY <1>2, <2>2, <2>4, <2>5, BooksRest
<1>7. CASE Charge(t) \/ Spill(t)
  <2> DEFINE a == call[t].ptr
             s == call[t].stream
             n == call[t].bytes
  <2>1. a \in Addresses /\ s \in Streams /\ n \in Nat /\ held[a] = NoBlock
    BY <1>2, <1>7 DEF AdaptorInv, CarriedOK, CallsOK, Carries, Charge, Spill
  <2>2. /\ held'[a] = [stream |-> s, bytes |-> n]
        /\ \A b \in Addresses \ {a} : held'[b] = held[b]
    BY <1>2, <1>7, <2>1 DEF Charge, Spill, Delivered, TypeOK
  <2>3. Charged(s, n)
    BY <1>7 DEF Charge, Spill
  <2>4. pc[t] \notin {"free", "credit"} /\ pc'[t] \notin {"free", "credit"}
    BY <1>2, <1>7 DEF Charge, Spill, Return, Goto
  <2>5. \A u \in Streams : OwedSum(u)' = OwedSum(u)
    BY <1>2, <1>t, <1>o, <1>b, <2>4, OwedMoves
  <2>6. \A u \in Streams : /\ Weight(held[a], u) = 0
                           /\ Weight(held'[a], u) = IF u = s THEN n ELSE 0
    BY <2>1, <2>2, AdaptorAssumption DEF Weight, NoBlock
  <2> HIDE DEF a, s, n
  <2>7. \A u \in Streams : HeldSum(u)' = HeldSum(u) + (IF u = s THEN n ELSE 0) - 0
    BY <1>2, <2>1, <2>2, <2>6, HeldMoves
  <2>8. \A u \in Streams : LiveSum(u)' = LiveSum(u) + IF u = s THEN n ELSE 0
    BY <1>o, <2>1, <2>5, <2>7 DEF LiveSum
  <2>9. \A u \in Streams : LiveSum(u) \in Nat
    BY <1>2, LiveCovers
  <2> QED
    BY <1>2, <2>1, <2>3, <2>8, <2>9, BooksUp
<1>8. CASE Credit(t)
  <2> DEFINE s == call[t].stream
             n == call[t].bytes
  <2>1. s \in Streams /\ n \in Nat /\ Credited(s, n) /\ UNCHANGED held
    BY <1>2, <1>8 DEF AdaptorInv, CallsOK, Credit, blocks
  <2>2. pc[t] = "credit" /\ pc'[t] = "idle"
    BY <1>2, <1>8 DEF Credit, Return, Goto
  <2>3. \A u \in Streams : Owing(t, u)' = 0 /\ Owing(t, u) = IF u = s THEN n ELSE 0
    BY <1>b, <2>2 DEF Weight
  <2> HIDE DEF s, n
  <2>4. \A u \in Streams : OwedSum(u)' = OwedSum(u) + 0 - IF u = s THEN n ELSE 0
    BY <1>2, <1>t, <2>3, OwedMoves
  <2>5. \A u \in Streams : HeldSum(u)' = HeldSum(u)
    BY <2>1 DEF HeldSum
  <2>6. \A u \in Streams : LiveSum(u)' = LiveSum(u) - IF u = s THEN n ELSE 0
    BY <1>o, <2>1, <2>4, <2>5 DEF LiveSum
  <2>7. \A u \in Streams : LiveSum(u) \in Nat
    BY <1>2, LiveCovers
  <2>8. n <= LiveSum(s)
    <3>1. Owing(t, s) = n
      BY <2>1, <2>3
    <3> QED
      BY <1>2, <2>1, <2>7, <3>1, LiveCovers
  <2> QED
    BY <1>2, <2>1, <2>6, <2>7, <2>8, BooksDown
<1>9. CASE \E a \in Addresses : Deallocate(t, a)
  <2>1. PICK a \in Addresses : Deallocate(t, a)
    BY <1>9
  <2>2. /\ held'[a] = NoBlock /\ \A b \in Addresses \ {a} : held'[b] = held[b]
        /\ UNCHANGED <<current, peak, total>>
        /\ pc[t] = "idle" /\ pc'[t] = "free"
        /\ call'[t].stream = held[a].stream /\ call'[t].bytes = held[a].bytes
    BY <1>2, <2>1 DEF Deallocate, counters, Goto, TypeOK, NoCall
  <2>3. \A u \in Streams : /\ Weight(held'[a], u) = 0 /\ Weight(held[a], u) \in Nat
                           /\ Owing(t, u) = 0 /\ Owing(t, u)' = Weight(held[a], u)
    BY <1>2, <1>b, <2>2, AdaptorAssumption, WeightsAreNat DEF Weight, NoBlock
  <2>4. \A u \in Streams : /\ HeldSum(u)' = HeldSum(u) + 0 - Weight(held[a], u)
                           /\ OwedSum(u)' = OwedSum(u) + Weight(held[a], u) - 0
    BY <1>2, <1>t, <2>2, <2>3, HeldMoves, OwedMoves
  <2>5. \A u \in Streams : LiveSum(u)' = LiveSum(u)
    BY <1>o, <2>3, <2>4 DEF LiveSum
  <2> QED
    BY <1>2, <2>2, <2>5, BooksRest
<1>10. CASE \E a \in Addresses : DeallocateSpilled(t, a)
  <2>1. PICK a \in Addresses : DeallocateSpilled(t, a)
    BY <1>10
  <2> DEFINE s == held[a].stream
             n == held[a].bytes
  <2>2. /\ held'[a] = NoBlock /\ \A b \in Addresses \ {a} : held'[b] = held[b]
        /\ UNCHANGED <<pc, call>> /\ Credited(s, n)
    BY <1>2, <2>1 DEF DeallocateSpilled, TypeOK
  <2>3. s \in Streams /\ n \in Nat
    BY <1>2, <2>1 DEF DeallocateSpilled, AdaptorInv, HeldOK, TypeOK, BlockType
  <2>4. \A u \in Streams : /\ Weight(held'[a], u) = 0
                           /\ Weight(held[a], u) = IF u = s THEN n ELSE 0
    BY <2>2, AdaptorAssumption DEF Weight, NoBlock
  <2>5. \A u \in Streams : OwedSum(u)' = OwedSum(u)
    BY <2>2 DEF OwedSum, Owing, Crediting
  <2> HIDE DEF s, n
  <2>6. \A u \in Streams : HeldSum(u)' = HeldSum(u) + 0 - IF u = s THEN n ELSE 0
    BY <1>2, <2>2, <2>4, HeldMoves
  <2>7. \A u \in Streams : LiveSum(u)' = LiveSum(u) - IF u = s THEN n ELSE 0
    BY <1>o, <2>3, <2>5, <2>6 DEF LiveSum
  <2>8. \A u \in Streams : LiveSum(u) \in Nat
    BY <1>2, LiveCovers
  <2>9. n <= LiveSum(s)
    <3>1. Weight(held[a], s) = n
      BY <2>3, <2>4
    <3> QED
      BY <1>2, <2>3, <2>8, <3>1, LiveCovers
  <2> QED
    BY <1>2, <2>2, <2>3, <2>7, <2>8, <2>9, BooksDown
<1> QED
  BY <1>1, <1>4, <1>5, <1>6, <1>7, <1>8, <1>9, <1>10 DEF Step, Start

LEMMA BooksStutter ==
  ASSUME Books, UNCHANGED vars
  PROVE  Books'
<1>1. \A s \in Streams : LiveSum(s)' = LiveSum(s)
  BY DEF vars, blocks, LiveSum, HeldSum, OwedSum, Owing, Crediting
<1>2. AllLive' = AllLive
  BY <1>1 DEF AllLive
<1> QED
  BY <1>1, <1>2 DEF Books, vars, counters

\* The charges of the streams and the total are the live bytes, for any number of
\* threads, streams and blocks, through spills, retries, two-part deallocations
\* and resets.  (allocate, deallocate and reset, lines 126-129 and 223-264.)
THEOREM BooksAlwaysBalance == Spec => []BooksAreExact
<1>1. AdaptorInv /\ AdaptorInv' /\ Books /\ [Next]_vars => Books'
  BY BooksStep, BooksStutter DEF AdaptorInv
<1>2. AdaptorInv /\ Books => BooksAreExact
  <2> SUFFICES ASSUME AdaptorInv, Books PROVE BooksAreExact
    OBVIOUS
  <2>1. TypeOK
    BY DEF AdaptorInv
  <2>2. total = MapThenSumSet(Live, Streams)
    BY <2>1, AllLiveIsSum DEF Books
  <2>3. \A s \in Streams : Live(s) = LiveSum(s) /\ LiveSum(s) \in Nat
    BY <2>1, LiveIsSum, LiveCovers
  <2>4. ASSUME NEW s \in Streams
        PROVE  current[s] \in 0 .. Min({Live(s), peak[s]})
    <3>1. Live(s) \in Nat /\ peak[s] \in Nat /\ current[s] \in Nat
      BY <2>1, <2>3 DEF TypeOK
    <3>2. \E x \in {Live(s), peak[s]} : \A y \in {Live(s), peak[s]} : x <= y
      BY <3>1
    <3>3. Min({Live(s), peak[s]}) \in {Live(s), peak[s]}
      BY <3>2 DEF Min
    <3>4. current[s] <= Live(s) /\ current[s] <= peak[s]
      BY <2>3 DEF Books
    <3> QED
      BY <3>1, <3>3, <3>4
  <2> QED
    BY <2>2, <2>3, <2>4 DEF BooksAreExact, Books
<1> QED
  BY <1>1, <1>2, BooksInit, AdaptorInvariant, PTL DEF Spec
=============================================================================
