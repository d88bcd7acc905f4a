--------------------------- MODULE HostPoolProofs ---------------------------
(***************************************************************************)
(* Theorems about HostPool, for every number of threads, reservations and  *)
(* blocks, every limit, block size and word width.                         *)
(***************************************************************************)
EXTENDS HostPool, Sums

-----------------------------------------------------------------------------
(* The conversions *)

LEMMA RoundDown ==
  ASSUME NEW x \in Nat, NEW d \in Nat \ {0}
  PROVE  (x \div d) * d \in 0 .. x
  OBVIOUS

LEMMA AlignUpType ==
  ASSUME NEW n \in 0 .. SizeMax
  PROVE  AlignUp(n) \in 0 .. SizeMax
<1>1. CASE n > SizeMax - (BlockSize - 1)
  BY <1>1, PoolAssumption DEF AlignUp
<1>2. CASE ~(n > SizeMax - (BlockSize - 1))
  <2> DEFINE x == n + BlockSize - 1
  <2>1. x \in 0 .. SizeMax /\ BlockSize \in Nat \ {0}
    BY <1>2, PoolAssumption
  <2>2. (x \div BlockSize) * BlockSize \in 0 .. x
    BY <2>1, RoundDown
  <2> QED
    BY <1>2, <2>1, <2>2, PoolAssumption DEF AlignUp
<1> QED
  BY <1>1, <1>2

LEMMA WholeBlocksType ==
  ASSUME NEW n \in 0 .. SizeMax
  PROVE  WholeBlocks(n) \in 0 .. SizeMax
<1>1. AlignUp(n) \in Nat /\ BlockSize \in Nat \ {0} /\ AlignUp(n) <= SizeMax
  BY AlignUpType, PoolAssumption
<1>2. (AlignUp(n) \div BlockSize) * BlockSize \in 0 .. AlignUp(n)
  BY <1>1, RoundDown
<1> QED
  BY <1>1, <1>2, PoolAssumption DEF WholeBlocks

\* A signed size is an integer, and a size_t again where it is positive.
LEMMA SignedType ==
  ASSUME NEW n \in 0 .. SizeMax
  PROVE  Signed(n) \in Int /\ Signed(n) <= n
  BY PoolAssumption DEF Signed

LEMMA OverflowChargeType ==
  ASSUME NEW pre \in Int, NEW n \in 0 .. SizeMax, NEW r \in Int
  PROVE  OverflowCharge(pre, n, r) \in 0 .. n
  BY PoolAssumption DEF OverflowCharge, Signed

LEMMA OverflowCreditType ==
  ASSUME NEW pre \in Int, NEW n \in 0 .. SizeMax, NEW r \in Int
  PROVE  OverflowCredit(pre, n, r) \in 0 .. n
  BY PoolAssumption DEF OverflowCredit, Signed

LEMMA UnconsumedType ==
  ASSUME NEW s \in 0 .. SizeMax, NEW u \in Int
  PROVE  Unconsumed(Signed(s), u) \in 0 .. SizeMax
  BY PoolAssumption DEF Unconsumed, Signed

LEMMA GrownSizeType ==
  ASSUME NEW s \in 0 .. SizeMax, NEW n \in 0 .. SizeMax
  PROVE  GrownSize(s, n) \in 0 .. SizeMax
  BY PoolAssumption DEF GrownSize

-----------------------------------------------------------------------------
(* Type correctness *)

\* What the place of a thread says of the call it runs.
CallOK(t) ==
  LET c == call[t] IN
  /\ pc[t] = "idle" => c = NoCall
  /\ pc[t] = "register" => c.op = "reserve"
  /\ pc[t] = "allocateLock" => c.op = "allocate"
  /\ pc[t] = "releaseLock" => c.op = "release"
  /\ pc[t] = "free" => c.op = "deallocate"
  /\ pc[t] = "malloc" => c.op \in {"allocate", "allocateRaw"}
  /\ pc[t] \in Charging => c.op \in {"reserve", "allocate", "allocateRaw"}
  /\ pc[t] \in Crediting => c.op # "reserve"
  /\ c.op = "release" => c.arena \in Arenas

TypeInv == TypeOK /\ \A t \in Threads : CallOK(t)

LEMMA NoCallType ==
  /\ NoCall \in CallType
  /\ NoCall.op = "none" /\ NoCall.arena = NoArena
  /\ NoCall.bytes = 0 /\ NoCall.charge = 0 /\ NoCall.seen = 0 /\ NoCall.now = 0
  BY PoolAssumption DEF NoCall, Call, CallType, Ops

LEMMA NewCallType ==
  ASSUME NEW op \in Ops, NEW n \in 0 .. SizeMax, NEW c \in 0 .. SizeMax,
         NEW a \in Arenas \cup {NoArena}
  PROVE  /\ Call(op, n, c, a) \in CallType
         /\ Call(op, n, c, a).op = op /\ Call(op, n, c, a).arena = a
         /\ Call(op, n, c, a).bytes = n /\ Call(op, n, c, a).charge = c
         /\ Call(op, n, c, a).seen = 0 /\ Call(op, n, c, a).now = 0
  BY PoolAssumption DEF Call, CallType, Ops

LEMMA LoopDoneType ==
  ASSUME NEW c \in CallType
  PROVE  /\ LoopDone(c) \in CallType
         /\ LoopDone(c).op = c.op /\ LoopDone(c).arena = c.arena
         /\ LoopDone(c).bytes = c.bytes /\ LoopDone(c).charge = c.charge
         /\ LoopDone(c).seen = 0 /\ LoopDone(c).now = 0
  BY PoolAssumption DEF LoopDone, Call, CallType

LEMMA RolledBackType ==
  ASSUME TypeOK, NEW t \in Threads, RollBackTracker(t) \/ UNCHANGED used
  PROVE  used' \in [Arenas -> Int]
<1>1. call[t].bytes \in 0 .. SizeMax /\ used \in [Arenas -> Int]
  BY DEF TypeOK, CallType
<1>2. Signed(call[t].bytes) \in Int
  BY <1>1, SignedType
<1>3. \A a \in Arenas : used[a] - Signed(call[t].bytes) \in Int
  BY <1>1, <1>2
<1> QED
  BY <1>1, <1>3 DEF RollBackTracker

LEMMA TypeInit == Init => TypeInv
  BY NoCallType, PoolAssumption
     DEF Init, TypeInv, TypeOK, CallOK, Labels, Charging, Crediting

LEMMA TypeStep == TypeInv /\ [Next]_vars => TypeInv'
<1> SUFFICES ASSUME TypeInv, [Next]_vars
             PROVE  TypeInv'
  OBVIOUS
<1> USE PoolAssumption
    DEF TypeInv, TypeOK, CallOK, Labels, Charging, Crediting, CallType, Ops,
        counters, registry, blocks, Goto, Enter, Return, Unlock
<1>1. CASE UNCHANGED vars
  BY <1>1 DEF vars
<1>2. ASSUME NEW t \in Threads, ChargeLoad(t) PROVE TypeInv'
  BY <1>2 DEF ChargeLoad
<1>3. ASSUME NEW t \in Threads, Charge(t) PROVE TypeInv'
  BY <1>3, LoopDoneType DEF Charge
<1>4. ASSUME NEW t \in Threads, CasRetry(t) PROVE TypeInv'
  BY <1>4 DEF CasRetry
<1>5. ASSUME NEW t \in Threads, ChargeUnlimited(t) PROVE TypeInv'
  BY <1>5 DEF ChargeUnlimited
<1>6. ASSUME NEW t \in Threads, ChargeRefused(t) PROVE TypeInv'
  <2>1. used' \in [Arenas -> Int]
    BY <1>6, RolledBackType DEF ChargeRefused
  <2> QED
    BY <1>6, <2>1, NoCallType DEF ChargeRefused
<1>7. ASSUME NEW t \in Threads, PeakLoadNow(t) PROVE TypeInv'
  BY <1>7 DEF PeakLoadNow
<1>8. ASSUME NEW t \in Threads, PeakLoadOld(t) PROVE TypeInv'
  BY <1>8 DEF PeakLoadOld
<1>9. ASSUME NEW t \in Threads, PeakRaise(t) PROVE TypeInv'
  <2>1. peak' \in 0 .. SizeMax
    BY <1>9 DEF PeakRaise
  <2> DEFINE next == Granted(call[t].op)
  <2>2. /\ next \in {"register", "malloc"}
        /\ next = "register" => call[t].op = "reserve"
        /\ next = "malloc" => call[t].op \in {"allocate", "allocateRaw"}
    BY <1>9 DEF PeakRaise, Granted
  <2> HIDE DEF next
  <2> DEFINE c == LoopDone(call[t])
  <2>3. /\ call' = [call EXCEPT ![t] = c]
        /\ pc' = [pc EXCEPT ![t] = next]
        /\ pc[t] = "peakCas"
        /\ UNCHANGED <<total, mutex, registry, blocks>>
    BY <1>9 DEF PeakRaise, next
  <2>4. c \in CallType /\ c.op = call[t].op /\ c.arena = call[t].arena
    <3>1. call[t] \in CallType
      OBVIOUS
    <3> HIDE DEF CallType
    <3> QED
      BY <3>1, LoopDoneType
  <2> HIDE DEF c
  <2> QED
    BY <2>1, <2>2, <2>3, <2>4
<1>10. ASSUME NEW t \in Threads, PeakRetry(t) PROVE TypeInv'
  BY <1>10 DEF PeakRetry
<1>11. ASSUME NEW t \in Threads, CreditLoad(t) PROVE TypeInv'
  BY <1>11 DEF CreditLoad
<1>12. ASSUME NEW t \in Threads, Credit(t) PROVE TypeInv'
  <2>1. used' \in [Arenas -> Int]
    BY <1>12, RolledBackType DEF Credit
  <2> QED
    BY <1>12, <2>1, NoCallType DEF Credit
<1>13. ASSUME NEW t \in Threads, NEW n \in Requests, Reserve(t, n) PROVE TypeInv'
  <2>1. AlignUp(n) \in 0 .. SizeMax
    BY AlignUpType
  <2> QED
    BY <1>13, <2>1, NewCallType DEF Reserve, ChargeFrom, Granted
<1>14. ASSUME NEW t \in Threads, NEW a \in Arenas, Register(t, a) PROVE TypeInv'
  BY <1>14, NoCallType DEF Register
<1>15. ASSUME NEW t \in Threads, NEW a \in Arenas, NEW n \in GrowBy, Grow(t, a, n)
       PROVE TypeInv'
  BY <1>15, GrownSizeType DEF Grow
<1>16. ASSUME NEW t \in Threads, NEW a \in Arenas, Release(t, a) PROVE TypeInv'
  BY <1>16, NewCallType DEF Release
<1>17. ASSUME NEW t \in Threads, Unregister(t) PROVE TypeInv'
  <2> DEFINE a == call[t].arena
             reclaimed == Unconsumed(Signed(size[a]), used[a])
  <2>1. a \in Arenas /\ reclaimed \in 0 .. SizeMax
    BY <1>17, UnconsumedType DEF Unregister
  <2>2. /\ active' \subseteq Arenas
        /\ used' \in [Arenas -> Int]
        /\ size' \in [Arenas -> 0 .. SizeMax]
        /\ UNCHANGED <<counters, handles, blocks>>
    BY <1>17, <2>1 DEF Unregister
  <2>3. CASE Return(t) /\ UNCHANGED mutex
    BY <1>17, <2>2, <2>3, NoCallType
  <2>4. CASE /\ Enter(t, [call[t] EXCEPT !.charge = reclaimed])
             /\ Goto(t, "creditLoad")
             /\ mutex' = t
    BY <1>17, <2>1, <2>2, <2>4 DEF Unregister
  <2> QED
    BY <1>17, <2>3, <2>4 DEF Unregister
<1>18. ASSUME NEW t \in Threads, NEW n \in Requests,
              NEW a \in handles \cup {NoArena}, Allocate(t, n, a)
       PROVE TypeInv'
  <2>1. WholeBlocks(n) \in 0 .. SizeMax /\ a \in Arenas \cup {NoArena}
    BY WholeBlocksType
  <2> QED
    BY <1>18, <2>1, NewCallType DEF Allocate
<1>19. ASSUME NEW t \in Threads, Track(t) PROVE TypeInv'
  <2> DEFINE a == call[t].arena
             n == call[t].bytes
             charge == IF a = NoArena THEN n
                       ELSE OverflowCharge(used[a], n, Signed(size[a]))
  <2>0. n \in 0 .. SizeMax /\ a \in Arenas \cup {NoArena}
    OBVIOUS
  <2>1. charge \in 0 .. SizeMax
    <3>1. ASSUME a # NoArena
          PROVE  OverflowCharge(used[a], n, Signed(size[a])) \in 0 .. n
      <4>1. used[a] \in Int /\ Signed(size[a]) \in Int
        BY <2>0, <3>1, SignedType
      <4> QED
        BY <2>0, <4>1, OverflowChargeType
    <3> QED
      BY <2>0, <3>1
  <2>2. used' \in [Arenas -> Int]
    <3>1. Signed(n) \in Int
      BY <2>0, SignedType
    <3> HIDE DEF n
    <3>2. \A x \in Arenas : used[x] + Signed(n) \in Int
      BY <3>1
    <3> QED
      BY <1>19, <3>2 DEF Track, n
  <2>3. ChargeFrom("allocate", charge) \in {"malloc", "chargeLoad"}
    BY DEF ChargeFrom, Granted
  <2> HIDE DEF charge
  <2>4. /\ call' = [call EXCEPT ![t] = [call[t] EXCEPT !.charge = charge]]
        /\ pc' = [pc EXCEPT ![t] = ChargeFrom("allocate", charge)]
        /\ pc[t] = "allocateLock" /\ mutex' = t
        /\ UNCHANGED <<counters, active, size, handles, blocks>>
    BY <1>19 DEF Track, charge
  <2> QED
    BY <2>1, <2>2, <2>3, <2>4
<1>20. ASSUME NEW t \in Threads, TrackRefused(t) PROVE TypeInv'
  BY <1>20, NoCallType DEF TrackRefused
<1>21. ASSUME NEW t \in Threads, NEW n \in RawRequests, AllocateRaw(t, n)
       PROVE TypeInv'
  BY <1>21, NewCallType DEF AllocateRaw, ChargeFrom, Granted
<1>22. ASSUME NEW t \in Threads, NEW b \in Blocks, Malloc(t, b) PROVE TypeInv'
  BY <1>22, NoCallType DEF Malloc
<1>23. ASSUME NEW t \in Threads, MallocFails(t) PROVE TypeInv'
  <2>1. used' \in [Arenas -> Int]
    BY <1>23, RolledBackType DEF MallocFails
  <2>2. CASE call[t].charge = 0
    <3>1. /\ pc' = [pc EXCEPT ![t] = "idle"] /\ call' = [call EXCEPT ![t] = NoCall]
          /\ mutex' \in {mutex, NoThread}
          /\ UNCHANGED <<counters, active, size, handles, blocks>>
      BY <1>23, <2>2 DEF MallocFails
    <3> QED
      BY <2>1, <3>1, NoCallType
  <2>3. CASE call[t].charge # 0
    BY <1>23, <2>1, <2>3 DEF MallocFails
  <2> QED
    BY <2>2, <2>3
<1>24. ASSUME NEW t \in Threads, NEW b \in Blocks, Unmap(t, b) PROVE TypeInv'
  <2> DEFINE a == owner[b]
             n == bytes[b]
             credit == IF a \in active
                         THEN OverflowCredit(used[a], n, Signed(size[a]))
                         ELSE n
  <2>0. n \in 0 .. SizeMax
    OBVIOUS
  <2>1. credit \in 0 .. SizeMax
    <3>1. ASSUME a \in active
          PROVE  OverflowCredit(used[a], n, Signed(size[a])) \in 0 .. n
      <4>1. used[a] \in Int /\ Signed(size[a]) \in Int
        BY <3>1, SignedType
      <4> QED
        BY <2>0, <4>1, OverflowCreditType
    <3> QED
      BY <2>0, <3>1
  <2>2. used' \in [Arenas -> Int]
    <3>1. Signed(n) \in Int
      BY SignedType
    <3>2. \A x \in Arenas : used[x] - Signed(n) \in Int
      BY <3>1
    <3> QED
      BY <1>24, <3>2 DEF Unmap
  <2> HIDE DEF credit
  <2>3. /\ call' = [call EXCEPT ![t] = Call("deallocate", n, credit, NoArena)]
        /\ pc' = [pc EXCEPT ![t] = "free"]
        /\ liveAllocs' = liveAllocs \ {b}
        /\ bytes' = [bytes EXCEPT ![b] = 0]
        /\ owner' = [owner EXCEPT ![b] = NoArena]
        /\ UNCHANGED <<counters, mutex, active, size, handles, rawBlocks, pinned>>
    BY <1>24 DEF Unmap, credit
  <2> QED
    BY <2>1, <2>2, <2>3, NewCallType
<1>25. ASSUME NEW t \in Threads, FreeHost(t) PROVE TypeInv'
  BY <1>25, NoCallType DEF FreeHost
<1>26. ASSUME NEW t \in Threads, NEW b \in Blocks, DeallocateRaw(t, b)
       PROVE TypeInv'
  BY <1>26, NewCallType DEF DeallocateRaw
<1> QED
  BY <1>1, <1>2, <1>3, <1>4, <1>5, <1>6, <1>7, <1>8, <1>9, <1>10, <1>11, <1>12,
     <1>13, <1>14, <1>15, <1>16, <1>17, <1>18, <1>19, <1>20, <1>21, <1>22,
     <1>23, <1>24, <1>25, <1>26
     DEF Next, Step, Start

\* Type correctness: the conversions, the charges and the credits of every
\* call stay in the ranges of their C++ types.
THEOREM TypeCorrect == Spec => []TypeOK
<1>1. Init => TypeInv
  BY TypeInit
<1>2. TypeInv /\ [Next]_vars => TypeInv'
  BY TypeStep
<1>3. TypeInv => TypeOK
  BY DEF TypeInv
<1> QED
  BY <1>1, <1>2, <1>3, PTL DEF Spec

\* The labels and the kinds of call agree: the strengthening TypeStep needs.
THEOREM TypeInvariance == Spec => []TypeInv
  BY TypeInit, TypeStep, PTL DEF Spec

-----------------------------------------------------------------------------
(* Which steps touch the counter. *)

LEMMA CounterStep ==
  ASSUME [Next]_vars
  PROVE  \/ UNCHANGED total
         \/ \E t \in Threads : Charge(t) \/ ChargeUnlimited(t) \/ Credit(t)
<1>1. ASSUME NEW t \in Threads, Step(t)
      PROVE  UNCHANGED total \/ Charge(t) \/ ChargeUnlimited(t) \/ Credit(t)
  BY <1>1, Zenon
     DEF Step, counters, ChargeLoad, CasRetry, ChargeRefused, PeakLoadNow,
         PeakLoadOld, PeakRaise, PeakRetry, CreditLoad, Register, Unregister,
         Track, TrackRefused, Malloc, MallocFails, FreeHost
<1>2. ASSUME NEW t \in Threads, Start(t)
      PROVE  UNCHANGED total
  BY <1>2, Zenon
     DEF Start, counters, Reserve, Allocate, AllocateRaw, Release, Grow, Unmap,
         DeallocateRaw
<1>3. CASE UNCHANGED vars
  BY <1>3 DEF vars, counters
<1> QED
  BY <1>1, <1>2, <1>3 DEF Next

-----------------------------------------------------------------------------
(* The limit *)

\* No interleaving of compare-and-swap loops pushes total_allocated_ past a
\* non-zero mem_limit_, with or without grown reservations.
THEOREM NeverPastLimit == Spec => []TotalWithinLimit
<1>1. Init => TotalWithinLimit
  BY PoolAssumption DEF Init, TotalWithinLimit
<1>2. TypeInv /\ TotalWithinLimit /\ [Next]_vars => TotalWithinLimit'
  <2> SUFFICES ASSUME TypeInv, TotalWithinLimit, [Next]_vars, MemLimit # 0
               PROVE  total' <= MemLimit
    BY DEF TotalWithinLimit
  <2> USE PoolAssumption
  <2>1. total \in 0 .. SizeMax /\ total <= MemLimit
    BY DEF TypeInv, TypeOK, TotalWithinLimit
  <2>2. \A t \in Threads : call[t].charge \in 0 .. SizeMax
    BY DEF TypeInv, TypeOK, CallType
  <2>3. CASE UNCHANGED total
    BY <2>1, <2>3
  <2>4. ASSUME NEW t \in Threads, Charge(t) PROVE total' <= MemLimit
    BY <2>1, <2>2, <2>4 DEF Charge
  <2>5. ASSUME NEW t \in Threads, Credit(t) PROVE total' <= MemLimit
    BY <2>1, <2>2, <2>5 DEF Credit
  <2> QED
    BY <2>3, <2>4, <2>5, CounterStep DEF ChargeUnlimited
<1> QED
  BY <1>1, <1>2, TypeInvariance, PTL DEF Spec

-----------------------------------------------------------------------------
(* The mutex and the trackers *)

\* A thread is inside the critical section of allocate_multiple_blocks past
\* its first line, or in the credit that ends release_reservation.
InMutex(t) ==
  \/ call[t].op = "allocate" /\ pc[t] \in Charging \cup Crediting
  \/ call[t].op = "release" /\ pc[t] \in Crediting

MutexInv ==
  \A t \in Threads :
    /\ mutex = t <=> InMutex(t)
    /\ call[t].op = "allocate" /\ InMutex(t) =>
         call[t].arena \in active \cup {NoArena}

LEMMA MutexStep == TypeInv /\ MutexInv /\ [Next]_vars => MutexInv'
<1> SUFFICES ASSUME TypeInv, MutexInv, [Next]_vars
             PROVE  MutexInv'
  OBVIOUS
<1>0. /\ NoThread \notin Threads
      /\ pc \in [Threads -> Labels] /\ call \in [Threads -> CallType]
      /\ \A t \in Threads : CallOK(t)
  BY PoolAssumption DEF TypeInv, TypeOK
<1> USE <1>0 DEF MutexInv, InMutex, CallOK, CallType, Charging, Crediting,
                 counters, registry, blocks, Goto, Enter, Return, Unlock
<1>1. CASE UNCHANGED vars
  BY <1>1 DEF vars
<1>2. ASSUME NEW t \in Threads, ChargeLoad(t) PROVE MutexInv'
  BY <1>2 DEF ChargeLoad
<1>3. ASSUME NEW t \in Threads, Charge(t) PROVE MutexInv'
  BY <1>3, LoopDoneType DEF Charge
<1>4. ASSUME NEW t \in Threads, CasRetry(t) PROVE MutexInv'
  BY <1>4 DEF CasRetry
<1>5. ASSUME NEW t \in Threads, ChargeUnlimited(t) PROVE MutexInv'
  BY <1>5 DEF ChargeUnlimited
<1>6. ASSUME NEW t \in Threads, ChargeRefused(t) PROVE MutexInv'
  BY <1>6, NoCallType DEF ChargeRefused
<1>7. ASSUME NEW t \in Threads, PeakLoadNow(t) PROVE MutexInv'
  BY <1>7 DEF PeakLoadNow
<1>8. ASSUME NEW t \in Threads, PeakLoadOld(t) PROVE MutexInv'
  BY <1>8 DEF PeakLoadOld
<1>9. ASSUME NEW t \in Threads, PeakRaise(t) PROVE MutexInv'
  BY <1>9, LoopDoneType DEF PeakRaise, Granted
<1>10. ASSUME NEW t \in Threads, PeakRetry(t) PROVE MutexInv'
  BY <1>10 DEF PeakRetry
<1>11. ASSUME NEW t \in Threads, CreditLoad(t) PROVE MutexInv'
  BY <1>11 DEF CreditLoad
<1>12. ASSUME NEW t \in Threads, Credit(t) PROVE MutexInv'
  BY <1>12, NoCallType DEF Credit
<1>13. ASSUME NEW t \in Threads, NEW n \in Requests, Reserve(t, n) PROVE MutexInv'
  BY <1>13 DEF Reserve, ChargeFrom, Granted, Call, NoCall
<1>14. ASSUME NEW t \in Threads, NEW a \in Arenas, Register(t, a) PROVE MutexInv'
  BY <1>14, NoCallType DEF Register
<1>15. ASSUME NEW t \in Threads, NEW a \in Arenas, NEW n \in GrowBy, Grow(t, a, n)
       PROVE MutexInv'
  BY <1>15 DEF Grow
<1>16. ASSUME NEW t \in Threads, NEW a \in Arenas, Release(t, a) PROVE MutexInv'
  BY <1>16 DEF Release, Call, NoCall
<1>17. ASSUME NEW t \in Threads, Unregister(t) PROVE MutexInv'
  BY <1>17, NoCallType DEF Unregister
<1>18. ASSUME NEW t \in Threads, NEW n \in Requests,
              NEW a \in handles \cup {NoArena}, Allocate(t, n, a)
       PROVE MutexInv'
  BY <1>18 DEF Allocate, Call, NoCall
<1>19. ASSUME NEW t \in Threads, Track(t) PROVE MutexInv'
  BY <1>19 DEF Track, ChargeFrom, Granted
<1>20. ASSUME NEW t \in Threads, TrackRefused(t) PROVE MutexInv'
  BY <1>20, NoCallType DEF TrackRefused
<1>21. ASSUME NEW t \in Threads, NEW n \in RawRequests, AllocateRaw(t, n)
       PROVE MutexInv'
  BY <1>21 DEF AllocateRaw, ChargeFrom, Granted, Call, NoCall
<1>22. ASSUME NEW t \in Threads, NEW b \in Blocks, Malloc(t, b) PROVE MutexInv'
  BY <1>22, NoCallType DEF Malloc
<1>23. ASSUME NEW t \in Threads, MallocFails(t) PROVE MutexInv'
  BY <1>23, NoCallType DEF MallocFails
<1>24. ASSUME NEW t \in Threads, NEW b \in Blocks, Unmap(t, b) PROVE MutexInv'
  BY <1>24 DEF Unmap, Call, NoCall
<1>25. ASSUME NEW t \in Threads, FreeHost(t) PROVE MutexInv'
  BY <1>25, NoCallType DEF FreeHost
<1>26. ASSUME NEW t \in Threads, NEW b \in Blocks, DeallocateRaw(t, b)
       PROVE MutexInv'
  BY <1>26 DEF DeallocateRaw, Call, NoCall
<1> QED
  BY <1>1, <1>2, <1>3, <1>4, <1>5, <1>6, <1>7, <1>8, <1>9, <1>10, <1>11, <1>12,
     <1>13, <1>14, <1>15, <1>16, <1>17, <1>18, <1>19, <1>20, <1>21, <1>22,
     <1>23, <1>24, <1>25, <1>26
     DEF Next, Step, Start

\* The mutex is held exactly by the call inside its critical section.
THEOREM MutexInvariance == Spec => []MutexInv
<1>1. Init => MutexInv
  BY NoCallType, PoolAssumption
     DEF Init, MutexInv, InMutex, Charging, Crediting
<1> QED
  BY <1>1, MutexStep, TypeInvariance, PTL DEF Spec

\* The tracker an allocation has charged is there until the allocation has
\* been registered or rolled back: no release destroys it in between.
THEOREM TrackersOutliveCalls == Spec => []TrackerOutlivesCall
<1>1. MutexInv => TrackerOutlivesCall
  BY DEF MutexInv, InMutex, TrackerOutlivesCall
<1> QED
  BY <1>1, MutexInvariance, PTL

-----------------------------------------------------------------------------
(* The peak *)

PeakLabels == {"peakNow", "peakOld", "peakCas"}

\* t will raise the peak to the counter, or to more.
Raises(t) ==
  \/ pc[t] = "peakNow"
  \/ pc[t] \in {"peakOld", "peakCas"} /\ total <= call[t].now

PeakInv ==
  /\ total <= peak \/ \E t \in Threads : Raises(t)
  /\ \A t \in Threads : pc[t] = "peakCas" => call[t].seen <= peak

LEMMA PeakStep ==
  ASSUME TypeInv, PeakInv, [Next]_vars
  PROVE  PeakInv'
<1>0. /\ pc \in [Threads -> Labels] /\ call \in [Threads -> CallType]
      /\ total \in Nat /\ peak \in Nat /\ SizeMax \in Nat
      /\ \A t \in Threads : /\ CallOK(t) /\ call[t].charge \in Nat
                            /\ call[t].seen \in Nat /\ call[t].now \in Nat
  BY PoolAssumption DEF TypeInv, TypeOK, CallType
<1> DEFINE Only(t) ==
             \A u \in Threads \ {t} : pc'[u] = pc[u] /\ call'[u] = call[u]
\* A step outside update_peak that does not raise the counter.
<1>1. ASSUME NEW t \in Threads, Only(t), total' <= total, peak' = peak,
             total' \in Nat, pc[t] \notin PeakLabels, pc'[t] \notin PeakLabels
      PROVE  PeakInv'
  <2>1. CASE total <= peak
    BY <1>0, <1>1, <2>1 DEF PeakInv, PeakLabels
  <2>2. ASSUME NEW u \in Threads, Raises(u)
        PROVE  PeakInv'
    <3>1. u # t /\ pc'[u] = pc[u] /\ call'[u] = call[u]
      BY <1>1, <2>2 DEF Raises, PeakLabels
    <3>2. Raises(u)'
      BY <1>0, <1>1, <2>2, <3>1 DEF Raises
    <3> QED
      BY <1>0, <1>1, <3>2 DEF PeakInv, PeakLabels
  <2> QED
    BY <2>1, <2>2 DEF PeakInv
<1>2. CASE UNCHANGED vars
  BY <1>2 DEF vars, counters, PeakInv, Raises
<1>3. ASSUME NEW t \in Threads, ChargeLoad(t)
      PROVE  PeakInv'
  <2>1. /\ Only(t) /\ total' = total /\ peak' = peak
        /\ pc[t] \notin PeakLabels /\ pc'[t] \notin PeakLabels
    BY <1>0, <1>3
       DEF ChargeLoad, CallOK, Charging, PeakLabels, Goto, Enter, Return, Unlock, counters
  <2> QED
    BY <1>0, <1>1, <2>1
<1>4. ASSUME NEW t \in Threads, Charge(t)
      PROVE  PeakInv'
  <2>1. /\ Only(t) /\ peak' = peak /\ pc'[t] = "peakNow"
    BY <1>0, <1>4 DEF Charge, Goto, Enter
  <2>2. Raises(t)'
    BY <2>1 DEF Raises
  <2> QED
    BY <1>0, <2>1, <2>2 DEF PeakInv
<1>5. ASSUME NEW t \in Threads, CasRetry(t)
      PROVE  PeakInv'
  <2>1. /\ Only(t) /\ total' = total /\ peak' = peak
        /\ pc[t] \notin PeakLabels /\ pc'[t] \notin PeakLabels
    BY <1>0, <1>5
       DEF CasRetry, CallOK, Charging, PeakLabels, Goto, Enter, Return, Unlock, counters
  <2> QED
    BY <1>0, <1>1, <2>1
<1>6. ASSUME NEW t \in Threads, ChargeUnlimited(t)
      PROVE  PeakInv'
  <2>1. /\ Only(t) /\ peak' = peak /\ pc'[t] = "peakNow"
    BY <1>0, <1>6 DEF ChargeUnlimited, Goto, Enter
  <2>2. Raises(t)'
    BY <2>1 DEF Raises
  <2> QED
    BY <1>0, <2>1, <2>2 DEF PeakInv
<1>7. ASSUME NEW t \in Threads, ChargeRefused(t)
      PROVE  PeakInv'
  <2>1. /\ Only(t) /\ total' = total /\ peak' = peak
        /\ pc[t] \notin PeakLabels /\ pc'[t] \notin PeakLabels
    BY <1>0, <1>7
       DEF ChargeRefused, CallOK, Charging, PeakLabels, Goto, Enter, Return, Unlock, counters
  <2> QED
    BY <1>0, <1>1, <2>1
<1>8. ASSUME NEW t \in Threads, PeakLoadNow(t)
      PROVE  PeakInv'
  <2>1. /\ Only(t) /\ total' = total /\ peak' = peak
        /\ pc'[t] = "peakOld" /\ call'[t].now = total
    BY <1>0, <1>8 DEF PeakLoadNow, Goto, Enter, counters, CallType
  <2>2. Raises(t)'
    BY <1>0, <2>1 DEF Raises
  <2> QED
    BY <1>0, <2>1, <2>2 DEF PeakInv
<1>9. ASSUME NEW t \in Threads, PeakLoadOld(t)
      PROVE  PeakInv'
  <2>1. /\ Only(t) /\ total' = total /\ peak' = peak
        /\ pc[t] \in {"peakOld", "peakCas"} /\ pc'[t] = "peakCas"
        /\ call'[t].now = call[t].now /\ call'[t].seen = peak
    BY <1>0, <1>9 DEF PeakLoadOld, Goto, Enter, counters, CallType
  <2>2. \A u \in Threads : Raises(u) => Raises(u)'
    BY <1>0, <2>1 DEF Raises
  <2>3. \A u \in Threads : pc'[u] = "peakCas" => call'[u].seen <= peak'
    BY <1>0, <2>1 DEF PeakInv
  <2> QED
    BY <1>0, <2>1, <2>2, <2>3 DEF PeakInv
<1>10. ASSUME NEW t \in Threads, PeakRaise(t)
      PROVE  PeakInv'
  <2>1. /\ Only(t) /\ total' = total /\ peak' \in Nat
        /\ peak' >= peak /\ peak' >= call[t].now
        /\ pc[t] = "peakCas" /\ pc'[t] # "peakCas"
    BY <1>0, <1>10 DEF PeakRaise, Granted, Goto, Enter, PeakInv
  <2>2. \A u \in Threads \ {t} : Raises(u) => Raises(u)'
    BY <1>0, <2>1 DEF Raises
  <2>3. Raises(t) => total' <= peak'
    BY <1>0, <2>1 DEF Raises
  <2>4. \A u \in Threads : pc'[u] = "peakCas" => call'[u].seen <= peak'
    BY <1>0, <2>1 DEF PeakInv
  <2> QED
    BY <1>0, <2>1, <2>2, <2>3, <2>4 DEF PeakInv
<1>11. ASSUME NEW t \in Threads, PeakRetry(t)
      PROVE  PeakInv'
  <2>1. /\ Only(t) /\ total' = total /\ peak' = peak
        /\ pc[t] \in {"peakOld", "peakCas"} /\ pc'[t] = "peakCas"
        /\ call'[t].now = call[t].now /\ call'[t].seen = peak
    BY <1>0, <1>11 DEF PeakRetry, Goto, Enter, counters, CallType
  <2>2. \A u \in Threads : Raises(u) => Raises(u)'
    BY <1>0, <2>1 DEF Raises
  <2>3. \A u \in Threads : pc'[u] = "peakCas" => call'[u].seen <= peak'
    BY <1>0, <2>1 DEF PeakInv
  <2> QED
    BY <1>0, <2>1, <2>2, <2>3 DEF PeakInv
<1>12. ASSUME NEW t \in Threads, CreditLoad(t)
      PROVE  PeakInv'
  <2>1. /\ Only(t) /\ total' = total /\ peak' = peak
        /\ pc[t] \notin PeakLabels /\ pc'[t] \notin PeakLabels
    BY <1>0, <1>12
       DEF CreditLoad, CallOK, Charging, PeakLabels, Goto, Enter, Return, Unlock, counters
  <2> QED
    BY <1>0, <1>1, <2>1
<1>13. ASSUME NEW t \in Threads, Credit(t)
      PROVE  PeakInv'
  <2>1. /\ Only(t) /\ total' <= total /\ total' \in Nat /\ peak' = peak
        /\ pc[t] \notin PeakLabels /\ pc'[t] \notin PeakLabels
    BY <1>0, <1>13
       DEF Credit, CallOK, Charging, PeakLabels, Goto, Enter, Return, Unlock, counters
  <2> QED
    BY <1>1, <2>1
<1>14. ASSUME NEW t \in Threads, NEW n \in Requests, Reserve(t, n)
      PROVE  PeakInv'
  <2>1. /\ Only(t) /\ total' = total /\ peak' = peak
        /\ pc[t] \notin PeakLabels /\ pc'[t] \notin PeakLabels
    BY <1>0, <1>14
       DEF Reserve, CallOK, Charging, PeakLabels, Goto, Enter, Return, Unlock, counters, Call, NoCall, ChargeFrom, Granted
  <2> QED
    BY <1>0, <1>1, <2>1
<1>15. ASSUME NEW t \in Threads, NEW a \in Arenas, Register(t, a)
      PROVE  PeakInv'
  <2>1. /\ Only(t) /\ total' = total /\ peak' = peak
        /\ pc[t] \notin PeakLabels /\ pc'[t] \notin PeakLabels
    BY <1>0, <1>15
       DEF Register, CallOK, Charging, PeakLabels, Goto, Enter, Return, Unlock, counters
  <2> QED
    BY <1>0, <1>1, <2>1
<1>16. ASSUME NEW t \in Threads, NEW a \in Arenas, NEW n \in GrowBy, Grow(t, a, n)
      PROVE  PeakInv'
  <2>1. /\ Only(t) /\ total' = total /\ peak' = peak
        /\ pc[t] \notin PeakLabels /\ pc'[t] \notin PeakLabels
    BY <1>0, <1>16
       DEF Grow, CallOK, Charging, PeakLabels, Goto, Enter, Return, Unlock, counters
  <2> QED
    BY <1>0, <1>1, <2>1
<1>17. ASSUME NEW t \in Threads, NEW a \in Arenas, Release(t, a)
      PROVE  PeakInv'
  <2>1. /\ Only(t) /\ total' = total /\ peak' = peak
        /\ pc[t] \notin PeakLabels /\ pc'[t] \notin PeakLabels
    BY <1>0, <1>17
       DEF Release, CallOK, Charging, PeakLabels, Goto, Enter, Return, Unlock, counters, Call, NoCall
  <2> QED
    BY <1>0, <1>1, <2>1
<1>18. ASSUME NEW t \in Threads, Unregister(t)
      PROVE  PeakInv'
  <2>1. /\ Only(t) /\ total' = total /\ peak' = peak
        /\ pc[t] \notin PeakLabels /\ pc'[t] \notin PeakLabels
    BY <1>0, <1>18
       DEF Unregister, CallOK, Charging, PeakLabels, Goto, Enter, Return, Unlock, counters
  <2> QED
    BY <1>0, <1>1, <2>1
<1>19. ASSUME NEW t \in Threads, NEW n \in Requests,
              NEW a \in handles \cup {NoArena}, Allocate(t, n, a)
      PROVE  PeakInv'
  <2>1. /\ Only(t) /\ total' = total /\ peak' = peak
        /\ pc[t] \notin PeakLabels /\ pc'[t] \notin PeakLabels
    BY <1>0, <1>19
       DEF Allocate, CallOK, Charging, PeakLabels, Goto, Enter, Return, Unlock,
           counters, Call, NoCall
  <2> QED
    BY <1>0, <1>1, <2>1
<1>20. ASSUME NEW t \in Threads, Track(t)
      PROVE  PeakInv'
  <2>1. /\ Only(t) /\ total' = total /\ peak' = peak
        /\ pc[t] \notin PeakLabels /\ pc'[t] \notin PeakLabels
    BY <1>0, <1>20
       DEF Track, CallOK, Charging, PeakLabels, Goto, Enter, Return, Unlock, counters, ChargeFrom, Granted
  <2> QED
    BY <1>0, <1>1, <2>1
<1>21. ASSUME NEW t \in Threads, TrackRefused(t)
      PROVE  PeakInv'
  <2>1. /\ Only(t) /\ total' = total /\ peak' = peak
        /\ pc[t] \notin PeakLabels /\ pc'[t] \notin PeakLabels
    BY <1>0, <1>21
       DEF TrackRefused, CallOK, Charging, PeakLabels, Goto, Enter, Return, Unlock, counters
  <2> QED
    BY <1>0, <1>1, <2>1
<1>22. ASSUME NEW t \in Threads, NEW n \in RawRequests, AllocateRaw(t, n)
      PROVE  PeakInv'
  <2>1. /\ Only(t) /\ total' = total /\ peak' = peak
        /\ pc[t] \notin PeakLabels /\ pc'[t] \notin PeakLabels
    BY <1>0, <1>22
       DEF AllocateRaw, CallOK, Charging, PeakLabels, Goto, Enter, Return, Unlock, counters, Call, NoCall, ChargeFrom, Granted
  <2> QED
    BY <1>0, <1>1, <2>1
<1>23. ASSUME NEW t \in Threads, NEW b \in Blocks, Malloc(t, b)
      PROVE  PeakInv'
  <2>1. /\ Only(t) /\ total' = total /\ peak' = peak
        /\ pc[t] \notin PeakLabels /\ pc'[t] \notin PeakLabels
    BY <1>0, <1>23
       DEF Malloc, CallOK, Charging, PeakLabels, Goto, Enter, Return, Unlock, counters
  <2> QED
    BY <1>0, <1>1, <2>1
<1>24. ASSUME NEW t \in Threads, MallocFails(t)
      PROVE  PeakInv'
  <2>1. /\ Only(t) /\ total' = total /\ peak' = peak
        /\ pc[t] \notin PeakLabels /\ pc'[t] \notin PeakLabels
    BY <1>0, <1>24
       DEF MallocFails, CallOK, Charging, PeakLabels, Goto, Enter, Return, Unlock, counters
  <2> QED
    BY <1>0, <1>1, <2>1
<1>25. ASSUME NEW t \in Threads, NEW b \in Blocks, Unmap(t, b)
      PROVE  PeakInv'
  <2>1. /\ Only(t) /\ total' = total /\ peak' = peak
        /\ pc[t] \notin PeakLabels /\ pc'[t] \notin PeakLabels
    BY <1>0, <1>25
       DEF Unmap, CallOK, Charging, PeakLabels, Goto, Enter, Return, Unlock, counters, Call, NoCall
  <2> QED
    BY <1>0, <1>1, <2>1
<1>26. ASSUME NEW t \in Threads, FreeHost(t)
      PROVE  PeakInv'
  <2>1. /\ Only(t) /\ total' = total /\ peak' = peak
        /\ pc[t] \notin PeakLabels /\ pc'[t] \notin PeakLabels
    BY <1>0, <1>26
       DEF FreeHost, CallOK, Charging, PeakLabels, Goto, Enter, Return, Unlock, counters
  <2> QED
    BY <1>0, <1>1, <2>1
<1>27. ASSUME NEW t \in Threads, NEW b \in Blocks, DeallocateRaw(t, b)
      PROVE  PeakInv'
  <2>1. /\ Only(t) /\ total' = total /\ peak' = peak
        /\ pc[t] \notin PeakLabels /\ pc'[t] \notin PeakLabels
    BY <1>0, <1>27
       DEF DeallocateRaw, CallOK, Charging, PeakLabels, Goto, Enter, Return, Unlock, counters, Call, NoCall
  <2> QED
    BY <1>0, <1>1, <2>1
<1> QED
  BY <1>2, <1>3, <1>4, <1>5, <1>6, <1>7, <1>8, <1>9, <1>10, <1>11, <1>12,
     <1>13, <1>14, <1>15, <1>16, <1>17, <1>18, <1>19, <1>20, <1>21, <1>22,
     <1>23, <1>24, <1>25, <1>26, <1>27
     DEF Next, Step, Start

\* Whatever update_peak races with, the peak ends up no lower than the counter:
\* no charge goes unrecorded.
THEOREM PeakIsNeverBehind == Spec => []PeakCoversTotal
<1>1. Init => PeakInv
  BY DEF Init, PeakInv
<1>2. TypeInv /\ PeakInv /\ [Next]_vars => PeakInv'
  BY PeakStep
<1>3. PeakInv => PeakCoversTotal
  BY DEF PeakInv, PeakCoversTotal, Raises
<1> QED
  BY <1>1, <1>2, <1>3, TypeInvariance, PTL DEF Spec

-----------------------------------------------------------------------------
(***************************************************************************)
(* The conservation law: total_allocated_ covers everything that           *)
(* reservations, blocks and unfinished calls claim of it.                  *)
(*                                                                         *)
(* A step changes at most one claim of each kind, which changes the sum by *)
(* as much (Sums).                                                         *)
(***************************************************************************)
-----------------------------------------------------------------------------
(* The setting: limited capacity, reservations that are not grown, and     *)
(* sizes that an int64_t can hold.                                         *)

Accountable ==
  /\ GrowBy = {}
  /\ MemLimit # 0 /\ MemLimit <= SizeMax \div 2
  /\ \A n \in Requests : WholeBlocks(n) <= SizeMax \div 2

\* What a call has worked out before it changes the counter.
AccountOK(t) ==
  LET c == call[t] IN
  /\ c.op \in {"reserve", "allocateRaw"} => c.charge = c.bytes
  /\ c.op = "reserve" => c.bytes <= MemLimit
  /\ c.op = "allocate" => c.bytes <= SizeMax \div 2
  /\ c.op = "allocate" /\ InMutex(t) =>
       c.charge = IF c.arena = NoArena THEN c.bytes
                  ELSE OverflowCharge(used[c.arena] - c.bytes, c.bytes, size[c.arena])

AccountInv ==
  /\ \A a \in Arenas : size[a] <= MemLimit /\ (a \notin active => size[a] = 0 /\ used[a] = 0)
  /\ \A b \in Blocks \ (liveAllocs \cup rawBlocks) : bytes[b] = 0
  /\ \A b \in liveAllocs : bytes[b] <= SizeMax \div 2
  /\ \A t \in Threads : AccountOK(t)

LEMMA AccountInit == Init => AccountInv
  BY NoCallType, PoolAssumption DEF Init, AccountInv, AccountOK

LEMMA SignedSize ==
  ASSUME Accountable, NEW n \in 0 .. SizeMax, n <= MemLimit
  PROVE  Signed(n) = n
  BY PoolAssumption DEF Accountable, Signed

LEMMA SignedBytes ==
  ASSUME NEW n \in 0 .. SizeMax, n <= SizeMax \div 2
  PROVE  Signed(n) = n
  BY PoolAssumption DEF Signed

LEMMA AccountStep ==
  ASSUME Accountable, TypeInv, MutexInv, AccountInv, [Next]_vars
  PROVE  AccountInv'
<1>0. /\ NoThread \notin Threads /\ NoArena \notin Arenas
      /\ pc \in [Threads -> Labels] /\ call \in [Threads -> CallType]
      /\ \A t \in Threads : CallOK(t)
      /\ used \in [Arenas -> Int] /\ size \in [Arenas -> 0 .. SizeMax]
      /\ bytes \in [Blocks -> 0 .. SizeMax] /\ liveAllocs \subseteq Blocks
      /\ GrowBy = {}
  BY PoolAssumption DEF TypeInv, TypeOK, Accountable
<1> USE <1>0, PoolAssumption
    DEF AccountInv, AccountOK, MutexInv, InMutex, CallOK, CallType, Charging,
        Crediting, counters, registry, blocks, Goto, Enter, Return, Unlock
<1>1. CASE UNCHANGED vars
  BY <1>1 DEF vars
<1>2. ASSUME NEW t \in Threads, ChargeLoad(t) PROVE AccountInv'
  BY <1>2 DEF ChargeLoad
<1>3. ASSUME NEW t \in Threads, Charge(t) PROVE AccountInv'
  BY <1>3, LoopDoneType DEF Charge
<1>4. ASSUME NEW t \in Threads, CasRetry(t) PROVE AccountInv'
  BY <1>4 DEF CasRetry
<1>5. ASSUME NEW t \in Threads, ChargeUnlimited(t) PROVE AccountInv'
  BY <1>5 DEF ChargeUnlimited
<1>6. ASSUME NEW t \in Threads, ChargeRefused(t) PROVE AccountInv'
  BY <1>6, NoCallType DEF ChargeRefused, RollBackTracker
<1>7. ASSUME NEW t \in Threads, PeakLoadNow(t) PROVE AccountInv'
  BY <1>7 DEF PeakLoadNow
<1>8. ASSUME NEW t \in Threads, PeakLoadOld(t) PROVE AccountInv'
  BY <1>8 DEF PeakLoadOld
<1>9. ASSUME NEW t \in Threads, PeakRaise(t) PROVE AccountInv'
  BY <1>9, LoopDoneType DEF PeakRaise, Granted
<1>10. ASSUME NEW t \in Threads, PeakRetry(t) PROVE AccountInv'
  BY <1>10 DEF PeakRetry
<1>11. ASSUME NEW t \in Threads, CreditLoad(t) PROVE AccountInv'
  BY <1>11 DEF CreditLoad
<1>12. ASSUME NEW t \in Threads, Credit(t) PROVE AccountInv'
  BY <1>12, NoCallType DEF Credit, RollBackTracker
<1>13. ASSUME NEW t \in Threads, NEW n \in Requests, Reserve(t, n) PROVE AccountInv'
  BY <1>13 DEF Reserve, Call, NoCall, Accountable
<1>14. ASSUME NEW t \in Threads, NEW a \in Arenas, Register(t, a) PROVE AccountInv'
  BY <1>14, NoCallType DEF Register
<1>15. ASSUME NEW t \in Threads, NEW a \in Arenas, NEW n \in GrowBy, Grow(t, a, n)
       PROVE AccountInv'
  BY <1>15
<1>16. ASSUME NEW t \in Threads, NEW a \in Arenas, Release(t, a) PROVE AccountInv'
  BY <1>16 DEF Release, Call, NoCall
<1>17. ASSUME NEW t \in Threads, Unregister(t) PROVE AccountInv'
  BY <1>17, NoCallType DEF Unregister
<1>18. ASSUME NEW t \in Threads, NEW n \in Requests,
              NEW a \in handles \cup {NoArena}, Allocate(t, n, a)
       PROVE AccountInv'
  BY <1>18 DEF Allocate, Call, NoCall, Accountable
<1>19. ASSUME NEW t \in Threads, Track(t) PROVE AccountInv'
  BY <1>19, SignedSize, SignedBytes DEF Track
<1>20. ASSUME NEW t \in Threads, TrackRefused(t) PROVE AccountInv'
  BY <1>20, NoCallType DEF TrackRefused
<1>21. ASSUME NEW t \in Threads, NEW n \in RawRequests, AllocateRaw(t, n)
       PROVE AccountInv'
  BY <1>21 DEF AllocateRaw, Call, NoCall
<1>22. ASSUME NEW t \in Threads, NEW b \in Blocks, Malloc(t, b) PROVE AccountInv'
  BY <1>22, NoCallType DEF Malloc
<1>23. ASSUME NEW t \in Threads, MallocFails(t) PROVE AccountInv'
  BY <1>23, NoCallType DEF MallocFails, RollBackTracker
<1>24. ASSUME NEW t \in Threads, NEW b \in Blocks, Unmap(t, b) PROVE AccountInv'
  BY <1>24 DEF Unmap, Call, NoCall
<1>25. ASSUME NEW t \in Threads, FreeHost(t) PROVE AccountInv'
  BY <1>25, NoCallType DEF FreeHost
<1>26. ASSUME NEW t \in Threads, NEW b \in Blocks, DeallocateRaw(t, b)
       PROVE AccountInv'
  BY <1>26 DEF DeallocateRaw, Call, NoCall
<1> QED
  BY <1>1, <1>2, <1>3, <1>4, <1>5, <1>6, <1>7, <1>8, <1>9, <1>10, <1>11, <1>12,
     <1>13, <1>14, <1>15, <1>16, <1>17, <1>18, <1>19, <1>20, <1>21, <1>22,
     <1>23, <1>24, <1>25, <1>26
     DEF Next, Step, Start

\* Between taking the mutex and its charge, a call has worked out the overflow
\* of its own bytes over the reservation, and nobody disturbs it.
THEOREM AccountInvariance == ASSUME Accountable PROVE Spec => []AccountInv
<1>1. AccountInv /\ TypeInv /\ MutexInv /\ [Next]_vars => AccountInv'
  BY AccountStep
<1> QED
  BY <1>1, AccountInit, TypeInvariance, MutexInvariance, PTL DEF Spec

-----------------------------------------------------------------------------
(* The conservation law *)

ArenaClaims  == [a \in Arenas |-> Unused(a)]
ThreadClaims == [t \in Threads |-> InFlight(t)]
Freeing      == [t \in Threads |-> IF pc[t] = "free" THEN call[t].bytes ELSE 0]

\* What the counter has to cover; HIP's page-locked bytes, which are the
\* blocks that exist and the ones about to be freed.
Claimed == Sum(ArenaClaims, Arenas) + Sum(bytes, Blocks) + Sum(ThreadClaims, Threads)
Locked  == Sum(bytes, Blocks) + Sum(Freeing, Threads)

LedgerInv == total >= Claimed /\ pinned = Locked

\* g differs from f in at most one value, by d.
Moves(f, g, S, d) ==
  /\ f \in [S -> Nat] /\ g \in [S -> Nat]
  /\ \/ g = f /\ d = 0
     \/ \E k \in S : d = g[k] - f[k] /\ \A x \in S \ {k} : g[x] = f[x]

LEMMA SumMoves ==
  ASSUME NEW S, IsFiniteSet(S), NEW f, NEW g, NEW d, Moves(f, g, S, d)
  PROVE  /\ Sum(f, S) \in Nat /\ Sum(g, S) \in Nat
         /\ Sum(g, S) = Sum(f, S) + d
<1>0. f \in [S -> Nat] /\ g \in [S -> Nat]
  BY DEF Moves
<1>1. Sum(f, S) \in Nat /\ Sum(g, S) \in Nat
  BY <1>0, SumNat
<1>2. CASE g = f /\ d = 0
  BY <1>1, <1>2
<1>3. ASSUME NEW k \in S, d = g[k] - f[k], \A x \in S \ {k} : g[x] = f[x]
      PROVE  Sum(g, S) = Sum(f, S) + d
  <2>1. Sum(g, S) = Sum(f, S) + g[k] - f[k]
    BY <1>0, <1>3, SumChange
  <2>2. g[k] \in Nat /\ f[k] \in Nat
    BY <1>0
  <2> QED
    BY <1>1, <1>3, <2>1, <2>2
<1> QED
  BY <1>1, <1>2, <1>3 DEF Moves

\* The bytes a deallocation is about to give back to HIP.
Freed(t) == IF pc[t] = "free" THEN call[t].bytes ELSE 0

ClaimsTyped ==
  /\ \A t \in Threads : InFlight(t) \in Nat /\ Freed(t) \in Nat
  /\ \A a \in Arenas : Unused(a) \in Nat
  /\ ArenaClaims \in [Arenas -> Nat] /\ bytes \in [Blocks -> Nat]
  /\ ThreadClaims \in [Threads -> Nat] /\ Freeing \in [Threads -> Nat]

\* An allocation that holds the mutex owes the counter no more than its bytes.
LEMMA ChargeWithinBytes ==
  ASSUME TypeInv, AccountInv, NEW t \in Threads,
         call[t].op = "allocate", pc[t] \in Charging \cup Crediting
  PROVE  call[t].charge <= call[t].bytes
<1>1. /\ call[t].bytes \in 0 .. SizeMax /\ SizeMax \in Nat
      /\ call[t].arena \in Arenas \cup {NoArena}
      /\ used \in [Arenas -> Int] /\ size \in [Arenas -> 0 .. SizeMax]
  BY PoolAssumption DEF TypeInv, TypeOK, CallType
<1>2. call[t].charge = IF call[t].arena = NoArena THEN call[t].bytes
        ELSE OverflowCharge(used[call[t].arena] - call[t].bytes,
                            call[t].bytes, size[call[t].arena])
  BY DEF AccountInv, AccountOK, InMutex
<1>3. CASE call[t].arena = NoArena
  BY <1>1, <1>2, <1>3
<1>4. CASE call[t].arena \in Arenas
  <2>1. /\ used[call[t].arena] - call[t].bytes \in Int
        /\ size[call[t].arena] \in Int
    BY <1>1, <1>4
  <2>2. OverflowCharge(used[call[t].arena] - call[t].bytes, call[t].bytes,
                       size[call[t].arena]) \in 0 .. call[t].bytes
    BY <1>1, <2>1, OverflowChargeType
  <2>3. call[t].arena # NoArena
    BY <1>4, PoolAssumption
  <2> QED
    BY <1>1, <1>2, <2>2, <2>3
<1> QED
  BY <1>1, <1>3, <1>4

LEMMA ClaimTypes == TypeInv /\ AccountInv => ClaimsTyped
<1> SUFFICES ASSUME TypeInv, AccountInv
             PROVE  ClaimsTyped
  OBVIOUS
<1>0. PoolAssumption
  BY PoolAssumption
<1>1. ASSUME NEW t \in Threads PROVE InFlight(t) \in Nat /\ Freed(t) \in Nat
  <2>1. call[t].bytes \in 0 .. SizeMax /\ call[t].charge \in 0 .. SizeMax
    BY DEF TypeInv, TypeOK, CallType
  <2>2. pc[t] \in {"chargeLoad", "chargeCas"} /\ call[t].op = "allocate"
          => call[t].charge <= call[t].bytes
    BY ChargeWithinBytes DEF Charging
  <2> QED
    BY <2>1, <2>2, <1>0 DEF InFlight, Freed, PoolAssumption
<1>2. ASSUME NEW a \in Arenas PROVE Unused(a) \in Nat
  BY <1>0 DEF Unused, TypeInv, TypeOK, PoolAssumption
<1>3. bytes \in [Blocks -> Nat]
  BY <1>0 DEF TypeInv, TypeOK, PoolAssumption
<1> QED
  BY <1>1, <1>2, <1>3 DEF ClaimsTyped, ArenaClaims, ThreadClaims, Freeing, Freed

\* What a step of thread t does to the sums.
LEMMA Settle ==
  ASSUME TypeInv, AccountInv, TypeInv', AccountInv',
         NEW t \in Threads, NEW da \in Int, NEW db \in Int,
         \A u \in Threads \ {t} : pc'[u] = pc[u] /\ call'[u] = call[u],
         Moves(ArenaClaims, ArenaClaims', Arenas, da),
         Moves(bytes, bytes', Blocks, db)
  PROVE  /\ Claimed \in Nat /\ Locked \in Nat
         /\ Claimed' = Claimed + da + db + InFlight(t)' - InFlight(t)
         /\ Locked' = Locked + db + Freed(t)' - Freed(t)
<1> DEFINE dt == InFlight(t)' - InFlight(t)
           df == Freed(t)' - Freed(t)
<1>1. /\ ThreadClaims \in [Threads -> Nat] /\ Freeing \in [Threads -> Nat]
      /\ ThreadClaims' \in [Threads -> Nat] /\ Freeing' \in [Threads -> Nat]
      /\ InFlight(t) \in Nat /\ InFlight(t)' \in Nat
      /\ Freed(t) \in Nat /\ Freed(t)' \in Nat
  <2>1. ClaimsTyped /\ ClaimsTyped'
    BY ClaimTypes, PTL
  <2> QED
    BY <2>1 DEF ClaimsTyped
<1>2. \A u \in Threads \ {t} :
        ThreadClaims'[u] = ThreadClaims[u] /\ Freeing'[u] = Freeing[u]
  BY DEF ThreadClaims, Freeing, InFlight, Charged
<1>3. /\ ThreadClaims[t] = InFlight(t) /\ ThreadClaims'[t] = InFlight(t)'
      /\ Freeing[t] = Freed(t) /\ Freeing'[t] = Freed(t)'
  BY DEF ThreadClaims, Freeing, Freed
<1>4. Moves(ThreadClaims, ThreadClaims', Threads, dt)
  BY <1>1, <1>2, <1>3 DEF Moves
<1>5. Moves(Freeing, Freeing', Threads, df)
  BY <1>1, <1>2, <1>3 DEF Moves
<1>6. dt \in Int /\ df \in Int
  BY <1>1
<1>7. IsFiniteSet(Threads) /\ IsFiniteSet(Arenas) /\ IsFiniteSet(Blocks)
  BY PoolAssumption
<1> HIDE DEF dt, df
<1>8. /\ Sum(ArenaClaims, Arenas) \in Nat
      /\ Sum(ArenaClaims', Arenas) = Sum(ArenaClaims, Arenas) + da
  BY <1>7, SumMoves
<1>9. Sum(bytes, Blocks) \in Nat /\ Sum(bytes', Blocks) = Sum(bytes, Blocks) + db
  BY <1>7, SumMoves
<1>10. /\ Sum(ThreadClaims, Threads) \in Nat
       /\ Sum(ThreadClaims', Threads) = Sum(ThreadClaims, Threads) + dt
  BY <1>4, <1>7, SumMoves
<1>11. /\ Sum(Freeing, Threads) \in Nat
       /\ Sum(Freeing', Threads) = Sum(Freeing, Threads) + df
  BY <1>5, <1>7, SumMoves
<1>12. /\ Claimed \in Nat /\ Locked \in Nat
       /\ Claimed' = Claimed + da + db + dt
       /\ Locked' = Locked + db + df
  BY <1>6, <1>8, <1>9, <1>10, <1>11 DEF Claimed, Locked
<1>13. dt = InFlight(t)' - InFlight(t) /\ df = Freed(t)' - Freed(t)
  BY DEF dt, df
<1> QED
  BY <1>1, <1>12, <1>13

\* Reservations or blocks that a step leaves alone, and the one it changes.
LEMMA ClaimMoves ==
  ASSUME Accountable, TypeInv, MutexInv, AccountInv,
         TypeInv', MutexInv', AccountInv'
  PROVE  /\ size' = size /\ used' = used =>
              Moves(ArenaClaims, ArenaClaims', Arenas, 0)
         /\ bytes' = bytes => Moves(bytes, bytes', Blocks, 0)
         /\ \A a \in Arenas :
              (\A x \in Arenas \ {a} : size'[x] = size[x] /\ used'[x] = used[x]) =>
                Moves(ArenaClaims, ArenaClaims', Arenas, Unused(a)' - Unused(a))
         /\ \A b \in Blocks :
              (\A x \in Blocks \ {b} : bytes'[x] = bytes[x]) =>
                Moves(bytes, bytes', Blocks, bytes'[b] - bytes[b])
<1>1. /\ ArenaClaims \in [Arenas -> Nat] /\ bytes \in [Blocks -> Nat]
      /\ ArenaClaims' \in [Arenas -> Nat] /\ bytes' \in [Blocks -> Nat]
  <2>1. ClaimsTyped /\ ClaimsTyped'
    BY ClaimTypes, PTL
  <2> QED
    BY <2>1 DEF ClaimsTyped
<1>2. size' = size /\ used' = used => ArenaClaims' = ArenaClaims
  BY DEF ArenaClaims, Unused
<1>3. ASSUME NEW a \in Arenas,
             \A x \in Arenas \ {a} : size'[x] = size[x] /\ used'[x] = used[x]
      PROVE  /\ \A x \in Arenas \ {a} : ArenaClaims'[x] = ArenaClaims[x]
             /\ ArenaClaims'[a] = Unused(a)' /\ ArenaClaims[a] = Unused(a)
  BY <1>3 DEF ArenaClaims, Unused
<1> QED
  BY <1>1, <1>2, <1>3 DEF Moves

\* What is in flight is in the counter.
LEMMA InFlightCounted ==
  ASSUME TypeInv, AccountInv, LedgerInv, NEW t \in Threads
  PROVE  total >= InFlight(t)
<1>1. /\ ThreadClaims \in [Threads -> Nat] /\ ThreadClaims[t] = InFlight(t)
      /\ ArenaClaims \in [Arenas -> Nat] /\ bytes \in [Blocks -> Nat]
      /\ InFlight(t) \in Nat /\ total \in Int
  BY ClaimTypes, PoolAssumption DEF ClaimsTyped, ThreadClaims, TypeInv, TypeOK
<1>2. IsFiniteSet(Threads) /\ IsFiniteSet(Arenas) /\ IsFiniteSet(Blocks)
  BY PoolAssumption
<1>3. Sum(ArenaClaims, Arenas) \in Nat /\ Sum(bytes, Blocks) \in Nat
  BY <1>1, <1>2, SumNat
<1>4. Sum(ThreadClaims, Threads) \in Nat /\ Sum(ThreadClaims, Threads) >= InFlight(t)
  BY <1>1, <1>2, SumNat, SumCovers
<1> QED
  BY <1>1, <1>3, <1>4 DEF LedgerInv, Claimed

LEMMA LedgerInit == Init => LedgerInv
<1> SUFFICES ASSUME Init
             PROVE  LedgerInv
  OBVIOUS
<1>1. /\ \A a \in Arenas : ArenaClaims[a] = 0
      /\ \A b \in Blocks : bytes[b] = 0
      /\ \A t \in Threads : ThreadClaims[t] = 0 /\ Freeing[t] = 0
  BY DEF Init, ArenaClaims, ThreadClaims, Freeing, Unused, InFlight, Charged, Crediting
<1>2. IsFiniteSet(Threads) /\ IsFiniteSet(Arenas) /\ IsFiniteSet(Blocks)
  BY PoolAssumption
<1>3. /\ Sum(ArenaClaims, Arenas) = 0 /\ Sum(bytes, Blocks) = 0
      /\ Sum(ThreadClaims, Threads) = 0 /\ Sum(Freeing, Threads) = 0
  BY <1>1, <1>2, SumIsZero
<1>4. total = 0 /\ pinned = 0
  BY DEF Init
<1> QED
  BY <1>3, <1>4 DEF LedgerInv, Claimed, Locked

\* What do_release is about to credit is in the counter.
LEMMA CreditCovered ==
  ASSUME TypeInv, AccountInv, LedgerInv, NEW t \in Threads, pc[t] = "creditCas"
  PROVE  call[t].charge <= total
<1>1. /\ total >= InFlight(t) /\ total \in Nat
      /\ call[t].charge \in Nat /\ call[t].bytes \in Nat
  BY InFlightCounted, PoolAssumption DEF TypeInv, TypeOK, CallType
<1>2. CASE call[t].op # "allocate"
  BY <1>1, <1>2 DEF InFlight, Charged, Crediting
<1>3. CASE call[t].op = "allocate"
  <2>1. call[t].charge <= call[t].bytes
    BY <1>3, ChargeWithinBytes DEF Crediting
  <2> QED
    BY <1>1, <1>3, <2>1 DEF InFlight, Charged, Crediting
<1> QED
  BY <1>2, <1>3

\* The table holds the reservations that have a handle and those that a call is
\* about to drop, each by one call.
ReleaseInv ==
  /\ handles \subseteq active
  /\ \A t \in Threads : pc[t] = "releaseLock" =>
       /\ call[t].arena \in active \ handles
       /\ \A u \in Threads \ {t} :
            pc[u] = "releaseLock" => call[u].arena # call[t].arena
  /\ \A a \in active \ handles :
       \E t \in Threads : pc[t] = "releaseLock" /\ call[t].arena = a

LEMMA ReleaseStep ==
  ASSUME TypeInv, ReleaseInv, [Next]_vars
  PROVE  ReleaseInv'
<1>0. /\ pc \in [Threads -> Labels] /\ call \in [Threads -> CallType]
      /\ \A t \in Threads : CallOK(t)
  BY DEF TypeInv, TypeOK
<1> USE <1>0
    DEF ReleaseInv, CallOK, CallType, counters, registry, blocks,
        Goto, Enter, Return, Unlock
<1>1. ASSUME handles' = handles, active' = active, NEW t \in Threads,
             \A u \in Threads \ {t} : pc'[u] = pc[u] /\ call'[u] = call[u],
             pc[t] # "releaseLock", pc'[t] # "releaseLock"
      PROVE  ReleaseInv'
  BY <1>1
<1>2. CASE UNCHANGED vars
  BY <1>2 DEF vars
<1>3. ASSUME NEW t \in Threads, NEW a \in Arenas, Register(t, a)
      PROVE  ReleaseInv'
  BY <1>3 DEF Register, FreeAddress
<1>4. ASSUME NEW t \in Threads, NEW a \in Arenas, Release(t, a)
      PROVE  ReleaseInv'
  BY <1>4 DEF Release, Call
<1>5. ASSUME NEW t \in Threads, Unregister(t)
      PROVE  ReleaseInv'
  <2>1. /\ pc[t] = "releaseLock" /\ pc'[t] # "releaseLock"
        /\ handles' = handles /\ active' = active \ {call[t].arena}
        /\ \A u \in Threads \ {t} : pc'[u] = pc[u] /\ call'[u] = call[u]
    BY <1>5 DEF Unregister
  <2>2. call[t].arena \notin handles
    BY <2>1
  <2>3. ASSUME NEW u \in Threads, pc'[u] = "releaseLock"
        PROVE  u # t /\ pc[u] = "releaseLock" /\ call'[u] = call[u]
               /\ call[u].arena # call[t].arena
    BY <2>1, <2>3
  <2>4. ASSUME NEW a \in active' \ handles'
        PROVE  \E u \in Threads : pc'[u] = "releaseLock" /\ call'[u].arena = a
    <3>1. PICK u \in Threads : pc[u] = "releaseLock" /\ call[u].arena = a
      BY <2>1
    <3>2. u # t
      BY <2>1, <3>1
    <3> QED
      BY <2>1, <3>1, <3>2
  <2> QED
    BY <2>1, <2>2, <2>3, <2>4
<1>6. ASSUME NEW t \in Threads, NEW a \in Arenas, NEW n \in GrowBy, Grow(t, a, n)
      PROVE  ReleaseInv'
  BY <1>6 DEF Grow
<1>7. ASSUME NEW t \in Threads, Step(t) \/ Start(t),
             \A a \in Arenas : ~Register(t, a) /\ ~Release(t, a)
                                /\ \A n \in GrowBy : ~Grow(t, a, n),
             ~Unregister(t)
      PROVE  ReleaseInv'
  <2>1. /\ handles' = handles /\ active' = active
        /\ \A u \in Threads \ {t} : pc'[u] = pc[u] /\ call'[u] = call[u]
        /\ pc[t] # "releaseLock" /\ pc'[t] # "releaseLock"
    BY <1>7
       DEF Step, Start, ChargeLoad, Charge, CasRetry, ChargeUnlimited,
           ChargeRefused, PeakLoadNow, PeakLoadOld, PeakRaise, PeakRetry,
           CreditLoad, Credit, Reserve, Allocate, Track, TrackRefused,
           AllocateRaw, Malloc, MallocFails, Unmap, FreeHost, DeallocateRaw,
           Granted, ChargeFrom
  <2> QED
    BY <1>1, <2>1
<1> QED
  BY <1>2, <1>3, <1>4, <1>5, <1>6, <1>7 DEF Next, Step, Start

LEMMA ReleaseInvariance == Spec => []ReleaseInv
<1>1. Init => ReleaseInv
  BY DEF Init, ReleaseInv
<1>2. TypeInv /\ ReleaseInv /\ [Next]_vars => ReleaseInv'
  BY ReleaseStep
<1> QED
  BY <1>1, <1>2, TypeInvariance, PTL DEF Spec

\* A release drops a tracker that a stale arena pointer drove below zero.
StaleDrop == \E a \in active : used[a] < 0 /\ a \notin active'

\* What a step pays into the counter is what it adds to the claims, unless it
\* is such a release; HIP's bytes change with the blocks.
Settled ==
  /\ \/ total' - Claimed' = total - Claimed
     \/ StaleDrop /\ total' - Claimed' >= total - Claimed
  /\ pinned' - Locked' = pinned - Locked

LEMMA SettledStep ==
  ASSUME Accountable, TypeInv, MutexInv, AccountInv, ReleaseInv, LedgerInv,
         TypeInv', MutexInv', AccountInv', [Next]_vars
  PROVE  Settled
<1>0. /\ NoThread \notin Threads /\ NoArena \notin Arenas /\ SizeMax \in Nat
      /\ pc \in [Threads -> Labels] /\ call \in [Threads -> CallType]
      /\ total \in Nat /\ total' \in Nat /\ pinned \in Int /\ pinned' \in Int
      /\ used \in [Arenas -> Int] /\ size \in [Arenas -> Nat]
      /\ bytes \in [Blocks -> Nat]
      /\ ClaimsTyped /\ ClaimsTyped'
  <2>1. ClaimsTyped /\ ClaimsTyped'
    BY ClaimTypes, PTL
  <2> QED
    BY <2>1, PoolAssumption DEF TypeInv, TypeOK
<1>1. \A t \in Threads :
        /\ CallOK(t) /\ AccountOK(t)
        /\ call[t].bytes \in Nat /\ call[t].charge \in Nat
        /\ InFlight(t) \in Nat /\ InFlight(t)' \in Nat
        /\ Freed(t) \in Nat /\ Freed(t)' \in Nat
        /\ total >= InFlight(t)
  BY <1>0, InFlightCounted DEF TypeInv, AccountInv, ClaimsTyped, CallType
<1>a. \A t \in Threads :
        call[t].op = "allocate" => Signed(call[t].bytes) = call[t].bytes
  <2>1. \A t \in Threads : call[t].bytes \in 0 .. SizeMax
    BY <1>0 DEF CallType
  <2> QED
    BY <2>1, SignedBytes DEF AccountInv, AccountOK
<1>b. \A x \in liveAllocs : Signed(bytes[x]) = bytes[x]
  <2>1. \A x \in liveAllocs : bytes[x] \in 0 .. SizeMax
    BY DEF TypeInv, TypeOK
  <2> QED
    BY <2>1, SignedBytes DEF AccountInv
<1> DEFINE Calls(t, c, r) ==
             /\ \A u \in Threads \ {t} : pc'[u] = pc[u] /\ call'[u] = call[u]
             /\ total' - total = c + InFlight(t)' - InFlight(t)
             /\ pinned' = pinned + r + Freed(t)' - Freed(t)
<1>2. ASSUME NEW t \in Threads, Calls(t, 0, 0),
             size' = size, used' = used, bytes' = bytes
      PROVE  Settled
  <2>1. /\ Moves(ArenaClaims, ArenaClaims', Arenas, 0)
        /\ Moves(bytes, bytes', Blocks, 0)
    BY <1>2, ClaimMoves
  <2>2. /\ Claimed \in Nat /\ Locked \in Nat
        /\ Claimed' = Claimed + 0 + 0 + InFlight(t)' - InFlight(t)
        /\ Locked' = Locked + 0 + Freed(t)' - Freed(t)
    BY <1>2, <2>1, Settle, 0 \in Int
  <2> QED
    BY <1>0, <1>1, <1>2, <2>2 DEF Settled
<1>3. ASSUME NEW t \in Threads, NEW a \in Arenas, bytes' = bytes,
             \A x \in Arenas \ {a} : size'[x] = size[x] /\ used'[x] = used[x],
             Calls(t, Unused(a)' - Unused(a), 0)
      PROVE  Settled
  <2> DEFINE da == Unused(a)' - Unused(a)
  <2>1. /\ Moves(ArenaClaims, ArenaClaims', Arenas, da)
        /\ Moves(bytes, bytes', Blocks, 0)
    BY <1>3, ClaimMoves
  <2>2. da \in Int
    BY <1>0 DEF ClaimsTyped
  <2> HIDE DEF da
  <2>3. /\ Claimed \in Nat /\ Locked \in Nat
        /\ Claimed' = Claimed + da + 0 + InFlight(t)' - InFlight(t)
        /\ Locked' = Locked + 0 + Freed(t)' - Freed(t)
    BY <1>3, <2>1, <2>2, Settle, 0 \in Int
  <2>4. total' - total = da + InFlight(t)' - InFlight(t)
    BY <1>3 DEF da
  <2> QED
    BY <1>0, <1>1, <1>3, <2>2, <2>3, <2>4 DEF Settled
<1>4. ASSUME NEW t \in Threads, NEW b \in Blocks, size' = size, used' = used,
             \A x \in Blocks \ {b} : bytes'[x] = bytes[x],
             Calls(t, bytes'[b] - bytes[b], bytes'[b] - bytes[b])
      PROVE  Settled
  <2> DEFINE db == bytes'[b] - bytes[b]
  <2>1. /\ Moves(ArenaClaims, ArenaClaims', Arenas, 0)
        /\ Moves(bytes, bytes', Blocks, db)
    BY <1>4, ClaimMoves
  <2>2. db \in Int
    BY <1>0 DEF ClaimsTyped
  <2> HIDE DEF db
  <2>3. /\ Claimed \in Nat /\ Locked \in Nat
        /\ Claimed' = Claimed + 0 + db + InFlight(t)' - InFlight(t)
        /\ Locked' = Locked + db + Freed(t)' - Freed(t)
    BY <1>4, <2>1, <2>2, Settle, 0 \in Int
  <2>4. /\ total' - total = db + InFlight(t)' - InFlight(t)
        /\ pinned' = pinned + db + Freed(t)' - Freed(t)
    BY <1>4 DEF db
  <2> QED
    BY <1>0, <1>1, <1>4, <2>2, <2>3, <2>4 DEF Settled
<1>5. CASE UNCHANGED vars
  <2>1. /\ ArenaClaims' = ArenaClaims /\ ThreadClaims' = ThreadClaims
        /\ Freeing' = Freeing /\ bytes' = bytes
        /\ total' = total /\ pinned' = pinned
    BY <1>5 DEF vars, counters, registry, blocks, ArenaClaims, ThreadClaims,
               Freeing, Unused, InFlight, Charged
  <2>2. Claimed' = Claimed /\ Locked' = Locked
    BY <2>1 DEF Claimed, Locked
  <2> QED
    BY <2>1, <2>2 DEF Settled
<1>6. ASSUME NEW t \in Threads, ChargeLoad(t)
      PROVE  Settled
  <2>1. Calls(t, 0, 0) /\ size' = size /\ used' = used /\ bytes' = bytes
    BY <1>0, <1>1, <1>6
       DEF ChargeLoad, InFlight, Freed, Charged, Charging, Crediting, CallOK,
           Goto, Enter, Return, Unlock, counters, registry, blocks
  <2> QED
    BY <1>2, <2>1
<1>7. ASSUME NEW t \in Threads, Charge(t)
      PROVE  Settled
  <2>1. Calls(t, 0, 0) /\ size' = size /\ used' = used /\ bytes' = bytes
    BY <1>0, <1>1, <1>7, LoopDoneType
       DEF Charge, InFlight, Freed, Charged, Charging, Crediting, CallOK,
           Goto, Enter, Return, Unlock, counters, registry, blocks, AccountOK
  <2> QED
    BY <1>2, <2>1
<1>8. ASSUME NEW t \in Threads, CasRetry(t)
      PROVE  Settled
  <2>1. Calls(t, 0, 0) /\ size' = size /\ used' = used /\ bytes' = bytes
    BY <1>0, <1>1, <1>8
       DEF CasRetry, InFlight, Freed, Charged, Charging, Crediting, CallOK,
           Goto, Enter, Return, Unlock, counters, registry, blocks
  <2> QED
    BY <1>2, <2>1
<1>9. ASSUME NEW t \in Threads, PeakLoadNow(t)
      PROVE  Settled
  <2>1. Calls(t, 0, 0) /\ size' = size /\ used' = used /\ bytes' = bytes
    BY <1>0, <1>1, <1>9
       DEF PeakLoadNow, InFlight, Freed, Charged, Charging, Crediting, CallOK,
           Goto, Enter, Return, Unlock, counters, registry, blocks
  <2> QED
    BY <1>2, <2>1
<1>10. ASSUME NEW t \in Threads, PeakLoadOld(t)
      PROVE  Settled
  <2>1. Calls(t, 0, 0) /\ size' = size /\ used' = used /\ bytes' = bytes
    BY <1>0, <1>1, <1>10
       DEF PeakLoadOld, InFlight, Freed, Charged, Charging, Crediting, CallOK,
           Goto, Enter, Return, Unlock, counters, registry, blocks
  <2> QED
    BY <1>2, <2>1
<1>11. ASSUME NEW t \in Threads, PeakRaise(t)
      PROVE  Settled
  <2>1. Calls(t, 0, 0) /\ size' = size /\ used' = used /\ bytes' = bytes
    BY <1>0, <1>1, <1>11, LoopDoneType
       DEF PeakRaise, InFlight, Freed, Charged, Charging, Crediting, CallOK,
           Goto, Enter, Return, Unlock, counters, registry, blocks, Granted
  <2> QED
    BY <1>2, <2>1
<1>12. ASSUME NEW t \in Threads, PeakRetry(t)
      PROVE  Settled
  <2>1. Calls(t, 0, 0) /\ size' = size /\ used' = used /\ bytes' = bytes
    BY <1>0, <1>1, <1>12
       DEF PeakRetry, InFlight, Freed, Charged, Charging, Crediting, CallOK,
           Goto, Enter, Return, Unlock, counters, registry, blocks
  <2> QED
    BY <1>2, <2>1
<1>13. ASSUME NEW t \in Threads, CreditLoad(t)
      PROVE  Settled
  <2>1. Calls(t, 0, 0) /\ size' = size /\ used' = used /\ bytes' = bytes
    BY <1>0, <1>1, <1>13
       DEF CreditLoad, InFlight, Freed, Charged, Charging, Crediting, CallOK,
           Goto, Enter, Return, Unlock, counters, registry, blocks
  <2> QED
    BY <1>2, <2>1
<1>14. ASSUME NEW t \in Threads, NEW n \in Requests, Reserve(t, n)
      PROVE  Settled
  <2>1. Calls(t, 0, 0) /\ size' = size /\ used' = used /\ bytes' = bytes
    BY <1>0, <1>1, <1>14
       DEF Reserve, InFlight, Freed, Charged, Charging, Crediting, CallOK,
           Goto, Enter, Return, Unlock, counters, registry, blocks, ChargeFrom, Granted, Call, NoCall, AccountOK
  <2> QED
    BY <1>2, <2>1
<1>15. ASSUME NEW t \in Threads, NEW a \in Arenas, Release(t, a)
      PROVE  Settled
  <2>1. Calls(t, 0, 0) /\ size' = size /\ used' = used /\ bytes' = bytes
    BY <1>0, <1>1, <1>15
       DEF Release, InFlight, Freed, Charged, Charging, Crediting, CallOK,
           Goto, Enter, Return, Unlock, counters, registry, blocks, Call, NoCall
  <2> QED
    BY <1>2, <2>1
<1>16. ASSUME NEW t \in Threads, NEW n \in Requests,
              NEW a \in handles \cup {NoArena}, Allocate(t, n, a)
      PROVE  Settled
  <2>1. Calls(t, 0, 0) /\ size' = size /\ used' = used /\ bytes' = bytes
    BY <1>0, <1>1, <1>16
       DEF Allocate, InFlight, Freed, Charged, Charging, Crediting, CallOK,
           Goto, Enter, Return, Unlock, counters, registry, blocks, Call, NoCall
  <2> QED
    BY <1>2, <2>1
<1>17. ASSUME NEW t \in Threads, TrackRefused(t)
      PROVE  Settled
  <2>1. Calls(t, 0, 0) /\ size' = size /\ used' = used /\ bytes' = bytes
    BY <1>0, <1>1, <1>17, NoCallType
       DEF TrackRefused, InFlight, Freed, Charged, Charging, Crediting, CallOK,
           Goto, Enter, Return, Unlock, counters, registry, blocks
  <2> QED
    BY <1>2, <2>1
<1>18. ASSUME NEW t \in Threads, NEW n \in RawRequests, AllocateRaw(t, n)
      PROVE  Settled
  <2>1. Calls(t, 0, 0) /\ size' = size /\ used' = used /\ bytes' = bytes
    BY <1>0, <1>1, <1>18
       DEF AllocateRaw, InFlight, Freed, Charged, Charging, Crediting, CallOK,
           Goto, Enter, Return, Unlock, counters, registry, blocks, ChargeFrom, Granted, Call, NoCall
  <2> QED
    BY <1>2, <2>1
<1>19. ASSUME NEW t \in Threads, FreeHost(t)
      PROVE  Settled
  <2>1. Calls(t, 0, 0) /\ size' = size /\ used' = used /\ bytes' = bytes
    BY <1>0, <1>1, <1>19, NoCallType
       DEF FreeHost, InFlight, Freed, Charged, Charging, Crediting, CallOK,
           Goto, Enter, Return, Unlock, counters, registry, blocks
  <2> QED
    BY <1>2, <2>1
<1>20. ASSUME NEW t \in Threads, ChargeUnlimited(t)
      PROVE  Settled
  BY <1>20 DEF ChargeUnlimited, Accountable
<1>21. ASSUME NEW t \in Threads, NEW a \in Arenas, NEW n \in GrowBy, Grow(t, a, n)
      PROVE  Settled
  BY <1>21 DEF Accountable
<1>22. ASSUME NEW t \in Threads, NEW a \in Arenas, Register(t, a)
      PROVE  Settled
  <2>0. size[a] = 0 /\ used[a] = 0
    BY <1>1, <1>22 DEF Register, FreeAddress, ReleaseInv, AccountInv, CallOK
  <2>1. Calls(t, Unused(a)' - Unused(a), 0)
    BY <1>0, <1>1, <1>22, <2>0, NoCallType
       DEF Register, InFlight, Freed, Charged, Charging, Crediting, CallOK, Unused, AccountOK,
           Goto, Enter, Return, counters, blocks
  <2>2. /\ bytes' = bytes
        /\ \A x \in Arenas \ {a} : size'[x] = size[x] /\ used'[x] = used[x]
    BY <1>0, <1>22 DEF Register, blocks
  <2> QED
    BY <1>3, <2>1, <2>2
<1>23. ASSUME NEW t \in Threads, NEW b \in Blocks, Malloc(t, b)
      PROVE  Settled
  <2>1. bytes[b] = 0
    BY <1>23 DEF Malloc, AccountInv
  <2>2. Calls(t, bytes'[b] - bytes[b], bytes'[b] - bytes[b])
    BY <1>0, <1>1, <1>23, <2>1, NoCallType
       DEF Malloc, InFlight, Freed, Charged, Charging, Crediting, CallOK,
           Goto, Enter, Return, counters
  <2>3. /\ size' = size /\ used' = used
        /\ \A x \in Blocks \ {b} : bytes'[x] = bytes[x]
    BY <1>0, <1>23 DEF Malloc, registry
  <2> QED
    BY <1>4, <2>2, <2>3
<1>24. ASSUME NEW t \in Threads, NEW b \in Blocks, DeallocateRaw(t, b)
      PROVE  Settled
  <2>1. Calls(t, bytes'[b] - bytes[b], bytes'[b] - bytes[b])
    BY <1>0, <1>1, <1>24, NoCallType
       DEF DeallocateRaw, InFlight, Freed, Charged, Charging, Crediting, CallOK,
           Goto, Enter, Call, counters
  <2>2. /\ size' = size /\ used' = used
        /\ \A x \in Blocks \ {b} : bytes'[x] = bytes[x]
    BY <1>0, <1>24 DEF DeallocateRaw, registry
  <2> QED
    BY <1>4, <2>1, <2>2
<1>25. ASSUME NEW t \in Threads, ChargeRefused(t)
      PROVE  Settled
  <2>0. call[t].arena \in Arenas \cup {NoArena}
    BY <1>0 DEF CallType
  <2>1. CASE call[t].op # "allocate" \/ call[t].arena = NoArena
    <3>1. Calls(t, 0, 0) /\ size' = size /\ used' = used /\ bytes' = bytes
      BY <1>0, <1>1, <1>25, <2>1, NoCallType
         DEF ChargeRefused, RollBackTracker, AccountOK, InMutex, InFlight, Freed, Charged, Charging, Crediting, CallOK,
             Goto, Enter, Return, counters, blocks
    <3> QED
      BY <1>2, <3>1
  <2>2. CASE call[t].op = "allocate" /\ call[t].arena \in Arenas
    <3>0. PICK a \in Arenas : a = call[t].arena
      BY <2>2
    <3>1. call[t].charge = OverflowCharge(used[a] - call[t].bytes, call[t].bytes, size[a])
      BY <1>0, <1>1, <1>25, <2>2, <3>0 DEF ChargeRefused, AccountOK, InMutex, Charging, Crediting
    <3>2. /\ size' = size /\ bytes' = bytes
          /\ used' = [used EXCEPT ![a] = @ - call[t].bytes]
      BY <1>0, <1>a, <1>25, <2>2, <3>0 DEF ChargeRefused, RollBackTracker, blocks
    <3>3. Unused(a)' - Unused(a) = call[t].bytes - call[t].charge
      BY <1>0, <1>1, <1>a, <2>2, <3>0, <3>1, <3>2 DEF Unused, OverflowCharge
    <3>4. Calls(t, call[t].bytes - call[t].charge, 0)
      BY <1>0, <1>1, <1>25, <2>2, NoCallType
         DEF ChargeRefused, InFlight, Freed, Charged, Charging, Crediting, CallOK,
             Goto, Enter, Return, counters, blocks
    <3>5. Calls(t, Unused(a)' - Unused(a), 0)
      BY <3>3, <3>4
    <3>6. \A x \in Arenas \ {a} : size'[x] = size[x] /\ used'[x] = used[x]
      BY <1>0, <3>2
    <3> QED
      BY <1>3, <2>2, <3>2, <3>5, <3>6
  <2> QED
    BY <2>0, <2>1, <2>2
<1>26. ASSUME NEW t \in Threads, Credit(t)
      PROVE  Settled
  <2>a. total' = total - call[t].charge /\ call[t].charge <= total
    BY <1>0, <1>1, <1>26, CreditCovered DEF Credit
  <2>0. call[t].arena \in Arenas \cup {NoArena}
    BY <1>0 DEF CallType
  <2>1. CASE call[t].op # "allocate" \/ call[t].arena = NoArena
    <3>1. Calls(t, 0, 0) /\ size' = size /\ used' = used /\ bytes' = bytes
      BY <1>0, <1>1, <1>26, <2>a, <2>1, NoCallType
         DEF Credit, RollBackTracker, AccountOK, InMutex, InFlight, Freed, Charged, Charging, Crediting, CallOK,
             Goto, Enter, Return, counters, blocks
    <3> QED
      BY <1>2, <3>1
  <2>2. CASE call[t].op = "allocate" /\ call[t].arena \in Arenas
    <3>0. PICK a \in Arenas : a = call[t].arena
      BY <2>2
    <3>1. call[t].charge = OverflowCharge(used[a] - call[t].bytes, call[t].bytes, size[a])
      BY <1>0, <1>1, <1>26, <2>2, <3>0 DEF Credit, AccountOK, InMutex, Charging, Crediting
    <3>2. /\ size' = size /\ bytes' = bytes
          /\ used' = [used EXCEPT ![a] = @ - call[t].bytes]
      BY <1>0, <1>a, <1>26, <2>2, <3>0 DEF Credit, RollBackTracker, blocks
    <3>3. Unused(a)' - Unused(a) = call[t].bytes - call[t].charge
      BY <1>0, <1>1, <1>a, <2>2, <3>0, <3>1, <3>2 DEF Unused, OverflowCharge
    <3>4. Calls(t, call[t].bytes - call[t].charge, 0)
      BY <1>0, <1>1, <1>26, <2>a, <2>2, NoCallType
         DEF Credit, InFlight, Freed, Charged, Charging, Crediting, CallOK,
             Goto, Enter, Return, counters, blocks
    <3>5. Calls(t, Unused(a)' - Unused(a), 0)
      BY <3>3, <3>4
    <3>6. \A x \in Arenas \ {a} : size'[x] = size[x] /\ used'[x] = used[x]
      BY <1>0, <3>2
    <3> QED
      BY <1>3, <2>2, <3>2, <3>5, <3>6
  <2> QED
    BY <2>0, <2>1, <2>2
<1>27. ASSUME NEW t \in Threads, MallocFails(t)
      PROVE  Settled
  <2>0. CASE call[t].charge # 0
    <3>1. Calls(t, 0, 0) /\ size' = size /\ used' = used /\ bytes' = bytes
      BY <1>0, <1>1, <1>27, <2>0
         DEF MallocFails, AccountOK, InFlight, Freed, Charged, Charging, Crediting, CallOK, Goto, counters, blocks
    <3> QED
      BY <1>2, <3>1
  <2>1. CASE call[t].charge = 0
    <3>0. call[t].arena \in Arenas \cup {NoArena}
      BY <1>0 DEF CallType
    <3>1. CASE call[t].op # "allocate" \/ call[t].arena = NoArena
      <4>1. Calls(t, 0, 0) /\ size' = size /\ used' = used /\ bytes' = bytes
        BY <1>0, <1>1, <1>27, <2>1, <3>1, NoCallType
           DEF MallocFails, RollBackTracker, AccountOK, InMutex, InFlight, Freed, Charged, Charging, Crediting, CallOK,
               Goto, Enter, Return, counters, blocks
      <4> QED
        BY <1>2, <4>1
    <3>2. CASE call[t].op = "allocate" /\ call[t].arena \in Arenas
      <4>0. PICK a \in Arenas : a = call[t].arena
        BY <3>2
      <4>1. call[t].charge = OverflowCharge(used[a] - call[t].bytes, call[t].bytes, size[a])
        BY <1>0, <1>1, <1>27, <2>1, <3>2, <4>0 DEF MallocFails, AccountOK, InMutex, Charging, Crediting
      <4>2. /\ size' = size /\ bytes' = bytes
            /\ used' = [used EXCEPT ![a] = @ - call[t].bytes]
        BY <1>0, <1>a, <1>27, <2>1, <3>2, <4>0 DEF MallocFails, RollBackTracker, blocks
      <4>3. Unused(a)' - Unused(a) = call[t].bytes - call[t].charge
        BY <1>0, <1>1, <1>a, <3>2, <4>0, <4>1, <4>2 DEF Unused, OverflowCharge
      <4>4. Calls(t, call[t].bytes - call[t].charge, 0)
        BY <1>0, <1>1, <1>27, <2>1, <3>2, NoCallType
           DEF MallocFails, InFlight, Freed, Charged, Charging, Crediting, CallOK,
               Goto, Enter, Return, counters, blocks
      <4>5. Calls(t, Unused(a)' - Unused(a), 0)
        BY <4>3, <4>4
      <4>6. \A x \in Arenas \ {a} : size'[x] = size[x] /\ used'[x] = used[x]
        BY <1>0, <4>2
      <4> QED
        BY <1>3, <3>2, <4>2, <4>5, <4>6
    <3> QED
      BY <3>0, <3>1, <3>2
  <2> QED
    BY <2>0, <2>1
<1>28. ASSUME NEW t \in Threads, Unregister(t)
      PROVE  Settled
  <2>1. PICK a \in Arenas : a = call[t].arena /\ call[t].op = "release"
    BY <1>1, <1>28 DEF Unregister, CallOK
  <2> DEFINE reclaimed == Unconsumed(size[a], used[a])
  <2>2. Signed(size[a]) = size[a]
    BY <2>1, SignedSize DEF AccountInv, TypeInv, TypeOK
  <2>3. /\ bytes' = bytes
        /\ used' = [used EXCEPT ![a] = 0] /\ size' = [size EXCEPT ![a] = 0]
    BY <1>28, <2>1 DEF Unregister, blocks
  <2>4. reclaimed <= Unused(a) /\ reclaimed \in Nat /\ Unused(a) \in Nat /\ Unused(a)' = 0
    BY <1>0, <2>1, <2>3 DEF Unused, Unconsumed
  <2>5. /\ \A u \in Threads \ {t} : pc'[u] = pc[u] /\ call'[u] = call[u]
        /\ total' = total /\ pinned' = pinned /\ pc[t] = "releaseLock"
        /\ \/ reclaimed = 0 /\ pc'[t] = "idle"
           \/ /\ pc'[t] = "creditLoad"
              /\ call'[t].charge = reclaimed /\ call'[t].op = "release"
    BY <1>0, <1>28, <2>1, <2>2
       DEF Unregister, CallType, Goto, Enter, Return, counters, blocks
  <2>6. \/ reclaimed = Unused(a)
        \/ used[a] < 0
    BY <1>0, <2>1 DEF Unused, Unconsumed
  <2>7. used[a] < 0 => StaleDrop
    BY <1>28, <2>1, <2>5 DEF Unregister, ReleaseInv, StaleDrop
  <2> HIDE DEF reclaimed
  <2>8. Calls(t, -reclaimed, 0)
    BY <1>0, <1>1, <2>4, <2>5
       DEF InFlight, Freed, Charged, Crediting
  <2>9. \A x \in Arenas \ {a} : size'[x] = size[x] /\ used'[x] = used[x]
    BY <1>0, <2>3
  <2>10. CASE reclaimed = Unused(a)
    <3>1. Calls(t, Unused(a)' - Unused(a), 0)
      BY <1>0, <1>1, <2>4, <2>8, <2>10
    <3> QED
      BY <1>3, <2>1, <2>3, <2>9, <3>1
  <2>11. CASE used[a] < 0
    <3> DEFINE da == Unused(a)' - Unused(a)
    <3>1. da \in Int /\ da <= -reclaimed
      BY <2>4
    <3>2. /\ Moves(ArenaClaims, ArenaClaims', Arenas, da)
          /\ Moves(bytes, bytes', Blocks, 0)
      BY <2>1, <2>3, <2>9, ClaimMoves
    <3> HIDE DEF da
    <3>3. /\ Claimed \in Nat /\ Locked \in Nat
          /\ Claimed' = Claimed + da + 0 + InFlight(t)' - InFlight(t)
          /\ Locked' = Locked + 0 + Freed(t)' - Freed(t)
      BY <2>8, <3>1, <3>2, Settle, 0 \in Int
    <3> QED
      BY <1>0, <1>1, <2>4, <2>7, <2>8, <2>11, <3>1, <3>3 DEF Settled
  <2> QED
    BY <2>6, <2>10, <2>11
<1>29. ASSUME NEW t \in Threads, Track(t)
      PROVE  Settled
  <2>0. PICK a \in Arenas \cup {NoArena}, n \in Nat :
          a = call[t].arena /\ n = call[t].bytes
    BY <1>0, <1>1 DEF CallType
  <2>1. CASE a = NoArena
    <3>1. Calls(t, 0, 0) /\ size' = size /\ used' = used /\ bytes' = bytes
      BY <1>0, <1>1, <1>29, <2>0, <2>1
         DEF Track, ChargeFrom, Granted, InFlight, Freed, Charged, Charging, Crediting, CallOK,
             Goto, Enter, counters, blocks
    <3> QED
      BY <1>2, <3>1
  <2>2. CASE a \in Arenas
    <3> DEFINE charge == OverflowCharge(used[a], n, size[a])
    <3>1. Signed(size[a]) = size[a]
      BY <2>2, SignedSize DEF AccountInv, TypeInv, TypeOK
    <3>a. Signed(n) = n
      BY <1>1, <1>a, <1>29, <2>0 DEF Track, CallOK
    <3>2. size' = size /\ bytes' = bytes /\ used' = [used EXCEPT ![a] = @ + n]
      BY <1>0, <1>29, <2>0, <2>2, <3>a DEF Track, blocks
    <3>3. charge \in Nat /\ Unused(a)' - Unused(a) = charge - n
      BY <1>0, <2>0, <2>2, <3>a, <3>2 DEF Unused, OverflowCharge
    <3>4. call'[t].charge = charge /\ call'[t].bytes = n /\ call'[t].op = "allocate"
      BY <1>0, <1>1, <1>29, <2>0, <2>2, <3>1 DEF Track, CallOK, CallType, Enter
    <3>5. pc'[t] = ChargeFrom("allocate", charge) /\ pc[t] = "allocateLock"
      BY <1>0, <1>29, <2>0, <2>2, <3>1 DEF Track, Goto
    <3> HIDE DEF charge
    <3>6. Calls(t, charge - n, 0)
      BY <1>0, <1>1, <1>29, <2>0, <3>3, <3>4, <3>5
         DEF Track, ChargeFrom, Granted, InFlight, Freed, Charged, Charging, Crediting, CallOK,
             Goto, Enter, counters, blocks
    <3>7. Calls(t, Unused(a)' - Unused(a), 0)
      BY <3>3, <3>6
    <3>8. \A x \in Arenas \ {a} : size'[x] = size[x] /\ used'[x] = used[x]
      BY <1>0, <3>2
    <3> QED
      BY <1>3, <2>2, <3>2, <3>7, <3>8
  <2> QED
    BY <2>0, <2>1, <2>2
<1>30. ASSUME NEW t \in Threads, NEW b \in Blocks, Unmap(t, b)
      PROVE  Settled
  <2>0. PICK a \in Arenas \cup {NoArena}, n \in Nat :
          a = owner[b] /\ n = bytes[b] /\ active \subseteq Arenas
    BY <1>0 DEF TypeInv, TypeOK
  <2> DEFINE credit == IF a \in active THEN OverflowCredit(used[a], n, size[a]) ELSE n
  <2>1. a \in active => Signed(size[a]) = size[a]
    BY <2>0, SignedSize DEF AccountInv, TypeInv, TypeOK
  <2>a. Signed(n) = n
    BY <1>b, <1>30, <2>0 DEF Unmap
  <2>2. /\ size' = size /\ bytes' = [bytes EXCEPT ![b] = 0]
        /\ used' = IF a \in active THEN [used EXCEPT ![a] = @ - n] ELSE used
        /\ total' = total /\ pinned' = pinned
    BY <1>30, <2>0, <2>a DEF Unmap, counters
  <2>3. credit \in Nat
    BY <1>0, <2>0 DEF OverflowCredit
  <2>4. /\ \A u \in Threads \ {t} : pc'[u] = pc[u] /\ call'[u] = call[u]
        /\ pc'[t] = "free" /\ pc[t] = "idle"
        /\ call'[t].bytes = n /\ call'[t].charge = credit
    BY <1>0, <1>30, <2>0, <2>1 DEF Unmap, Goto, Enter, Call
  <2>5. InFlight(t)' = credit /\ InFlight(t) = 0 /\ Freed(t)' = n /\ Freed(t) = 0
    BY <2>4 DEF InFlight, Freed, Charged, Crediting
  <2> DEFINE db == bytes'[b] - bytes[b]
  <2>6. db = -n /\ db \in Int /\ Moves(bytes, bytes', Blocks, db)
    <3>1. \A x \in Blocks \ {b} : bytes'[x] = bytes[x]
      BY <1>0, <2>2
    <3>2. Moves(bytes, bytes', Blocks, bytes'[b] - bytes[b])
      BY <3>1, ClaimMoves
    <3> QED
      BY <1>0, <2>0, <2>2, <3>2
  <2> HIDE DEF db
  <2>7. pinned' = pinned + db + Freed(t)' - Freed(t)
    BY <1>0, <2>0, <2>2, <2>5, <2>6
  <2> HIDE DEF credit
  <2>8. PICK da \in Int : /\ Moves(ArenaClaims, ArenaClaims', Arenas, da)
                          /\ da = n - credit
    <3>1. CASE a \in active
      <4>1. \A x \in Arenas \ {a} : size'[x] = size[x] /\ used'[x] = used[x]
        BY <1>0, <2>2, <3>1
      <4>2. Moves(ArenaClaims, ArenaClaims', Arenas, Unused(a)' - Unused(a))
        BY <2>0, <3>1, <4>1, ClaimMoves
      <4>3. Unused(a)' - Unused(a) = n - credit
        BY <1>0, <2>0, <2>a, <2>2, <3>1 DEF Unused, OverflowCredit, credit
      <4> QED
        BY <2>0, <2>3, <4>2, <4>3
    <3>2. CASE a \notin active
      <4>1. Moves(ArenaClaims, ArenaClaims', Arenas, 0)
        BY <2>2, <3>2, ClaimMoves
      <4> QED
        BY <2>0, <3>2, <4>1 DEF credit
    <3> QED
      BY <3>1, <3>2
  <2>9. /\ Claimed \in Nat /\ Locked \in Nat
        /\ Claimed' = Claimed + da + db + InFlight(t)' - InFlight(t)
        /\ Locked' = Locked + db + Freed(t)' - Freed(t)
    BY <2>4, <2>6, <2>8, Settle
  <2> QED
    BY <1>0, <2>0, <2>2, <2>3, <2>5, <2>6, <2>7, <2>8, <2>9 DEF Settled
<1> QED
  BY <1>5, <1>6, <1>7, <1>8, <1>9, <1>10, <1>11, <1>12, <1>13, <1>14, <1>15,
     <1>16, <1>17, <1>18, <1>19, <1>20, <1>21, <1>22, <1>23, <1>24, <1>25,
     <1>26, <1>27, <1>28, <1>29, <1>30
     DEF Next, Step, Start

LEMMA LedgerStep ==
  ASSUME Accountable, TypeInv, MutexInv, AccountInv, ReleaseInv, LedgerInv,
         TypeInv', MutexInv', AccountInv', [Next]_vars
  PROVE  LedgerInv'
<1>1. ClaimsTyped /\ ClaimsTyped'
  BY ClaimTypes, PTL
<1>2. IsFiniteSet(Threads) /\ IsFiniteSet(Arenas) /\ IsFiniteSet(Blocks)
  BY PoolAssumption
<1>3. Claimed \in Nat /\ Locked \in Nat
  BY <1>1, <1>2, SumNat DEF ClaimsTyped, Claimed, Locked
<1>4. Claimed' \in Nat /\ Locked' \in Nat
  BY <1>1, <1>2, SumNat DEF ClaimsTyped, Claimed, Locked
<1>5. total \in Int /\ total' \in Int /\ pinned \in Int /\ pinned' \in Int
  BY PoolAssumption DEF TypeInv, TypeOK
<1>6. Settled
  BY SettledStep
<1>7. PICK c \in Nat, cc \in Nat, l \in Nat, ll \in Nat,
           n \in Int, nn \in Int, p \in Int, pp \in Int :
        /\ c = Claimed /\ cc = Claimed' /\ l = Locked /\ ll = Locked'
        /\ n = total /\ nn = total' /\ p = pinned /\ pp = pinned'
  BY <1>3, <1>4, <1>5, Zenon
<1>8. (nn - cc = n - c \/ nn - cc >= n - c) /\ pp - ll = p - l
  BY <1>6, <1>7, Zenon DEF Settled
<1>9. n >= c /\ p = l
  BY <1>7 DEF LedgerInv
<1>10. nn >= cc /\ pp = ll
  BY <1>8, <1>9
<1> QED
  BY <1>7, <1>10 DEF LedgerInv

\* The conservation law in the terms of the proof: the counter covers the
\* claims, and HIP's page-locked bytes are those of the blocks.
THEOREM LedgerInvariance == ASSUME Accountable PROVE Spec => []LedgerInv
<1>1. /\ TypeInv /\ MutexInv /\ AccountInv /\ ReleaseInv /\ LedgerInv /\ [Next]_vars
      /\ TypeInv' /\ MutexInv' /\ AccountInv'
      => LedgerInv'
  BY LedgerStep
<1> QED
  BY <1>1, LedgerInit, TypeInvariance, MutexInvariance, AccountInvariance,
     ReleaseInvariance, PTL DEF Spec

\* The clamp of do_release is never needed: a credit finds at least its own
\* amount in the counter.
THEOREM CreditsAreExact == ASSUME Accountable PROVE Spec => CreditIsExact
<1>1. TypeInv /\ AccountInv /\ LedgerInv /\ [Next]_vars
      => [\A t \in Threads :
            pc[t] = "creditCas" /\ pc'[t] = "idle"
              => total' = total - call[t].charge]_vars
  <2> SUFFICES ASSUME TypeInv, AccountInv, LedgerInv, Next, NEW t \in Threads,
                      pc[t] = "creditCas", pc'[t] = "idle"
               PROVE  total' = total - call[t].charge
    BY DEF vars
  <2>1. pc \in [Threads -> Labels] /\ total \in Nat /\ call[t].charge \in Nat
    BY PoolAssumption DEF TypeInv, TypeOK, CallType
  <2>2. PICK u \in Threads : Step(u) \/ Start(u)
    BY DEF Next
  <2>3. CASE u # t
    BY <2>1, <2>2, <2>3
       DEF Step, Start, ChargeLoad, Charge, CasRetry, ChargeUnlimited,
           ChargeRefused, PeakLoadNow, PeakLoadOld, PeakRaise, PeakRetry,
           CreditLoad, Credit, Reserve, Register, Grow, Release, Unregister,
           Allocate, Track, TrackRefused, AllocateRaw, Malloc, MallocFails,
           Unmap, FreeHost, DeallocateRaw, Goto, Return
  <2>4. CASE u = t
    <3>1. Credit(t)
      BY <2>1, <2>2, <2>4
         DEF Step, Start, ChargeLoad, Charge, CasRetry, ChargeUnlimited,
             ChargeRefused, PeakLoadNow, PeakLoadOld, PeakRaise, PeakRetry,
             CreditLoad, Reserve, Register, Grow, Release, Unregister,
             Allocate, Track, TrackRefused, AllocateRaw, Malloc, MallocFails,
             Unmap, FreeHost, DeallocateRaw
    <3>2. total >= call[t].charge
      BY CreditCovered
    <3> QED
      BY <2>1, <3>1, <3>2 DEF Credit
  <2> QED
    BY <2>3, <2>4
<1> QED
  BY <1>1, TypeInvariance, AccountInvariance, LedgerInvariance, PTL
     DEF Spec, CreditIsExact

\* While no deallocation is between taking a block out of the table and
\* freeing it, the page-locked memory is within the counter.
THEOREM PinnedIsCoveredAtRest == ASSUME Accountable PROVE Spec => []PinnedCoveredAtRest
<1>1. TypeInv /\ AccountInv /\ LedgerInv => PinnedCoveredAtRest
  <2> SUFFICES ASSUME TypeInv, AccountInv, LedgerInv, \A t \in Threads : pc[t] # "free"
               PROVE  pinned <= total
    BY DEF PinnedCoveredAtRest
  <2>1. \A t \in Threads : Freeing[t] = 0
    BY DEF Freeing
  <2>2. IsFiniteSet(Threads) /\ IsFiniteSet(Arenas) /\ IsFiniteSet(Blocks)
    BY PoolAssumption
  <2>3. ClaimsTyped
    BY ClaimTypes
  <2>4. /\ Sum(ArenaClaims, Arenas) \in Nat /\ Sum(bytes, Blocks) \in Nat
        /\ Sum(ThreadClaims, Threads) \in Nat /\ Sum(Freeing, Threads) = 0
    BY <2>1, <2>2, <2>3, SumNat, SumIsZero DEF ClaimsTyped
  <2> QED
    BY <2>4, PoolAssumption DEF LedgerInv, Claimed, Locked, TypeInv, TypeOK
<1> QED
  BY <1>1, TypeInvariance, AccountInvariance, LedgerInvariance, PTL
-----------------------------------------------------------------------------
(* The claims as the properties sum them: a fold of an operator is the sum *)
(* of the function that tabulates it.                                      *)

LEMMA ThreadSum == MapThenSumSet(InFlight, Threads) = Sum(ThreadClaims, Threads)
<1> DEFINE U(g) == g = [s \in SUBSET Threads |->
                          IF s = {} THEN 0 ELSE InFlight(First(s)) + g[s \ {First(s)}]]
<1>1. MapThenSumSet(InFlight, Threads) = (CHOOSE g : U(g))[Threads]
  BY DEF MapThenSumSet, MapThenFoldSet, First
<1>2. ASSUME NEW s \in SUBSET Threads, s # {}
      PROVE  InFlight(First(s)) = ThreadClaims[First(s)]
  BY <1>2, FirstIsIn DEF ThreadClaims
<1>3. \A g : U(g) <=> Unfolded(g, ThreadClaims, Threads)
  BY <1>2 DEF Unfolded
<1>4. IsFiniteSet(Threads)
  BY PoolAssumption
<1>5. \E g : U(g)
  BY <1>3, <1>4, UnfoldedExists
<1> DEFINE h == CHOOSE g : U(g)
<1>6. U(h)
  BY <1>5
<1>7. Unfolded(h, ThreadClaims, Threads)
  BY <1>3, <1>6
<1> HIDE DEF U, h
<1>8. Sum(ThreadClaims, Threads) = h[Threads]
  BY <1>4, <1>7, SumIsUnfolded, Threads \in SUBSET Threads
<1> QED
  BY <1>1, <1>8 DEF h

LEMMA ArenaSum ==
  ASSUME TypeInv
  PROVE  MapThenSumSet(Unused, active) = Sum(ArenaClaims, active)
<1> DEFINE U(g) == g = [s \in SUBSET active |->
                          IF s = {} THEN 0 ELSE Unused(First(s)) + g[s \ {First(s)}]]
<1>1. MapThenSumSet(Unused, active) = (CHOOSE g : U(g))[active]
  BY DEF MapThenSumSet, MapThenFoldSet, First
<1>2. ASSUME NEW s \in SUBSET active, s # {}
      PROVE  Unused(First(s)) = ArenaClaims[First(s)]
  BY <1>2, FirstIsIn, TypeInv DEF ArenaClaims, TypeInv, TypeOK
<1>3. \A g : U(g) <=> Unfolded(g, ArenaClaims, active)
  BY <1>2 DEF Unfolded
<1>4. IsFiniteSet(active)
  BY TypeInv, PoolAssumption, FS_Subset DEF TypeInv, TypeOK
<1>5. \E g : U(g)
  BY <1>3, <1>4, UnfoldedExists
<1> DEFINE h == CHOOSE g : U(g)
<1>6. U(h)
  BY <1>5
<1>7. Unfolded(h, ArenaClaims, active)
  BY <1>3, <1>6
<1> HIDE DEF U, h
<1>8. Sum(ArenaClaims, active) = h[active]
  BY <1>4, <1>7, SumIsUnfolded, active \in SUBSET active
<1> QED
  BY <1>1, <1>8 DEF h

ClaimsAgree == Claims = Claimed

LEMMA ClaimsAreClaimed == TypeInv /\ AccountInv => ClaimsAgree
<1> SUFFICES ASSUME TypeInv, AccountInv
             PROVE  Claims = Claimed
  BY DEF ClaimsAgree
<1>1. /\ IsFiniteSet(Threads) /\ IsFiniteSet(Arenas) /\ IsFiniteSet(Blocks)
      /\ active \in SUBSET Arenas /\ liveAllocs \cup rawBlocks \in SUBSET Blocks
  BY PoolAssumption DEF TypeInv, TypeOK
<1>2. ArenaClaims \in [Arenas -> Nat] /\ bytes \in [Blocks -> Nat]
  BY ClaimTypes DEF ClaimsTyped
<1>3. Sum(ArenaClaims, active) = Sum(ArenaClaims, Arenas)
  <2>1. \A a \in Arenas \ active : ArenaClaims[a] = 0
    BY DEF ArenaClaims, Unused, AccountInv
  <2>2. \A a \in Arenas : ArenaClaims[a] \in Int
    BY <1>2
  <2> QED
    BY <1>1, <2>1, <2>2, SumOfPart
<1>4. Sum(bytes, liveAllocs \cup rawBlocks) = Sum(bytes, Blocks)
  <2>1. \A b \in Blocks \ (liveAllocs \cup rawBlocks) : bytes[b] = 0
    BY DEF AccountInv
  <2>2. \A b \in Blocks : bytes[b] \in Int
    BY <1>2
  <2> DEFINE B == liveAllocs \cup rawBlocks
  <2>3. B \in SUBSET Blocks
    BY <1>1
  <2> HIDE DEF B
  <2>4. \A b \in Blocks \ B : bytes[b] = 0
    BY <2>1 DEF B
  <2>5. Sum(bytes, B) = Sum(bytes, Blocks)
    BY <1>1, <2>2, <2>3, <2>4, SumOfPart
  <2> QED
    BY <2>5 DEF B
<1>5. MapThenSumSet(LAMBDA b : bytes[b], liveAllocs \cup rawBlocks)
        = Sum(bytes, liveAllocs \cup rawBlocks)
  BY DEF Sum
<1> QED
  BY <1>3, <1>4, <1>5, ArenaSum, ThreadSum DEF Claims, Claimed

\* Each byte is counted: total_allocated_ covers what reservations keep free,
\* the blocks handed out and the charges and credits on their way.
THEOREM EachByteIsCounted == ASSUME Accountable PROVE Spec => []EveryByteCounted
<1>1. TypeInv /\ AccountInv /\ LedgerInv => EveryByteCounted
  BY ClaimsAreClaimed DEF ClaimsAgree, LedgerInv, EveryByteCounted
<1> QED
  BY <1>1, TypeInvariance, AccountInvariance, LedgerInvariance, PTL

\* The counter is exact but for the releases that drop a tracker which a stale
\* arena pointer drove below zero: nothing else opens or closes a gap between
\* what is charged and what is claimed.
THEOREM SurplusIsExplained ==
  ASSUME Accountable
  PROVE  Spec => SurplusOnlyFromStaleTracker
<1>1. /\ TypeInv /\ MutexInv /\ AccountInv /\ ReleaseInv /\ LedgerInv /\ [Next]_vars
      /\ TypeInv' /\ MutexInv' /\ AccountInv'
      => [(total - Claims)' # total - Claims => StaleDrop]_vars
  <2> SUFFICES ASSUME TypeInv, MutexInv, AccountInv, ReleaseInv, LedgerInv,
                      TypeInv', MutexInv', AccountInv', [Next]_vars
               PROVE  (total - Claims)' # total - Claims => StaleDrop
    OBVIOUS
  <2>1. ClaimsAgree /\ ClaimsAgree'
    BY ClaimsAreClaimed, PTL
  <2>2. Settled
    BY SettledStep
  <2> QED
    BY <2>1, <2>2, Zenon DEF ClaimsAgree, Settled
<1>2. Spec => [][(total - Claims)' # total - Claims => StaleDrop]_vars
  BY <1>1, TypeInvariance, MutexInvariance, AccountInvariance, ReleaseInvariance,
     LedgerInvariance, PTL DEF Spec
<1> QED
  BY <1>2 DEF SurplusOnlyFromStaleTracker, StaleDrop

-----------------------------------------------------------------------------
(***************************************************************************)
(* do_reserve and do_release, as the calls of HostPool use them, implement *)
(* the atomic admission that CapacityLedger specifies.                     *)
(***************************************************************************)
-----------------------------------------------------------------------------
(* Charges and credits of 0 bytes never reach the counter. *)

PositiveInv ==
  /\ \A t \in Threads :
       /\ pc[t] \in {"chargeLoad", "chargeCas"} \cup Crediting => call[t].charge # 0
       /\ call[t].op = "allocateRaw" => call[t].bytes # 0
  /\ \A b \in rawBlocks : bytes[b] # 0
  /\ liveAllocs \cap rawBlocks = {}

LEMMA PositiveStep ==
  ASSUME TypeInv, PositiveInv, [Next]_vars
  PROVE  PositiveInv'
<1>0. /\ pc \in [Threads -> Labels] /\ call \in [Threads -> CallType]
      /\ \A t \in Threads : CallOK(t)
      /\ bytes \in [Blocks -> 0 .. SizeMax]
      /\ liveAllocs \subseteq Blocks /\ rawBlocks \subseteq Blocks
  BY DEF TypeInv, TypeOK
<1> USE <1>0
    DEF PositiveInv, CallOK, CallType, Charging, Crediting, counters, registry,
        blocks, Goto, Enter, Return, Unlock
<1>1. CASE UNCHANGED vars
  BY <1>1 DEF vars
<1>2. ASSUME NEW t \in Threads, ChargeLoad(t)
      PROVE  PositiveInv'
  BY <1>2 DEF ChargeLoad
<1>3. ASSUME NEW t \in Threads, Charge(t)
      PROVE  PositiveInv'
  BY <1>3, LoopDoneType DEF Charge
<1>4. ASSUME NEW t \in Threads, CasRetry(t)
      PROVE  PositiveInv'
  BY <1>4 DEF CasRetry
<1>5. ASSUME NEW t \in Threads, ChargeUnlimited(t)
      PROVE  PositiveInv'
  BY <1>5 DEF ChargeUnlimited
<1>6. ASSUME NEW t \in Threads, ChargeRefused(t)
      PROVE  PositiveInv'
  BY <1>6, NoCallType DEF ChargeRefused
<1>7. ASSUME NEW t \in Threads, PeakLoadNow(t)
      PROVE  PositiveInv'
  BY <1>7 DEF PeakLoadNow
<1>8. ASSUME NEW t \in Threads, PeakLoadOld(t)
      PROVE  PositiveInv'
  BY <1>8 DEF PeakLoadOld
<1>9. ASSUME NEW t \in Threads, PeakRaise(t)
      PROVE  PositiveInv'
  BY <1>9, LoopDoneType DEF PeakRaise, Granted
<1>10. ASSUME NEW t \in Threads, PeakRetry(t)
      PROVE  PositiveInv'
  BY <1>10 DEF PeakRetry
<1>11. ASSUME NEW t \in Threads, CreditLoad(t)
      PROVE  PositiveInv'
  BY <1>11 DEF CreditLoad
<1>12. ASSUME NEW t \in Threads, Credit(t)
      PROVE  PositiveInv'
  BY <1>12, NoCallType DEF Credit
<1>13. ASSUME NEW t \in Threads, NEW n \in Requests, Reserve(t, n)
      PROVE  PositiveInv'
  BY <1>13 DEF Reserve, Call, NoCall, ChargeFrom, Granted
<1>14. ASSUME NEW t \in Threads, NEW a \in Arenas, Register(t, a)
      PROVE  PositiveInv'
  BY <1>14, NoCallType DEF Register
<1>15. ASSUME NEW t \in Threads, NEW a \in Arenas, NEW n \in GrowBy, Grow(t, a, n)
      PROVE  PositiveInv'
  BY <1>15 DEF Grow
<1>16. ASSUME NEW t \in Threads, NEW a \in Arenas, Release(t, a)
      PROVE  PositiveInv'
  BY <1>16 DEF Release, Call, NoCall
<1>17. ASSUME NEW t \in Threads, Unregister(t)
      PROVE  PositiveInv'
  BY <1>17, NoCallType DEF Unregister
<1>18. ASSUME NEW t \in Threads, NEW n \in Requests,
              NEW a \in handles \cup {NoArena}, Allocate(t, n, a)
      PROVE  PositiveInv'
  BY <1>18 DEF Allocate, Call, NoCall
<1>19. ASSUME NEW t \in Threads, Track(t)
      PROVE  PositiveInv'
  BY <1>19 DEF Track, ChargeFrom, Granted
<1>20. ASSUME NEW t \in Threads, TrackRefused(t)
      PROVE  PositiveInv'
  BY <1>20, NoCallType DEF TrackRefused
<1>21. ASSUME NEW t \in Threads, NEW n \in RawRequests, AllocateRaw(t, n)
      PROVE  PositiveInv'
  BY <1>21 DEF AllocateRaw, Call, NoCall, ChargeFrom, Granted
<1>22. ASSUME NEW t \in Threads, NEW b \in Blocks, Malloc(t, b)
      PROVE  PositiveInv'
  BY <1>22, NoCallType DEF Malloc
<1>23. ASSUME NEW t \in Threads, MallocFails(t)
      PROVE  PositiveInv'
  BY <1>23, NoCallType DEF MallocFails
<1>24. ASSUME NEW t \in Threads, NEW b \in Blocks, Unmap(t, b)
      PROVE  PositiveInv'
  BY <1>24 DEF Unmap, Call, NoCall
<1>25. ASSUME NEW t \in Threads, FreeHost(t)
      PROVE  PositiveInv'
  BY <1>25, NoCallType DEF FreeHost
<1>26. ASSUME NEW t \in Threads, NEW b \in Blocks, DeallocateRaw(t, b)
      PROVE  PositiveInv'
  BY <1>26 DEF DeallocateRaw, Call, NoCall
<1> QED
  BY <1>1, <1>2, <1>3, <1>4, <1>5, <1>6, <1>7, <1>8, <1>9, <1>10, <1>11,
     <1>12, <1>13, <1>14, <1>15, <1>16, <1>17, <1>18, <1>19, <1>20, <1>21,
     <1>22, <1>23, <1>24, <1>25, <1>26
     DEF Next, Step, Start

\* A call that touches the counter changes it by at least a byte.
THEOREM PositiveInvariance == Spec => []PositiveInv
<1>1. Init => PositiveInv
  BY NoCallType DEF Init, PositiveInv, Crediting
<1>2. TypeInv /\ PositiveInv /\ [Next]_vars => PositiveInv'
  BY PositiveStep
<1> QED
  BY <1>1, <1>2, TypeInvariance, PTL DEF Spec

-----------------------------------------------------------------------------
(* Every step is a step of the ledger, or changes nothing it sees. *)

Admissions == [u \in Threads |-> LedgerRequest(u)]

\* Only the thread that takes a step changes its request.
LEMMA RequestChange ==
  ASSUME NEW t \in Threads,
         \A u \in Threads \ {t} : pc'[u] = pc[u] /\ call'[u] = call[u]
  PROVE  Admissions' = [Admissions EXCEPT ![t] = LedgerRequest(t)']
  BY DEF Admissions, LedgerRequest, LedgerKind

LEMMA LedgerSimulation ==
  ASSUME Accountable, TypeInv, MutexInv, AccountInv, LedgerInv, PositiveInv,
         TypeInv', PositiveInv', [Next]_vars
  PROVE  [Ledger!LedgerNext]_(Ledger!ledgerVars)
<1>0. /\ pc \in [Threads -> Labels] /\ call \in [Threads -> CallType]
      /\ total \in Nat /\ MemLimit \in Nat /\ MemLimit # 0 /\ SizeMax \in Nat
      /\ \A t \in Threads :
           /\ CallOK(t)
           /\ call[t].charge \in 0 .. SizeMax /\ call'[t].charge \in 0 .. SizeMax
           /\ call[t].seen \in Nat /\ call'[t].seen \in Nat
  BY PoolAssumption DEF TypeInv, TypeOK, CallType, Accountable
<1>1. \A t \in Threads :
        /\ pc[t] \in {"chargeLoad", "chargeCas"} \cup Crediting => call[t].charge # 0
        /\ pc'[t] \in {"chargeLoad", "chargeCas"} \cup Crediting => call'[t].charge # 0
  BY DEF PositiveInv
<1> DEFINE Only(t) ==
             \A u \in Threads \ {t} : pc'[u] = pc[u] /\ call'[u] = call[u]
           Kind(k, c) == [kind |-> k, n |-> c]
           Goal == [Ledger!LedgerNext]_(Ledger!ledgerVars)
<1>2. ASSUME NEW t \in Threads, Only(t) , total' = total,
             LedgerRequest(t)' = LedgerRequest(t)
      PROVE  Goal
  <2>1. Admissions' = Admissions
    BY <1>2, RequestChange DEF Admissions
  <2> QED
    BY <1>2, <2>1 DEF Ledger!ledgerVars, Admissions
<1>3. ASSUME NEW t \in Threads, Only(t), NEW c \in 1 .. SizeMax, total' = total,
             LedgerRequest(t) = Kind("none", 0),
             LedgerRequest(t)' \in {Kind("ask", c), Kind("owe", c)}
      PROVE  Goal
  <2>1. Admissions' = [Admissions EXCEPT ![t] = LedgerRequest(t)']
    BY <1>3, RequestChange
  <2>2. Ledger!Submit(t)
    BY <1>3, <2>1
       DEF Ledger!Submit, Ledger!Becomes, Ledger!None, Ledger!Ask, Ledger!Owe,
           Admissions
  <2> QED
    BY <2>2 DEF Ledger!LedgerNext
<1>4. ASSUME NEW t \in Threads, Only(t), NEW c \in 1 .. SizeMax,
             LedgerRequest(t) = Kind("ask", c), total + c <= MemLimit,
             LedgerRequest(t)' = Kind("none", 0), total' = total + c
      PROVE  Goal
  <2>1. Admissions' = [Admissions EXCEPT ![t] = LedgerRequest(t)']
    BY <1>4, RequestChange
  <2>2. Ledger!Grant(t)
    BY <1>4, <2>1
       DEF Ledger!Grant, Ledger!Becomes, Ledger!None, Ledger!Fits, Admissions
  <2> QED
    BY <2>2 DEF Ledger!LedgerNext
<1>5. ASSUME NEW t \in Threads, Only(t), NEW c \in 1 .. SizeMax, total' = total,
             LedgerRequest(t) = Kind("ask", c), ~(total + c <= MemLimit),
             LedgerRequest(t)' \in {Kind("refused", c), Kind("none", 0)}
      PROVE  Goal
  <2>1. Admissions' = [Admissions EXCEPT ![t] = LedgerRequest(t)']
    BY <1>5, RequestChange
  <2>2. Admissions[t].kind = "ask" /\ ~Ledger!Fits(Admissions[t].n)
    BY <1>5 DEF Ledger!Fits, Admissions
  <2>3. \/ Admissions' = [Admissions EXCEPT ![t] = Ledger!Refused(Admissions[t].n)]
        \/ Admissions' = [Admissions EXCEPT ![t] = Ledger!None]
    <3>1. Admissions[t].n = c
      BY <1>5 DEF Admissions
    <3> QED
      BY <1>5, <2>1, <3>1 DEF Ledger!Refused, Ledger!None
  <2>4. Ledger!Refuse(t)
    BY <1>5, <2>2, <2>3 DEF Ledger!Refuse, Ledger!Becomes, Admissions
  <2> QED
    BY <2>4 DEF Ledger!LedgerNext
<1>6. ASSUME NEW t \in Threads, Only(t), NEW c \in 1 .. SizeMax, total' = total,
             LedgerRequest(t) = Kind("refused", c),
             LedgerRequest(t)' = Kind("none", 0)
      PROVE  Goal
  <2>1. Admissions' = [Admissions EXCEPT ![t] = LedgerRequest(t)']
    BY <1>6, RequestChange
  <2>2. Ledger!Learn(t)
    BY <1>6, <2>1 DEF Ledger!Learn, Ledger!Becomes, Ledger!None, Admissions
  <2> QED
    BY <2>2 DEF Ledger!LedgerNext
<1>7. ASSUME NEW t \in Threads, Only(t), NEW c \in 1 .. SizeMax,
             LedgerRequest(t) = Kind("owe", c), c <= total, total' = total - c,
             LedgerRequest(t)' = Kind("none", 0)
      PROVE  Goal
  <2>1. Admissions' = [Admissions EXCEPT ![t] = LedgerRequest(t)']
    BY <1>7, RequestChange
  <2>2. Ledger!Pay(t)
    BY <1>7, <2>1 DEF Ledger!Pay, Ledger!Becomes, Ledger!None, Admissions
  <2> QED
    BY <2>2 DEF Ledger!LedgerNext
<1>8. CASE UNCHANGED vars
  <2>1. total' = total /\ Admissions' = Admissions
    BY <1>8 DEF vars, counters, Admissions, LedgerRequest, LedgerKind
  <2> QED
    BY <2>1 DEF Ledger!ledgerVars, Admissions
<1>9. ASSUME NEW t \in Threads, ChargeLoad(t)
      PROVE  Goal
  <2> DEFINE c == call[t].charge
  <2>1. /\ Only(t) /\ total' = total /\ c \in 1 .. SizeMax
        /\ LedgerRequest(t) = Kind("ask", c) /\ c <= MemLimit
        /\ LedgerRequest(t)' =
             IF total > MemLimit - c THEN Kind("refused", c) ELSE Kind("ask", c)
    BY <1>0, <1>1, <1>9
       DEF ChargeLoad, LedgerRequest, LedgerKind, Crediting, CallOK, Charging, CallType,
           Goto, Enter, Return, Unlock, counters
  <2>2. total > MemLimit - c => ~(total + c <= MemLimit)
    BY <1>0, <2>1
  <2> HIDE DEF c
  <2> QED
    BY <1>2, <1>5, <2>1, <2>2
<1>10. ASSUME NEW t \in Threads, Charge(t)
      PROVE  Goal
  <2> DEFINE c == call[t].charge
  <2>1. /\ Only(t) /\ total' = total + c /\ c \in 1 .. SizeMax
        /\ LedgerRequest(t) = Kind("ask", c) /\ total + c <= MemLimit
        /\ LedgerRequest(t)' = Kind("none", 0)
    BY <1>0, <1>1, <1>10, LoopDoneType
       DEF Charge, LedgerRequest, LedgerKind, Crediting, CallOK, Charging,
           Goto, Enter, Return, Unlock, counters
  <2> HIDE DEF c
  <2> QED
    BY <1>4, <2>1
<1>11. ASSUME NEW t \in Threads, CasRetry(t)
      PROVE  Goal
  <2> DEFINE c == call[t].charge
  <2>0. c \in 1 .. SizeMax /\ Only(t) /\ total' = total
    BY <1>0, <1>1, <1>11 DEF CasRetry, Crediting, Goto, Enter, Return, Unlock, counters
  <2>1. CASE pc[t] = "creditCas"
    <3>1. LedgerRequest(t)' = LedgerRequest(t)
      BY <1>0, <1>11, <2>1 DEF CasRetry, LedgerRequest, LedgerKind, Crediting, CallOK, Charging, CallType, Enter
    <3> QED
      BY <1>2, <2>0, <3>1
  <2>2. CASE pc[t] # "creditCas"
    <3>1. /\ LedgerRequest(t) = Kind("ask", c)
          /\ LedgerRequest(t)' =
               IF total > MemLimit - c THEN Kind("refused", c) ELSE Kind("ask", c)
      BY <1>0, <1>11, <2>2 DEF CasRetry, LedgerRequest, LedgerKind, Crediting, CallOK, Charging, CallType, Enter
    <3>2. total > MemLimit - c => ~(total + c <= MemLimit)
      BY <1>0, <2>0
    <3> HIDE DEF c
    <3> QED
      BY <1>2, <1>5, <2>0, <3>1, <3>2
  <2> QED
    BY <2>1, <2>2
<1>12. ASSUME NEW t \in Threads, ChargeUnlimited(t)
      PROVE  Goal
  BY <1>0, <1>12 DEF ChargeUnlimited
<1>13. ASSUME NEW t \in Threads, ChargeRefused(t)
      PROVE  Goal
  <2> DEFINE c == call[t].charge
  <2>1. /\ Only(t) /\ total' = total /\ c \in 1 .. SizeMax
        /\ LedgerRequest(t)' = Kind("none", 0)
        /\ \/ LedgerRequest(t) = Kind("ask", c) /\ c > MemLimit
           \/ LedgerRequest(t) = Kind("refused", c)
    BY <1>0, <1>1, <1>13, NoCallType
       DEF ChargeRefused, LedgerRequest, LedgerKind, Crediting, CallOK, Charging,
           Goto, Enter, Return, Unlock, counters
  <2>2. c > MemLimit => ~(total + c <= MemLimit)
    BY <1>0, <2>1
  <2> HIDE DEF c
  <2> QED
    BY <1>5, <1>6, <2>1, <2>2
<1>14. ASSUME NEW t \in Threads, PeakLoadNow(t)
      PROVE  Goal
  <2>1. Only(t) /\ total' = total /\ LedgerRequest(t)' = LedgerRequest(t)
    BY <1>0, <1>1, <1>14
       DEF PeakLoadNow, LedgerRequest, LedgerKind, Crediting, CallOK, Charging,
           Goto, Enter, Return, Unlock, counters
  <2> QED
    BY <1>2, <2>1
<1>15. ASSUME NEW t \in Threads, PeakLoadOld(t)
      PROVE  Goal
  <2>1. Only(t) /\ total' = total /\ LedgerRequest(t)' = LedgerRequest(t)
    BY <1>0, <1>1, <1>15
       DEF PeakLoadOld, LedgerRequest, LedgerKind, Crediting, CallOK, Charging,
           Goto, Enter, Return, Unlock, counters
  <2> QED
    BY <1>2, <2>1
<1>16. ASSUME NEW t \in Threads, PeakRaise(t)
      PROVE  Goal
  <2>1. Only(t) /\ total' = total /\ LedgerRequest(t)' = LedgerRequest(t)
    BY <1>0, <1>1, <1>16, LoopDoneType
       DEF PeakRaise, LedgerRequest, LedgerKind, Crediting, CallOK, Charging,
           Goto, Enter, Return, Unlock, counters, Granted
  <2> QED
    BY <1>2, <2>1
<1>17. ASSUME NEW t \in Threads, PeakRetry(t)
      PROVE  Goal
  <2>1. Only(t) /\ total' = total /\ LedgerRequest(t)' = LedgerRequest(t)
    BY <1>0, <1>1, <1>17
       DEF PeakRetry, LedgerRequest, LedgerKind, Crediting, CallOK, Charging,
           Goto, Enter, Return, Unlock, counters
  <2> QED
    BY <1>2, <2>1
<1>18. ASSUME NEW t \in Threads, CreditLoad(t)
      PROVE  Goal
  <2>1. Only(t) /\ total' = total /\ LedgerRequest(t)' = LedgerRequest(t)
    BY <1>0, <1>1, <1>18
       DEF CreditLoad, LedgerRequest, LedgerKind, Crediting, CallOK, Charging,
           Goto, Enter, Return, Unlock, counters
  <2> QED
    BY <1>2, <2>1
<1>19. ASSUME NEW t \in Threads, Credit(t)
      PROVE  Goal
  <2> DEFINE c == call[t].charge
  <2>1. /\ Only(t) /\ c \in 1 .. SizeMax
        /\ LedgerRequest(t) = Kind("owe", c) /\ LedgerRequest(t)' = Kind("none", 0)
        /\ total' = IF total >= c THEN total - c ELSE 0
    BY <1>0, <1>1, <1>19, NoCallType
       DEF Credit, LedgerRequest, LedgerKind, Crediting, CallOK, Charging,
           Goto, Enter, Return, Unlock, counters
  <2>2. c <= total
    BY <1>19, CreditCovered DEF Credit
  <2> HIDE DEF c
  <2>3. total' = total - c
    BY <1>0, <2>1, <2>2
  <2> QED
    BY <1>7, <2>1, <2>2, <2>3
<1>20. ASSUME NEW t \in Threads, NEW n \in Requests, Reserve(t, n)
      PROVE  Goal
  <2> DEFINE c == call'[t].charge
  <2>1. Only(t) /\ total' = total /\ LedgerRequest(t) = Kind("none", 0)
    BY <1>0, <1>20
       DEF Reserve, LedgerRequest, LedgerKind, Crediting, CallOK, Charging,
           Goto, Enter, Return, Unlock, counters
  <2>2. \/ LedgerRequest(t)' = Kind("none", 0)
        \/ c \in 1 .. SizeMax /\ LedgerRequest(t)' = Kind("ask", c)
    BY <1>0, <1>1, <1>20
       DEF Reserve, LedgerRequest, LedgerKind, Crediting, CallOK, Charging,
           Goto, Enter, Return, Unlock, counters, Call, NoCall, ChargeFrom, Granted
  <2> QED
    BY <1>2, <1>3, <2>1, <2>2
<1>21. ASSUME NEW t \in Threads, NEW a \in Arenas, Register(t, a)
      PROVE  Goal
  <2>1. Only(t) /\ total' = total /\ LedgerRequest(t)' = LedgerRequest(t)
    BY <1>0, <1>1, <1>21, NoCallType
       DEF Register, LedgerRequest, LedgerKind, Crediting, CallOK, Charging,
           Goto, Enter, Return, Unlock, counters
  <2> QED
    BY <1>2, <2>1
<1>22. ASSUME NEW t \in Threads, NEW a \in Arenas, NEW n \in GrowBy, Grow(t, a, n)
      PROVE  Goal
  BY <1>22 DEF Accountable
<1>23. ASSUME NEW t \in Threads, NEW a \in Arenas, Release(t, a)
      PROVE  Goal
  <2>1. Only(t) /\ total' = total /\ LedgerRequest(t)' = LedgerRequest(t)
    BY <1>0, <1>1, <1>23
       DEF Release, LedgerRequest, LedgerKind, Crediting, CallOK, Charging,
           Goto, Enter, Return, Unlock, counters, Call, NoCall
  <2> QED
    BY <1>2, <2>1
<1>24. ASSUME NEW t \in Threads, Unregister(t)
      PROVE  Goal
  <2> DEFINE c == call'[t].charge
  <2>1. Only(t) /\ total' = total /\ LedgerRequest(t) = Kind("none", 0)
    BY <1>0, <1>24
       DEF Unregister, LedgerRequest, LedgerKind, Crediting, CallOK, Charging,
           Goto, Enter, Return, Unlock, counters
  <2>2. \/ LedgerRequest(t)' = Kind("none", 0)
        \/ c \in 1 .. SizeMax /\ LedgerRequest(t)' = Kind("owe", c)
    BY <1>0, <1>1, <1>24, NoCallType
       DEF Unregister, LedgerRequest, LedgerKind, Crediting, CallOK, Charging,
           Goto, Enter, Return, Unlock, counters
  <2> QED
    BY <1>2, <1>3, <2>1, <2>2
<1>25. ASSUME NEW t \in Threads, NEW n \in Requests,
              NEW a \in handles \cup {NoArena}, Allocate(t, n, a)
      PROVE  Goal
  <2>1. Only(t) /\ total' = total /\ LedgerRequest(t)' = LedgerRequest(t)
    BY <1>0, <1>1, <1>25
       DEF Allocate, LedgerRequest, LedgerKind, Crediting, CallOK, Charging,
           Goto, Enter, Return, Unlock, counters, Call, NoCall
  <2> QED
    BY <1>2, <2>1
<1>26. ASSUME NEW t \in Threads, Track(t)
      PROVE  Goal
  <2> DEFINE c == call'[t].charge
  <2>1. Only(t) /\ total' = total /\ LedgerRequest(t) = Kind("none", 0)
    BY <1>0, <1>26
       DEF Track, LedgerRequest, LedgerKind, Crediting, CallOK, Charging,
           Goto, Enter, Return, Unlock, counters
  <2>2. \/ LedgerRequest(t)' = Kind("none", 0)
        \/ c \in 1 .. SizeMax /\ LedgerRequest(t)' = Kind("ask", c)
    BY <1>0, <1>1, <1>26
       DEF Track, LedgerRequest, LedgerKind, Crediting, CallOK, Charging,
           Goto, Enter, Return, Unlock, counters, ChargeFrom, Granted
  <2> QED
    BY <1>2, <1>3, <2>1, <2>2
<1>27. ASSUME NEW t \in Threads, TrackRefused(t)
      PROVE  Goal
  <2>1. Only(t) /\ total' = total /\ LedgerRequest(t)' = LedgerRequest(t)
    BY <1>0, <1>1, <1>27, NoCallType
       DEF TrackRefused, LedgerRequest, LedgerKind, Crediting, CallOK, Charging,
           Goto, Enter, Return, Unlock, counters
  <2> QED
    BY <1>2, <2>1
<1>28. ASSUME NEW t \in Threads, NEW n \in RawRequests, AllocateRaw(t, n)
      PROVE  Goal
  <2> DEFINE c == call'[t].charge
  <2>1. Only(t) /\ total' = total /\ LedgerRequest(t) = Kind("none", 0)
    BY <1>0, <1>28
       DEF AllocateRaw, LedgerRequest, LedgerKind, Crediting, CallOK, Charging,
           Goto, Enter, Return, Unlock, counters
  <2>2. \/ LedgerRequest(t)' = Kind("none", 0)
        \/ c \in 1 .. SizeMax /\ LedgerRequest(t)' = Kind("ask", c)
    BY <1>0, <1>1, <1>28
       DEF AllocateRaw, LedgerRequest, LedgerKind, Crediting, CallOK, Charging,
           Goto, Enter, Return, Unlock, counters, Call, NoCall, ChargeFrom, Granted
  <2> QED
    BY <1>2, <1>3, <2>1, <2>2
<1>29. ASSUME NEW t \in Threads, NEW b \in Blocks, Malloc(t, b)
      PROVE  Goal
  <2>1. Only(t) /\ total' = total /\ LedgerRequest(t)' = LedgerRequest(t)
    BY <1>0, <1>1, <1>29, NoCallType
       DEF Malloc, LedgerRequest, LedgerKind, Crediting, CallOK, Charging,
           Goto, Enter, Return, Unlock, counters
  <2> QED
    BY <1>2, <2>1
<1>30. ASSUME NEW t \in Threads, MallocFails(t)
      PROVE  Goal
  <2> DEFINE c == call'[t].charge
  <2>1. Only(t) /\ total' = total /\ LedgerRequest(t) = Kind("none", 0)
    BY <1>0, <1>30
       DEF MallocFails, LedgerRequest, LedgerKind, Crediting, CallOK, Charging,
           Goto, Enter, Return, Unlock, counters
  <2>2. \/ LedgerRequest(t)' = Kind("none", 0)
        \/ c \in 1 .. SizeMax /\ LedgerRequest(t)' = Kind("owe", c)
    BY <1>0, <1>1, <1>30, NoCallType
       DEF MallocFails, LedgerRequest, LedgerKind, Crediting, CallOK, Charging,
           Goto, Enter, Return, Unlock, counters
  <2> QED
    BY <1>2, <1>3, <2>1, <2>2
<1>31. ASSUME NEW t \in Threads, NEW b \in Blocks, Unmap(t, b)
      PROVE  Goal
  <2>1. Only(t) /\ total' = total /\ LedgerRequest(t)' = LedgerRequest(t)
    BY <1>0, <1>1, <1>31
       DEF Unmap, LedgerRequest, LedgerKind, Crediting, CallOK, Charging,
           Goto, Enter, Return, Unlock, counters, Call, NoCall
  <2> QED
    BY <1>2, <2>1
<1>32. ASSUME NEW t \in Threads, FreeHost(t)
      PROVE  Goal
  <2> DEFINE c == call'[t].charge
  <2>1. Only(t) /\ total' = total /\ LedgerRequest(t) = Kind("none", 0)
    BY <1>0, <1>32
       DEF FreeHost, LedgerRequest, LedgerKind, Crediting, CallOK, Charging,
           Goto, Enter, Return, Unlock, counters
  <2>2. \/ LedgerRequest(t)' = Kind("none", 0)
        \/ c \in 1 .. SizeMax /\ LedgerRequest(t)' = Kind("owe", c)
    BY <1>0, <1>1, <1>32, NoCallType
       DEF FreeHost, LedgerRequest, LedgerKind, Crediting, CallOK, Charging,
           Goto, Enter, Return, Unlock, counters
  <2> QED
    BY <1>2, <1>3, <2>1, <2>2
<1>33. ASSUME NEW t \in Threads, NEW b \in Blocks, DeallocateRaw(t, b)
      PROVE  Goal
  <2> DEFINE c == call'[t].charge
  <2>1. Only(t) /\ total' = total /\ LedgerRequest(t) = Kind("none", 0)
    BY <1>0, <1>33
       DEF DeallocateRaw, LedgerRequest, LedgerKind, Crediting, CallOK, Charging,
           Goto, Enter, Return, Unlock, counters
  <2>2. \/ LedgerRequest(t)' = Kind("none", 0)
        \/ c \in 1 .. SizeMax /\ LedgerRequest(t)' = Kind("owe", c)
    BY <1>0, <1>1, <1>33
       DEF DeallocateRaw, LedgerRequest, LedgerKind, Crediting, CallOK, Charging,
           Goto, Enter, Return, Unlock, counters, Call, NoCall
  <2> QED
    BY <1>2, <1>3, <2>1, <2>2
<1> QED
  BY <1>8, <1>9, <1>10, <1>11, <1>12, <1>13, <1>14, <1>15, <1>16, <1>17,
     <1>18, <1>19, <1>20, <1>21, <1>22, <1>23, <1>24, <1>25, <1>26, <1>27,
     <1>28, <1>29, <1>30, <1>31, <1>32, <1>33
     DEF Next, Step, Start

\* Requests are granted or refused as if do_reserve and do_release were atomic.
THEOREM AdmissionIsAtomic == ASSUME Accountable PROVE Spec => ImplementsLedger
<1>1. Init => Ledger!LedgerInit
  BY DEF Init, Ledger!LedgerInit, Ledger!None, LedgerRequest, LedgerKind, Crediting
<1>2. /\ TypeInv /\ MutexInv /\ AccountInv /\ LedgerInv /\ PositiveInv
      /\ TypeInv' /\ PositiveInv' /\ [Next]_vars
      => [Ledger!LedgerNext]_(Ledger!ledgerVars)
  BY LedgerSimulation
<1> QED
  BY <1>1, <1>2, TypeInvariance, MutexInvariance, AccountInvariance,
     LedgerInvariance, PositiveInvariance, PTL
     DEF Spec, ImplementsLedger, Ledger!LedgerSpec
=============================================================================
