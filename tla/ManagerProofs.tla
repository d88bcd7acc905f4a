---------------------------- MODULE ManagerProofs ----------------------------
(***************************************************************************)
(* Theorems about the memory spaces (MemorySpace), the manager that walks  *)
(* them (ReservationManager, RequestHistory), and how its spaces come from *)
(* the machine and the settings (TopologyDiscovery, Deployment), for every *)
(* number of threads, spaces and handles, every limit and every machine.   *)
(***************************************************************************)
EXTENDS RequestHistory, Deployment, Sums

-----------------------------------------------------------------------------
(* Type correctness *)

AtSpace == {"load", "check", "cas", "countUp", "made", "releaseLoad", "releaseCas"}

\* What the place of a thread says of the call it runs.
CallOK(t) ==
  /\ pc[t] \in AtSpace => call[t].space \in Spaces
  /\ pc[t] = "releaseCas" => call[t].bytes \in Nat

TypeInv == TypeOK /\ \A t \in Threads : CallOK(t)

LEMMA NoCallType == NoCall \in CallType
  BY DEF NoCall, Call, CallType

LEMMA TypeInit == SpaceInit => TypeInv
  BY NoCallType, SpaceAssumption
     DEF SpaceInit, TypeInv, TypeOK, CallOK, AtSpace, Labels

LEMMA TypeStep == TypeInv /\ [SpaceNext]_spaceVars => TypeInv'
<1> SUFFICES ASSUME TypeInv, [SpaceNext]_spaceVars
             PROVE  TypeInv'
  OBVIOUS
<1> USE NoCallType, SpaceAssumption
    DEF TypeInv, TypeOK, CallOK, AtSpace, Labels, CallType, ledger, handles,
        Goto, Enter, Return
<1>1. CASE UNCHANGED spaceVars
  BY <1>1 DEF spaceVars
<1>2. ASSUME NEW t \in Threads, NEW op \in {"make", "orNull", "upto"},
              NEW s \in Spaces, NEW n \in Requests \cup UptoRequests, Make(t, op, s, n)
      PROVE  TypeInv'
  BY <1>2 DEF Make, Call
<1>3. ASSUME NEW t \in Threads, LoadReserved(t)
      PROVE  TypeInv'
  BY <1>3 DEF LoadReserved
<1>4. ASSUME NEW t \in Threads, Check(t)
      PROVE  TypeInv'
  BY <1>4 DEF Check, Fits, Share, Room
<1>5. ASSUME NEW t \in Threads, Refuse(t)
      PROVE  TypeInv'
  BY <1>5 DEF Refuse
<1>6. ASSUME NEW t \in Threads, Admit(t)
      PROVE  TypeInv'
  BY <1>6 DEF Admit
<1>7. ASSUME NEW t \in Threads, AdmitRetry(t)
      PROVE  TypeInv'
  BY <1>7 DEF AdmitRetry
<1>8. ASSUME NEW t \in Threads, NEW h \in Handles, Deliver(t, h)
      PROVE  TypeInv'
  BY <1>8 DEF Deliver
<1>9. ASSUME NEW t \in Threads, NEW h \in Handles, Release(t, h)
      PROVE  TypeInv'
  BY <1>9 DEF Release, Call
<1>10. ASSUME NEW t \in Threads, ReleaseLoad(t)
      PROVE  TypeInv'
  BY <1>10 DEF ReleaseLoad
<1>11. ASSUME NEW t \in Threads, Uncharge(t)
      PROVE  TypeInv'
  BY <1>11 DEF Uncharge, Released
<1>12. ASSUME NEW t \in Threads, UnchargeRetry(t)
      PROVE  TypeInv'
  BY <1>12 DEF UnchargeRetry
<1>13. ASSUME NEW t \in Threads, NEW s \in Spaces, NEW m \in NewLimits, SetMaxMemory(t, s, m)
      PROVE  TypeInv'
  BY <1>13 DEF SetMaxMemory
<1> QED
  BY <1>1, <1>2, <1>3, <1>4, <1>5, <1>6, <1>7, <1>8, <1>9, <1>10, <1>11,
     <1>12, <1>13
     DEF SpaceNext, SpaceStep, SpaceStart

\* The counters, handles and calls stay in their types.
THEOREM TypeCorrect == SpaceSpec => []TypeOK
<1>1. TypeInv => TypeOK
  BY DEF TypeInv
<1> QED
  BY <1>1, TypeInit, TypeStep, PTL DEF SpaceSpec

-----------------------------------------------------------------------------
(* Admission *)

\* The limits a space may have had.
Limits(s) == {InitialLimit[s]} \cup NewLimits

\* The counter a call has read, and what it would take it to, were within one
\* of the limits of its space.
LimitInv ==
  /\ NeverPastAnyLimit
  /\ \A s \in Spaces : limit[s] \in Limits(s)
  /\ \A t \in Threads : pc[t] = "check" =>
       \E m \in Limits(call[t].space) : call[t].seen <= m
  /\ \A t \in Threads : pc[t] = "cas" =>
       \E m \in Limits(call[t].space) : call[t].seen + call[t].grant <= m

LEMMA LimitInit == SpaceInit => LimitInv
  BY SpaceAssumption DEF SpaceInit, LimitInv, NeverPastAnyLimit, Limits

LEMMA LimitStep ==
  ASSUME TypeInv, LimitInv, [SpaceNext]_spaceVars
  PROVE  LimitInv'
<1> USE SpaceAssumption
    DEF TypeInv, TypeOK, CallOK, AtSpace, CallType, LimitInv, NeverPastAnyLimit,
        Limits, ledger, handles, Goto, Enter, Return
<1>1. CASE UNCHANGED spaceVars
  BY <1>1 DEF spaceVars
<1>2. ASSUME NEW t \in Threads, NEW op \in {"make", "orNull", "upto"},
              NEW s \in Spaces, NEW n \in Requests \cup UptoRequests, Make(t, op, s, n)
      PROVE  LimitInv'
  BY <1>2 DEF Make, Call
<1>3. ASSUME NEW t \in Threads, LoadReserved(t)
      PROVE  LimitInv'
  BY <1>3 DEF LoadReserved
<1>4. ASSUME NEW t \in Threads, Check(t)
      PROVE  LimitInv'
  <2> DEFINE c == call[t]
             room == Room(c.space, c.seen)
  <2>1. c.seen \in Nat /\ c.bytes \in Nat /\ limit[c.space] \in Nat /\ c.space \in Spaces
    BY <1>4 DEF Check
  <2>2. Fits(c, room) /\ Share(c, room) \in Nat /\ Share(c, room) <= room
    BY <1>4, <2>1 DEF Check, Fits, Share, Room
  <2>3. c.seen + Share(c, room) <= limit[c.space] \/ Share(c, room) = 0
    BY <2>1, <2>2 DEF Room
  <2>4. \A u \in Threads : u # t => pc'[u] = pc[u] /\ call'[u] = call[u]
    BY <1>4 DEF Check
  <2>5. /\ call'[t].space = c.space /\ call'[t].seen = c.seen
        /\ call'[t].grant = Share(c, room) /\ pc'[t] = "cas"
        /\ pc[t] = "check"
    BY <1>4 DEF Check
  <2>6. UNCHANGED <<reserved, limit>>
    BY <1>4 DEF Check
  <2> QED
    BY <2>1, <2>2, <2>3, <2>4, <2>5, <2>6
<1>5. ASSUME NEW t \in Threads, Refuse(t)
      PROVE  LimitInv'
  BY <1>5 DEF Refuse
<1>6. ASSUME NEW t \in Threads, Admit(t)
      PROVE  LimitInv'
  BY <1>6 DEF Admit
<1>7. ASSUME NEW t \in Threads, AdmitRetry(t)
      PROVE  LimitInv'
  BY <1>7 DEF AdmitRetry
<1>8. ASSUME NEW t \in Threads, NEW h \in Handles, Deliver(t, h)
      PROVE  LimitInv'
  BY <1>8 DEF Deliver
<1>9. ASSUME NEW t \in Threads, NEW h \in Handles, Release(t, h)
      PROVE  LimitInv'
  BY <1>9 DEF Release, Call
<1>10. ASSUME NEW t \in Threads, ReleaseLoad(t)
      PROVE  LimitInv'
  BY <1>10 DEF ReleaseLoad
<1>11. ASSUME NEW t \in Threads, Uncharge(t)
      PROVE  LimitInv'
  BY <1>11 DEF Uncharge, Released
<1>12. ASSUME NEW t \in Threads, UnchargeRetry(t)
      PROVE  LimitInv'
  BY <1>12 DEF UnchargeRetry
<1>13. ASSUME NEW t \in Threads, NEW s \in Spaces, NEW m \in NewLimits, SetMaxMemory(t, s, m)
      PROVE  LimitInv'
  BY <1>13 DEF SetMaxMemory
<1> HIDE DEF LimitInv, TypeInv
<1> QED
  BY <1>1, <1>2, <1>3, <1>4, <1>5, <1>6, <1>7, <1>8, <1>9, <1>10, <1>11,
     <1>12, <1>13
     DEF SpaceNext, SpaceStep, SpaceStart

\* No race of charges, releases and new limits takes a space past the largest
\* limit it was ever given.
THEOREM NeverPastLimits == SpaceSpec => []NeverPastAnyLimit
<1>1. LimitInv => NeverPastAnyLimit
  BY DEF LimitInv
<1>2. TypeInv /\ LimitInv /\ [SpaceNext]_spaceVars => LimitInv'
  BY LimitStep
<1> QED
  BY <1>1, <1>2, TypeInit, TypeStep, LimitInit, PTL DEF SpaceSpec

-----------------------------------------------------------------------------
(* Conservation: the counter of a space is what its handles hold plus what  *)
(* unfinished calls carry.                                                  *)

Part(t, s) == IF call[t].space = s THEN InFlight(t) ELSE 0
Kept(h, s) == IF home[h] = s THEN bytes[h] ELSE 0
FlySum(s)  == Sum([t \in Threads |-> Part(t, s)], Threads)
KeptSum(s) == Sum([h \in Handles |-> Kept(h, s)], Handles)

Conserved == \A s \in Spaces : reserved[s] = KeptSum(s) + FlySum(s)

\* The underflow guard of the release is never what ends it.
SeenCovers == \A t \in Threads : pc[t] = "releaseCas" => call[t].bytes <= call[t].seen

FlowInv == Conserved /\ SeenCovers

\* The step of a thread leaves the others' calls, and touches one handle at most.
OnlyThread(t) == \A u \in Threads \ {t} : call'[u] = call[u] /\ pc'[u] = pc[u]
OnlyHandle(h) == \A g \in Handles \ {h} : home'[g] = home[g] /\ bytes'[g] = bytes[g]

LEMMA PartsAreNat ==
  ASSUME TypeOK
  PROVE  /\ \A t \in Threads : \A s \in Spaces : Part(t, s) \in Nat
         /\ \A h \in Handles : \A s \in Spaces : Kept(h, s) \in Nat
BY DEF TypeOK, CallType, Part, Kept, InFlight

LEMMA FlyMoves ==
  ASSUME TypeOK, TypeOK', NEW t \in Threads, NEW s \in Spaces, OnlyThread(t)
  PROVE  /\ FlySum(s)' = FlySum(s) + Part(t, s)' - Part(t, s)
         /\ FlySum(s) \in Int /\ FlySum(s)' \in Int
<1> DEFINE f == [u \in Threads |-> Part(u, s)]
           g == [u \in Threads |-> Part(u, s)']
<1>1. \A u \in Threads : f[u] \in Int /\ g[u] \in Int
  BY DEF TypeOK, CallType, Part, InFlight
<1>2. \A u \in Threads \ {t} : g[u] = f[u]
  BY DEF OnlyThread, Part, InFlight
<1>3. FlySum(s) = Sum(f, Threads) /\ f[t] = Part(t, s) /\ g[t] = Part(t, s)'
  BY DEF FlySum
<1>4. FlySum(s)' = Sum(g, Threads)
  BY DEF FlySum
<1> HIDE DEF f, g
<1>5. Sum(g, Threads) = Sum(f, Threads) + g[t] - f[t]
  BY <1>1, <1>2, SpaceAssumption, SumChange
<1>6. Sum(f, Threads) \in Int /\ Sum(g, Threads) \in Int
  BY <1>1, SpaceAssumption, SumInt
<1> QED
  BY <1>3, <1>4, <1>5, <1>6

LEMMA KeptMoves ==
  ASSUME TypeOK, TypeOK', NEW h \in Handles, NEW s \in Spaces, OnlyHandle(h)
  PROVE  /\ KeptSum(s)' = KeptSum(s) + Kept(h, s)' - Kept(h, s)
         /\ KeptSum(s) \in Int /\ KeptSum(s)' \in Int
<1> DEFINE f == [g \in Handles |-> Kept(g, s)]
           k == [g \in Handles |-> Kept(g, s)']
<1>1. \A g \in Handles : f[g] \in Int /\ k[g] \in Int
  BY DEF TypeOK, Kept
<1>2. \A g \in Handles \ {h} : k[g] = f[g]
  BY DEF OnlyHandle, Kept
<1>3. KeptSum(s) = Sum(f, Handles) /\ f[h] = Kept(h, s) /\ k[h] = Kept(h, s)'
  BY DEF KeptSum
<1>4. KeptSum(s)' = Sum(k, Handles)
  BY DEF KeptSum
<1> HIDE DEF f, k
<1>5. Sum(k, Handles) = Sum(f, Handles) + k[h] - f[h]
  BY <1>1, <1>2, SpaceAssumption, SumChange
<1>6. Sum(f, Handles) \in Int /\ Sum(k, Handles) \in Int
  BY <1>1, SpaceAssumption, SumInt
<1> QED
  BY <1>3, <1>4, <1>5, <1>6

LEMMA SumsOfSpace ==
  ASSUME TypeOK, NEW s \in Spaces
  PROVE  /\ FlySum(s) \in Nat /\ KeptSum(s) \in Nat
         /\ \A t \in Threads : FlySum(s) >= Part(t, s)
<1> DEFINE f == [t \in Threads |-> Part(t, s)]
           k == [h \in Handles |-> Kept(h, s)]
<1>1. /\ \A t \in Threads : f[t] \in Nat /\ f[t] = Part(t, s)
      /\ \A h \in Handles : k[h] \in Nat
  BY PartsAreNat
<1>2. FlySum(s) = Sum(f, Threads) /\ KeptSum(s) = Sum(k, Handles)
  BY DEF FlySum, KeptSum
<1> HIDE DEF f, k
<1>3. Sum(f, Threads) \in Nat /\ Sum(k, Handles) \in Nat
  BY <1>1, SpaceAssumption, SumNat
<1>4. ASSUME NEW t \in Threads PROVE Sum(f, Threads) >= f[t]
  BY <1>1, SpaceAssumption, SumCovers
<1> QED
  BY <1>1, <1>2, <1>3, <1>4

\* A step that moves bytes between the counter and the call of one thread.
LEMMA CounterMoves ==
  ASSUME TypeOK, TypeOK', Conserved, NEW t \in Threads, OnlyThread(t),
         UNCHANGED <<home, bytes>>,
         \A s \in Spaces : reserved'[s] - reserved[s] = Part(t, s)' - Part(t, s)
  PROVE  Conserved'
<1> SUFFICES ASSUME NEW s \in Spaces
             PROVE  reserved'[s] = KeptSum(s)' + FlySum(s)'
  BY DEF Conserved
<1>1. KeptSum(s)' = KeptSum(s)
  BY DEF KeptSum, Kept
<1>2. /\ FlySum(s)' = FlySum(s) + Part(t, s)' - Part(t, s)
      /\ FlySum(s) \in Int /\ FlySum(s)' \in Int
  BY FlyMoves
<1>3. /\ reserved[s] = KeptSum(s) + FlySum(s) /\ KeptSum(s) \in Nat /\ FlySum(s) \in Nat
      /\ reserved[s] \in Nat /\ reserved'[s] \in Nat
      /\ Part(t, s) \in Int /\ Part(t, s)' \in Int
  BY SumsOfSpace DEF Conserved, TypeOK, CallType, Part, InFlight
<1>4. PICK a, b, c, d, e, f, p, q \in Int :
        /\ a = reserved[s] /\ b = reserved'[s] /\ c = KeptSum(s) /\ d = FlySum(s)
        /\ e = KeptSum(s)' /\ f = FlySum(s)' /\ p = Part(t, s) /\ q = Part(t, s)'
  <2>1. KeptSum(s) \in Int
    BY <1>3
  <2> QED
    BY <1>1, <1>2, <1>3, <2>1, reserved[s] \in Int, reserved'[s] \in Int
<1>5. b - a = q - p /\ a = c + d /\ e = c /\ f = d + q - p
  BY <1>1, <1>2, <1>3, <1>4
<1>6. b = e + f
  BY <1>5
<1> QED
  BY <1>4, <1>6

\* A step that moves bytes between a handle and the call of one thread.
LEMMA HandleMoves ==
  ASSUME TypeOK, TypeOK', Conserved, NEW t \in Threads, OnlyThread(t),
         NEW h \in Handles, OnlyHandle(h), UNCHANGED reserved,
         \A s \in Spaces : Kept(h, s)' + Part(t, s)' = Kept(h, s) + Part(t, s)
  PROVE  Conserved'
<1> SUFFICES ASSUME NEW s \in Spaces
             PROVE  reserved'[s] = KeptSum(s)' + FlySum(s)'
  BY DEF Conserved
<1>1. /\ KeptSum(s)' = KeptSum(s) + Kept(h, s)' - Kept(h, s)
      /\ KeptSum(s) \in Int /\ KeptSum(s)' \in Int
      /\ FlySum(s) \in Int /\ FlySum(s)' \in Int
      /\ FlySum(s)' = FlySum(s) + Part(t, s)' - Part(t, s)
  BY FlyMoves, KeptMoves
<1>2. /\ reserved[s] = KeptSum(s) + FlySum(s) /\ KeptSum(s) \in Nat /\ FlySum(s) \in Nat
      /\ Part(t, s) \in Int /\ Part(t, s)' \in Int
      /\ Kept(h, s) \in Int /\ Kept(h, s)' \in Int
  BY SumsOfSpace DEF Conserved, TypeOK, CallType, Part, InFlight, Kept
<1>3. PICK c, d, e, f, p, q, k, l \in Int :
        /\ c = KeptSum(s) /\ d = FlySum(s) /\ e = KeptSum(s)' /\ f = FlySum(s)'
        /\ p = Part(t, s) /\ q = Part(t, s)' /\ k = Kept(h, s) /\ l = Kept(h, s)'
  BY <1>1, <1>2
<1>4. l + q = k + p /\ e = c + l - k /\ f = d + q - p
  BY <1>1, <1>3
<1>5. e + f = c + d
  BY <1>4
<1> QED
  BY <1>2, <1>3, <1>5

LEMMA FlowInit == SpaceInit => FlowInv
<1> SUFFICES ASSUME SpaceInit PROVE FlowInv
  OBVIOUS
<1>1. ASSUME NEW s \in Spaces PROVE reserved[s] = KeptSum(s) + FlySum(s)
  <2> DEFINE f == [t \in Threads |-> Part(t, s)]
             k == [h \in Handles |-> Kept(h, s)]
  <2>1. (\A t \in Threads : f[t] = 0) /\ \A h \in Handles : k[h] = 0
    BY DEF SpaceInit, Part, InFlight, Kept
  <2>2. FlySum(s) = Sum(f, Threads) /\ KeptSum(s) = Sum(k, Handles)
    BY DEF FlySum, KeptSum
  <2> HIDE DEF f, k
  <2>3. Sum(f, Threads) = 0 /\ Sum(k, Handles) = 0
    BY <2>1, SpaceAssumption, SumIsZero
  <2> QED
    BY <2>2, <2>3 DEF SpaceInit
<1> QED
  BY <1>1 DEF SpaceInit, FlowInv, Conserved, SeenCovers

LEMMA FlowStep ==
  ASSUME TypeInv, TypeInv', FlowInv, SpaceNext
  PROVE  FlowInv'
<1>1. PICK t \in Threads : SpaceStep(t) \/ SpaceStart(t)
  BY DEF SpaceNext
<1>2. /\ TypeOK /\ TypeOK' /\ Conserved /\ SeenCovers /\ CallOK(t)
      /\ pc \in [Threads -> Labels] /\ call \in [Threads -> CallType]
      /\ home \in [Handles -> Spaces \cup {NoSpace}] /\ bytes \in [Handles -> Nat]
      /\ reserved \in [Spaces -> Nat] /\ NoSpace \notin Spaces
      /\ call[t] \in CallType /\ call[t].bytes \in Nat /\ call[t].grant \in Nat
      /\ call[t].seen \in Nat
  BY SpaceAssumption DEF TypeInv, TypeOK, FlowInv, CallType
<1>3. OnlyThread(t)
  BY <1>1, <1>2 DEF OnlyThread, SpaceStep, SpaceStart, Make, LoadReserved, Check, Refuse,
     Admit, AdmitRetry, Deliver, Release, ReleaseLoad, Uncharge, UnchargeRetry, Released,
     SetMaxMemory, Goto, Enter, Return
<1>4. SUFFICES Conserved' /\ (pc'[t] = "releaseCas" => call'[t].bytes <= call'[t].seen)
  BY <1>2, <1>3 DEF FlowInv, SeenCovers, OnlyThread
<1> USE <1>2 DEF Goto, Enter, Return, ledger, handles, AtSpace, CallOK
\* Steps that move no byte.
<1>5. ASSUME UNCHANGED <<reserved, home, bytes>>,
             \A s \in Spaces : Part(t, s)' = Part(t, s)
      PROVE  Conserved'
  <2>1. \A s \in Spaces : reserved'[s] - reserved[s] = Part(t, s)' - Part(t, s)
    BY <1>5, PartsAreNat
  <2> QED
    BY <1>3, <1>5, <2>1, CounterMoves
<1>6. CASE \/ \E s \in Spaces, n \in Requests, op \in {"make", "orNull"} : Make(t, op, s, n)
           \/ \E s \in Spaces, n \in UptoRequests : Make(t, "upto", s, n)
           \/ LoadReserved(t) \/ Check(t) \/ Refuse(t) \/ AdmitRetry(t)
  <2>1. UNCHANGED <<reserved, home, bytes>>
    BY <1>6 DEF Make, LoadReserved, Check, Refuse, AdmitRetry
  <2>2. /\ pc[t] \in {"idle", "load", "check", "cas"}
        /\ pc'[t] \in {"idle", "load", "check", "cas", "refused"}
    BY <1>6 DEF Make, LoadReserved, Check, Refuse, AdmitRetry
  <2>3. InFlight(t) = 0 /\ InFlight(t)' = 0
    BY <2>2 DEF InFlight
  <2>4. \A s \in Spaces : Part(t, s)' = Part(t, s)
    BY <2>3 DEF Part
  <2> QED
    BY <1>5, <2>1, <2>2, <2>4
<1>7. CASE \E s \in Spaces, m \in NewLimits : SetMaxMemory(t, s, m)
  <2>1. UNCHANGED <<reserved, home, bytes, pc, call>>
    BY <1>7 DEF SetMaxMemory
  <2>2. \A s \in Spaces : Part(t, s)' = Part(t, s)
    BY <2>1 DEF Part, InFlight
  <2> QED
    BY <1>5, <2>1, <2>2 DEF SeenCovers
<1>8. CASE Admit(t)
  <2>1. /\ UNCHANGED <<home, bytes, call>> /\ pc[t] = "cas"
        /\ pc'[t] \in {"countUp", "made"} /\ call[t].space \in Spaces
        /\ \A s \in Spaces : reserved'[s] =
             IF s = call[t].space THEN reserved[s] + call[t].grant ELSE reserved[s]
    BY <1>8 DEF Admit
  <2>2. InFlight(t) = 0 /\ InFlight(t)' = call[t].grant
    BY <2>1 DEF InFlight
  <2>3. \A s \in Spaces : /\ Part(t, s) = 0
                          /\ Part(t, s)' = IF s = call[t].space THEN call[t].grant ELSE 0
    BY <2>1, <2>2 DEF Part
  <2>4. \A s \in Spaces : reserved'[s] - reserved[s] = Part(t, s)' - Part(t, s)
    BY <2>1, <2>3
  <2>5. Conserved'
    BY <1>3, <2>1, <2>4, CounterMoves
  <2> QED
    BY <2>1, <2>5
<1>9. CASE \E h \in Handles : Deliver(t, h)
  <2>1. PICK h \in Handles : Deliver(t, h)
    BY <1>9
  <2>2. /\ UNCHANGED reserved /\ OnlyHandle(h) /\ home[h] = NoSpace
        /\ home'[h] = call[t].space /\ bytes'[h] = call[t].grant
        /\ pc[t] = "made" /\ pc'[t] = "idle" /\ call[t].space \in Spaces
    BY <2>1 DEF Deliver, OnlyHandle
  <2>3. InFlight(t) = call[t].grant /\ InFlight(t)' = 0
    BY <2>2 DEF InFlight
  <2>4. \A s \in Spaces :
          /\ Part(t, s)' = 0 /\ Kept(h, s) = 0
          /\ Part(t, s) = IF call[t].space = s THEN call[t].grant ELSE 0
          /\ Kept(h, s)' = IF call[t].space = s THEN call[t].grant ELSE 0
    BY <2>2, <2>3 DEF Part, Kept
  <2>5. \A s \in Spaces : Kept(h, s)' + Part(t, s)' = Kept(h, s) + Part(t, s)
    BY <2>4
  <2>6. Conserved'
    BY <1>3, <2>2, <2>5, HandleMoves
  <2> QED
    BY <2>2, <2>6
<1>10. CASE \E h \in Handles : Release(t, h)
  <2>1. PICK h \in Handles : Release(t, h)
    BY <1>10
  <2>2. /\ UNCHANGED reserved /\ OnlyHandle(h) /\ home[h] \in Spaces
        /\ home'[h] = NoSpace /\ bytes'[h] = 0
        /\ pc[t] = "idle" /\ pc'[t] = "releaseLoad"
        /\ call'[t].space = home[h] /\ call'[t].bytes = bytes[h]
    BY <2>1 DEF Release, OnlyHandle, Call
  <2>3. InFlight(t) = 0 /\ InFlight(t)' = bytes[h]
    BY <2>2 DEF InFlight
  <2>4. \A s \in Spaces :
          /\ Part(t, s) = 0 /\ Kept(h, s)' = 0
          /\ Part(t, s)' = IF home[h] = s THEN bytes[h] ELSE 0
          /\ Kept(h, s) = IF home[h] = s THEN bytes[h] ELSE 0
    BY <2>2, <2>3 DEF Part, Kept
  <2>5. \A s \in Spaces : Kept(h, s)' + Part(t, s)' = Kept(h, s) + Part(t, s)
    BY <2>4
  <2>6. Conserved'
    BY <1>3, <2>2, <2>5, HandleMoves
  <2> QED
    BY <2>2, <2>6
<1>11. CASE ReleaseLoad(t) \/ UnchargeRetry(t)
  <2>1. /\ UNCHANGED <<reserved, home, bytes>>
        /\ pc[t] \in {"releaseLoad", "releaseCas"} /\ pc'[t] = "releaseCas"
        /\ call[t].space \in Spaces
        /\ call'[t] = [call[t] EXCEPT !.seen = reserved[call[t].space]]
    BY <1>11 DEF ReleaseLoad, UnchargeRetry
  <2>2. /\ call'[t].space = call[t].space /\ call'[t].bytes = call[t].bytes
        /\ call'[t].seen = reserved[call[t].space]
    BY <2>1 DEF CallType
  <2>3. InFlight(t) = call[t].bytes /\ InFlight(t)' = call[t].bytes
    BY <2>1, <2>2 DEF InFlight
  <2>4. \A s \in Spaces : Part(t, s)' = Part(t, s)
    BY <2>2, <2>3 DEF Part
  <2>5. call[t].bytes <= reserved[call[t].space]
    <3>1. Part(t, call[t].space) = call[t].bytes
      BY <2>3 DEF Part
    <3>2. /\ FlySum(call[t].space) >= Part(t, call[t].space)
          /\ FlySum(call[t].space) \in Nat /\ KeptSum(call[t].space) \in Nat
      BY <2>1, SumsOfSpace
    <3>3. reserved[call[t].space] = KeptSum(call[t].space) + FlySum(call[t].space)
      BY <2>1 DEF Conserved
    <3> QED
      BY <3>1, <3>2, <3>3
  <2> QED
    BY <1>5, <2>1, <2>2, <2>4, <2>5
<1>12. CASE Uncharge(t)
  <2>1. /\ pc[t] = "releaseCas" /\ call[t].space \in Spaces
        /\ call[t].bytes <= call[t].seen
    BY <1>12 DEF Uncharge, SeenCovers
  <2>2. /\ UNCHANGED <<home, bytes>> /\ call[t].seen = reserved[call[t].space]
        /\ \A s \in Spaces : reserved'[s] =
             IF s = call[t].space THEN reserved[s] - call[t].bytes ELSE reserved[s]
        /\ pc'[t] \in {"callback", "idle"}
    BY <1>12, <2>1 DEF Uncharge, Released
  <2>3. InFlight(t) = call[t].bytes /\ InFlight(t)' = 0
    BY <2>1, <2>2 DEF InFlight
  <2>4. \A s \in Spaces : /\ Part(t, s)' = 0
                          /\ Part(t, s) = IF s = call[t].space THEN call[t].bytes ELSE 0
    BY <2>3 DEF Part
  <2>5. \A s \in Spaces : reserved'[s] - reserved[s] = Part(t, s)' - Part(t, s)
    BY <2>2, <2>4
  <2>6. Conserved'
    BY <1>3, <2>2, <2>5, CounterMoves
  <2> QED
    BY <2>2, <2>6
<1> QED
  BY <1>1, <1>6, <1>7, <1>8, <1>9, <1>10, <1>11, <1>12 DEF SpaceStep, SpaceStart

LEMMA FlowStutter ==
  ASSUME FlowInv, UNCHANGED spaceVars
  PROVE  FlowInv'
<1>1. \A s \in Spaces : KeptSum(s)' = KeptSum(s) /\ FlySum(s)' = FlySum(s)
  BY DEF spaceVars, ledger, handles, KeptSum, FlySum, Kept, Part, InFlight
<1> QED
  BY <1>1 DEF FlowInv, Conserved, SeenCovers, spaceVars, ledger, handles

LEMMA Flow == SpaceSpec => [](TypeInv /\ FlowInv)
<1>1. TypeInv /\ TypeInv' /\ FlowInv /\ [SpaceNext]_spaceVars => FlowInv'
  BY FlowStep, FlowStutter
<1> QED
  BY <1>1, TypeInit, TypeStep, FlowInit, PTL DEF SpaceSpec

\* The two sums of ReservedIsHeld, over all handles and all threads.
LEMMA KeptIsSum ==
  ASSUME TypeOK, NEW s \in Spaces
  PROVE  MapThenSumSet(LAMBDA h : bytes[h], {h \in Handles : home[h] = s}) = KeptSum(s)
<1> DEFINE T == {h \in Handles : home[h] = s}
           f == [h \in Handles |-> Kept(h, s)]
<1>1. MapThenSumSet(LAMBDA h : bytes[h], T) = Sum(bytes, T)
  BY DEF Sum
<1>2. IsFiniteSet(T) /\ T \in SUBSET Handles
  BY SpaceAssumption, FS_Subset
<1>3. /\ \A h \in T : bytes[h] = f[h]
      /\ \A h \in Handles : f[h] \in Int
      /\ \A h \in Handles \ T : f[h] = 0
  BY DEF TypeOK, Kept
<1>4. KeptSum(s) = Sum(f, Handles)
  BY DEF KeptSum
<1> HIDE DEF T, f
<1>5. Sum(bytes, T) = Sum(f, T)
  BY <1>2, <1>3, SumSame
<1>6. Sum(f, T) = Sum(f, Handles)
  BY <1>2, <1>3, SpaceAssumption, SumOfPart
<1> QED
  BY <1>1, <1>4, <1>5, <1>6 DEF T

LEMMA FlyIsSum ==
  ASSUME TypeOK, NEW s \in Spaces
  PROVE  MapThenSumSet(InFlight, {t \in Threads : call[t].space = s}) = FlySum(s)
<1> DEFINE T == {t \in Threads : call[t].space = s}
           f == [t \in Threads |-> Part(t, s)]
           U(g) == g = [r \in SUBSET T |-> IF r = {} THEN 0
                          ELSE InFlight(First(r)) + g[r \ {First(r)}]]
<1>1. MapThenSumSet(InFlight, T) = (CHOOSE g : U(g))[T]
  BY DEF MapThenSumSet, MapThenFoldSet, First
<1>2. \A r \in SUBSET T : r # {} => InFlight(First(r)) = f[First(r)]
  BY FirstIsIn DEF Part
<1>3. \A g : U(g) <=> Unfolded(g, f, T)
  BY <1>2 DEF Unfolded
<1>4. IsFiniteSet(T) /\ T \in SUBSET Threads
  BY SpaceAssumption, FS_Subset
<1>5. \E g : U(g)
  BY <1>3, <1>4, UnfoldedExists
<1> DEFINE h == CHOOSE g : U(g)
<1>6. U(h)
  BY <1>5
<1>7. Unfolded(h, f, T)
  BY <1>3, <1>6
<1>8. (\A t \in Threads : f[t] \in Int) /\ \A t \in Threads \ T : f[t] = 0
  BY PartsAreNat DEF Part
<1>9. FlySum(s) = Sum(f, Threads)
  BY DEF FlySum
<1> HIDE DEF h, U, f, T
<1>10. MapThenSumSet(InFlight, T) = Sum(f, T)
  BY <1>1, <1>4, <1>7, SumIsUnfolded, T \in SUBSET T DEF h
<1>11. Sum(f, T) = Sum(f, Threads)
  BY <1>4, <1>8, SpaceAssumption, SumOfPart
<1> QED
  BY <1>9, <1>10, <1>11 DEF T

LEMMA HeldIsConserved == TypeInv /\ FlowInv => ReservedIsHeld
  BY KeptIsSum, FlyIsSum DEF TypeInv, FlowInv, Conserved, ReservedIsHeld

\* Whatever charges, retries and releases race, the counter of each space is what
\* its handles hold and unfinished calls carry; no compare-and-swap loop loses or
\* doubles a byte, and the underflow guard never bites.  (Lines 112-126, 183-190.)
THEOREM ReservedIsAlwaysHeld == SpaceSpec => []ReservedIsHeld
<1>1. TypeInv /\ FlowInv => ReservedIsHeld
  BY HeldIsConserved
<1> QED
  BY <1>1, Flow, PTL

-----------------------------------------------------------------------------
(* Partial requests *)

\* What a partial request is about to charge is all it asked for, or all that a
\* limit of the space leaves.
UptoInv ==
  \A t \in Threads :
    pc[t] = "cas" /\ call[t].op = "upto" =>
      \/ call[t].grant = call[t].bytes
      \/ call[t].seen + call[t].grant \in Limits(call[t].space)

LEMMA CheckedShare ==
  ASSUME TypeInv, LimitInv, NEW t \in Threads, Check(t)
  PROVE  call'[t].op = "upto" =>
           \/ call'[t].grant = call'[t].bytes
           \/ call'[t].seen + call'[t].grant \in Limits(call'[t].space)
<1> DEFINE c == call[t]
           s == c.space
           r == Room(s, c.seen)
<1>1. /\ s \in Spaces /\ c \in CallType /\ c.seen \in Nat /\ c.bytes \in Nat
      /\ limit[s] \in Nat /\ call \in [Threads -> CallType]
  BY DEF TypeInv, TypeOK, CallOK, AtSpace, CallType, Check
<1>2. call'[t] = [c EXCEPT !.grant = Share(c, r)] /\ Fits(c, r)
  BY <1>1 DEF Check, Enter
<1>3. /\ call'[t].op = c.op /\ call'[t].bytes = c.bytes /\ call'[t].seen = c.seen
      /\ call'[t].space = s /\ call'[t].grant = Share(c, r)
  BY <1>1, <1>2 DEF CallType
<1>4. limit[s] \in Limits(s)
  BY <1>1 DEF LimitInv
<1>5. CASE c.op = "upto" /\ c.bytes > r
  <2>1. Share(c, r) = r /\ r # 0
    BY <1>2, <1>5 DEF Share, Fits
  <2>2. c.seen + r = limit[s]
    BY <1>1, <2>1 DEF Room
  <2> QED
    BY <1>3, <1>4, <2>1, <2>2
<1>6. CASE ~(c.op = "upto" /\ c.bytes > r)
  BY <1>3, <1>6 DEF Share
<1> QED
  BY <1>5, <1>6

LEMMA UptoStep ==
  ASSUME TypeInv, LimitInv, UptoInv, [SpaceNext]_spaceVars
  PROVE  UptoInv'
<1>0. pc \in [Threads -> Labels] /\ call \in [Threads -> CallType]
  BY DEF TypeInv, TypeOK
<1>1. CASE UNCHANGED spaceVars
  BY <1>1 DEF spaceVars, UptoInv
<1>2. CASE SpaceNext
  <2>1. PICK t \in Threads : SpaceStep(t) \/ SpaceStart(t)
    BY <1>2 DEF SpaceNext
  <2>2. OnlyThread(t)
    BY <1>0, <2>1 DEF OnlyThread, SpaceStep, SpaceStart, Make, LoadReserved, Check, Refuse,
       Admit, AdmitRetry, Deliver, Release, ReleaseLoad, Uncharge, UnchargeRetry, Released,
       SetMaxMemory, Goto, Enter, Return
  <2>3. pc'[t] = "cas" => Check(t) \/ (pc[t] = "cas" /\ call'[t] = call[t])
    BY <1>0, <2>1 DEF SpaceStep, SpaceStart, Make, LoadReserved, Check, Refuse,
       Admit, AdmitRetry, Deliver, Release, ReleaseLoad, Uncharge, UnchargeRetry, Released,
       SetMaxMemory, Goto, Enter, Return
  <2> QED
    BY <2>2, <2>3, CheckedShare DEF UptoInv, OnlyThread, Limits
<1> QED
  BY <1>1, <1>2

\* The charge of a partial request, as its step makes it.
LEMMA UptoCharge ==
  ASSUME TypeInv, UptoInv, [SpaceNext]_spaceVars, NEW t \in Threads,
         pc[t] = "cas", pc'[t] \in {"made", "countUp"}, call[t].op = "upto"
  PROVE  \/ reserved'[call[t].space] - reserved[call[t].space] = call[t].bytes
         \/ reserved'[call[t].space] \in Limits(call[t].space)
<1>0. /\ pc \in [Threads -> Labels] /\ call \in [Threads -> CallType]
      /\ call[t].space \in Spaces /\ call[t].grant \in Nat
      /\ reserved \in [Spaces -> Nat]
  BY DEF TypeInv, TypeOK, CallOK, AtSpace, CallType
<1>1. Admit(t)
  <2>1. PICK u \in Threads : SpaceStep(u) \/ SpaceStart(u)
    BY DEF SpaceNext, spaceVars
  <2> QED
    BY <1>0, <2>1 DEF SpaceStep, SpaceStart, Make, LoadReserved, Check, Refuse,
       Admit, AdmitRetry, Deliver, Release, ReleaseLoad, Uncharge, UnchargeRetry, Released,
       SetMaxMemory, Goto, Enter, Return
<1>2. /\ call[t].seen = reserved[call[t].space]
      /\ reserved'[call[t].space] = reserved[call[t].space] + call[t].grant
  BY <1>0, <1>1 DEF Admit
<1>3. reserved[call[t].space] \in Nat
  BY <1>0
<1> QED
  BY <1>0, <1>2, <1>3 DEF UptoInv

LEMMA Limited == SpaceSpec => [](TypeInv /\ LimitInv)
<1>1. TypeInv /\ LimitInv /\ [SpaceNext]_spaceVars => LimitInv'
  BY LimitStep
<1> QED
  BY <1>1, TypeInit, TypeStep, LimitInit, PTL DEF SpaceSpec

\* make_reservation_upto never grants less than fits, whatever changes between
\* its loads and its compare-and-swap.  (Lines 161-173.)
THEOREM UptoNeverTakesLess == SpaceSpec => UptoTakesWhatFits
<1>1. SpaceInit => UptoInv
  BY DEF SpaceInit, UptoInv
<1>2. TypeInv /\ LimitInv /\ UptoInv /\ [SpaceNext]_spaceVars => UptoInv'
  BY UptoStep
<1>3. TypeInv /\ UptoInv /\ [SpaceNext]_spaceVars =>
        [\A t \in Threads :
           pc[t] = "cas" /\ pc'[t] \in {"made", "countUp"} /\ call[t].op = "upto" =>
             LET s == call[t].space IN
             \/ reserved'[s] - reserved[s] = call[t].bytes
             \/ reserved'[s] \in {InitialLimit[s]} \cup NewLimits]_spaceVars
  BY UptoCharge DEF Limits
<1> QED
  BY <1>1, <1>2, <1>3, Limited, PTL DEF SpaceSpec, UptoTakesWhatFits

-----------------------------------------------------------------------------
(* Each space is an atomic ledger *)

\* No other limit is ever set and no partial request is made.
Steady == NewLimits = {} /\ UptoRequests = {}

\* What is asked for, held or paid back is one of the requests.
AskInv ==
  /\ \A t \in Threads :
       /\ pc[t] \in AtSpace => call[t].bytes \in Requests /\ call[t].op # "upto"
       /\ pc[t] \in {"cas", "made", "countUp"} => call[t].grant = call[t].bytes
  /\ \A h \in Handles : home[h] # NoSpace => bytes[h] \in Requests

LEMMA AskStep ==
  ASSUME Steady, TypeInv, AskInv, [SpaceNext]_spaceVars
  PROVE  AskInv'
<1>0. /\ pc \in [Threads -> Labels] /\ call \in [Threads -> CallType]
      /\ \A t \in Threads : CallOK(t)
      /\ home \in [Handles -> Spaces \cup {NoSpace}] /\ bytes \in [Handles -> Nat]
  BY DEF TypeInv, TypeOK
<1> USE <1>0, SpaceAssumption
    DEF Steady, AskInv, CallOK, AtSpace, CallType, ledger, handles, Goto, Enter, Return,
        Call, NoCall
<1>1. CASE UNCHANGED spaceVars
  BY <1>1 DEF spaceVars
<1>2. ASSUME NEW t \in Threads, NEW op \in {"make", "orNull"},
              NEW s \in Spaces, NEW n \in Requests, Make(t, op, s, n)
      PROVE  AskInv'
  BY <1>2 DEF Make
<1>3. ASSUME NEW t \in Threads, LoadReserved(t)
      PROVE  AskInv'
  BY <1>3 DEF LoadReserved
<1>4. ASSUME NEW t \in Threads, Check(t)
      PROVE  AskInv'
  BY <1>4 DEF Check, Share
<1>5. ASSUME NEW t \in Threads, Refuse(t)
      PROVE  AskInv'
  BY <1>5 DEF Refuse
<1>6. ASSUME NEW t \in Threads, Admit(t)
      PROVE  AskInv'
  BY <1>6 DEF Admit
<1>7. ASSUME NEW t \in Threads, AdmitRetry(t)
      PROVE  AskInv'
  BY <1>7 DEF AdmitRetry
<1>8. ASSUME NEW t \in Threads, NEW h \in Handles, Deliver(t, h)
      PROVE  AskInv'
  BY <1>8 DEF Deliver
<1>9. ASSUME NEW t \in Threads, NEW h \in Handles, Release(t, h)
      PROVE  AskInv'
  BY <1>9 DEF Release
<1>10. ASSUME NEW t \in Threads, ReleaseLoad(t)
      PROVE  AskInv'
  BY <1>10 DEF ReleaseLoad
<1>11. ASSUME NEW t \in Threads, Uncharge(t)
      PROVE  AskInv'
  BY <1>11 DEF Uncharge, Released
<1>12. ASSUME NEW t \in Threads, UnchargeRetry(t)
      PROVE  AskInv'
  BY <1>12 DEF UnchargeRetry
<1>13. ASSUME NEW t \in Threads, NEW s \in Spaces, NEW m \in NewLimits, SetMaxMemory(t, s, m)
      PROVE  AskInv'
  BY <1>13
<1> QED
  BY <1>1, <1>2, <1>3, <1>4, <1>5, <1>6, <1>7, <1>8, <1>9, <1>10, <1>11,
     <1>12, <1>13
     DEF SpaceNext, SpaceStep, SpaceStart

\* The calls as the ledger of a space sees them.
Admissions(s) == [u \in Threads |-> LedgerRequest(s, u)]

LEMMA OneAdmission ==
  ASSUME NEW t \in Threads, NEW s \in Spaces, OnlyThread(t), UNCHANGED limit
  PROVE  Admissions(s)' = [Admissions(s) EXCEPT ![t] = LedgerRequest(s, t)']
<1>1. ASSUME NEW u \in Threads \ {t}
      PROVE  LedgerRequest(s, u)' = LedgerRequest(s, u)
  <2>1. call'[u] = call[u] /\ pc'[u] = pc[u]
    BY DEF OnlyThread
  <2>2. Room(call[u].space, call[u].seen)' = Room(call[u].space, call[u].seen)
    BY <2>1 DEF Room
  <2>3. Fits(call[u], Room(call[u].space, call[u].seen))' =
          Fits(call[u], Room(call[u].space, call[u].seen))
    BY <2>1, <2>2 DEF Fits, Share
  <2>4. LedgerKind(u)' = LedgerKind(u)
    BY <2>1, <2>3 DEF LedgerKind
  <2> QED
    BY <2>1, <2>4 DEF LedgerRequest
<1> QED
  BY <1>1 DEF Admissions

\* A loaded counter leaves room exactly if the request fits under the limit.
LEMMA RoomIsExact ==
  ASSUME Steady, TypeInv, LimitInv, NEW t \in Threads, NEW s \in Spaces,
         NEW c \in CallType, c.op # "upto", NEW seen \in Nat, seen <= InitialLimit[s]
  PROVE  Fits(c, Room(s, seen)) <=> seen + c.bytes <= InitialLimit[s]
<1>1. limit[s] = InitialLimit[s] /\ InitialLimit[s] \in Nat /\ c.bytes \in Nat
  BY SpaceAssumption DEF Steady, LimitInv, Limits, CallType
<1> QED
  BY <1>1 DEF Fits, Share, Room

\* What the ledger of a space sees of a call, by its place.
Kind(k, n) == [kind |-> k, n |-> n]

SeenAs(s, t) ==
  /\ pc[t] \in Labels \ {"load", "check", "cas", "releaseLoad", "releaseCas"} =>
       LedgerRequest(s, t) = Kind("none", 0)
  /\ call[t].space # s => LedgerRequest(s, t) = Kind("none", 0)
  /\ pc[t] \in {"load", "cas"} /\ call[t].space = s =>
       LedgerRequest(s, t) = Kind("ask", call[t].bytes)
  /\ pc[t] \in {"releaseLoad", "releaseCas"} /\ call[t].space = s =>
       LedgerRequest(s, t) = Kind("owe", call[t].bytes)
  /\ pc[t] = "check" /\ call[t].space = s =>
       LedgerRequest(s, t) =
         Kind(IF call[t].seen + call[t].bytes <= InitialLimit[s] THEN "ask" ELSE "refused",
              call[t].bytes)

SeenInv == \A s \in Spaces : \A t \in Threads : SeenAs(s, t)

LEMMA SeenAsIs ==
  ASSUME Steady, TypeInv, LimitInv, AskInv, NEW s \in Spaces, NEW t \in Threads
  PROVE  SeenAs(s, t)
<1>1. ASSUME pc[t] = "check", call[t].space = s
      PROVE  Fits(call[t], Room(s, call[t].seen)) <=>
               call[t].seen + call[t].bytes <= InitialLimit[s]
  <2>1. call[t] \in CallType /\ call[t].seen \in Nat
    BY DEF TypeInv, TypeOK, CallType
  <2>2. call[t].op # "upto" /\ call[t].seen <= InitialLimit[s]
    BY <1>1 DEF AskInv, AtSpace, LimitInv, Limits, Steady
  <2> QED
    BY <2>1, <2>2, RoomIsExact
<1>2. CASE pc[t] = "check"
  BY <1>1, <1>2 DEF SeenAs, LedgerRequest, LedgerKind, Kind, Labels
<1>3. CASE pc[t] # "check"
  BY <1>3 DEF SeenAs, LedgerRequest, LedgerKind, Kind, Labels
<1> QED
  BY <1>2, <1>3

\* A step of the ledger of a space, or one that it does not see.
LedgerStep(s) == Ledger(s)!LedgerNext \/ UNCHANGED Ledger(s)!ledgerVars

LedgerSteps == \A s \in Spaces : LedgerStep(s)

LEMMA LedgerSimulation ==
  ASSUME Steady, TypeInv, LimitInv, FlowInv, AskInv, AskInv', TypeInv',
         SeenInv, SeenInv', SpaceNext, NEW s \in Spaces
  PROVE  LedgerStep(s)
<1>1. PICK t \in Threads : SpaceStep(t) \/ SpaceStart(t)
  BY DEF SpaceNext
<1>2. /\ TypeOK /\ CallOK(t)
      /\ pc \in [Threads -> Labels] /\ call \in [Threads -> CallType]
      /\ home \in [Handles -> Spaces \cup {NoSpace}] /\ bytes \in [Handles -> Nat]
      /\ reserved \in [Spaces -> Nat] /\ reserved[s] \in Nat
      /\ call[t] \in CallType /\ call'[t] \in CallType
      /\ call[t].bytes \in Nat /\ call[t].seen \in Nat /\ call[t].grant \in Nat
  BY DEF TypeInv, TypeOK, CallType
<1>3. OnlyThread(t)
  BY <1>1, <1>2 DEF OnlyThread, SpaceStep, SpaceStart, Make, LoadReserved, Check, Refuse,
     Admit, AdmitRetry, Deliver, Release, ReleaseLoad, Uncharge, UnchargeRetry, Released,
     SetMaxMemory, Goto, Enter, Return
<1>4. UNCHANGED limit
  BY <1>1 DEF SpaceStep, SpaceStart, Make, LoadReserved, Check, Refuse,
     Admit, AdmitRetry, Deliver, Release, ReleaseLoad, Uncharge, UnchargeRetry, Released,
     SetMaxMemory, ledger, handles, Steady
<1>5. Admissions(s)' = [Admissions(s) EXCEPT ![t] = LedgerRequest(s, t)']
  BY <1>3, <1>4, OneAdmission
<1>6. Admissions(s)[t] = LedgerRequest(s, t) /\ Admissions(s) \in [Threads -> {Admissions(s)[u] : u \in Threads}]
  BY DEF Admissions
<1>7. /\ \A u \in Threads : pc[u] \in AtSpace => call[u].bytes \in Requests /\ call[u].op # "upto"
      /\ InitialLimit[s] \in Nat /\ reserved[s] <= InitialLimit[s]
      /\ Requests \subseteq Nat /\ NoSpace \notin Spaces
  BY SpaceAssumption DEF AskInv, Steady, LimitInv, NeverPastAnyLimit, Limits
\* How a change of one request is a step of the ledger.
<1>8. ASSUME reserved'[s] = reserved[s], LedgerRequest(s, t)' = LedgerRequest(s, t) PROVE LedgerStep(s)
  <2>1. Admissions(s)' = Admissions(s)
    BY <1>5, <1>6, <1>8
  <2> QED
    BY <1>8, <2>1 DEF LedgerStep, Ledger!ledgerVars, Admissions
<1>9. ASSUME NEW n \in Requests, reserved'[s] = reserved[s], LedgerRequest(s, t) = Kind("none", 0),
             LedgerRequest(s, t)' \in {Kind("ask", n), Kind("owe", n)}
      PROVE  LedgerStep(s)
  <2>1. Ledger(s)!Submit(t)
    BY <1>5, <1>9
       DEF Ledger!Submit, Ledger!Becomes, Ledger!None, Ledger!Ask, Ledger!Owe,
           Admissions, Kind
  <2> QED
    BY <2>1 DEF LedgerStep, Ledger!LedgerNext
<1>10. ASSUME NEW n \in Nat, LedgerRequest(s, t) = Kind("ask", n), reserved[s] + n <= InitialLimit[s],
              LedgerRequest(s, t)' = Kind("none", 0), reserved'[s] = reserved[s] + n
       PROVE  LedgerStep(s)
  <2>1. Ledger(s)!Grant(t)
    BY <1>5, <1>10 DEF Ledger!Grant, Ledger!Becomes, Ledger!None, Ledger!Fits, Admissions, Kind
  <2> QED
    BY <2>1 DEF LedgerStep, Ledger!LedgerNext
<1>11. ASSUME NEW n \in Nat, LedgerRequest(s, t) = Kind("ask", n), ~(reserved[s] + n <= InitialLimit[s]),
              LedgerRequest(s, t)' \in {Kind("refused", n), Kind("none", 0)}, reserved'[s] = reserved[s]
       PROVE  LedgerStep(s)
  <2>1. Admissions(s)[t].kind = "ask" /\ ~Ledger(s)!Fits(Admissions(s)[t].n)
    BY <1>6, <1>11 DEF Ledger!Fits, Kind
  <2>2. \/ Admissions(s)' = [Admissions(s) EXCEPT ![t] = Ledger(s)!Refused(Admissions(s)[t].n)]
        \/ Admissions(s)' = [Admissions(s) EXCEPT ![t] = Ledger(s)!None]
    <3>1. CASE LedgerRequest(s, t)' = Kind("refused", n)
      <4>1. Admissions(s)[t].n = n
        BY <1>6, <1>11 DEF Kind
      <4> QED
        BY <1>5, <3>1, <4>1 DEF Ledger!Refused, Kind
    <3>2. CASE LedgerRequest(s, t)' = Kind("none", 0)
      BY <1>5, <3>2 DEF Ledger!None, Kind
    <3> QED
      BY <1>11, <3>1, <3>2
  <2>3. Ledger(s)!Refuse(t)
    BY <1>11, <2>1, <2>2 DEF Ledger!Refuse, Ledger!Becomes, Admissions
  <2> QED
    BY <2>3 DEF LedgerStep, Ledger!LedgerNext
<1>12. ASSUME NEW n \in Nat, LedgerRequest(s, t) = Kind("refused", n), LedgerRequest(s, t)' = Kind("none", 0),
              reserved'[s] = reserved[s]
       PROVE  LedgerStep(s)
  <2>1. Ledger(s)!Learn(t)
    BY <1>5, <1>12 DEF Ledger!Learn, Ledger!Becomes, Ledger!None, Admissions, Kind
  <2> QED
    BY <2>1 DEF LedgerStep, Ledger!LedgerNext
<1>13. ASSUME NEW n \in Nat, LedgerRequest(s, t) = Kind("owe", n), LedgerRequest(s, t)' = Kind("none", 0),
              n <= reserved[s], reserved'[s] = reserved[s] - n
       PROVE  LedgerStep(s)
  <2>1. Ledger(s)!Pay(t)
    BY <1>5, <1>13 DEF Ledger!Pay, Ledger!Becomes, Ledger!None, Admissions, Kind
  <2> QED
    BY <2>1 DEF LedgerStep, Ledger!LedgerNext
<1>14. SeenAs(s, t)
  BY DEF SeenInv
<1>15. SeenAs(s, t)'
  BY DEF SeenInv
<1> USE DEF SeenAs
<1> USE DEF Goto, Enter, Return, ledger, handles, AtSpace, CallOK, Labels
<1>16. CASE \/ \E h \in Handles : Deliver(t, h)
            \/ \E r \in Spaces, m \in NewLimits : SetMaxMemory(t, r, m)
  <2>1. /\ reserved'[s] = reserved[s]
        /\ pc[t] \in {"made", "idle"} /\ pc'[t] \in {"made", "idle"}
    BY <1>2, <1>16 DEF Deliver, SetMaxMemory
  <2> QED
    BY <1>8, <1>14, <1>15, <2>1
<1>17. CASE \/ \E r \in Spaces, n \in Requests, op \in {"make", "orNull"} : Make(t, op, r, n)
            \/ \E h \in Handles : Release(t, h)
  <2>1. /\ reserved'[s] = reserved[s] /\ pc[t] = "idle"
        /\ pc'[t] \in {"load", "releaseLoad"}
    BY <1>2, <1>17 DEF Make, Release
  <2>2. call'[t].bytes \in Requests
    BY <2>1 DEF AskInv
  <2> QED
    BY <1>8, <1>9, <1>14, <1>15, <2>1, <2>2
<1>18. CASE LoadReserved(t) \/ AdmitRetry(t)
  <2>1. /\ reserved'[s] = reserved[s] /\ pc[t] \in {"load", "cas"} /\ pc'[t] = "check"
        /\ call[t].space \in Spaces
        /\ call'[t] = [call[t] EXCEPT !.seen = reserved[call[t].space]]
    BY <1>2, <1>18 DEF LoadReserved, AdmitRetry
  <2>2. /\ call'[t].space = call[t].space /\ call'[t].bytes = call[t].bytes
        /\ call'[t].seen = reserved[call[t].space]
    BY <1>2, <2>1 DEF CallType
  <2>3. CASE call[t].space # s
    BY <1>8, <1>14, <1>15, <2>1, <2>2, <2>3
  <2>4. CASE call[t].space = s
    BY <1>2, <1>8, <1>11, <1>14, <1>15, <2>1, <2>2, <2>4
  <2> QED
    BY <2>3, <2>4
<1>19. CASE Check(t)
  <2>1. /\ reserved'[s] = reserved[s] /\ pc[t] = "check" /\ pc'[t] = "cas"
        /\ call[t].space \in Spaces /\ Fits(call[t], Room(call[t].space, call[t].seen))
        /\ call'[t] = [call[t] EXCEPT !.grant = Share(call[t], Room(call[t].space, call[t].seen))]
    BY <1>2, <1>19 DEF Check
  <2>2. call'[t].space = call[t].space /\ call'[t].bytes = call[t].bytes
    BY <1>2, <2>1 DEF CallType
  <2>3. CASE call[t].space # s
    BY <1>8, <1>14, <1>15, <2>1, <2>2, <2>3
  <2>4. CASE call[t].space = s
    <3>1. call[t].seen + call[t].bytes <= InitialLimit[s]
      <4>1. call[t].seen <= InitialLimit[s] /\ call[t].op # "upto"
        BY <1>7, <2>1, <2>4 DEF LimitInv, Limits, Steady
      <4> QED
        BY <1>2, <2>1, <2>4, <4>1, RoomIsExact
    <3> QED
      BY <1>8, <1>14, <1>15, <2>1, <2>2, <2>4, <3>1
  <2> QED
    BY <2>3, <2>4
<1>20. CASE Refuse(t)
  <2>1. /\ reserved'[s] = reserved[s] /\ pc[t] = "check" /\ pc'[t] \in {"refused", "idle"}
        /\ call[t].space \in Spaces /\ ~Fits(call[t], Room(call[t].space, call[t].seen))
    BY <1>2, <1>20 DEF Refuse
  <2>2. CASE call[t].space # s
    BY <1>8, <1>14, <1>15, <2>1, <2>2
  <2>3. CASE call[t].space = s
    <3>1. ~(call[t].seen + call[t].bytes <= InitialLimit[s])
      <4>1. call[t].seen <= InitialLimit[s] /\ call[t].op # "upto"
        BY <1>7, <2>1, <2>3 DEF LimitInv, Limits, Steady
      <4> QED
        BY <1>2, <2>1, <2>3, <4>1, RoomIsExact
    <3> QED
      BY <1>2, <1>12, <1>14, <1>15, <2>1, <2>3, <3>1
  <2> QED
    BY <2>2, <2>3
<1>21. CASE Admit(t)
  <2>1. /\ pc[t] = "cas" /\ pc'[t] \in {"countUp", "made"} /\ call[t].space \in Spaces
        /\ call[t].seen = reserved[call[t].space]
        /\ reserved'[s] = IF call[t].space = s THEN reserved[s] + call[t].grant ELSE reserved[s]
    BY <1>2, <1>21 DEF Admit
  <2>2. call[t].grant = call[t].bytes
    BY <2>1 DEF AskInv
  <2>3. CASE call[t].space # s
    BY <1>8, <1>14, <1>15, <2>1, <2>3
  <2>4. CASE call[t].space = s
    <3>1. reserved[s] + call[t].bytes <= InitialLimit[s]
      BY <2>1, <2>2, <2>4 DEF LimitInv, Limits, Steady
    <3> QED
      BY <1>2, <1>10, <1>14, <1>15, <2>1, <2>2, <2>4, <3>1
  <2> QED
    BY <2>3, <2>4
<1>22. CASE ReleaseLoad(t) \/ UnchargeRetry(t)
  <2>1. /\ reserved'[s] = reserved[s] /\ pc[t] \in {"releaseLoad", "releaseCas"}
        /\ pc'[t] = "releaseCas"
        /\ call'[t] = [call[t] EXCEPT !.seen = reserved[call[t].space]]
    BY <1>2, <1>22 DEF ReleaseLoad, UnchargeRetry
  <2>2. call'[t].space = call[t].space /\ call'[t].bytes = call[t].bytes
    BY <1>2, <2>1 DEF CallType
  <2> QED
    BY <1>8, <1>14, <1>15, <2>1, <2>2
<1>23. CASE Uncharge(t)
  <2>1. /\ pc[t] = "releaseCas" /\ call[t].bytes <= call[t].seen /\ call[t].space \in Spaces
    BY <1>2, <1>23 DEF Uncharge, FlowInv, SeenCovers
  <2>2. /\ call[t].seen = reserved[call[t].space] /\ pc'[t] \in {"callback", "idle"}
        /\ reserved'[s] = IF call[t].space = s THEN reserved[s] - call[t].bytes ELSE reserved[s]
    BY <1>2, <1>23, <2>1 DEF Uncharge, Released
  <2>3. CASE call[t].space # s
    BY <1>8, <1>14, <1>15, <2>1, <2>2, <2>3
  <2>4. CASE call[t].space = s
    BY <1>2, <1>13, <1>14, <1>15, <2>1, <2>2, <2>4
  <2> QED
    BY <2>3, <2>4
<1>24. ~ \E r \in Spaces, n \in UptoRequests : Make(t, "upto", r, n)
  BY DEF Steady
<1> QED
  BY <1>1, <1>16, <1>17, <1>18, <1>19, <1>20, <1>21, <1>22, <1>23, <1>24
     DEF SpaceStep, SpaceStart

\* Each space grants and refuses as if its loops were atomic, as long as its
\* limit stands and nobody asks for part of a request.
THEOREM AdmissionsAreAtomic == ASSUME Steady PROVE SpaceSpec => EachSpaceIsALedger
<1>1. SpaceInit => \A s \in Spaces : Ledger(s)!LedgerInit
  BY DEF SpaceInit, Ledger!LedgerInit, Ledger!None, LedgerRequest, LedgerKind
<1>2. SpaceInit => AskInv
  BY DEF SpaceInit, AskInv, AtSpace
<1>3. TypeInv /\ AskInv /\ [SpaceNext]_spaceVars => AskInv'
  BY AskStep
<1>s. TypeInv /\ LimitInv /\ AskInv => SeenInv
  BY SeenAsIs DEF SeenInv
<1>4. ASSUME TypeInv, LimitInv, FlowInv, AskInv, AskInv', TypeInv',
             SeenInv, SeenInv', [SpaceNext]_spaceVars
      PROVE  LedgerSteps \/ UNCHANGED spaceVars
  <2>1. CASE SpaceNext
    <3>1. ASSUME NEW s \in Spaces
          PROVE  LedgerStep(s)
      BY <1>4, <2>1, <3>1, LedgerSimulation
    <3> QED
      BY <3>1 DEF LedgerSteps
  <2>2. CASE UNCHANGED spaceVars
    BY <2>2
  <2> QED
    BY <1>4, <2>1, <2>2
<1>5. LedgerSteps \/ UNCHANGED spaceVars =>
        [\A s \in Spaces :
           Ledger(s)!LedgerNext \/ UNCHANGED Ledger(s)!ledgerVars]_spaceVars
  BY DEF LedgerSteps, LedgerStep
<1> QED
  BY <1>1, <1>2, <1>3, <1>s, <1>4, <1>5, Flow, Limited, PTL DEF SpaceSpec, EachSpaceIsALedger

-----------------------------------------------------------------------------
(* The manager: types, and what a request knows of its place *)

LEMMA NextMatchIs ==
  ASSUME NEW matches, NEW i \in Nat
  PROVE  \/ NextMatch(matches, i) = 0
         \/ /\ NextMatch(matches, i) \in i .. Len(Order)
            /\ Order[NextMatch(matches, i)] \in matches
<1> DEFINE found == {k \in i .. Len(Order) : Order[k] \in matches}
<1>1. Len(Order) \in Nat
  BY ManagerAssumption
<1>2. IsFiniteSet(found) /\ found \subseteq Int
  <2>1. IsFiniteSet(i .. Len(Order))
    BY <1>1, FS_Interval
  <2> QED
    BY <1>1, <2>1, FS_Subset
<1>3. CASE found = {}
  BY <1>3 DEF NextMatch
<1>4. CASE found # {}
  <2>1. Min(found) \in found
    <3> HIDE DEF found
    <3> QED
      BY <1>2, <1>4, MinIsIn
  <2> QED
    BY <1>4, <2>1 DEF NextMatch
<1> QED
  BY <1>3, <1>4

RequestType == [matches : SUBSET Spaces, bytes : Nat, at : Nat]

FirstMatch(t) == NextMatch(request[t].matches, 1)

\* A request has a first match, which its second pass asks; the walk stays
\* within the spaces.
RequestOK(t) ==
  /\ pc[t] \in {"scan", "hint", "refused", "countUp"} => request[t] # NoRequest
  /\ pc[t] \in {"load", "check", "cas"} /\ call[t].managed => request[t] # NoRequest
  /\ request[t] # NoRequest => FirstMatch(t) # 0 /\ request[t].at \in 0 .. Len(Order)
  /\ pc[t] = "hint" => request[t].at # 0
  /\ pc[t] \in {"refused", "countUp", "callback", "countDown"} => call[t].managed
  /\ pc[t] \in {"load", "check", "cas", "refused"} /\ call[t].managed /\ call[t].op = "orNull" =>
       call[t].space = Order[FirstMatch(t)] /\ call[t].bytes = request[t].bytes

ManagerTypes ==
  /\ active \in Nat /\ flag \in BOOLEAN /\ standing \in BOOLEAN
  /\ request \in [Threads -> RequestType]

ManagerInv == TypeInv /\ ManagerTypes /\ \A t \in Threads : RequestOK(t)

LEMMA ManagerStarts == ManagerInit => ManagerInv
<1>1. NoRequest \in RequestType
  BY DEF NoRequest, RequestType
<1> SUFFICES ASSUME ManagerInit PROVE ManagerInv
  OBVIOUS
<1>2. TypeInv
  BY TypeInit DEF ManagerInit
<1>3. ManagerTypes
  BY <1>1 DEF ManagerInit, ManagerTypes
<1>4. ASSUME NEW t \in Threads
      PROVE  RequestOK(t)
  BY DEF ManagerInit, SpaceInit, RequestOK
<1> QED
  BY <1>2, <1>3, <1>4 DEF ManagerInv

\* The positions of a request are positions of Order.
LEMMA MatchOfRequest ==
  ASSUME ManagerInv, NEW t \in Threads, request[t] # NoRequest
  PROVE  /\ FirstMatch(t) \in 1 .. Len(Order) /\ Order[FirstMatch(t)] \in Spaces
         /\ request[t].at # 0 => Order[request[t].at] \in Spaces
<1>1. request[t].matches \subseteq Spaces /\ request[t].at \in 0 .. Len(Order)
  BY DEF ManagerInv, ManagerTypes, RequestOK, RequestType
<1>2. FirstMatch(t) # 0
  BY DEF ManagerInv, RequestOK
<1>3. FirstMatch(t) \in 1 .. Len(Order) /\ Order[FirstMatch(t)] \in request[t].matches
  BY <1>2, NextMatchIs DEF FirstMatch
<1>4. Len(Order) \in Nat /\ \A k \in 1 .. Len(Order) : Order[k] \in Spaces
  BY ManagerAssumption
<1>5. request[t].at # 0 => request[t].at \in 1 .. Len(Order)
  BY <1>1, <1>4
<1> QED
  BY <1>1, <1>3, <1>4, <1>5

\* What a step of a thread leaves of the requests of the others.
LEMMA OthersRequests ==
  ASSUME NEW t \in Threads, NEW u \in Threads \ {t}, RequestOK(u), OnlyThread(t),
         request'[u] = request[u]
  PROVE  RequestOK(u)'
<1>1. call'[u] = call[u] /\ pc'[u] = pc[u] /\ FirstMatch(u)' = FirstMatch(u)
  BY DEF OnlyThread, FirstMatch
<1> QED
  BY <1>1 DEF RequestOK

\* The steps of the manager that are not steps of a space.
OwnStep(t) ==
  \/ \E matches \in Strategies, n \in Requests : Request(t, matches, n)
  \/ ScanLoad(t) \/ ScanHint(t) \/ SecondPass(t) \/ AnswerNull(t)
  \/ CountUp(t) \/ Callback(t) \/ CountDown(t)
  \/ ShutdownFlag(t) \/ ShutdownClear(t) \/ ShutdownZero(t) \/ ReleaseIntoNowhere(t)

LEMMA ManagerCases ==
  ASSUME NEW t \in Threads, ManagerStep(t) \/ ManagerStart(t)
  PROVE  \/ OwnStep(t)
         \/ SpaceStep(t) /\ SpaceStepWithin(t)
         \/ SpaceStart(t) /\ SpaceStartWithin(t)
BY DEF ManagerStep, ManagerStart, OwnStep, SpaceStepWithin, SpaceStartWithin, SpaceStart

LEMMA OwnStepKeeps ==
  ASSUME NEW t \in Threads, OwnStep(t)
  PROVE  UNCHANGED <<reserved, limit, home, bytes, counted>>
BY DEF OwnStep, Request, ScanLoad, ScanHint, SecondPass, AnswerNull, CountUp, Callback,
   CountDown, ShutdownFlag, ShutdownClear, ShutdownZero, ReleaseIntoNowhere, ledger, handles

LEMMA OneThreadMoves ==
  ASSUME ManagerInv, NEW t \in Threads, ManagerStep(t) \/ ManagerStart(t)
  PROVE  OnlyThread(t) /\ \A u \in Threads \ {t} : request'[u] = request[u]
<1>1. /\ pc \in [Threads -> Labels] /\ call \in [Threads -> CallType]
      /\ request \in [Threads -> RequestType]
  BY DEF ManagerInv, TypeInv, TypeOK, ManagerTypes
<1>2. CASE OwnStep(t)
  BY <1>1, <1>2
     DEF OwnStep, Request, ScanLoad, ScanHint, SecondPass, AnswerNull, CountUp, Callback,
         CountDown, ShutdownFlag, ShutdownClear, ShutdownZero, ReleaseIntoNowhere, Released,
         managerVars, Goto, Enter, Return, Asks, OnlyThread
<1>3. CASE SpaceStep(t) /\ SpaceStepWithin(t)
  BY <1>1, <1>3
     DEF SpaceStep, SpaceStepWithin, LoadReserved, Check, Refuse, Admit, AdmitRetry, Deliver,
         ReleaseLoad, Uncharge, UnchargeRetry, Released, Goto, Enter, Return, OnlyThread
<1>4. CASE SpaceStart(t) /\ SpaceStartWithin(t)
  BY <1>1, <1>4
     DEF SpaceStart, SpaceStartWithin, managerVars, Make, Release, SetMaxMemory,
         Goto, Enter, Return, OnlyThread
<1> QED
  BY <1>2, <1>3, <1>4, ManagerCases

LEMMA OwnStepTypes ==
  ASSUME ManagerInv, NEW t \in Threads, OwnStep(t)
  PROVE  TypeInv' /\ ManagerTypes' /\ RequestOK(t)'
<1>0. /\ pc \in [Threads -> Labels] /\ call \in [Threads -> CallType]
      /\ \A u \in Threads : CallOK(u) /\ RequestOK(u)
      /\ request \in [Threads -> RequestType] /\ active \in Nat /\ flag \in BOOLEAN
      /\ standing \in BOOLEAN /\ CountMax \in Nat /\ Requests \subseteq Nat
      /\ Strategies \subseteq SUBSET Spaces /\ Len(Order) \in Nat
      /\ reserved \in [Spaces -> Nat]
  BY SpaceAssumption, ManagerAssumption DEF ManagerInv, TypeInv, TypeOK, ManagerTypes
<1>k. UNCHANGED <<reserved, limit, home, bytes, counted>>
  BY OwnStepKeeps
<1>f. ASSUME pc' \in [Threads -> Labels], call' \in [Threads -> CallType],
             \A u \in Threads : CallOK(u)'
      PROVE  TypeInv'
  BY <1>k, <1>f DEF ManagerInv, TypeInv, TypeOK
<1>g. ASSUME NEW c \in CallType, NEW l \in Labels \ AtSpace,
             call' = [call EXCEPT ![t] = c], pc' = [pc EXCEPT ![t] = l]
      PROVE  TypeInv'
  <2>1. pc' \in [Threads -> Labels] /\ call' \in [Threads -> CallType]
    BY <1>0, <1>g
  <2>2. ASSUME NEW u \in Threads
        PROVE  CallOK(u)'
    BY <1>0, <1>g DEF CallOK, AtSpace
  <2> QED
    BY <1>f, <2>1, <2>2
<1>n. NoCall \in CallType
  BY NoCallType
<1> USE <1>0
    DEF CallOK, RequestOK, ManagerTypes, AtSpace, Labels, CallType, RequestType,
        Goto, Enter, Return, Call, NoCall, NoRequest, managerVars
<1>1. ASSUME NEW matches \in Strategies, NEW n \in Requests, Request(t, matches, n)
      PROVE  TypeInv' /\ ManagerTypes' /\ RequestOK(t)'
  <2>1. NextMatch(matches, 1) \in 1 .. Len(Order)
    BY <1>1, NextMatchIs DEF Request
  <2>2. request'[t] = [matches |-> matches, bytes |-> n, at |-> NextMatch(matches, 1)]
    BY <1>1 DEF Request
  <2>3. FirstMatch(t)' = NextMatch(matches, 1)
    BY <2>2 DEF FirstMatch
  <2>4. TypeInv'
    BY <1>1, <1>f DEF Request
  <2>5. ManagerTypes'
    <3> DEFINE r == [matches |-> matches, bytes |-> n, at |-> NextMatch(matches, 1)]
    <3>1. r \in RequestType
      BY <2>1
    <3>2. request' = [request EXCEPT ![t] = r] /\ UNCHANGED <<active, flag, standing>>
      BY <1>1 DEF Request
    <3> QED
      BY <3>1, <3>2
  <2>6. RequestOK(t)'
    BY <1>1, <2>1, <2>2, <2>3 DEF Request
  <2> QED
    BY <2>4, <2>5, <2>6
<1>2. ASSUME ScanLoad(t)
      PROVE  TypeInv' /\ ManagerTypes' /\ RequestOK(t)'
  <2>1. request[t] # NoRequest /\ Order[request[t].at] \in Spaces
    BY <1>2, MatchOfRequest DEF ScanLoad
  <2>2. request' = request /\ FirstMatch(t)' = FirstMatch(t)
    BY <1>2 DEF ScanLoad, FirstMatch
  <2>3. TypeInv'
    <3> DEFINE c == [call[t] EXCEPT !.seen = reserved[Order[request[t].at]]]
    <3>1. reserved[Order[request[t].at]] \in Nat /\ call[t] \in CallType
      BY <1>2, <2>1 DEF ScanLoad
    <3>2. c \in CallType
      BY <3>1
    <3>3. call' = [call EXCEPT ![t] = c] /\ pc' = [pc EXCEPT ![t] = "hint"]
      BY <1>2 DEF ScanLoad
    <3> HIDE DEF c
    <3> QED
      BY <1>f, <3>2, <3>3
  <2>4. ManagerTypes'
    BY <1>2 DEF ScanLoad
  <2>5. RequestOK(t)'
    BY <1>2, <2>1, <2>2 DEF ScanLoad
  <2> QED
    BY <2>3, <2>4, <2>5
<1>3. ASSUME ScanHint(t)
      PROVE  TypeInv' /\ ManagerTypes' /\ RequestOK(t)'
  <2>1. /\ request[t] # NoRequest /\ Order[request[t].at] \in Spaces
        /\ request[t].at \in 1 .. Len(Order)
    BY <1>3, MatchOfRequest DEF ScanHint
  <2>2. CASE request' = request /\ Asks(t, "make", Order[request[t].at]) /\ Goto(t, "load")
    BY <1>3, <1>f, <2>1, <2>2 DEF ScanHint, Asks, FirstMatch
  <2>3. CASE /\ request' = [request EXCEPT ![t].at = NextMatch(request[t].matches, @ + 1)]
             /\ Goto(t, "scan") /\ UNCHANGED call
    <3>1. NextMatch(request[t].matches, request[t].at + 1) \in 0 .. Len(Order)
      BY <2>1, NextMatchIs
    <3>2. /\ request'[t].at = NextMatch(request[t].matches, request[t].at + 1)
          /\ request'[t].matches = request[t].matches /\ request'[t].bytes = request[t].bytes
      BY <2>3
    <3>3. FirstMatch(t)' = FirstMatch(t) /\ FirstMatch(t) # 0
      BY <2>1, <3>2 DEF FirstMatch
    <3>4. request'[t] # NoRequest
      <4>1. request[t].matches # {}
        BY <2>1, MatchOfRequest, NextMatchIs DEF FirstMatch
      <4> QED
        BY <4>1, <3>2
    <3>5. TypeInv'
      BY <1>3, <1>f, <2>1, <2>3 DEF ScanHint
    <3>6. ManagerTypes'
      <4> DEFINE r == [request[t] EXCEPT !.at = NextMatch(request[t].matches, request[t].at + 1)]
      <4>1. request[t] \in RequestType /\ NextMatch(request[t].matches, request[t].at + 1) \in Nat
        BY <3>1
      <4>2. r \in RequestType
        BY <4>1
      <4>3. request' = [request EXCEPT ![t] = r]
        BY <2>3
      <4> HIDE DEF r
      <4> QED
        BY <1>3, <4>2, <4>3 DEF ScanHint
    <3>7. RequestOK(t)'
      BY <1>3, <2>1, <2>3, <3>1, <3>2, <3>3, <3>4 DEF ScanHint
    <3> QED
      BY <3>5, <3>6, <3>7
  <2> QED
    BY <1>3, <2>2, <2>3 DEF ScanHint
<1>4. ASSUME SecondPass(t)
      PROVE  TypeInv' /\ ManagerTypes' /\ RequestOK(t)'
  <2>1. request[t] # NoRequest /\ Order[FirstMatch(t)] \in Spaces
    BY <1>4, MatchOfRequest DEF SecondPass
  <2>2. FirstMatch(t)' = FirstMatch(t)
    BY <1>4 DEF SecondPass, FirstMatch
  <2>3. call'[t] = Call("orNull", Order[FirstMatch(t)], request[t].bytes, TRUE)
    BY <1>4 DEF SecondPass, FirstMatch, Asks
  <2>4. Order[NextMatch(request[t].matches, 1)] \in Spaces
    BY <2>1 DEF FirstMatch
  <2>5. TypeInv'
    BY <1>4, <1>f, <2>4 DEF SecondPass, Asks
  <2>6. ManagerTypes'
    BY <1>4 DEF SecondPass
  <2>7. RequestOK(t)'
    BY <1>4, <2>1, <2>2, <2>3 DEF SecondPass
  <2> QED
    BY <2>5, <2>6, <2>7
<1>5. ASSUME AnswerNull(t)
      PROVE  TypeInv' /\ ManagerTypes' /\ RequestOK(t)'
  BY <1>5, <1>f DEF AnswerNull
<1>6. ASSUME CountUp(t)
      PROVE  TypeInv' /\ ManagerTypes' /\ RequestOK(t)'
  <2>1. FirstMatch(t)' = FirstMatch(t)
    BY <1>6 DEF CountUp, FirstMatch
  <2> QED
    BY <1>6, <1>f, <2>1 DEF CountUp
<1>7. ASSUME Callback(t)
      PROVE  TypeInv' /\ ManagerTypes' /\ RequestOK(t)'
  <2>1. FirstMatch(t)' = FirstMatch(t)
    BY <1>7 DEF Callback, FirstMatch
  <2>2. CASE flag
    <3>1. TypeInv'
      <4>1. call' = [call EXCEPT ![t] = NoCall] /\ pc' = [pc EXCEPT ![t] = "idle"]
        BY <1>7, <2>2 DEF Callback
      <4>2. NoCall \in CallType
        BY <1>n
      <4> QED
        BY <1>g, <4>1, <4>2
    <3>2. ManagerTypes'
      BY <1>7 DEF Callback
    <3>3. RequestOK(t)'
      BY <1>7, <2>1, <2>2 DEF Callback
    <3> QED
      BY <3>1, <3>2, <3>3
  <2>3. CASE ~flag
    <3>1. TypeInv'
      <4>1. call' = [call EXCEPT ![t] = call[t]] /\ pc' = [pc EXCEPT ![t] = "countDown"]
        BY <1>7, <2>3 DEF Callback
      <4>2. call[t] \in CallType
        BY <1>n
      <4> QED
        BY <1>g, <4>1, <4>2
    <3>2. ManagerTypes'
      BY <1>7 DEF Callback
    <3>3. RequestOK(t)'
      BY <1>7, <2>1, <2>3 DEF Callback
    <3> QED
      BY <3>1, <3>2, <3>3
  <2> QED
    BY <2>2, <2>3
<1>8. ASSUME CountDown(t)
      PROVE  TypeInv' /\ ManagerTypes' /\ RequestOK(t)'
  <2>1. FirstMatch(t)' = FirstMatch(t)
    BY <1>8 DEF CountDown, FirstMatch
  <2> QED
    BY <1>8, <1>f, <2>1 DEF CountDown
<1>9. ASSUME ShutdownFlag(t)
      PROVE  TypeInv' /\ ManagerTypes' /\ RequestOK(t)'
  <2>1. FirstMatch(t)' = FirstMatch(t)
    BY <1>9 DEF ShutdownFlag, FirstMatch
  <2> QED
    BY <1>9, <1>f, <2>1 DEF ShutdownFlag
<1>10. ASSUME ShutdownClear(t)
      PROVE  TypeInv' /\ ManagerTypes' /\ RequestOK(t)'
  <2>1. FirstMatch(t)' = FirstMatch(t)
    BY <1>10 DEF ShutdownClear, FirstMatch
  <2> QED
    BY <1>10, <1>f, <2>1 DEF ShutdownClear
<1>11. ASSUME ShutdownZero(t)
      PROVE  TypeInv' /\ ManagerTypes' /\ RequestOK(t)'
  <2>1. FirstMatch(t)' = FirstMatch(t)
    BY <1>11 DEF ShutdownZero, FirstMatch
  <2> QED
    BY <1>11, <1>f, <2>1 DEF ShutdownZero
<1>12. ASSUME ReleaseIntoNowhere(t)
      PROVE  TypeInv' /\ ManagerTypes' /\ RequestOK(t)'
  <2>1. FirstMatch(t)' = FirstMatch(t)
    BY <1>12 DEF ReleaseIntoNowhere, FirstMatch
  <2>2. CASE call[t].managed
    <3>1. TypeInv'
      <4>1. call' = [call EXCEPT ![t] = call[t]] /\ pc' = [pc EXCEPT ![t] = "callback"]
        BY <1>12, <2>2 DEF ReleaseIntoNowhere, Released
      <4>2. call[t] \in CallType
        BY <1>n
      <4> QED
        BY <1>g, <4>1, <4>2
    <3>2. ManagerTypes'
      BY <1>12 DEF ReleaseIntoNowhere
    <3>3. RequestOK(t)'
      BY <1>12, <2>1, <2>2 DEF ReleaseIntoNowhere, Released
    <3> QED
      BY <3>1, <3>2, <3>3
  <2>3. CASE ~call[t].managed
    <3>1. TypeInv'
      <4>1. call' = [call EXCEPT ![t] = NoCall] /\ pc' = [pc EXCEPT ![t] = "idle"]
        BY <1>12, <2>3 DEF ReleaseIntoNowhere, Released
      <4>2. NoCall \in CallType
        BY <1>n
      <4> QED
        BY <1>g, <4>1, <4>2
    <3>2. ManagerTypes'
      BY <1>12 DEF ReleaseIntoNowhere
    <3>3. RequestOK(t)'
      BY <1>12, <2>1, <2>3 DEF ReleaseIntoNowhere, Released
    <3> QED
      BY <3>1, <3>2, <3>3
  <2> QED
    BY <2>2, <2>3
<1> QED
  BY <1>1, <1>2, <1>3, <1>4, <1>5, <1>6, <1>7, <1>8, <1>9, <1>10, <1>11, <1>12 DEF OwnStep

LEMMA SpaceStepTypes ==
  ASSUME ManagerInv, NEW t \in Threads,
         \/ SpaceStep(t) /\ SpaceStepWithin(t)
         \/ SpaceStart(t) /\ SpaceStartWithin(t)
  PROVE  TypeInv' /\ ManagerTypes' /\ RequestOK(t)'
<1>0. /\ pc \in [Threads -> Labels] /\ call \in [Threads -> CallType]
      /\ RequestOK(t) /\ request \in [Threads -> RequestType] /\ Len(Order) \in Nat
  BY ManagerAssumption DEF ManagerInv, TypeInv, TypeOK, ManagerTypes
<1>1. SpaceNext
  BY DEF SpaceNext
<1>2. TypeInv'
  BY <1>1, TypeStep DEF ManagerInv
<1>3. NoRequest \in RequestType
  BY DEF NoRequest, RequestType
<1>4. ManagerTypes'
  BY <1>0, <1>3 DEF ManagerInv, ManagerTypes, SpaceStepWithin, SpaceStartWithin, managerVars
<1> SUFFICES RequestOK(t)'
  BY <1>2, <1>4
<1>5. CASE pc[t] = "made" /\ SpaceStep(t) /\ SpaceStepWithin(t)
  <2>1. PICK h \in Handles : Deliver(t, h)
    BY <1>5 DEF SpaceStep, LoadReserved, Check, Refuse, Admit, AdmitRetry, ReleaseLoad, Uncharge,
       UnchargeRetry
  <2>2. pc'[t] = "idle" /\ request'[t] = NoRequest
    BY <1>0, <1>5, <2>1 DEF Deliver, Return, Goto, SpaceStepWithin
  <2> QED
    BY <1>0, <2>2 DEF RequestOK
<1>6. CASE pc[t] # "made" /\ SpaceStep(t) /\ SpaceStepWithin(t)
  <2>1. request' = request
    BY <1>6 DEF SpaceStepWithin
  <2>2. FirstMatch(t)' = FirstMatch(t)
    BY <2>1 DEF FirstMatch
  <2> USE <1>0, <2>1, <2>2 DEF RequestOK, CallType, Goto, Enter, Return, NoCall, Call
  <2>3. CASE LoadReserved(t)
    BY <2>3 DEF LoadReserved
  <2>4. CASE Check(t)
    BY <2>4 DEF Check
  <2>5. CASE Refuse(t)
    <3>1. CASE call[t].managed
      BY <2>5, <3>1 DEF Refuse
    <3>2. CASE ~call[t].managed
      BY <2>5, <3>2 DEF Refuse
    <3> QED
      BY <3>1, <3>2
  <2>6. CASE Admit(t)
    <3>1. CASE call[t].managed
      BY <2>6, <3>1 DEF Admit
    <3>2. CASE ~call[t].managed
      BY <2>6, <3>2 DEF Admit
    <3> QED
      BY <3>1, <3>2
  <2>7. CASE AdmitRetry(t)
    BY <2>7 DEF AdmitRetry
  <2>8. CASE ReleaseLoad(t)
    BY <2>8 DEF ReleaseLoad
  <2>9. CASE Uncharge(t)
    <3>1. CASE call[t].managed
      BY <2>9, <3>1 DEF Uncharge, Released
    <3>2. CASE ~call[t].managed
      BY <2>9, <3>2 DEF Uncharge, Released
    <3> QED
      BY <3>1, <3>2
  <2>10. CASE UnchargeRetry(t)
    BY <2>10 DEF UnchargeRetry
  <2>11. ~ \E h \in Handles : Deliver(t, h)
    BY <1>6 DEF Deliver
  <2> QED
    BY <1>6, <2>3, <2>4, <2>5, <2>6, <2>7, <2>8, <2>9, <2>10, <2>11 DEF SpaceStep
<1>7. CASE SpaceStart(t) /\ SpaceStartWithin(t)
  <2>1. request' = request
    BY <1>7 DEF SpaceStartWithin, managerVars
  <2>2. FirstMatch(t)' = FirstMatch(t)
    BY <2>1 DEF FirstMatch
  <2>3. \/ /\ pc'[t] = "load" /\ ~call'[t].managed
        \/ pc'[t] = "releaseLoad"
        \/ pc'[t] = "idle"
    BY <1>0, <1>7 DEF SpaceStart, Make, Release, SetMaxMemory, Goto, Enter, Call
  <2> QED
    BY <1>0, <2>1, <2>2, <2>3 DEF RequestOK
<1> QED
  BY <1>5, <1>6, <1>7

LEMMA ManagerStepTypes == ManagerInv /\ [ManagerNext]_allVars => ManagerInv'
<1> SUFFICES ASSUME ManagerInv, [ManagerNext]_allVars
             PROVE  ManagerInv'
  OBVIOUS
<1>1. CASE UNCHANGED allVars
  <2>1. TypeInv'
    BY <1>1, TypeStep DEF ManagerInv, allVars
  <2>2. ManagerTypes'
    BY <1>1 DEF ManagerInv, ManagerTypes, allVars, managerVars
  <2>3. ASSUME NEW t \in Threads
        PROVE  RequestOK(t)'
    <3>1. pc' = pc /\ call' = call /\ request' = request /\ FirstMatch(t)' = FirstMatch(t)
      BY <1>1 DEF allVars, managerVars, spaceVars, FirstMatch
    <3> QED
      BY <3>1 DEF ManagerInv, RequestOK
  <2> QED
    BY <2>1, <2>2, <2>3 DEF ManagerInv
<1>2. ASSUME NEW t \in Threads, ManagerStep(t) \/ ManagerStart(t)
      PROVE  ManagerInv'
  <2>1. TypeInv' /\ ManagerTypes' /\ RequestOK(t)'
    <3>1. CASE OwnStep(t)
      BY <3>1, OwnStepTypes
    <3>2. CASE \/ SpaceStep(t) /\ SpaceStepWithin(t)
               \/ SpaceStart(t) /\ SpaceStartWithin(t)
      BY <3>2, SpaceStepTypes
    <3> QED
      BY <1>2, <3>1, <3>2, ManagerCases
  <2>2. ASSUME NEW u \in Threads \ {t}
        PROVE  RequestOK(u)'
    BY <1>2, OneThreadMoves, OthersRequests DEF ManagerInv
  <2> QED
    BY <2>1, <2>2 DEF ManagerInv
<1> QED
  BY <1>1, <1>2 DEF ManagerNext

\* The requests of the manager stay in their types: their second pass always
\* has a space to ask, and it asks it for what was requested.
LEMMA ManagerTyped == ManagerSpec => []ManagerInv
  BY ManagerStarts, ManagerStepTypes, PTL DEF ManagerSpec

-----------------------------------------------------------------------------
(* Null answers *)

LEMMA MaxOfTwo ==
  ASSUME NEW a \in Nat, NEW b \in Nat
  PROVE  /\ Max({a, b}) \in Nat /\ Max({a, b}) >= a /\ Max({a, b}) >= b
         /\ Min({a, b}) \in Nat /\ Min({a, b}) <= a /\ Min({a, b}) <= b
<1>1. \E x \in {a, b} : \A y \in {a, b} : x >= y
  BY a >= b \/ b >= a
<1>2. Max({a, b}) \in {a, b} /\ \A y \in {a, b} : Max({a, b}) >= y
  BY <1>1 DEF Max
<1>3. \E x \in {a, b} : \A y \in {a, b} : x <= y
  BY a <= b \/ b <= a
<1>4. Min({a, b}) \in {a, b} /\ \A y \in {a, b} : Min({a, b}) <= y
  BY <1>3 DEF Min
<1> QED
  BY <1>2, <1>4

\* The extremes of a request bound what its loop has loaded, and show why it
\* was refused.
SeenWithin(t) ==
  call[t].op = "orNull" /\ call[t].managed =>
    /\ pc[t] \in {"check", "cas"} => call[t].seen <= most[t][call[t].space]
    /\ pc[t] = "refused" =>
         most[t][call[t].space] + call[t].bytes > least[t][call[t].space]

HistoryTypes == most \in [Threads -> [Spaces -> Nat]] /\ least \in [Threads -> [Spaces -> Nat]]

Bounding ==
  \A t \in Threads : request[t] # NoRequest =>
    \A s \in Spaces : reserved[s] <= most[t][s] /\ least[t][s] <= limit[s]

HistoryInv == HistoryTypes /\ Bounding /\ \A t \in Threads : SeenWithin(t)

LEMMA HistoryStarts == HistoryInit => HistoryInv
<1> SUFFICES ASSUME HistoryInit PROVE HistoryInv
  OBVIOUS
<1>1. HistoryTypes
  BY DEF HistoryInit, HistoryTypes, Unwatched
<1>2. Bounding
  BY DEF HistoryInit, ManagerInit, Bounding
<1>3. ASSUME NEW t \in Threads
      PROVE  SeenWithin(t)
  BY DEF HistoryInit, ManagerInit, SpaceInit, SeenWithin
<1> QED
  BY <1>1, <1>2, <1>3 DEF HistoryInv

\* The extremes of a request only grow apart, and enclose the present.
LEMMA WatchWidens ==
  ASSUME TypeOK, TypeOK', HistoryTypes, HistoryNext, NEW t \in Threads, NEW s \in Spaces
  PROVE  /\ most'[t][s] \in Nat /\ least'[t][s] \in Nat
         /\ request'[t] # NoRequest =>
              /\ reserved'[s] <= most'[t][s] /\ least'[t][s] <= limit'[s]
              /\ request[t] # NoRequest =>
                   most[t][s] <= most'[t][s] /\ least'[t][s] <= least[t][s]
<1>1. /\ reserved'[s] \in Nat /\ limit'[s] \in Nat
      /\ most[t][s] \in Nat /\ least[t][s] \in Nat
  BY DEF TypeOK, HistoryTypes
<1>2. most'[t] = Watch(t)[1] /\ least'[t] = Watch(t)[2]
  BY DEF HistoryNext
<1>3. CASE request'[t] = NoRequest
  BY <1>2, <1>3 DEF Watch, Unwatched
<1>4. CASE request'[t] # NoRequest /\ request[t] = NoRequest
  BY <1>1, <1>2, <1>4 DEF Watch
<1>5. CASE request'[t] # NoRequest /\ request[t] # NoRequest
  <2>1. most'[t][s] = Max({most[t][s], reserved'[s]}) /\ least'[t][s] = Min({least[t][s], limit'[s]})
    BY <1>2, <1>5 DEF Watch
  <2> QED
    BY <1>1, <2>1, MaxOfTwo
<1> QED
  BY <1>3, <1>4, <1>5

LEMMA HistoryTypesStep ==
  ASSUME TypeOK, TypeOK', HistoryTypes, HistoryNext
  PROVE  HistoryTypes'
<1>1. ASSUME NEW t \in Threads
      PROVE  most'[t] \in [Spaces -> Nat] /\ least'[t] \in [Spaces -> Nat]
  <2>1. reserved' \in [Spaces -> Nat] /\ limit' \in [Spaces -> Nat]
    BY DEF TypeOK
  <2>2. most'[t] = Watch(t)[1] /\ least'[t] = Watch(t)[2]
    BY DEF HistoryNext
  <2>3. CASE request'[t] = NoRequest
    BY <2>2, <2>3 DEF Watch, Unwatched
  <2>4. CASE request'[t] # NoRequest /\ request[t] = NoRequest
    BY <2>1, <2>2, <2>4 DEF Watch
  <2>5. CASE request'[t] # NoRequest /\ request[t] # NoRequest
    <3>1. /\ most'[t] = [s \in Spaces |-> Max({most[t][s], reserved'[s]})]
          /\ least'[t] = [s \in Spaces |-> Min({least[t][s], limit'[s]})]
      BY <2>2, <2>5 DEF Watch
    <3> QED
      BY <3>1, WatchWidens
  <2> QED
    BY <2>3, <2>4, <2>5
<1> QED
  BY <1>1 DEF HistoryNext, HistoryTypes

\* What the mover's own step means for the counter it has loaded.
LEMMA SeenStep ==
  ASSUME ManagerInv, ManagerInv', HistoryInv, HistoryNext, NEW t \in Threads,
         ManagerStep(t) \/ ManagerStart(t)
  PROVE  SeenWithin(t)'
<1> DEFINE s == call[t].space
<1>0. /\ pc \in [Threads -> Labels] /\ call \in [Threads -> CallType]
      /\ reserved \in [Spaces -> Nat] /\ limit \in [Spaces -> Nat]
      /\ TypeOK /\ TypeOK' /\ HistoryTypes /\ CallOK(t) /\ RequestOK(t) /\ RequestOK(t)'
      /\ call[t] \in CallType /\ call[t].seen \in Nat /\ call[t].bytes \in Nat
      /\ call'[t] \in CallType
  BY DEF ManagerInv, TypeInv, TypeOK, HistoryInv, CallType
<1>1. ASSUME pc'[t] \notin {"check", "cas", "refused"}
      PROVE  SeenWithin(t)'
  BY <1>1 DEF SeenWithin
<1>2. CASE OwnStep(t)
  <2>1. pc'[t] \notin {"check", "cas", "refused"}
    BY <1>0, <1>2
       DEF OwnStep, Request, ScanLoad, ScanHint, SecondPass, AnswerNull, CountUp, Callback,
           CountDown, ShutdownFlag, ShutdownClear, ShutdownZero, ReleaseIntoNowhere, Released,
           Goto, Enter, Return
  <2> QED
    BY <1>1, <2>1
<1>3. CASE SpaceStart(t)
  <2>1. pc'[t] \notin {"check", "cas", "refused"}
    BY <1>0, <1>3 DEF SpaceStart, Make, Release, SetMaxMemory, Goto, Enter, Return
  <2> QED
    BY <1>1, <2>1
<1>4. CASE SpaceStep(t) /\ SpaceStepWithin(t)
  <2>1. CASE ReleaseLoad(t) \/ Uncharge(t) \/ UnchargeRetry(t) \/ Admit(t)
             \/ \E h \in Handles : Deliver(t, h)
    <3>1. pc'[t] \notin {"check", "cas", "refused"}
      BY <1>0, <2>1 DEF Deliver, ReleaseLoad, Uncharge, UnchargeRetry, Admit, Released,
         Goto, Enter, Return
    <3> QED
      BY <1>1, <3>1
  <2>2. CASE LoadReserved(t) \/ AdmitRetry(t)
    <3>1. /\ pc'[t] = "check" /\ s \in Spaces /\ reserved' = reserved
          /\ call'[t] = [call[t] EXCEPT !.seen = reserved[s]]
      BY <1>0, <2>2 DEF LoadReserved, AdmitRetry, CallOK, AtSpace, Goto, Enter, ledger
    <3>2. call'[t].space = s /\ call'[t].seen = reserved'[s]
      BY <1>0, <3>1 DEF CallType
    <3>3. call'[t].managed => reserved'[s] <= most'[t][s]
      BY <1>0, <3>1, WatchWidens DEF RequestOK
    <3> QED
      BY <3>1, <3>2, <3>3 DEF SeenWithin
  <2>3. CASE Check(t)
    <3>1. /\ pc[t] = "check" /\ pc'[t] = "cas" /\ s \in Spaces
          /\ call'[t] = [call[t] EXCEPT !.grant = Share(call[t], Room(s, call[t].seen))]
      BY <1>0, <2>3 DEF Check, CallOK, AtSpace, Goto, Enter
    <3>2. /\ call'[t].space = s /\ call'[t].seen = call[t].seen
          /\ call'[t].op = call[t].op /\ call'[t].managed = call[t].managed
      BY <1>0, <3>1 DEF CallType
    <3>3. call[t].managed => /\ request[t] # NoRequest /\ request'[t] # NoRequest
                             /\ most[t][s] <= most'[t][s]
      BY <1>0, <3>1, <3>2, WatchWidens DEF RequestOK
    <3>4. most[t][s] \in Nat /\ most'[t][s] \in Nat
      BY <1>0, <3>1, WatchWidens DEF HistoryTypes
    <3> QED
      BY <1>0, <3>1, <3>2, <3>3, <3>4 DEF SeenWithin, HistoryInv
  <2>4. CASE Refuse(t) /\ call[t].managed /\ call[t].op = "orNull"
    <3>1. /\ pc[t] = "check" /\ pc'[t] = "refused" /\ s \in Spaces /\ call' = call
          /\ ~Fits(call[t], Room(s, call[t].seen))
      BY <1>0, <2>4 DEF Refuse, CallOK, AtSpace, Goto
    <3>2. call[t].bytes + call[t].seen > limit[s]
      BY <1>0, <2>4, <3>1 DEF Fits, Share, Room
    <3>3. request[t] # NoRequest /\ request'[t] # NoRequest
      BY <1>0, <2>4, <3>1 DEF RequestOK
    <3>4. call[t].seen <= most[t][s] /\ least[t][s] <= limit[s]
      BY <2>4, <3>1, <3>3 DEF HistoryInv, SeenWithin, Bounding
    <3>5. most[t][s] <= most'[t][s] /\ least'[t][s] <= least[t][s]
      BY <1>0, <3>1, <3>3, WatchWidens
    <3>6. /\ most[t][s] \in Nat /\ least[t][s] \in Nat /\ limit[s] \in Nat
          /\ most'[t][s] \in Nat /\ least'[t][s] \in Nat
      BY <1>0, <3>1, WatchWidens DEF HistoryTypes
    <3>7. PICK a, b, c, d, l, n, e \in Nat :
            /\ a = most[t][s] /\ b = most'[t][s] /\ c = least[t][s] /\ d = least'[t][s]
            /\ l = limit[s] /\ n = call[t].bytes /\ e = call[t].seen
      BY <1>0, <3>6
    <3>8. b + n > d
      BY <3>2, <3>4, <3>5, <3>7
    <3> QED
      BY <3>1, <3>7, <3>8 DEF SeenWithin
  <2>5. CASE Refuse(t) /\ ~(call[t].managed /\ call[t].op = "orNull")
    <3>1. pc'[t] = "idle" \/ call'[t] = call[t]
      BY <1>0, <2>5 DEF Refuse, Return, Goto
    <3> QED
      BY <1>1, <2>5, <3>1 DEF SeenWithin
  <2> QED
    BY <1>4, <2>1, <2>2, <2>3, <2>4, <2>5 DEF SpaceStep
<1> QED
  BY <1>2, <1>3, <1>4, ManagerCases

LEMMA SeenOfOthers ==
  ASSUME ManagerInv, HistoryInv, TypeOK', HistoryNext,
         NEW t \in Threads, OnlyThread(t),
         NEW u \in Threads \ {t}, request'[u] = request[u]
  PROVE  SeenWithin(u)'
<1> DEFINE s == call[u].space
<1>1. call'[u] = call[u] /\ pc'[u] = pc[u]
  BY DEF OnlyThread
<1> SUFFICES ASSUME call[u].op = "orNull", call[u].managed, pc[u] \in {"check", "cas", "refused"}
             PROVE  /\ pc[u] \in {"check", "cas"} => call[u].seen <= most'[u][s]
                    /\ pc[u] = "refused" => most'[u][s] + call[u].bytes > least'[u][s]
  BY <1>1 DEF SeenWithin
<1>2. request[u] # NoRequest /\ s \in Spaces
  BY MatchOfRequest DEF ManagerInv, RequestOK, TypeInv, CallOK, AtSpace
<1>3. TypeOK /\ HistoryTypes /\ call[u].seen \in Nat /\ call[u].bytes \in Nat
  BY DEF ManagerInv, TypeInv, TypeOK, CallType, HistoryInv
<1>4. most[u][s] <= most'[u][s] /\ least'[u][s] <= least[u][s]
  BY <1>2, <1>3, WatchWidens
<1>5. /\ most[u][s] \in Nat /\ least[u][s] \in Nat
      /\ most'[u][s] \in Nat /\ least'[u][s] \in Nat
  BY <1>2, <1>3, WatchWidens DEF HistoryTypes
<1>6. /\ pc[u] \in {"check", "cas"} => call[u].seen <= most[u][s]
      /\ pc[u] = "refused" => most[u][s] + call[u].bytes > least[u][s]
  BY DEF HistoryInv, SeenWithin
<1>7. PICK a, b, c, d, n, e \in Nat :
        /\ a = most[u][s] /\ b = most'[u][s] /\ c = least[u][s] /\ d = least'[u][s]
        /\ n = call[u].bytes /\ e = call[u].seen
  BY <1>3, <1>5
<1> QED
  BY <1>4, <1>6, <1>7

LEMMA HistoryStep ==
  ASSUME ManagerInv, ManagerInv', HistoryInv, HistoryNext
  PROVE  HistoryInv'
<1>1. TypeOK /\ TypeOK' /\ HistoryTypes
  BY DEF ManagerInv, TypeInv, HistoryInv
<1>2. HistoryTypes'
  BY <1>1, HistoryTypesStep
<1>3. Bounding'
  BY <1>1, WatchWidens DEF Bounding
<1>4. PICK t \in Threads : ManagerStep(t) \/ ManagerStart(t)
  BY DEF HistoryNext, ManagerNext
<1>5. ASSUME NEW u \in Threads \ {t}
      PROVE  SeenWithin(u)'
  BY <1>1, <1>4, OneThreadMoves, SeenOfOthers
<1>6. SeenWithin(t)'
  BY <1>4, SeenStep
<1> QED
  BY <1>2, <1>3, <1>5, <1>6 DEF HistoryInv

LEMMA HistoryStays == ManagerInv /\ HistoryInv /\ UNCHANGED <<allVars, history>> => HistoryInv'
<1> SUFFICES ASSUME HistoryInv, UNCHANGED <<allVars, history>>
             PROVE  HistoryInv'
  OBVIOUS
<1>1. UNCHANGED <<reserved, limit, pc, call, request, most, least>>
  BY DEF allVars, spaceVars, ledger, managerVars, history
<1> QED
  BY <1>1 DEF HistoryInv, HistoryTypes, Bounding, SeenWithin

LEMMA Bounded == HistorySpec => [](ManagerInv /\ HistoryInv)
<1>1. HistoryInit => ManagerInv /\ HistoryInv
  BY HistoryStarts, ManagerStarts DEF HistoryInit
<1>2. ManagerInv /\ HistoryInv /\ [HistoryNext]_<<allVars, history>> => ManagerInv'
  BY ManagerStepTypes DEF HistoryNext, history
<1>3. ManagerInv /\ ManagerInv' /\ HistoryInv /\ [HistoryNext]_<<allVars, history>> => HistoryInv'
  BY HistoryStep, HistoryStays
<1> QED
  BY <1>1, <1>2, <1>3, PTL DEF HistorySpec

\* A null answer means that the first matching space was short of room, by a
\* charge and a limit it had during the request.
THEOREM NullAnswersAreDue == HistorySpec => []NullMeansFirstWasFull
<1>1. ManagerInv /\ HistoryInv => NullMeansFirstWasFull
  <2> SUFFICES ASSUME ManagerInv, HistoryInv, NEW t \in Threads, AboutToAnswerNull(t)
               PROVE  Order[NextMatch(request[t].matches, 1)] \notin RoomThroughout(t)
    BY DEF NullMeansFirstWasFull
  <2> DEFINE s == Order[FirstMatch(t)]
  <2>1. /\ call[t].managed /\ call[t].space = s /\ call[t].bytes = request[t].bytes
        /\ request[t] # NoRequest
    BY DEF AboutToAnswerNull, ManagerInv, RequestOK
  <2>2. s \in Spaces
    BY <2>1, MatchOfRequest
  <2>3. most[t][s] + request[t].bytes > least[t][s]
    BY <2>1 DEF AboutToAnswerNull, HistoryInv, SeenWithin
  <2>4. most[t][s] \in Nat /\ least[t][s] \in Nat /\ request[t].bytes \in Nat
    BY <2>2 DEF HistoryInv, HistoryTypes, ManagerInv, ManagerTypes, RequestType
  <2> QED
    BY <2>3, <2>4 DEF FirstMatch, RoomThroughout
<1> QED
  BY <1>1, Bounded, PTL

-----------------------------------------------------------------------------
(* The count of active reservations *)

\* The count has a value for every handle and every thread: SIZE_MAX is never
\* reached by reservations that all need memory of their own.
CountIsWideEnough == Cardinality(Handles) + Cardinality(Threads) <= CountMax

CountInv ==
  /\ \A h \in counted : h \in Handles /\ home[h] # NoSpace
  /\ \A t \in Threads : pc[t] \in {"clear", "zero"} => flag
  /\ CountIsExact

LEMMA CardinalityOfChange ==
  ASSUME NEW S, NEW T, NEW x, IsFiniteSet(S), IsFiniteSet(T), S \ {x} = T \ {x}
  PROVE  Cardinality(T) = Cardinality(S)
                            + (IF x \in T THEN 1 ELSE 0) - (IF x \in S THEN 1 ELSE 0)
<1> DEFINE U == S \ {x}
<1>1. IsFiniteSet(U) /\ Cardinality(U) \in Nat
  BY FS_Subset, FS_CardinalityType
<1>2. ASSUME x \in S PROVE Cardinality(S) = Cardinality(U) + 1
  <2>1. S = U \cup {x} /\ x \notin U
    BY <1>2
  <2> QED
    BY <1>1, <2>1, FS_AddElement
<1>3. ASSUME x \in T PROVE Cardinality(T) = Cardinality(U) + 1
  <2>1. T = U \cup {x} /\ x \notin U
    BY <1>3
  <2> QED
    BY <1>1, <2>1, FS_AddElement
<1>4. x \notin S => Cardinality(S) = Cardinality(U)
  <2>1. x \notin S => S = U
    OBVIOUS
  <2> QED
    BY <2>1
<1>5. x \notin T => Cardinality(T) = Cardinality(U)
  <2>1. x \notin T => T = U
    OBVIOUS
  <2> QED
    BY <2>1
<1> HIDE DEF U
<1> QED
  BY <1>1, <1>2, <1>3, <1>4, <1>5

\* The step of a thread changes what moves by that thread at most.
LEMMA MovingByOne ==
  ASSUME NEW t \in Threads, OnlyThread(t)
  PROVE  /\ IsFiniteSet(Moving) /\ Cardinality(Moving) \in Nat /\ Cardinality(Moving)' \in Nat
         /\ Cardinality(Moving)' = Cardinality(Moving)
              + (IF t \in Moving' THEN 1 ELSE 0) - (IF t \in Moving THEN 1 ELSE 0)
<1>1. Moving \ {t} = Moving' \ {t}
  BY DEF Moving, OnlyThread
<1>2. Moving \subseteq Threads /\ Moving' \subseteq Threads
  BY DEF Moving
<1>3. IsFiniteSet(Moving) /\ IsFiniteSet(Moving')
  BY <1>2, SpaceAssumption, FS_Subset
<1> QED
  BY <1>1, <1>3, CardinalityOfChange, FS_CardinalityType

LEMMA MovingBound ==
  ASSUME NEW t \in Threads, t \notin Moving
  PROVE  Cardinality(Moving) + 1 <= Cardinality(Threads)
<1>1. Moving \cup {t} \subseteq Threads /\ IsFiniteSet(Moving)
  BY SpaceAssumption, FS_Subset DEF Moving
<1>2. Cardinality(Moving \cup {t}) = Cardinality(Moving) + 1
  BY <1>1, FS_AddElement
<1> QED
  BY <1>1, <1>2, SpaceAssumption, FS_Subset

\* Steps that neither count nor hand a counted reservation on.
LEMMA CountStays ==
  ASSUME CountInv, NEW t \in Threads, OnlyThread(t), UNCHANGED <<active, counted, flag, home>>,
         pc'[t] \in {"clear", "zero"} => flag,
         t \in Moving' <=> t \in Moving
  PROVE  CountInv'
<1>1. Cardinality(Moving)' = Cardinality(Moving)
  BY MovingByOne
<1>2. \A u \in Threads : pc'[u] \in {"clear", "zero"} => flag
  BY DEF OnlyThread, CountInv
<1> QED
  BY <1>1, <1>2 DEF CountInv, CountIsExact

LEMMA CountStep ==
  ASSUME CountIsWideEnough, ManagerInv, CountInv, NEW t \in Threads,
         ManagerStep(t) \/ ManagerStart(t)
  PROVE  CountInv'
<1>0. /\ pc \in [Threads -> Labels] /\ call \in [Threads -> CallType]
      /\ home \in [Handles -> Spaces \cup {NoSpace}]
      /\ RequestOK(t) /\ active \in Nat /\ CountMax \in Nat /\ counted \subseteq Handles
      /\ flag \in BOOLEAN /\ call[t].managed \in BOOLEAN /\ NoSpace \notin Spaces
      /\ CallOK(t)
  BY SpaceAssumption, ManagerAssumption
     DEF ManagerInv, TypeInv, TypeOK, ManagerTypes, CallType
<1>1. OnlyThread(t)
  BY OneThreadMoves
<1>2. /\ Cardinality(Moving) \in Nat /\ Cardinality(Moving)' \in Nat
      /\ Cardinality(Moving)' = Cardinality(Moving)
           + (IF t \in Moving' THEN 1 ELSE 0) - (IF t \in Moving THEN 1 ELSE 0)
  BY <1>1, MovingByOne
<1>3. /\ IsFiniteSet(counted) /\ Cardinality(counted) \in Nat
      /\ Cardinality(Handles) \in Nat /\ Cardinality(Threads) \in Nat
      /\ Cardinality(counted) <= Cardinality(Handles)
  BY <1>0, SpaceAssumption, FS_Subset, FS_CardinalityType
\* The places of the threads, once the mover's own is known.
<1>p. ASSUME pc'[t] \in {"clear", "zero"} => flag', flag => flag'
      PROVE  \A u \in Threads : pc'[u] \in {"clear", "zero"} => flag'
  BY <1>1, <1>p DEF OnlyThread, CountInv
<1>4. CASE CountUp(t)
  <2>1. /\ pc[t] = "countUp" /\ pc'[t] = "made" /\ call' = call /\ call[t].managed
        /\ UNCHANGED <<home, counted, flag>> /\ active' = (active + 1) % (CountMax + 1)
    BY <1>0, <1>4 DEF CountUp, Goto, handles, RequestOK
  <2>2. t \notin Moving /\ t \in Moving'
    BY <2>1 DEF Moving
  <2>3. ~flag => active + 1 \in 0 .. CountMax
    BY <1>0, <1>2, <1>3, <2>2, MovingBound DEF CountInv, CountIsExact, CountIsWideEnough
  <2>4. ~flag => active' = active + 1
    BY <1>0, <2>1, <2>3
  <2> QED
    BY <1>2, <1>3, <1>p, <2>1, <2>2, <2>4 DEF CountInv, CountIsExact
<1>5. CASE CountDown(t)
  <2>1. /\ pc[t] = "countDown" /\ pc'[t] = "idle" /\ call[t].managed
        /\ UNCHANGED <<home, counted, flag>> /\ active' = (active - 1) % (CountMax + 1)
    BY <1>0, <1>5 DEF CountDown, Return, Goto, handles, RequestOK
  <2>2. t \in Moving /\ t \notin Moving'
    BY <2>1 DEF Moving
  <2>3. Cardinality(Moving) >= 1
    BY <1>2, <2>2
  <2>4. Cardinality(Moving) <= Cardinality(Threads)
    BY SpaceAssumption, FS_Subset DEF Moving
  <2>5. ~flag => active - 1 \in 0 .. CountMax
    BY <1>0, <1>2, <1>3, <2>3, <2>4 DEF CountInv, CountIsExact, CountIsWideEnough
  <2>6. ~flag => active' = active - 1
    BY <1>0, <2>1, <2>5
  <2> QED
    BY <1>2, <1>3, <1>p, <2>1, <2>2, <2>6 DEF CountInv, CountIsExact
<1>6. CASE ShutdownFlag(t) \/ ShutdownZero(t)
  <2>1. UNCHANGED <<home, counted>> /\ flag' = TRUE
    <3>1. CASE ShutdownFlag(t)
      BY <3>1 DEF ShutdownFlag, handles
    <3>2. CASE ShutdownZero(t)
      <4>1. flag = TRUE
        BY <1>0, <3>2 DEF ShutdownZero, CountInv
      <4> QED
        BY <3>2, <4>1 DEF ShutdownZero, handles
    <3> QED
      BY <1>6, <3>1, <3>2
  <2> QED
    BY <2>1 DEF CountInv, CountIsExact
<1>7. CASE \/ \E matches \in Strategies, n \in Requests : Request(t, matches, n)
           \/ ScanLoad(t) \/ ScanHint(t) \/ SecondPass(t) \/ AnswerNull(t) \/ ShutdownClear(t)
  <2>1. /\ t \notin Moving /\ t \notin Moving' /\ UNCHANGED <<active, counted, flag, home>>
        /\ pc'[t] = "zero" => pc[t] = "clear"
        /\ pc'[t] # "clear"
    BY <1>0, <1>7
       DEF Request, ScanLoad, ScanHint, SecondPass, AnswerNull, ShutdownClear, Goto, Enter, Return,
           Moving, handles, managerVars
  <2> QED
    BY <1>1, <2>1, CountStays DEF CountInv
<1>8. CASE Callback(t)
  <2>1. UNCHANGED <<active, counted, flag, home>> /\ pc[t] = "callback"
    BY <1>8 DEF Callback, handles, managerVars
  <2>2. CASE flag
    <3>1. pc'[t] = "idle"
      BY <1>0, <1>8, <2>2 DEF Callback, Return, Goto
    <3> QED
      BY <1>p, <2>1, <2>2, <3>1 DEF CountInv, CountIsExact
  <2>3. CASE ~flag
    <3>1. pc'[t] = "countDown" /\ call' = call
      BY <1>0, <1>8, <2>3 DEF Callback, Goto
    <3>2. t \in Moving' <=> t \in Moving
      BY <2>1, <3>1 DEF Moving
    <3> QED
      BY <1>1, <2>1, <3>1, <3>2, CountStays
  <2> QED
    BY <2>2, <2>3
<1>9. CASE ReleaseIntoNowhere(t) \/ (Uncharge(t) /\ SpaceStepWithin(t))
  <2>1. /\ UNCHANGED <<active, counted, flag, home>>
        /\ pc[t] \in {"releaseLoad", "releaseCas"} /\ Released(t)
    BY <1>9 DEF ReleaseIntoNowhere, Uncharge, SpaceStepWithin, handles, managerVars
  <2>2. CASE call[t].managed
    <3>1. pc'[t] = "callback" /\ call' = call
      BY <1>0, <2>1, <2>2 DEF Released, Goto
    <3>2. t \in Moving' <=> t \in Moving
      BY <2>1, <3>1 DEF Moving
    <3> QED
      BY <1>1, <2>1, <3>1, <3>2, CountStays
  <2>3. CASE ~call[t].managed
    <3>1. pc'[t] = "idle"
      BY <1>0, <2>1, <2>3 DEF Released, Return, Goto
    <3>2. t \in Moving' <=> t \in Moving
      BY <2>3, <3>1 DEF Moving
    <3> QED
      BY <1>1, <2>1, <3>1, <3>2, CountStays
  <2> QED
    BY <2>2, <2>3
<1>10. CASE (LoadReserved(t) \/ Check(t) \/ Refuse(t) \/ AdmitRetry(t)) /\ SpaceStepWithin(t)
  <2>1. /\ t \notin Moving /\ t \notin Moving' /\ UNCHANGED <<active, counted, flag, home>>
        /\ pc'[t] \notin {"clear", "zero"}
    BY <1>0, <1>10
       DEF LoadReserved, Check, Refuse, AdmitRetry, Goto, Enter, Return, Moving, handles,
           SpaceStepWithin
  <2> QED
    BY <1>1, <2>1, CountStays
<1>11. CASE Admit(t) /\ SpaceStepWithin(t)
  <2>1. /\ UNCHANGED <<active, counted, flag, home>> /\ pc[t] = "cas" /\ call' = call
        /\ pc'[t] = IF call[t].managed THEN "countUp" ELSE "made"
    BY <1>0, <1>11 DEF Admit, Goto, handles, SpaceStepWithin
  <2>2. t \notin Moving /\ t \notin Moving'
    BY <2>1 DEF Moving
  <2> QED
    BY <1>1, <2>1, <2>2, CountStays
<1>12. CASE (ReleaseLoad(t) \/ UnchargeRetry(t)) /\ SpaceStepWithin(t)
  <2>1. /\ UNCHANGED <<active, counted, flag, home>>
        /\ pc[t] \in {"releaseLoad", "releaseCas"} /\ pc'[t] = "releaseCas"
        /\ call'[t].managed = call[t].managed
    BY <1>0, <1>12 DEF ReleaseLoad, UnchargeRetry, Goto, Enter, handles, SpaceStepWithin, CallType
  <2>2. t \in Moving' <=> t \in Moving
    BY <2>1 DEF Moving
  <2> QED
    BY <1>1, <2>1, <2>2, CountStays
<1>13. ASSUME NEW h \in Handles, Deliver(t, h), SpaceStepWithin(t)
       PROVE  CountInv'
  <2>1. /\ pc[t] = "made" /\ pc'[t] = "idle" /\ home[h] = NoSpace /\ call[t].space \in Spaces
        /\ home' = [home EXCEPT ![h] = call[t].space] /\ UNCHANGED <<active, flag>>
        /\ counted' = IF call[t].managed THEN counted \cup {h} ELSE counted
    BY <1>0, <1>13 DEF Deliver, Return, Goto, SpaceStepWithin, CallOK, AtSpace
  <2>2. h \notin counted /\ \A g \in counted' : g \in Handles /\ home'[g] # NoSpace
    BY <1>0, <2>1 DEF CountInv
  <2>3. t \notin Moving' /\ (t \in Moving <=> call[t].managed)
    BY <1>0, <2>1 DEF Moving
  <2>4. Cardinality(counted)' = Cardinality(counted) + IF call[t].managed THEN 1 ELSE 0
    <3>1. CASE call[t].managed
      BY <1>3, <2>1, <2>2, <3>1, FS_AddElement
    <3>2. CASE ~call[t].managed
      <4>1. counted' = counted
        BY <2>1, <3>2
      <4> QED
        BY <1>3, <3>2, <4>1
    <3> QED
      BY <3>1, <3>2
  <2>5. CountIsExact'
    BY <1>0, <1>2, <1>3, <2>1, <2>3, <2>4 DEF CountInv, CountIsExact
  <2> QED
    BY <1>p, <2>1, <2>2, <2>5 DEF CountInv
<1>14. ASSUME NEW h \in Handles, Release(t, h), UNCHANGED managerVars
       PROVE  CountInv'
  <2>1. /\ pc[t] = "idle" /\ pc'[t] = "releaseLoad" /\ UNCHANGED <<active, flag>>
        /\ home' = [home EXCEPT ![h] = NoSpace] /\ counted' = counted \ {h}
        /\ call'[t].managed = (h \in counted)
    BY <1>0, <1>14 DEF Release, Goto, Enter, Call, managerVars
  <2>2. \A g \in counted' : g \in Handles /\ home'[g] # NoSpace
    BY <1>0, <2>1 DEF CountInv
  <2>3. t \notin Moving /\ (t \in Moving' <=> h \in counted)
    BY <1>0, <2>1 DEF Moving
  <2>4. Cardinality(counted)' = Cardinality(counted) - IF h \in counted THEN 1 ELSE 0
    <3>1. CASE h \in counted
      BY <1>3, <2>1, <3>1, FS_RemoveElement
    <3>2. CASE h \notin counted
      <4>1. counted' = counted
        BY <2>1, <3>2
      <4> QED
        BY <1>3, <3>2, <4>1
    <3> QED
      BY <3>1, <3>2
  <2>5. CountIsExact'
    BY <1>0, <1>2, <1>3, <2>1, <2>3, <2>4 DEF CountInv, CountIsExact
  <2> QED
    BY <1>p, <2>1, <2>2, <2>5 DEF CountInv
<1>15. CASE /\ \/ \E s \in Spaces, n \in Requests, op \in {"make", "orNull"} : Make(t, op, s, n)
               \/ \E s \in Spaces, n \in UptoRequests : Make(t, "upto", s, n)
               \/ \E s \in Spaces, m \in NewLimits : SetMaxMemory(t, s, m)
            /\ UNCHANGED managerVars
  <2>1. /\ t \notin Moving /\ t \notin Moving' /\ UNCHANGED <<active, counted, flag, home>>
        /\ pc'[t] \notin {"clear", "zero"}
    BY <1>0, <1>15 DEF Make, SetMaxMemory, Goto, Enter, Moving, handles, managerVars
  <2> QED
    BY <1>1, <2>1, CountStays
<1>16. CASE OwnStep(t)
  BY <1>4, <1>5, <1>6, <1>7, <1>8, <1>9, <1>16 DEF OwnStep
<1>17. CASE SpaceStep(t) /\ SpaceStepWithin(t)
  BY <1>9, <1>10, <1>11, <1>12, <1>13, <1>17 DEF SpaceStep
<1>18. CASE SpaceStart(t) /\ SpaceStartWithin(t)
  BY <1>14, <1>15, <1>18 DEF SpaceStart, SpaceStartWithin
<1> QED
  BY <1>16, <1>17, <1>18, ManagerCases

\* Until shutdown, active_reservations_ is exactly the number of reservations
\* made by the manager whose callback has not counted them down.
THEOREM ActiveIsCounted == ASSUME CountIsWideEnough PROVE ManagerSpec => []CountIsExact
<1>1. ManagerInit => CountInv
  <2> SUFFICES ASSUME ManagerInit PROVE CountInv
    OBVIOUS
  <2>1. Moving = {} /\ counted = {}
    BY DEF ManagerInit, SpaceInit, Moving
  <2> QED
    BY <2>1, FS_EmptySet DEF ManagerInit, SpaceInit, CountInv, CountIsExact
<1>2. ManagerInv /\ CountInv /\ [ManagerNext]_allVars => CountInv'
  <2>1. ManagerInv /\ CountInv /\ ManagerNext => CountInv'
    BY CountStep DEF ManagerNext
  <2>2. CountInv /\ UNCHANGED allVars => CountInv'
    <3> SUFFICES ASSUME CountInv, UNCHANGED allVars PROVE CountInv'
      OBVIOUS
    <3>1. UNCHANGED <<home, counted, pc, call, active, flag>> /\ Moving' = Moving
      BY DEF allVars, spaceVars, handles, managerVars, Moving
    <3> QED
      BY <3>1 DEF CountInv, CountIsExact
  <2> QED
    BY <2>1, <2>2
<1>3. CountInv => CountIsExact
  BY DEF CountInv
<1> QED
  BY <1>1, <1>2, <1>3, ManagerTyped, PTL DEF ManagerSpec

-----------------------------------------------------------------------------
(* The manager's own steps leave the limits of the spaces alone *)

LEMMA OwnStepKeepsLimits ==
  ASSUME ManagerInv, LimitInv, NEW t \in Threads, OwnStep(t), OnlyThread(t)
  PROVE  LimitInv'
<1>1. UNCHANGED <<reserved, limit>>
  BY OwnStepKeeps
<1>3. pc'[t] \notin {"check", "cas"}
  <2>1. pc \in [Threads -> Labels]
    BY DEF ManagerInv, TypeInv, TypeOK
  <2> QED
    BY <2>1
       DEF OwnStep, Request, ScanLoad, ScanHint, SecondPass, AnswerNull, CountUp, Callback,
           CountDown, ShutdownFlag, ShutdownClear, ShutdownZero, ReleaseIntoNowhere, Released,
           Goto, Enter, Return
<1>4. ASSUME NEW u \in Threads
      PROVE  /\ pc'[u] = "check" => \E m \in Limits(call'[u].space) : call'[u].seen <= m
             /\ pc'[u] = "cas" =>
                  \E m \in Limits(call'[u].space) : call'[u].seen + call'[u].grant <= m
  <2>1. CASE u = t
    BY <1>3, <2>1
  <2>2. CASE u # t
    BY <2>2 DEF OnlyThread, LimitInv
  <2> QED
    BY <2>1, <2>2
<1>5. NeverPastAnyLimit'
  BY <1>1 DEF LimitInv, NeverPastAnyLimit
<1> QED
  BY <1>1, <1>4, <1>5 DEF LimitInv, Limits

LEMMA ManagerLimitStep == ManagerInv /\ LimitInv /\ [ManagerNext]_allVars => LimitInv'
<1> SUFFICES ASSUME ManagerInv, LimitInv, [ManagerNext]_allVars PROVE LimitInv'
  OBVIOUS
<1>1. CASE UNCHANGED allVars
  BY <1>1, LimitStep DEF ManagerInv, allVars
<1>2. ASSUME ManagerInv, LimitInv, NEW t \in Threads, ManagerStep(t) \/ ManagerStart(t)
      PROVE  LimitInv'
  <2>1. SpaceStep(t) \/ SpaceStart(t) => SpaceNext
    BY DEF SpaceNext
  <2>2. SpaceNext => LimitInv'
    BY <1>2, LimitStep DEF ManagerInv
  <2>3. OwnStep(t) => LimitInv'
    BY <1>2, OwnStepKeepsLimits, OneThreadMoves
  <2> QED
    BY <1>2, <2>1, <2>2, <2>3, ManagerCases
<1> QED
  BY <1>1, <1>2 DEF ManagerNext

\* Requests, callbacks and shutdown do not take a space past its limits either.
THEOREM ManagerKeepsLimits == ManagerSpec => []NeverPastAnyLimit
<1>1. ManagerInit => LimitInv
  BY LimitInit DEF ManagerInit
<1>2. ManagerInv /\ LimitInv /\ [ManagerNext]_allVars => LimitInv'
  BY ManagerLimitStep
<1>3. LimitInv => NeverPastAnyLimit
  BY DEF LimitInv
<1> QED
  BY <1>1, <1>2, <1>3, ManagerTyped, PTL DEF ManagerSpec

-----------------------------------------------------------------------------
(* Under the manager, the spaces keep their promises *)

LEMMA OwnStepCarries ==
  ASSUME ManagerInv, NEW t \in Threads, OwnStep(t), standing
  PROVE  /\ \A s \in Spaces : Part(t, s)' = Part(t, s)
         /\ pc'[t] \notin {"cas", "releaseCas"}
<1>1. pc \in [Threads -> Labels] /\ call \in [Threads -> CallType]
  BY DEF ManagerInv, TypeInv, TypeOK
<1>2. CASE CountUp(t)
  BY <1>1, <1>2 DEF CountUp, Goto, Part, InFlight
<1>3. CASE ~ CountUp(t)
  <2>1. /\ pc[t] \notin {"countUp", "made", "releaseLoad", "releaseCas"}
        /\ pc'[t] \notin {"countUp", "made", "cas", "releaseLoad", "releaseCas"}
    BY <1>1, <1>3
       DEF OwnStep, Request, ScanLoad, ScanHint, SecondPass, AnswerNull, Callback, CountDown,
           ShutdownFlag, ShutdownClear, ShutdownZero, ReleaseIntoNowhere, Goto, Enter, Return
  <2> QED
    BY <2>1 DEF Part, InFlight
<1> QED
  BY <1>2, <1>3

\* Requests, callbacks and the beginning of a shutdown move no byte of a space.
LEMMA OwnStepFlow ==
  ASSUME ManagerInv, ManagerInv', NEW t \in Threads, OwnStep(t), OnlyThread(t), standing,
         FlowInv
  PROVE  FlowInv'
<1>1. UNCHANGED <<reserved, home, bytes>>
  BY OwnStepKeeps
<1>2. /\ \A s \in Spaces : Part(t, s)' = Part(t, s)
      /\ pc'[t] # "releaseCas"
  BY OwnStepCarries
<1>3. TypeOK /\ TypeOK'
  BY DEF ManagerInv, TypeInv
<1>4. \A s \in Spaces : reserved'[s] - reserved[s] = Part(t, s)' - Part(t, s)
  BY <1>1, <1>2, <1>3, PartsAreNat DEF TypeOK
<1>5. Conserved'
  BY <1>1, <1>3, <1>4, CounterMoves DEF FlowInv
<1>6. SeenCovers'
  BY <1>2 DEF FlowInv, SeenCovers, OnlyThread
<1> QED
  BY <1>5, <1>6 DEF FlowInv

LEMMA SpacesStand ==
  ASSUME [ManagerNext]_allVars, standing'
  PROVE  standing
BY DEF ManagerNext, ManagerStep, ManagerStart, ScanLoad, ScanHint, SecondPass, AnswerNull,
   CountUp, Callback, CountDown, ShutdownFlag, ShutdownClear, ShutdownZero,
   ReleaseIntoNowhere, SpaceStepWithin, SpaceStartWithin, Request, allVars, managerVars

\* Until shutdown destroys the spaces, the walk over them, its lost hints and
\* refusals included, leaves the counter of each at what is held and carried.
THEOREM ReservedWhileStanding == ManagerSpec => [](standing => ReservedIsHeld)
<1>1. ManagerInit => FlowInv
  BY FlowInit DEF ManagerInit
<1>2. ManagerInv /\ ManagerInv' /\ (standing => FlowInv) /\ [ManagerNext]_allVars
        => (standing => FlowInv)'
  <2> SUFFICES ASSUME ManagerInv, ManagerInv', standing => FlowInv, [ManagerNext]_allVars,
                      standing'
               PROVE  FlowInv'
    OBVIOUS
  <2>1. standing /\ FlowInv /\ TypeInv /\ TypeInv'
    BY SpacesStand DEF ManagerInv
  <2>2. CASE UNCHANGED allVars
    BY <2>1, <2>2, FlowStutter DEF allVars
  <2>3. CASE ManagerNext
    <3>1. PICK t \in Threads : ManagerStep(t) \/ ManagerStart(t)
      BY <2>3 DEF ManagerNext
    <3>2. SpaceStep(t) \/ SpaceStart(t) => SpaceNext
      BY DEF SpaceNext
    <3>3. SpaceNext => FlowInv'
      BY <2>1, FlowStep
    <3>4. OwnStep(t) => FlowInv'
      BY <2>1, <3>1, OwnStepFlow, OneThreadMoves
    <3> QED
      BY <3>1, <3>2, <3>3, <3>4, ManagerCases
  <2> QED
    BY <2>2, <2>3
<1>3. ManagerInv /\ (standing => FlowInv) => (standing => ReservedIsHeld)
  BY HeldIsConserved DEF ManagerInv
<1> QED
  BY <1>1, <1>2, <1>3, ManagerTyped, PTL DEF ManagerSpec

LEMMA OwnStepUpto ==
  ASSUME ManagerInv, UptoInv, NEW t \in Threads, OwnStep(t), OnlyThread(t)
  PROVE  UptoInv'
<1>1. pc \in [Threads -> Labels] /\ call \in [Threads -> CallType]
  BY DEF ManagerInv, TypeInv, TypeOK
<1>2. pc'[t] # "cas"
  BY <1>1
     DEF OwnStep, Request, ScanLoad, ScanHint, SecondPass, AnswerNull, CountUp, Callback,
         CountDown, ShutdownFlag, ShutdownClear, ShutdownZero, ReleaseIntoNowhere, Released,
         Goto, Enter, Return
<1> QED
  BY <1>2 DEF UptoInv, OnlyThread, Limits

LEMMA OwnStepAdmitsNothing ==
  ASSUME ManagerInv, NEW t \in Threads, OwnStep(t), OnlyThread(t), NEW u \in Threads,
         pc[u] = "cas"
  PROVE  pc'[u] \notin {"made", "countUp"}
<1>1. pc \in [Threads -> Labels]
  BY DEF ManagerInv, TypeInv, TypeOK
<1>2. pc[t] # "cas"
  BY DEF OwnStep, Request, ScanLoad, ScanHint, SecondPass, AnswerNull, CountUp, Callback,
         CountDown, ShutdownFlag, ShutdownClear, ShutdownZero, ReleaseIntoNowhere
<1> QED
  BY <1>1, <1>2 DEF OnlyThread

LEMMA ManagerLimited == ManagerSpec => []LimitInv
<1>1. ManagerInit => LimitInv
  BY LimitInit DEF ManagerInit
<1> QED
  BY <1>1, ManagerLimitStep, ManagerTyped, PTL DEF ManagerSpec

\* A partial request made beside the manager's walks takes no less than fits.
THEOREM ManagerUptoTakesAll == ManagerSpec => UptoTakesWhatFits
<1>1. ManagerInit => UptoInv
  BY DEF ManagerInit, SpaceInit, UptoInv
<1>2. ManagerInv /\ LimitInv /\ UptoInv /\ [ManagerNext]_allVars => UptoInv'
  <2> SUFFICES ASSUME ManagerInv, LimitInv, UptoInv, [ManagerNext]_allVars PROVE UptoInv'
    OBVIOUS
  <2>1. CASE UNCHANGED allVars
    BY <2>1, UptoStep DEF ManagerInv, allVars
  <2>2. CASE ManagerNext
    <3>1. PICK t \in Threads : ManagerStep(t) \/ ManagerStart(t)
      BY <2>2 DEF ManagerNext
    <3>2. SpaceStep(t) \/ SpaceStart(t) => SpaceNext
      BY DEF SpaceNext
    <3>3. SpaceNext => UptoInv'
      BY UptoStep DEF ManagerInv
    <3>4. OwnStep(t) => UptoInv'
      BY <3>1, OwnStepUpto, OneThreadMoves
    <3> QED
      BY <3>1, <3>2, <3>3, <3>4, ManagerCases
  <2> QED
    BY <2>1, <2>2
<1>3. ManagerInv /\ UptoInv /\ [ManagerNext]_allVars =>
        [\A t \in Threads :
           pc[t] = "cas" /\ pc'[t] \in {"made", "countUp"} /\ call[t].op = "upto" =>
             LET s == call[t].space IN
             \/ reserved'[s] - reserved[s] = call[t].bytes
             \/ reserved'[s] \in {InitialLimit[s]} \cup NewLimits]_spaceVars
  <2> SUFFICES ASSUME ManagerInv, UptoInv, [ManagerNext]_allVars, NEW u \in Threads,
                      pc[u] = "cas", pc'[u] \in {"made", "countUp"}, call[u].op = "upto"
               PROVE  \/ reserved'[call[u].space] - reserved[call[u].space] = call[u].bytes
                      \/ reserved'[call[u].space] \in Limits(call[u].space)
    BY DEF Limits
  <2>1. CASE UNCHANGED allVars
    BY <2>1 DEF allVars, spaceVars
  <2>2. CASE ManagerNext
    <3>1. PICK t \in Threads : ManagerStep(t) \/ ManagerStart(t)
      BY <2>2 DEF ManagerNext
    <3>2. ~ OwnStep(t)
      BY <3>1, OwnStepAdmitsNothing, OneThreadMoves
    <3>3. SpaceNext
      BY <3>1, <3>2, ManagerCases DEF SpaceNext
    <3> QED
      BY <3>3, UptoCharge DEF ManagerInv
  <2> QED
    BY <2>1, <2>2
<1> QED
  BY <1>1, <1>2, <1>3, ManagerTyped, ManagerLimited, PTL DEF ManagerSpec, UptoTakesWhatFits

\* The history of RequestHistory only watches: what holds of the manager holds
\* of the specification that keeps it.
THEOREM HistoryOnlyWatches == HistorySpec => ManagerSpec
<1>1. HistoryInit => ManagerInit
  BY DEF HistoryInit
<1>2. [HistoryNext]_<<allVars, history>> => [ManagerNext]_allVars
  BY DEF HistoryNext
<1> QED
  BY <1>1, <1>2, PTL DEF HistorySpec, ManagerSpec

-----------------------------------------------------------------------------
(* Shutdown and the callbacks it overtakes *)

\* Places from which no reservation is made.
QuietPlaces ==
  {"idle", "releaseLoad", "releaseCas", "callback", "countDown", "clear", "zero"}

Quiet(t) == call[t].op \in {"none", "release", "shutdown"} => pc[t] \in QuietPlaces

\* Once the flag is up nothing counts upwards; once shutdown is over the count lacks
\* the callbacks that were overtaken and have subtracted since.
OvertakenInv ==
  /\ overtaken \subseteq Threads
  /\ \A t \in Threads : Quiet(t)
  /\ \A t \in Threads : pc[t] \in {"clear", "zero"} => flag
  /\ flag => \A t \in Threads : pc[t] \in QuietPlaces
  /\ OnlyOvertakenSpoil

\* Subtracting from nothing, in size_t.
LEMMA BelowNothing ==
  ASSUME NEW m \in Nat, NEW n \in Nat, n + 1 <= m
  PROVE  (((0 - n) % (m + 1)) - 1) % (m + 1) = (0 - (n + 1)) % (m + 1)
<1> DEFINE f(k) == (0 - k) % (m + 1)
<1>1. ASSUME NEW k \in 1 .. m
      PROVE  f(k) = m + 1 - k
  BY <1>1
<1>2. f(0) = 0 /\ \A k \in 0 .. m : k % (m + 1) = k
  OBVIOUS
<1>3. (f(n) - 1) % (m + 1) = f(n + 1)
  <2> HIDE DEF f
  <2>1. f(n + 1) = m + 1 - (n + 1)
    BY <1>1
  <2>2. CASE n = 0
    <3>1. (0 - 1) % (m + 1) = m
      <4>1. 1 \in 1 .. m /\ m + 1 - 1 = m
        BY <2>2
      <4>2. f(1) = m
        BY <1>1, <4>1
      <4> QED
        BY <4>2 DEF f
    <3> QED
      BY <1>2, <2>1, <2>2, <3>1
  <2>3. CASE n # 0
    <3>1. f(n) = m + 1 - n
      BY <1>1, <2>3
    <3>2. f(n) - 1 = m + 1 - (n + 1) /\ m + 1 - (n + 1) \in 0 .. m
      BY <2>3, <3>1
    <3> QED
      BY <1>2, <2>1, <3>2
  <2> QED
    BY <2>2, <2>3
<1> QED
  BY <1>3

\* Where a step of a thread takes it, and what that means for flag and count.
LEMMA QuietStep ==
  ASSUME ManagerInv, NEW t \in Threads, ManagerStep(t) \/ ManagerStart(t),
         Quiet(t), flag => pc[t] \in QuietPlaces, pc[t] \in {"clear", "zero"} => flag
  PROVE  /\ Quiet(t)'
         /\ flag => flag' /\ pc'[t] \in QuietPlaces
         /\ pc'[t] \in {"clear", "zero"} => flag'
         /\ flag' /\ ~flag => ShutdownFlag(t)
         /\ pc[t] = "clear" => pc'[t] = "zero"
         /\ pc[t] = "zero" => pc'[t] = "idle" /\ active' = 0
         /\ flag /\ pc'[t] = "countDown" => pc[t] = "countDown"
         /\ flag /\ pc[t] \notin {"zero", "countDown"} => active' = active
         /\ pc[t] = "countDown" => pc'[t] = "idle" /\ active' = (active - 1) % (CountMax + 1)
<1>0. /\ pc \in [Threads -> Labels] /\ call \in [Threads -> CallType]
      /\ call[t] \in CallType /\ flag \in BOOLEAN
  BY DEF ManagerInv, TypeInv, TypeOK, ManagerTypes
<1> USE <1>0 DEF Quiet, QuietPlaces, Goto, Enter, Return, Call, NoCall, managerVars
<1>1. CASE \/ \E matches \in Strategies, n \in Requests : ~flag /\ Request(t, matches, n)
           \/ ScanLoad(t) \/ ScanHint(t) \/ SecondPass(t) \/ AnswerNull(t) \/ CountUp(t)
  BY <1>1 DEF Request, ScanLoad, ScanHint, SecondPass, AnswerNull, CountUp, Asks, CallType
<1>2. CASE Callback(t) \/ CountDown(t) \/ ReleaseIntoNowhere(t)
  BY <1>2 DEF Callback, CountDown, ReleaseIntoNowhere, Released
<1>3. CASE ShutdownFlag(t) \/ ShutdownClear(t) \/ ShutdownZero(t)
  BY <1>3 DEF ShutdownFlag, ShutdownClear, ShutdownZero
<1>4. CASE SpaceStepWithin(t)
  <2>1. SpaceStep(t) /\ UNCHANGED <<active, flag>>
    BY <1>4 DEF SpaceStepWithin
  <2>2. CASE LoadReserved(t) \/ Check(t) \/ Refuse(t) \/ Admit(t) \/ AdmitRetry(t)
             \/ \E h \in Handles : Deliver(t, h)
    BY <2>1, <2>2 DEF LoadReserved, Check, Refuse, Admit, AdmitRetry, Deliver, CallType
  <2>3. CASE ReleaseLoad(t) \/ Uncharge(t) \/ UnchargeRetry(t)
    BY <2>1, <2>3 DEF ReleaseLoad, Uncharge, UnchargeRetry, Released, CallType
  <2> QED
    BY <2>1, <2>2, <2>3 DEF SpaceStep
<1>5. CASE SpaceStartWithin(t)
  <2>1. /\ UNCHANGED <<active, flag>>
        /\ (~flag /\ SpaceStart(t)) \/ \E h \in Handles : Release(t, h)
    BY <1>5 DEF SpaceStartWithin
  <2>2. CASE \E h \in Handles : Release(t, h)
    BY <2>1, <2>2 DEF Release
  <2>3. CASE ~flag /\ SpaceStart(t)
    BY <2>1, <2>3 DEF SpaceStart, Make, Release, SetMaxMemory
  <2> QED
    BY <2>1, <2>2, <2>3
<1> QED
  BY <1>1, <1>2, <1>3, <1>4, <1>5 DEF ManagerStep, ManagerStart

LEMMA OvertakenStep ==
  ASSUME CountIsWideEnough, ManagerInv, OvertakenInv, HistoryNext
  PROVE  OvertakenInv'
<1>1. PICK t \in Threads : ManagerStep(t) \/ ManagerStart(t)
  BY DEF HistoryNext, ManagerNext
<1>2. /\ OnlyThread(t) /\ flag \in BOOLEAN /\ active \in Nat /\ CountMax \in Nat
      /\ overtaken \subseteq Threads /\ Passed \subseteq Threads
  BY <1>1, OneThreadMoves, ManagerAssumption
     DEF ManagerInv, ManagerTypes, OvertakenInv, Passed
<1>3. /\ Quiet(t)'
      /\ flag => flag' /\ pc'[t] \in QuietPlaces
      /\ pc'[t] \in {"clear", "zero"} => flag'
      /\ flag' /\ ~flag => ShutdownFlag(t)
      /\ pc[t] = "clear" => pc'[t] = "zero"
      /\ pc[t] = "zero" => pc'[t] = "idle" /\ active' = 0
      /\ flag /\ pc'[t] = "countDown" => pc[t] = "countDown"
      /\ flag /\ pc[t] \notin {"zero", "countDown"} => active' = active
      /\ pc[t] = "countDown" => pc'[t] = "idle" /\ active' = (active - 1) % (CountMax + 1)
  BY <1>1, QuietStep DEF OvertakenInv
<1>4. /\ \A u \in Threads : Quiet(u)'
      /\ \A u \in Threads : pc'[u] \in {"clear", "zero"} => flag'
  BY <1>2, <1>3 DEF OvertakenInv, OnlyThread, Quiet
<1>5. overtaken' = IF pc[t] = "zero" /\ pc'[t] = "idle" THEN Passed ELSE overtaken
  BY <1>2 DEF HistoryNext, OnlyThread
<1>6. ASSUME flag'
      PROVE  \A u \in Threads : pc'[u] \in QuietPlaces
  <2>1. CASE flag
    BY <1>2, <1>3, <2>1 DEF OvertakenInv, OnlyThread
  <2>2. CASE ~flag
    <3>1. ShutdownFlag(t)
      BY <1>3, <1>6, <2>2
    <3>2. \A u \in Threads : call[u].op \in {"none", "release"}
      BY <3>1 DEF ShutdownFlag
    <3>3. \A u \in Threads : pc[u] \in QuietPlaces
      BY <3>2 DEF OvertakenInv, Quiet
    <3>4. pc'[t] = "clear"
      BY <3>1 DEF ShutdownFlag, Goto, ManagerInv, TypeInv, TypeOK
    <3> QED
      BY <1>2, <3>3, <3>4 DEF OnlyThread, QuietPlaces
  <2> QED
    BY <2>1, <2>2
<1>7. Passed' = IF pc'[t] = "countDown" THEN Passed \cup {t} ELSE Passed \ {t}
  BY <1>2 DEF Passed, OnlyThread
<1>8. ASSUME flag', ~ShuttingDown'
      PROVE  /\ Passed' \subseteq overtaken'
             /\ active' = (0 - Cardinality(overtaken' \ Passed')) % (CountMax + 1)
  <2>1. flag
    <3>1. ShutdownFlag(t) => pc'[t] = "clear"
      BY DEF ShutdownFlag, Goto, ManagerInv, TypeInv, TypeOK
    <3> QED
      BY <1>2, <1>3, <1>8, <3>1 DEF ShuttingDown
  <2>2. CASE pc[t] = "zero"
    <3>1. overtaken' = Passed /\ Passed' = Passed /\ active' = 0
      BY <1>3, <1>5, <1>7, <2>2 DEF Passed
    <3>2. overtaken' \ Passed' = {} /\ Cardinality({}) = 0
      BY <3>1, FS_EmptySet
    <3>3. 0 = (0 - 0) % (CountMax + 1)
      BY <1>2
    <3> QED
      BY <3>1, <3>2, <3>3
  <2>3. CASE pc[t] # "zero"
    <3>1. overtaken' = overtaken
      BY <1>5, <2>3
    <3>2. ~ShuttingDown
      BY <1>2, <1>3, <1>8, <2>3 DEF ShuttingDown, OnlyThread
    <3>3. /\ Passed \subseteq overtaken
          /\ active = (0 - Cardinality(overtaken \ Passed)) % (CountMax + 1)
      BY <2>1, <3>2 DEF OvertakenInv, OnlyOvertakenSpoil
    <3>4. CASE pc[t] # "countDown"
      <4>1. pc'[t] # "countDown" /\ active' = active
        BY <1>3, <2>1, <2>3, <3>4
      <4>2. Passed' = Passed
        BY <1>7, <3>4, <4>1 DEF Passed
      <4> QED
        BY <3>1, <3>3, <4>1, <4>2
    <3>5. CASE pc[t] = "countDown"
      <4> DEFINE late == overtaken \ Passed
                 n == Cardinality(late)
      <4>1. /\ t \in Passed /\ Passed' = Passed \ {t}
            /\ active' = (active - 1) % (CountMax + 1)
        BY <1>3, <1>7, <3>5 DEF Passed
      <4>2. overtaken' \ Passed' = late \cup {t} /\ t \notin late
        BY <3>1, <3>3, <4>1
      <4>3. IsFiniteSet(late) /\ late \cup {t} \subseteq Threads
        BY <1>2, SpaceAssumption, FS_Subset
      <4> HIDE DEF late
      <4>4. n \in Nat /\ Cardinality(late \cup {t}) = n + 1
        BY <4>2, <4>3, FS_AddElement, FS_CardinalityType
      <4>5. n + 1 <= CountMax
        <5>1. n + 1 <= Cardinality(Threads)
          BY <4>3, <4>4, SpaceAssumption, FS_Subset
        <5>2. Cardinality(Threads) \in Nat /\ Cardinality(Handles) \in Nat
          BY SpaceAssumption, FS_CardinalityType
        <5> QED
          BY <1>2, <4>4, <5>1, <5>2 DEF CountIsWideEnough
      <4>6. active = (0 - n) % (CountMax + 1)
        BY <3>3 DEF late
      <4>7. active' = (0 - (n + 1)) % (CountMax + 1)
        <5> HIDE DEF n
        <5>1. (((0 - n) % (CountMax + 1)) - 1) % (CountMax + 1) = (0 - (n + 1)) % (CountMax + 1)
          BY <1>2, <4>4, <4>5, BelowNothing
        <5> QED
          BY <4>1, <4>6, <5>1
      <4>8. Passed' \subseteq overtaken'
        BY <3>1, <3>3, <4>1
      <4> QED
        BY <4>2, <4>4, <4>7, <4>8
    <3> QED
      BY <3>4, <3>5
  <2> QED
    BY <2>2, <2>3
<1>9. overtaken' \subseteq Threads
  BY <1>2, <1>5
<1> QED
  BY <1>4, <1>6, <1>8, <1>9 DEF OvertakenInv, OnlyOvertakenSpoil

\* After shutdown the count is 0 but for the callbacks it overtook between the flag
\* and the count, each of which has taken one from nothing: no release that starts
\* or passes the flag later touches it (lines 143-144, 185-200, 212-214).
THEOREM OnlyOvertakenCallbacksSpoil ==
  ASSUME CountIsWideEnough PROVE HistorySpec => []OnlyOvertakenSpoil
<1>1. HistoryInit => OvertakenInv
  BY DEF HistoryInit, ManagerInit, SpaceInit, OvertakenInv, Quiet, QuietPlaces,
         OnlyOvertakenSpoil
<1>2. ManagerInv /\ OvertakenInv /\ [HistoryNext]_<<allVars, history>> => OvertakenInv'
  <2>1. OvertakenInv /\ UNCHANGED <<allVars, history>> => OvertakenInv'
    BY DEF allVars, spaceVars, managerVars, history, OvertakenInv, Quiet,
           OnlyOvertakenSpoil, ShuttingDown, Passed
  <2> QED
    BY <2>1, OvertakenStep
<1>3. OvertakenInv => OnlyOvertakenSpoil
  BY DEF OvertakenInv
<1> QED
  BY <1>1, <1>2, <1>3, Bounded, PTL DEF HistorySpec

-----------------------------------------------------------------------------
(* Discovery: what is known of a GPU is what its machine shows *)

\* The descriptions made so far are those of the first GPUs of the machine.
TopologyInv ==
  /\ machine \in Machines
  /\ gpus \in Seq({Describe(i) : i \in Gpus})
  /\ numGpus \in {0, Cardinality(Gpus)}
  /\ scanning => numGpus = Cardinality(Gpus)
  /\ ~scanning => numGpus = Len(gpus)
  /\ Len(gpus) <= numGpus
  /\ \A i \in DOMAIN gpus : i - 1 \in Gpus /\ gpus[i] = Describe(i - 1)

\* HIP numbers the GPUs of a machine from zero.
LEMMA GpusAreNumbered ==
  ASSUME NEW m \in Machines
  PROVE  /\ \E n \in 0 .. MaxGpus : DOMAIN m.gpus = 0 .. n - 1 /\ Cardinality(DOMAIN m.gpus) = n
         /\ \A i \in DOMAIN m.gpus : m.gpus[i] \in SlotType \cup {None}
<1>1. m \in MachineType
  BY TopologyAssumption
<1>2. m.gpus \in UNION {[0 .. n - 1 -> SlotType \cup {None}] : n \in 0 .. MaxGpus}
  BY <1>1 DEF MachineType
<1>3. PICK n \in 0 .. MaxGpus : m.gpus \in [0 .. n - 1 -> SlotType \cup {None}]
  BY <1>2
<1>4. DOMAIN m.gpus = 0 .. n - 1
  BY <1>3
<1>5. Cardinality(0 .. n - 1) = n
  <2>1. 0 \in Int /\ n - 1 \in Int /\ n \in Nat
    BY <1>3, TopologyAssumption
  <2>2. Cardinality(0 .. n - 1) = IF 0 > n - 1 THEN 0 ELSE (n - 1) - 0 + 1
    BY <2>1, FS_Interval
  <2> QED
    BY <2>1, <2>2
<1> QED
  BY <1>3, <1>4, <1>5

\* The least of some devices is one of them.
LEMMA SomeFileIsFirst ==
  ASSUME NEW S, S \subseteq Renders \/ S \subseteq Cards, S # {}
  PROVE  Min(S) \in S
<1>1. IsFiniteSet(Renders) /\ IsFiniteSet(Cards)
  BY TopologyAssumption
<1>2. IsFiniteSet(S)
  BY <1>1, FS_Subset
<1>3. Renders \subseteq Nat /\ Cards \subseteq Nat
  BY TopologyAssumption
<1>4. S \subseteq Int
  <2>1. \A x \in S : x \in Nat
    BY <1>3
  <2> QED
    BY <2>1
<1> QED
  BY <1>2, <1>4, MinIsIn

LEMMA TopologyStarts == TopologyInit => TopologyInv
<1> SUFFICES ASSUME TopologyInit PROVE TopologyInv
  OBVIOUS
<1> DEFINE D == {Describe(i) : i \in Gpus}
<1>1. gpus = <<>> /\ numGpus = 0 /\ ~scanning /\ machine \in Machines
  BY DEF TopologyInit
<1> HIDE DEF D
<1>2. gpus \in Seq(D) /\ Len(gpus) = 0 /\ \A i \in DOMAIN gpus : FALSE
  BY <1>1
<1> QED
  BY <1>1, <1>2 DEF TopologyInv, D

\* What the machine shows does not change.
LEMMA MachineStays ==
  ASSUME machine' = machine
  PROVE  Gpus' = Gpus /\ \A i : Describe(i)' = Describe(i)
<1>1. \A g, f : ReadFile(g, f)' = ReadFile(g, f)
  BY DEF ReadFile, Hits, Matches, SlotsMatch
<1>2. \A a, b : CanAccess(a, b)' = CanAccess(a, b)
  BY DEF CanAccess
<1>3. \A a, b : Interconnect(a, b)' = Interconnect(a, b)
  BY <1>1, <1>2 DEF Interconnect, NumaNode
<1>4. Gpus' = Gpus
  BY DEF Gpus
<1> QED
  BY <1>1, <1>2, <1>3, <1>4 DEF Describe, NumaNode, CpuList

LEMMA TopologyPreserved ==
  ASSUME TopologyInv, [TopologyNext]_topologyVars
  PROVE  TopologyInv'
<1> USE DEF TopologyInv
<1>1. machine' = machine
  BY DEF TopologyNext, Discover, ScanGpu, FinishDiscovery, topologyVars
<1>2. Gpus' = Gpus /\ \A i : Describe(i)' = Describe(i)
  BY <1>1, MachineStays
<1>3. {Describe(i) : i \in Gpus}' = {Describe(i) : i \in Gpus}
  BY <1>2
<1>4. PICK n \in Nat : Gpus = 0 .. n - 1 /\ Cardinality(Gpus) = n
  BY GpusAreNumbered, TopologyAssumption DEF Gpus
<1>5. CASE UNCHANGED topologyVars
  BY <1>5, <1>1, <1>2, <1>3 DEF topologyVars
<1>6. CASE Discover
  <2>1. numGpus' = n /\ gpus' = <<>> /\ scanning'
    BY <1>4, <1>6 DEF Discover
  <2> QED
    BY <1>1, <1>2, <1>3, <1>4, <2>1
<1>7. CASE ScanGpu
  <2> DEFINE l == Len(gpus)
  <2>1. l \in Nat /\ l < n /\ l \in Gpus /\ numGpus' = n /\ scanning /\ scanning'
    BY <1>4, <1>7 DEF ScanGpu
  <2>2. gpus' = Append(gpus, Describe(l))
    BY <1>7 DEF ScanGpu
  <2>3. gpus' \in Seq({Describe(i) : i \in Gpus}) /\ Len(gpus') = l + 1
    BY <2>1, <2>2
  <2>4. ASSUME NEW i \in DOMAIN gpus'
        PROVE  i - 1 \in Gpus /\ gpus'[i] = Describe(i - 1)
    BY <2>1, <2>2, <2>3
  <2> HIDE DEF l
  <2> QED
    BY <1>1, <1>2, <1>3, <1>4, <2>1, <2>3, <2>4
<1>8. CASE FinishDiscovery
  <2>1. gpus' = gpus /\ numGpus' = numGpus /\ ~scanning' /\ Len(gpus) = numGpus
    BY <1>8 DEF FinishDiscovery
  <2> QED
    BY <1>1, <1>2, <1>3, <1>4, <2>1
<1> QED
  BY <1>5, <1>6, <1>7, <1>8 DEF TopologyNext

-----------------------------------------------------------------------------

\* What the scan returns belongs to the board of the GPU.
LEMMA FilesAreItsOwn ==
  ASSUME machine \in Machines, NEW gpu \in Gpus, NEW file \in {"numa", "cpus"},
         ReadFile(gpu, file) # None
  PROVE  /\ machine.gpus[gpu] # None
         /\ \E d \in {machine.render[r] : r \in Renders} \cup {machine.card[c] : c \in Cards} :
              /\ Matches(d, gpu) /\ d[file] # None
              /\ ReadFile(gpu, file) = d[file] /\ Genuine(d, machine)
<1> DEFINE renders == Hits(machine.render, gpu, file)
           cards == Hits(machine.card, gpu, file)
<1>1. /\ DOMAIN machine.render = Renders /\ DOMAIN machine.card = Cards
      /\ \A d \in Renders : Genuine(machine.render[d], machine)
      /\ \A d \in Cards : Genuine(machine.card[d], machine)
  <2>1. machine \in MachineType
    BY TopologyAssumption
  <2> QED
    BY <2>1, TopologyAssumption DEF MachineType
<1>2. CASE renders # {}
  <2>1. ReadFile(gpu, file) = machine.render[Min(renders)][file]
    BY <1>2 DEF ReadFile
  <2>2. Min(renders) \in renders
    <3>1. renders \subseteq Renders
      BY <1>1 DEF Hits
    <3> HIDE DEF renders
    <3> QED
      BY <1>2, <3>1, SomeFileIsFirst
  <2>3. PICK r \in Renders : r = Min(renders) /\ Matches(machine.render[r], gpu)
                             /\ machine.render[r][file] # None
    BY <1>1, <2>2 DEF Hits
  <2> QED
    BY <1>1, <2>1, <2>3 DEF Matches, SlotsMatch
<1>3. CASE renders = {} /\ cards # {}
  <2>1. ReadFile(gpu, file) = machine.card[Min(cards)][file]
    BY <1>3 DEF ReadFile
  <2>2. Min(cards) \in cards
    <3>1. cards \subseteq Cards
      BY <1>1 DEF Hits
    <3> HIDE DEF cards
    <3> QED
      BY <1>3, <3>1, SomeFileIsFirst
  <2>3. PICK c \in Cards : c = Min(cards) /\ Matches(machine.card[c], gpu)
                           /\ machine.card[c][file] # None
    BY <1>1, <2>2 DEF Hits
  <2> QED
    BY <1>1, <2>1, <2>3 DEF Matches, SlotsMatch
<1>4. CASE renders = {} /\ cards = {}
  BY <1>4 DEF ReadFile
<1> QED
  BY <1>2, <1>3, <1>4

\* If all files of a board can be read, the scan returns its node.
LEMMA FilesAreFound ==
  ASSUME machine \in Machines, NEW gpu \in Gpus, ReadableNuma(gpu)
  PROVE  /\ machine.gpus[gpu] # None
         /\ ReadFile(gpu, "numa") = machine.numa[machine.gpus[gpu].board]
<1> DEFINE devices == {machine.render[d] : d \in Renders} \cup {machine.card[d] : d \in Cards}
           own == {d \in devices : Matches(d, gpu) /\ d.numa # None}
<1>1. own # {} /\ \A d \in own : d.numa # Garbage
  BY DEF ReadableNuma
<1>2. machine \in MachineType
  BY TopologyAssumption
<1>3. DOMAIN machine.render = Renders /\ DOMAIN machine.card = Cards
  BY <1>2 DEF MachineType
<1>4. PICK d \in own : TRUE
  BY <1>1
<1>5. Hits(machine.render, gpu, "numa") # {} \/ Hits(machine.card, gpu, "numa") # {}
  BY <1>3, <1>4 DEF Hits
<1>6. ReadFile(gpu, "numa") # None
  <2> DEFINE renders == Hits(machine.render, gpu, "numa")
             cards == Hits(machine.card, gpu, "numa")
  <2>2. /\ renders \subseteq Renders /\ \A r \in renders : machine.render[r].numa # None
        /\ cards \subseteq Cards /\ \A c \in cards : machine.card[c].numa # None
    BY <1>3 DEF Hits
  <2>3. CASE renders # {}
    <3>1. Min(renders) \in renders
      BY SomeFileIsFirst, <2>2, <2>3
    <3>2. ReadFile(gpu, "numa") = machine.render[Min(renders)].numa
      BY <2>3 DEF ReadFile
    <3> QED
      BY <2>2, <3>1, <3>2
  <2>4. CASE renders = {}
    <3>1. Min(cards) \in cards
      BY SomeFileIsFirst, <1>5, <2>2, <2>4
    <3>2. ReadFile(gpu, "numa") = machine.card[Min(cards)].numa
      BY <1>5, <2>4 DEF ReadFile
    <3> QED
      BY <2>2, <3>1, <3>2
  <2> QED
    BY <2>3, <2>4
<1>7. PICK e \in devices : /\ Matches(e, gpu) /\ e.numa # None
                           /\ ReadFile(gpu, "numa") = e.numa /\ Genuine(e, machine)
  BY <1>6, FilesAreItsOwn
<1>8. e.numa # Garbage
  BY <1>1, <1>7
<1> QED
  BY <1>7, <1>8 DEF Genuine, Matches, SlotsMatch

LEMMA DescribedFields ==
  \A i : /\ Describe(i).id = i /\ Describe(i).numa = NumaNode(i)
         /\ Describe(i).slot = machine.gpus[i] /\ Describe(i).cpus = CpuList(i)
         /\ Describe(i).links =
              [j \in {p \in Gpus : p # i /\ CanAccess(i, p)} |-> Interconnect(i, j)]
  BY DEF Describe

\* What is described is what the board has.
LEMMA NodesAreTheirOwn == TopologyInv => NumaIsItsOwn
<1> SUFFICES ASSUME TopologyInv, NEW i \in DOMAIN gpus
             PROVE  LET g == gpus[i]
                        board == IF g.slot = None THEN None ELSE g.slot.board
                    IN /\ g.numa # -1 => g.numa = machine.numa[board]
                       /\ g.cpus \in {None, board}
                       /\ ReadableNuma(g.id) => g.numa = machine.numa[board]
  BY DEF NumaIsItsOwn
<1> DEFINE k == i - 1
           board == IF machine.gpus[k] = None THEN None ELSE machine.gpus[k].board
<1>1. machine \in Machines /\ k \in Gpus /\ gpus[i] = Describe(k)
  BY DEF TopologyInv
<1>2. /\ gpus[i].id = k /\ gpus[i].numa = NumaNode(k)
      /\ gpus[i].slot = machine.gpus[k] /\ gpus[i].cpus = CpuList(k)
  BY <1>1, DescribedFields
<1> HIDE DEF k
<1>3. ASSUME NumaNode(k) # -1
      PROVE  NumaNode(k) = machine.numa[board]
  <2>1. ReadFile(k, "numa") \in NumaNodes /\ NumaNode(k) = ReadFile(k, "numa")
    BY <1>3 DEF NumaNode
  <2>2. ReadFile(k, "numa") # None
    BY <2>1, TopologyAssumption
  <2>3. /\ machine.gpus[k] # None
        /\ \E d \in {machine.render[r] : r \in Renders} \cup {machine.card[c] : c \in Cards} :
              /\ Matches(d, k) /\ d.numa # None
              /\ ReadFile(k, "numa") = d.numa /\ Genuine(d, machine)
    BY <1>1, <2>2, FilesAreItsOwn
  <2>4. Garbage \notin NumaNodes
    BY TopologyAssumption
  <2> QED
    BY <2>1, <2>3, <2>4 DEF Genuine, Matches, SlotsMatch
<1>4. CpuList(k) \in {None, board}
  <2>1. CASE ReadFile(k, "cpus") # None
    <3>1. /\ machine.gpus[k] # None
          /\ \E d \in {machine.render[r] : r \in Renders} \cup {machine.card[c] : c \in Cards} :
              /\ Matches(d, k) /\ d.cpus # None
              /\ ReadFile(k, "cpus") = d.cpus /\ Genuine(d, machine)
      BY <1>1, <2>1, FilesAreItsOwn
    <3> QED
      BY <3>1 DEF Genuine, Matches, SlotsMatch, CpuList
  <2> QED
    BY <2>1 DEF CpuList
<1>5. ASSUME ReadableNuma(k)
      PROVE  NumaNode(k) = machine.numa[board]
  <2>1. machine.gpus[k] # None /\ ReadFile(k, "numa") = machine.numa[machine.gpus[k].board]
    BY <1>1, <1>5, FilesAreFound
  <2>2. machine.gpus[k] \in SlotType
    BY <1>1, <2>1, GpusAreNumbered DEF Gpus
  <2>3. machine.numa[machine.gpus[k].board] \in NumaNodes
    <3>1. machine \in MachineType
      BY <1>1, TopologyAssumption
    <3>2. machine.numa \in [Boards -> NumaNodes]
      BY <3>1 DEF MachineType
    <3> QED
      BY <2>2, <3>2 DEF SlotType
  <2> QED
    BY <2>1, <2>3 DEF NumaNode
<1> QED
  BY <1>2, <1>3, <1>4, <1>5

LEMMA NumaNodeIsNumber == \A i : NumaNode(i) \in NumaNodes
  BY DEF NumaNode, NumaNodes

\* The same files are read for both ends of a link.
LEMMA LinksGoBothWays == TopologyInv => LinksAreMutual
<1> SUFFICES ASSUME TopologyInv, NEW i \in DOMAIN gpus, NEW j \in DOMAIN gpus,
                    gpus[j].id \in DOMAIN gpus[i].links, gpus[i].links[gpus[j].id] = "XGMI"
             PROVE  /\ gpus[i].id \in DOMAIN gpus[j].links /\ gpus[j].links[gpus[i].id] = "XGMI"
                    /\ gpus[i].numa = gpus[j].numa /\ gpus[i].numa >= 0
  BY DEF LinksAreMutual
<1> DEFINE a == i - 1  b == j - 1
<1>1. a \in Gpus /\ b \in Gpus /\ gpus[i] = Describe(a) /\ gpus[j] = Describe(b)
  BY DEF TopologyInv
<1> HIDE DEF a, b
<1>2. /\ gpus[i].id = a /\ gpus[i].numa = NumaNode(a)
      /\ gpus[i].links = [q \in {p \in Gpus : p # a /\ CanAccess(a, p)} |-> Interconnect(a, q)]
      /\ gpus[j].id = b /\ gpus[j].numa = NumaNode(b)
      /\ gpus[j].links = [q \in {p \in Gpus : p # b /\ CanAccess(b, p)} |-> Interconnect(b, q)]
  BY <1>1, DescribedFields
<1>3. b # a /\ CanAccess(a, b) /\ Interconnect(a, b) = "XGMI"
  BY <1>1, <1>2
<1>4. CanAccess(b, a) /\ NumaNode(a) >= 0 /\ NumaNode(a) = NumaNode(b)
  BY <1>3 DEF Interconnect
<1>5. Interconnect(b, a) = "XGMI"
  BY <1>3, <1>4 DEF Interconnect
<1> QED
  BY <1>1, <1>2, <1>3, <1>4, <1>5

-----------------------------------------------------------------------------
(* The constructor: spaces are the configurations that have one, in order *)

Devices == Nat \cup {None}
Configs == [tier : Tiers, device : Devices, capacity : Nat]

SpaceOf(config) == <<config.tier, config.device>>

\* g counts through the first n of the configurations as the constructor does.
Constructs(g, cfgs, n) ==
  g = [k \in 0 .. n |->
         IF k = 0 THEN <<>>
         ELSE IF HasSpace(cfgs[k]) THEN Append(g[k - 1], SpaceOf(cfgs[k])) ELSE g[k - 1]]

\* Induction up to n, by the least number that is not in G.
LEMMA Countdown ==
  ASSUME NEW n \in Nat, NEW G, 0 \in G, \A k \in 0 .. n - 1 : k \in G => k + 1 \in G
  PROVE  \A k \in 0 .. n : k \in G
<1> DEFINE B == (0 .. n) \ G
<1>1. IsFiniteSet(B) /\ B \subseteq Int
  <2>1. IsFiniteSet(0 .. n)
    BY FS_Interval
  <2>2. IsFiniteSet(B)
    BY <2>1, FS_Subset
  <2> QED
    BY <2>2
<1>2. ASSUME B # {}
      PROVE  FALSE
  <2>1. Min(B) \in B /\ \A x \in B : Min(B) <= x
    <3> HIDE DEF B
    <3> QED
      BY <1>1, <1>2, MinIsIn
  <2> DEFINE m == Min(B)
  <2> HIDE DEF m
  <2>2. m \in 0 .. n /\ m \notin G /\ \A x \in B : m <= x
    BY <2>1 DEF m
  <2>3. m # 0
    BY <2>2
  <2>4. m - 1 \in 0 .. n - 1 /\ m - 1 \in G
    BY <2>2, <2>3
  <2> QED
    BY <2>2, <2>4
<1> QED
  BY <1>2

\* One turn of the loop.
LEMMA OneStep ==
  ASSUME NEW g, NEW cfgs, NEW n \in Nat, Constructs(g, cfgs, n), NEW k \in 0 .. n
  PROVE  g[k] = IF k = 0 THEN <<>>
                ELSE IF HasSpace(cfgs[k]) THEN Append(g[k - 1], SpaceOf(cfgs[k]))
                ELSE g[k - 1]
<1> DEFINE f == [i \in 0 .. n |->
                   IF i = 0 THEN <<>>
                   ELSE IF HasSpace(cfgs[i]) THEN Append(g[i - 1], SpaceOf(cfgs[i]))
                   ELSE g[i - 1]]
<1>1. g = f
  BY DEF Constructs
<1>2. f[k] = IF k = 0 THEN <<>>
             ELSE IF HasSpace(cfgs[k]) THEN Append(g[k - 1], SpaceOf(cfgs[k]))
             ELSE g[k - 1]
  OBVIOUS
<1> HIDE DEF f
<1> QED
  BY <1>1, <1>2

\* The loop of the constructor computes something, however many configurations.
LEMMA ConstructionExists ==
  ASSUME NEW cfgs, NEW n \in Nat
  PROVE  \E g : Constructs(g, cfgs, n)
<1> DEFINE G == {k \in 0 .. n : \E g : Constructs(g, cfgs, k)}
<1>1. 0 \in G
  <2> DEFINE g == [k \in 0 .. 0 |-> <<>>]
  <2>1. Constructs(g, cfgs, 0)
    BY DEF Constructs
  <2> QED
    BY <2>1
<1>2. ASSUME NEW k \in 0 .. n - 1, k \in G
      PROVE  k + 1 \in G
  <2>1. PICK g : Constructs(g, cfgs, k)
    BY <1>2
  <2> DEFINE h == [i \in 0 .. k + 1 |->
                     IF i <= k THEN g[i]
                     ELSE IF HasSpace(cfgs[i]) THEN Append(g[k], SpaceOf(cfgs[i])) ELSE g[k]]
  <2>2. \A i \in 0 .. k : h[i] = g[i]
    OBVIOUS
  <2>3. ASSUME NEW i \in 0 .. k + 1
        PROVE  h[i] = IF i = 0 THEN <<>>
                      ELSE IF HasSpace(cfgs[i]) THEN Append(h[i - 1], SpaceOf(cfgs[i]))
                      ELSE h[i - 1]
    <3>1. CASE i <= k
      <4>1. g[i] = IF i = 0 THEN <<>>
                   ELSE IF HasSpace(cfgs[i]) THEN Append(g[i - 1], SpaceOf(cfgs[i]))
                   ELSE g[i - 1]
        BY <2>1, <3>1, OneStep
      <4>2. i # 0 => h[i - 1] = g[i - 1]
        BY <2>2, <3>1
      <4> HIDE DEF h
      <4> QED
        BY <4>1, <4>2, <2>2, <3>1
    <3>2. CASE i = k + 1
      <4>1. h[i] = IF HasSpace(cfgs[i]) THEN Append(g[k], SpaceOf(cfgs[i])) ELSE g[k]
        BY <3>2
      <4>2. h[i - 1] = g[k]
        BY <2>2, <3>2
      <4> HIDE DEF h
      <4> QED
        BY <4>1, <4>2, <3>2
    <3> QED
      BY <3>1, <3>2
  <2>4. Constructs(h, cfgs, k + 1)
    <3>1. h = [i \in 0 .. k + 1 |-> h[i]]
      OBVIOUS
    <3> HIDE DEF h
    <3> QED
      BY <2>3, <3>1 DEF Constructs
  <2> QED
    BY <2>4
<1>3. \A k \in 0 .. n : k \in G
  <2> HIDE DEF G
  <2> QED
    BY <1>1, <1>2, Countdown
<1> QED
  BY <1>3

\* The spaces are the configurations that have one.
LEMMA SpacesMade ==
  ASSUME NEW cfgs \in Seq(Configs)
  PROVE  /\ SpacesOf(cfgs) \in Seq(Tiers \X Devices)
         /\ ToSet(SpacesOf(cfgs)) = {SpaceOf(c) : c \in {d \in ToSet(cfgs) : HasSpace(d)}}
<1> DEFINE n == Len(cfgs)
           Places == Tiers \X Devices
           Upto(k) == {SpaceOf(cfgs[i]) : i \in {j \in 1 .. k : HasSpace(cfgs[j])}}
<1>1. n \in Nat /\ DOMAIN cfgs = 1 .. n /\ \A i \in 1 .. n : cfgs[i] \in Configs
  OBVIOUS
<1>2. PICK g : Constructs(g, cfgs, n) /\ SpacesOf(cfgs) = g[n]
  <2> DEFINE made == CHOOSE g : Constructs(g, cfgs, n)
  <2>1. SpacesOf(cfgs) = made[n]
    BY DEF SpacesOf, Constructs, SpaceOf
  <2>2. Constructs(made, cfgs, n)
    BY <1>1, ConstructionExists
  <2> QED
    BY <2>1, <2>2
<1>3. \A i \in 1 .. n : SpaceOf(cfgs[i]) \in Places
  BY <1>1 DEF SpaceOf, Configs
<1> DEFINE G == {k \in 0 .. n : g[k] \in Seq(Places) /\ ToSet(g[k]) = Upto(k)}
<1>4. 0 \in G
  <2>1. g[0] = <<>>
    BY <1>1, <1>2, OneStep
  <2>2. Upto(0) = {}
    OBVIOUS
  <2>3. ToSet(<<>>) = {}
    BY DEF ToSet
  <2>4. <<>> \in Seq(Places)
    OBVIOUS
  <2> QED
    <3>1. 0 \in 0 .. n
      BY <1>1
    <3> HIDE DEF Upto, Places, n
    <3> QED
      BY <2>1, <2>2, <2>3, <2>4, <3>1
<1>5. ASSUME NEW k \in 0 .. n - 1, k \in G
      PROVE  k + 1 \in G
  <2>1. g[k] \in Seq(Places) /\ ToSet(g[k]) = Upto(k) /\ k + 1 \in 1 .. n /\ k + 1 \in 0 .. n
    BY <1>1, <1>5
  <2>2. g[k + 1] = IF HasSpace(cfgs[k + 1]) THEN Append(g[k], SpaceOf(cfgs[k + 1])) ELSE g[k]
    <3>1. k + 1 \in 0 .. n /\ k + 1 # 0 /\ (k + 1) - 1 = k /\ n \in Nat
      BY <1>1
    <3>2. Constructs(g, cfgs, n)
      BY <1>2
    <3> HIDE DEF n
    <3>3. g[k + 1] = IF k + 1 = 0 THEN <<>>
                     ELSE IF HasSpace(cfgs[k + 1])
                     THEN Append(g[(k + 1) - 1], SpaceOf(cfgs[k + 1]))
                     ELSE g[(k + 1) - 1]
      BY <3>1, <3>2, OneStep
    <3> QED
      BY <3>1, <3>3
  <2>3. CASE HasSpace(cfgs[k + 1])
    <3>1. Upto(k + 1) = Upto(k) \cup {SpaceOf(cfgs[k + 1])}
      BY <1>1, <2>3
    <3>2. ASSUME NEW S, NEW s \in Seq(S), NEW x \in S
          PROVE  Append(s, x) \in Seq(S) /\ ToSet(Append(s, x)) = ToSet(s) \cup {x}
      <4>1. /\ Append(s, x) \in Seq(S) /\ DOMAIN Append(s, x) = 1 .. Len(s) + 1
            /\ \A i \in 1 .. Len(s) : Append(s, x)[i] = s[i]
            /\ Append(s, x)[Len(s) + 1] = x /\ DOMAIN s = 1 .. Len(s) /\ Len(s) \in Nat
        OBVIOUS
      <4> QED
        BY <4>1 DEF ToSet
    <3> HIDE DEF Upto, Places
    <3>3. g[k + 1] \in Seq(Places) /\ ToSet(g[k + 1]) = ToSet(g[k]) \cup {SpaceOf(cfgs[k + 1])}
      BY <1>3, <2>1, <2>2, <2>3, <3>2
    <3> QED
      BY <2>1, <3>1, <3>3
  <2>4. CASE ~ HasSpace(cfgs[k + 1])
    <3>1. Upto(k + 1) = Upto(k)
      BY <1>1, <2>4
    <3> HIDE DEF Upto, Places
    <3> QED
      BY <2>1, <2>2, <2>4, <3>1
  <2> QED
    BY <2>3, <2>4
<1>6. n \in G
  <2>1. \A k \in 0 .. n : k \in G
    <3> HIDE DEF G, n
    <3> QED
      BY <1>1, <1>4, <1>5, Countdown
  <2> HIDE DEF G
  <2> QED
    BY <1>1, <2>1
<1>7. Upto(n) = {SpaceOf(c) : c \in {d \in ToSet(cfgs) : HasSpace(d)}}
  BY <1>1 DEF ToSet
<1> QED
  BY <1>2, <1>6, <1>7

-----------------------------------------------------------------------------
(* build: what the configurations hold *)

GpuConfig(d) == [tier |-> "GPU", device |-> d, capacity |-> 0]

LEMMA Joined ==
  ASSUME NEW S, NEW s \in Seq(S), NEW t \in Seq(S)
  PROVE  s \o t \in Seq(S) /\ ToSet(s \o t) = ToSet(s) \cup ToSet(t)
<1>1. /\ s \o t \in Seq(S) /\ DOMAIN (s \o t) = 1 .. Len(s) + Len(t)
      /\ DOMAIN s = 1 .. Len(s) /\ DOMAIN t = 1 .. Len(t) /\ Len(s) \in Nat /\ Len(t) \in Nat
  OBVIOUS
<1>2. \A i \in 1 .. Len(s) : (s \o t)[i] = s[i]
  OBVIOUS
<1>3. \A i \in 1 .. Len(t) : (s \o t)[Len(s) + i] = t[i] /\ Len(s) + i \in DOMAIN (s \o t)
  BY <1>1
<1>4. \A i \in DOMAIN (s \o t) : i \in 1 .. Len(s) \/ i - Len(s) \in 1 .. Len(t)
  BY <1>1
<1>5. ToSet(s \o t) \subseteq ToSet(s) \cup ToSet(t)
  <2> SUFFICES ASSUME NEW i \in DOMAIN (s \o t)
               PROVE  (s \o t)[i] \in ToSet(s) \cup ToSet(t)
    BY DEF ToSet
  <2>1. CASE i \in 1 .. Len(s)
    BY <1>1, <1>2, <2>1 DEF ToSet
  <2>2. CASE i - Len(s) \in 1 .. Len(t)
    <3>1. Len(s) + (i - Len(s)) = i
      BY <1>1
    <3> QED
      BY <1>1, <1>3, <2>2, <3>1 DEF ToSet
  <2> QED
    BY <1>4, <2>1, <2>2
<1>6. ToSet(s) \subseteq ToSet(s \o t)
  BY <1>1, <1>2 DEF ToSet
<1>7. ToSet(t) \subseteq ToSet(s \o t)
  BY <1>1, <1>3 DEF ToSet
<1> QED
  BY <1>1, <1>5, <1>6, <1>7

LEMMA OneOrNone ==
  ASSUME NEW S, NEW x \in S
  PROVE  /\ <<x>> \in Seq(S) /\ ToSet(<<x>>) = {x}
         /\ <<>> \in Seq(S) /\ ToSet(<<>>) = {}
<1>1. <<x>> \in Seq(S) /\ <<>> \in Seq(S)
  OBVIOUS
<1>2. ToSet(<<x>>) = {x}
  BY DEF ToSet
<1>3. ToSet(<<>>) = {}
  BY DEF ToSet
<1> QED
  BY <1>1, <1>2, <1>3

\* The devices of the GPU configurations.
Wanted(k) ==
  IF settings.ids # <<>> THEN ToSet(settings.ids)
  ELSE IF settings.count > 0 THEN 0 .. settings.count - 1 ELSE 0 .. k - 1

\* The list of device ids names what is wanted.
LEMMA IdsAreWanted ==
  ASSUME settings \in Setups, NEW k \in Nat
  PROVE  DeviceIds(k) \in Seq(Nat) /\ ToSet(DeviceIds(k)) = Wanted(k)
<1>1. settings.ids \in Seq(Nat) /\ settings.count \in Nat
  BY DeploymentAssumption DEF SettingsType
<1>2. ASSUME NEW n \in Nat
      PROVE  [i \in 1 .. n |-> i - 1] \in Seq(Nat) /\ ToSet([i \in 1 .. n |-> i - 1]) = 0 .. n - 1
  <2> DEFINE f == [i \in 1 .. n |-> i - 1]
  <2>1. f \in [1 .. n -> Nat]
    OBVIOUS
  <2>2. f \in Seq(Nat)
    BY <2>1
  <2>3. ToSet(f) \subseteq 0 .. n - 1
    BY DEF ToSet
  <2>4. ASSUME NEW x \in 0 .. n - 1 PROVE x \in ToSet(f)
    <3>1. x + 1 \in DOMAIN f /\ f[x + 1] = x
      OBVIOUS
    <3> HIDE DEF f
    <3> QED
      BY <3>1 DEF ToSet
  <2> HIDE DEF f
  <2>5. ToSet(f) = 0 .. n - 1
    BY <2>3, <2>4
  <2> QED
    BY <2>2, <2>5 DEF f
<1>3. CASE settings.ids # <<>>
  BY <1>1, <1>3 DEF DeviceIds, Wanted
<1>4. CASE settings.ids = <<>> /\ settings.count > 0
  BY <1>1, <1>2, <1>4 DEF DeviceIds, Wanted
<1>5. CASE settings.ids = <<>> /\ ~ (settings.count > 0)
  BY <1>1, <1>2, <1>5 DEF DeviceIds, Wanted
<1> QED
  BY <1>3, <1>4, <1>5

\* build makes a GPU configuration for each wanted device, and no other.
LEMMA BuiltHolds ==
  ASSUME settings \in Setups, NEW k \in Nat
  PROVE  /\ Built(k) \in Seq(Configs)
         /\ \A d : (\E c \in ToSet(Built(k)) : c.tier = "GPU" /\ c.device = d) <=> d \in Wanted(k)
         /\ (\E c \in ToSet(Built(k)) : c.tier = "HOST")
              <=> settings.totalHost + settings.perHost > 0
<1>1. /\ settings.totalHost \in Nat /\ settings.perHost \in Nat /\ settings.disk \in Nat
  BY DeploymentAssumption DEF SettingsType
<1> DEFINE ids == DeviceIds(k)
           gpuPart == [i \in DOMAIN ids |-> GpuConfig(ids[i])]
<1>2. ids \in Seq(Nat) /\ ToSet(ids) = Wanted(k)
  BY IdsAreWanted
<1>3. gpuPart \in Seq(Configs)
  <2>1. DOMAIN ids = 1 .. Len(ids) /\ Len(ids) \in Nat /\ \A i \in DOMAIN ids : ids[i] \in Nat
    BY <1>2
  <2>2. \A d \in Nat : GpuConfig(d) \in Configs
    BY DEF GpuConfig, Configs, Tiers, Devices
  <2> HIDE DEF ids
  <2>3. gpuPart \in [1 .. Len(ids) -> Configs]
    BY <2>1, <2>2
  <2> QED
    BY <2>1, <2>3
<1>4. ToSet(gpuPart) = {GpuConfig(d) : d \in Wanted(k)}
  <2> HIDE DEF ids
  <2> QED
    BY <1>2 DEF ToSet
<1>5. /\ HostConfig \in Seq(Configs) /\ \A c \in ToSet(HostConfig) : c.tier = "HOST"
      /\ (ToSet(HostConfig) # {} <=> settings.totalHost + settings.perHost > 0)
  <2> DEFINE c == [tier |-> "HOST", device |-> 0,
                   capacity |-> IF settings.totalHost > 0 THEN settings.totalHost
                                ELSE settings.perHost]
  <2>1. c \in Configs /\ c.tier = "HOST"
    BY <1>1 DEF Configs, Tiers, Devices
  <2>2. HostConfig = IF settings.totalHost = 0 /\ settings.perHost = 0 THEN <<>> ELSE <<c>>
    BY DEF HostConfig
  <2>3. settings.totalHost + settings.perHost > 0
          <=> ~ (settings.totalHost = 0 /\ settings.perHost = 0)
    BY <1>1
  <2> HIDE DEF c
  <2>4. /\ <<c>> \in Seq(Configs) /\ ToSet(<<c>>) = {c}
        /\ <<>> \in Seq(Configs) /\ ToSet(<<>>) = {}
    BY <2>1, OneOrNone
  <2> QED
    BY <2>1, <2>2, <2>3, <2>4
<1>6. DiskConfig \in Seq(Configs) /\ \A c \in ToSet(DiskConfig) : c.tier = "DISK"
  <2> DEFINE c == [tier |-> "DISK", device |-> None, capacity |-> settings.disk]
  <2>1. c \in Configs /\ c.tier = "DISK"
    BY <1>1 DEF Configs, Tiers, Devices
  <2>2. DiskConfig = IF settings.disk = 0 THEN <<>> ELSE <<c>>
    BY DEF DiskConfig
  <2> HIDE DEF c
  <2>3. /\ <<c>> \in Seq(Configs) /\ ToSet(<<c>>) = {c}
        /\ <<>> \in Seq(Configs) /\ ToSet(<<>>) = {}
    BY <2>1, OneOrNone
  <2> QED
    BY <2>1, <2>2, <2>3
<1>7. Built(k) = gpuPart \o HostConfig \o DiskConfig
  BY DEF Built, GpuConfig
<1> HIDE DEF gpuPart, ids
<1>8. /\ Built(k) \in Seq(Configs)
      /\ ToSet(Built(k)) = ToSet(gpuPart) \cup ToSet(HostConfig) \cup ToSet(DiskConfig)
  <2> DEFINE front == gpuPart \o HostConfig
  <2>1. front \in Seq(Configs) /\ ToSet(front) = ToSet(gpuPart) \cup ToSet(HostConfig)
    BY <1>3, <1>5, Joined
  <2>2. Built(k) = front \o DiskConfig
    BY <1>7
  <2> HIDE DEF front
  <2>3. /\ front \o DiskConfig \in Seq(Configs)
        /\ ToSet(front \o DiskConfig) = ToSet(front) \cup ToSet(DiskConfig)
    BY <1>6, <2>1, Joined
  <2> QED
    BY <2>1, <2>2, <2>3
<1>9. \A d : GpuConfig(d).tier = "GPU" /\ GpuConfig(d).device = d
  BY DEF GpuConfig
<1>10. ASSUME NEW d
       PROVE  (\E c \in ToSet(Built(k)) : c.tier = "GPU" /\ c.device = d) <=> d \in Wanted(k)
  <2>1. ASSUME NEW c \in ToSet(Built(k)), c.tier = "GPU", c.device = d
        PROVE  d \in Wanted(k)
    <3>1. c \in ToSet(gpuPart)
      BY <1>5, <1>6, <1>8, <2>1
    <3> QED
      BY <1>4, <1>9, <2>1, <3>1
  <2>2. ASSUME d \in Wanted(k)
        PROVE  \E c \in ToSet(Built(k)) : c.tier = "GPU" /\ c.device = d
    BY <1>4, <1>8, <1>9, <2>2
  <2> QED
    BY <2>1, <2>2
<1>11. (\E c \in ToSet(Built(k)) : c.tier = "HOST") <=> ToSet(HostConfig) # {}
  <2>1. \A c \in ToSet(gpuPart) : c.tier = "GPU"
    BY <1>4, <1>9
  <2> QED
    BY <1>5, <1>6, <1>8, <2>1
<1> QED
  BY <1>5, <1>8, <1>10, <1>11

-----------------------------------------------------------------------------
(* The spaces are those of the configurations *)

\* The view of a tier lists those of the first n spaces that are in it, in order.
TierLists(tier, n) ==
  /\ tiers[tier] \in Seq(1 .. n)
  /\ ToSet(tiers[tier]) = {i \in 1 .. n : spaces[i][1] = tier}
  /\ \A j, k \in DOMAIN tiers[tier] : j < k => tiers[tier][j] < tiers[tier][k]

\* The place of the constructor, or of shutdown, says what the views hold.
ViewsInv ==
  /\ stage \in {"none", "filing", "up", "all cleared", "views cleared", "down"}
  /\ spaces \in Seq(Tiers \X Devices)
  /\ stage \in {"filing", "up"} =>
       /\ Len(all) \in 0 .. Len(spaces) /\ all = [i \in 1 .. Len(all) |-> i]
       /\ \A tier \in Tiers : TierLists(tier, Len(all))
  /\ stage = "up" => Len(all) = Len(spaces)
  /\ stage \notin {"filing", "up"} => all = <<>>
  /\ stage = "all cleared" => \A tier \in Tiers : TierLists(tier, Len(spaces))
  /\ stage \in {"none", "views cleared", "down"} => \A tier \in Tiers : tiers[tier] = <<>>
  /\ DOMAIN tiers = Tiers

\* What the steps keep: the configurations are what build made of the topology it
\* was given, and the spaces are what the constructor made of them.
DeploymentInv ==
  /\ TopologyInv
  /\ settings \in Setups
  /\ ~scanning => numGpus = IF discovered THEN Cardinality(Gpus) ELSE 0
  /\ configs # <<>> =>
       \E k \in {0, Cardinality(Gpus)} : configs = Built(k) /\ given = 0 .. k - 1
  /\ stage \in {"filing", "up"} => spaces = SpacesOf(configs)
  /\ ViewsInv

LEMMA GpusAreCounted ==
  ASSUME machine \in Machines
  PROVE  Cardinality(Gpus) \in Nat /\ Gpus = 0 .. Cardinality(Gpus) - 1
<1>1. PICK n \in 0 .. MaxGpus : Gpus = 0 .. n - 1 /\ Cardinality(Gpus) = n
  BY GpusAreNumbered DEF Gpus
<1>2. n \in Nat
  BY TopologyAssumption
<1> QED
  BY <1>1, <1>2

LEMMA DeploymentStarts == DeploymentInit => DeploymentInv
<1> SUFFICES ASSUME DeploymentInit PROVE DeploymentInv
  OBVIOUS
<1>1. TopologyInv /\ ~discovered /\ numGpus = 0
  BY TopologyStarts DEF DeploymentInit, TopologyInit
<1>2. ViewsInv
  BY DEF DeploymentInit, ViewsInv
<1> QED
  BY <1>1, <1>2 DEF DeploymentInit, DeploymentInv

\* What the configurations are made of, and the spaces made of them.
LEMMA ConfigsAreTyped ==
  ASSUME DeploymentInv
  PROVE  /\ configs \in Seq(Configs)
         /\ SpacesOf(configs) \in Seq(Tiers \X Devices)
         /\ ToSet(SpacesOf(configs)) = {SpaceOf(c) : c \in {d \in ToSet(configs) : HasSpace(d)}}
<1>1. configs \in Seq(Configs)
  <2>1. CASE configs = <<>>
    BY <2>1
  <2>2. CASE configs # <<>>
    <3>1. Cardinality(Gpus) \in Nat
      BY GpusAreCounted DEF DeploymentInv, TopologyInv
    <3> QED
      BY <2>2, <3>1, BuiltHolds DEF DeploymentInv
  <2> QED
    BY <2>1, <2>2
<1> QED
  BY <1>1, SpacesMade

\* A pointer that is pushed back behind smaller ones.
LEMMA PushedBack ==
  ASSUME NEW n \in Nat, NEW view \in Seq(1 .. n),
         \A j, k \in DOMAIN view : j < k => view[j] < view[k]
  PROVE  LET longer == Append(view, n + 1) IN
         /\ longer \in Seq(1 .. n + 1) /\ ToSet(longer) = ToSet(view) \cup {n + 1}
         /\ \A j, k \in DOMAIN longer : j < k => longer[j] < longer[k]
<1> DEFINE longer == Append(view, n + 1)
<1>1. /\ Len(view) \in Nat /\ DOMAIN view = 1 .. Len(view)
      /\ \A j \in DOMAIN view : view[j] \in 1 .. n
  OBVIOUS
<1>2. /\ DOMAIN longer = 1 .. Len(view) + 1
      /\ \A j \in DOMAIN view : longer[j] = view[j]
      /\ longer[Len(view) + 1] = n + 1
  OBVIOUS
<1>3. view \in Seq(1 .. n + 1) /\ n + 1 \in 1 .. n + 1
  BY <1>1
<1>4. longer \in Seq(1 .. n + 1)
  BY <1>3
<1> HIDE DEF longer
<1>5. ToSet(longer) = ToSet(view) \cup {n + 1}
  BY <1>1, <1>2 DEF ToSet
<1>6. \A j, k \in DOMAIN longer : j < k => longer[j] < longer[k]
  BY <1>1, <1>2
<1> QED
  BY <1>4, <1>5, <1>6 DEF longer

LEMMA FileStep ==
  ASSUME ViewsInv, FileSpace
  PROVE  ViewsInv'
<1> DEFINE n == Len(all)
           own == spaces[n + 1][1]
<1>1. /\ stage = "filing" /\ n \in Nat /\ n + 1 \in 1 .. Len(spaces)
      /\ tiers' = [tiers EXCEPT ![own] = Append(tiers[own], n + 1)]
      /\ all' = Append(all, n + 1)
      /\ UNCHANGED <<stage, spaces>>
  BY DEF FileSpace, ViewsInv
<1>2. /\ spaces \in Seq(Tiers \X Devices) /\ DOMAIN tiers = Tiers
      /\ all = [i \in 1 .. n |-> i]
      /\ \A tier \in Tiers : TierLists(tier, n)
  BY <1>1 DEF ViewsInv
<1>3. own \in Tiers
  BY <1>1, <1>2
<1>4. all' = [i \in 1 .. n + 1 |-> i] /\ Len(all') = n + 1
  <2> DEFINE m == n
  <2>1. m \in Nat /\ all = [i \in 1 .. m |-> i] /\ all' = Append(all, m + 1)
    BY <1>1, <1>2
  <2> HIDE DEF m
  <2>2. all \in Seq(Nat) /\ Len(all) = m
    BY <2>1
  <2>3. Append(all, m + 1) = [i \in 1 .. m + 1 |-> IF i = m + 1 THEN m + 1 ELSE all[i]]
    BY <2>1, <2>2
  <2>4. [i \in 1 .. m + 1 |-> IF i = m + 1 THEN m + 1 ELSE all[i]] = [i \in 1 .. m + 1 |-> i]
    BY <2>1
  <2>5. Len([i \in 1 .. m + 1 |-> i]) = m + 1
    BY <2>1
  <2> QED
    BY <2>1, <2>3, <2>4, <2>5 DEF m
<1> HIDE DEF n, own
<1>5. ASSUME NEW tier \in Tiers
      PROVE  /\ tiers'[tier] \in Seq(1 .. n + 1)
             /\ ToSet(tiers'[tier]) = {i \in 1 .. n + 1 : spaces[i][1] = tier}
             /\ \A j, k \in DOMAIN tiers'[tier] : j < k => tiers'[tier][j] < tiers'[tier][k]
  <2>1. /\ tiers[tier] \in Seq(1 .. n)
        /\ ToSet(tiers[tier]) = {i \in 1 .. n : spaces[i][1] = tier}
        /\ \A j, k \in DOMAIN tiers[tier] : j < k => tiers[tier][j] < tiers[tier][k]
    BY <1>2 DEF TierLists
  <2>2. CASE tier = own
    <3>1. tiers'[tier] = Append(tiers[tier], n + 1)
      BY <1>1, <1>2, <2>2
    <3>2. /\ tiers'[tier] \in Seq(1 .. n + 1) /\ ToSet(tiers'[tier]) = ToSet(tiers[tier]) \cup {n + 1}
          /\ \A j, k \in DOMAIN tiers'[tier] : j < k => tiers'[tier][j] < tiers'[tier][k]
      BY <1>1, <2>1, <3>1, PushedBack
    <3>3. {i \in 1 .. n + 1 : spaces[i][1] = tier} = {i \in 1 .. n : spaces[i][1] = tier} \cup {n + 1}
      BY <1>1, <2>2 DEF own
    <3> QED
      BY <2>1, <3>2, <3>3
  <2>3. CASE tier # own
    <3>1. tiers'[tier] = tiers[tier]
      BY <1>1, <1>2, <2>3
    <3>2. {i \in 1 .. n + 1 : spaces[i][1] = tier} = {i \in 1 .. n : spaces[i][1] = tier}
      BY <1>1, <2>3 DEF own
    <3>3. tiers[tier] \in Seq(1 .. n + 1)
      BY <1>1, <2>1
    <3> QED
      BY <2>1, <3>1, <3>2, <3>3
  <2> QED
    BY <2>2, <2>3
<1>6. DOMAIN tiers' = Tiers
  BY <1>1, <1>2
<1>7. Len(spaces) \in Nat /\ n + 1 \in 0 .. Len(spaces)
  BY <1>1, <1>2
<1>8. \A tier \in Tiers : TierLists(tier, Len(all))'
  BY <1>1, <1>4, <1>5 DEF TierLists
<1> QED
  BY <1>1, <1>2, <1>4, <1>6, <1>7, <1>8 DEF ViewsInv

LEMMA DeploymentPreserved ==
  DeploymentInv /\ [DeploymentNext]_deploymentVars => DeploymentInv'
<1> SUFFICES ASSUME DeploymentInv, [DeploymentNext]_deploymentVars
             PROVE  DeploymentInv'
  OBVIOUS
<1>1. TopologyInv /\ settings \in Setups /\ ViewsInv
  BY DEF DeploymentInv
<1>2. [TopologyNext]_topologyVars
  BY DEF DeploymentNext, Build, MakeSpaces, FileSpace, Constructed, ClearAllSpaces, ClearTierSpaces,
         ClearSpaces, deploymentVars
<1>3. TopologyInv'
  BY <1>1, <1>2, TopologyPreserved
<1>4. machine' = machine
  BY <1>2 DEF TopologyNext, Discover, ScanGpu, FinishDiscovery, topologyVars
<1>5. Gpus' = Gpus
  BY <1>4, MachineStays
<1>6. settings' = settings
  BY DEF DeploymentNext, Build, MakeSpaces, FileSpace, Constructed, ClearAllSpaces, ClearTierSpaces,
         ClearSpaces, deploymentVars
<1>7. (\A k : Built(k)' = Built(k)) /\ (configs' = configs => SpacesOf(configs)' = SpacesOf(configs))
  BY <1>6 DEF Built, DeviceIds, HostConfig, DiskConfig
<1>8. (~scanning => numGpus = IF discovered THEN Cardinality(Gpus) ELSE 0)'
  BY <1>1, <1>2, <1>5 DEF TopologyNext, Discover, ScanGpu, FinishDiscovery, topologyVars,
     TopologyInv, DeploymentInv
<1>9. ASSUME UNCHANGED <<configs, given>>,
             ViewsInv', (stage \in {"filing", "up"} => spaces = SpacesOf(configs))'
      PROVE  DeploymentInv'
  BY <1>1, <1>3, <1>5, <1>6, <1>7, <1>8, <1>9 DEF DeploymentInv
<1> USE <1>1
<1>10. CASE UNCHANGED <<settings, configs, given, manager>>
  <2>1. ViewsInv'
    BY <1>10 DEF ViewsInv, TierLists, manager
  <2> QED
    BY <1>7, <1>9, <1>10, <2>1 DEF DeploymentInv, manager
<1>11. ASSUME NEW w \in BOOLEAN, Build(w)
       PROVE  DeploymentInv'
  <2>1. /\ configs' = Built(IF w THEN numGpus ELSE 0) /\ UNCHANGED <<stage, spaces, all, tiers>>
        /\ given' = (IF w /\ discovered THEN Gpus ELSE {}) /\ ~scanning /\ stage = "none"
    BY <1>11 DEF Build, manager
  <2>2. ViewsInv'
    BY <2>1 DEF ViewsInv, TierLists
  <2>3. \E k \in {0, Cardinality(Gpus)} : configs' = Built(k) /\ given' = 0 .. k - 1
    <3>1. Gpus = 0 .. Cardinality(Gpus) - 1 /\ 0 .. 0 - 1 = {}
      BY GpusAreCounted DEF TopologyInv
    <3>2. numGpus = IF discovered THEN Cardinality(Gpus) ELSE 0
      BY <2>1 DEF DeploymentInv
    <3>3. CASE w /\ discovered
      BY <2>1, <3>1, <3>2, <3>3
    <3>4. CASE ~(w /\ discovered)
      BY <2>1, <3>1, <3>2, <3>4
    <3> QED
      BY <3>3, <3>4
  <2> QED
    BY <1>3, <1>5, <1>6, <1>7, <1>8, <2>1, <2>2, <2>3 DEF DeploymentInv
<1>12. CASE MakeSpaces
  <2>1. /\ stage = "none" /\ stage' = "filing" /\ spaces' = SpacesOf(configs)
        /\ UNCHANGED <<configs, given, all, tiers>>
    BY <1>12 DEF MakeSpaces
  <2>2. spaces' \in Seq(Tiers \X Devices)
    BY <2>1, ConfigsAreTyped
  <2>3. /\ all = <<>> /\ Len(all) = 0 /\ all = [i \in 1 .. Len(all) |-> i]
        /\ \A tier \in Tiers : tiers[tier] = <<>>
    BY <2>1 DEF ViewsInv
  <2>4. \A tier \in Tiers : TierLists(tier, 0)'
    <3>1. <<>> \in Seq(1 .. 0) /\ ToSet(<<>>) = {} /\ DOMAIN <<>> = {} /\ 1 .. 0 = {}
      BY DEF ToSet
    <3> QED
      BY <2>1, <2>3, <3>1 DEF TierLists
  <2>5. Len(spaces') \in Nat
    BY <2>2
  <2>6. ViewsInv'
    BY <2>1, <2>2, <2>3, <2>4, <2>5 DEF ViewsInv
  <2> QED
    BY <1>7, <1>9, <2>1, <2>6
<1>13. CASE FileSpace
  BY <1>7, <1>9, <1>13, FileStep DEF FileSpace, DeploymentInv
<1>14. CASE Constructed \/ ClearAllSpaces \/ ClearTierSpaces \/ ClearSpaces
  <2>1. CASE Constructed
    <3>1. /\ stage = "filing" /\ stage' = "up" /\ Len(all) = Len(spaces)
          /\ UNCHANGED <<configs, given, spaces, all, tiers>>
      BY <2>1 DEF Constructed
    <3>2. ViewsInv'
      BY <3>1 DEF ViewsInv, TierLists
    <3> QED
      BY <1>7, <1>9, <3>1, <3>2 DEF DeploymentInv
  <2>2. CASE ClearAllSpaces
    <3>1. /\ stage = "up" /\ stage' = "all cleared" /\ all' = <<>>
          /\ UNCHANGED <<configs, given, spaces, tiers>>
      BY <2>2 DEF ClearAllSpaces
    <3>2. ViewsInv'
      BY <3>1 DEF ViewsInv, TierLists
    <3> QED
      BY <1>9, <3>1, <3>2
  <2>3. CASE ClearTierSpaces
    <3>1. /\ stage = "all cleared" /\ stage' = "views cleared"
          /\ tiers' = [tier \in Tiers |-> <<>>] /\ UNCHANGED <<configs, given, spaces, all>>
      BY <2>3 DEF ClearTierSpaces
    <3>2. ViewsInv'
      BY <3>1 DEF ViewsInv
    <3> QED
      BY <1>9, <3>1, <3>2
  <2>4. CASE ClearSpaces
    <3>1. /\ stage = "views cleared" /\ stage' = "down" /\ spaces' = <<>>
          /\ UNCHANGED <<configs, given, all, tiers>>
      BY <2>4 DEF ClearSpaces
    <3>2. /\ spaces' \in Seq(Tiers \X Devices) /\ all' = <<>> /\ DOMAIN tiers' = Tiers
          /\ \A tier \in Tiers : tiers'[tier] = <<>>
      <4>1. all = <<>> /\ DOMAIN tiers = Tiers /\ \A tier \in Tiers : tiers[tier] = <<>>
        BY <3>1 DEF ViewsInv
      <4>2. spaces' \in Seq(Tiers \X Devices)
        <5>1. \A S : <<>> \in Seq(S)
          OBVIOUS
        <5>2. spaces' = <<>>
          BY <3>1
        <5> QED
          BY <5>1, <5>2
      <4>3. all' = all /\ tiers' = tiers
        BY <3>1
      <4> QED
        BY <4>1, <4>2, <4>3
    <3>3. stage' = "down"
      BY <3>1
    <3>4. ViewsInv'
      BY <3>2, <3>3 DEF ViewsInv
    <3> QED
      BY <1>9, <3>1, <3>4
  <2> QED
    BY <1>14, <2>1, <2>2, <2>3, <2>4
<1> QED
  BY <1>10, <1>11, <1>12, <1>13, <1>14 DEF DeploymentNext, deploymentVars

LEMMA RequestedAreTheSpaces == DeploymentInv => GpuAndHostSpacesAreTheRequested
<1> SUFFICES ASSUME DeploymentInv, stage \in {"filing", "up"}, configs # <<>>
             PROVE  GpuAndHostSpacesAreTheRequested
  BY DEF GpuAndHostSpacesAreTheRequested
<1>1. Cardinality(Gpus) \in Nat
  BY GpusAreCounted DEF DeploymentInv, TopologyInv
<1>2. PICK k \in {0, Cardinality(Gpus)} : configs = Built(k) /\ given = 0 .. k - 1
  BY DEF DeploymentInv
<1>3. /\ \A d : (\E c \in ToSet(configs) : c.tier = "GPU" /\ c.device = d) <=> d \in Wanted(k)
      /\ (\E c \in ToSet(configs) : c.tier = "HOST") <=> settings.totalHost + settings.perHost > 0
  <2>1. k \in Nat /\ settings \in Setups
    BY <1>1 DEF DeploymentInv
  <2>2. configs = Built(k)
    BY <1>2
  <2>3. /\ \A d : (\E c \in ToSet(Built(k)) : c.tier = "GPU" /\ c.device = d) <=> d \in Wanted(k)
        /\ (\E c \in ToSet(Built(k)) : c.tier = "HOST")
             <=> settings.totalHost + settings.perHost > 0
    BY <2>1, BuiltHolds
  <2> QED
    BY <2>2, <2>3
<1>4. /\ spaces \in Seq(Tiers \X Devices)
      /\ ToSet(spaces) = {SpaceOf(c) : c \in {d \in ToSet(configs) : HasSpace(d)}}
  BY ConfigsAreTyped DEF DeploymentInv
<1>5. ASSUME NEW tier \in {"GPU", "HOST"}, NEW d
      PROVE  d \in DevicesOf(tier) <=> \E c \in ToSet(configs) : c.tier = tier /\ c.device = d
  <2>1. d \in DevicesOf(tier) <=> \E x \in ToSet(spaces) : x[1] = tier /\ x[2] = d
    BY DEF DevicesOf, InTiers, ToSet
  <2>2. (\E x \in ToSet(spaces) : x[1] = tier /\ x[2] = d)
          <=> \E c \in ToSet(configs) : HasSpace(c) /\ SpaceOf(c)[1] = tier /\ SpaceOf(c)[2] = d
    BY <1>4
  <2> QED
    BY <2>1, <2>2 DEF SpaceOf, HasSpace
<1>6. DevicesOf("GPU") = Wanted(k)
  <2>1. \A d : d \in DevicesOf("GPU") <=> d \in Wanted(k)
    BY <1>3, <1>5
  <2> QED
    BY <2>1
<1>7. DevicesOf("HOST") # {} <=> settings.totalHost + settings.perHost > 0
  <2>1. DevicesOf("HOST") # {} <=> \E c \in ToSet(configs) : c.tier = "HOST"
    BY <1>5
  <2> QED
    BY <1>3, <2>1
<1> QED
  BY <1>2, <1>6, <1>7 DEF GpuAndHostSpacesAreTheRequested, Wanted

\* In a view that is in order, the first match is the least of its places.
LEMMA FirstIsLeast ==
  ASSUME NEW view \in Seq(Nat), NEW places,
         \A j, k \in DOMAIN view : j < k => view[j] < view[k]
  PROVE  FirstIn(view, places) =
           IF ToSet(view) \cap places = {} THEN 0 ELSE Min(ToSet(view) \cap places)
<1> DEFINE at == {k \in DOMAIN view : view[k] \in places}
           S == ToSet(view) \cap places
<1>1. /\ DOMAIN view = 1 .. Len(view) /\ Len(view) \in Nat
      /\ \A k \in DOMAIN view : view[k] \in Nat
  OBVIOUS
<1>2. S = {view[k] : k \in at}
  BY DEF ToSet
<1>3. FirstIn(view, places) = IF at = {} THEN 0 ELSE view[Min(at)]
  BY DEF FirstIn
<1>4. IsFiniteSet(at) /\ at \subseteq Int
  <2>1. IsFiniteSet(1 .. Len(view))
    BY <1>1, FS_Interval
  <2> QED
    BY <1>1, <2>1, FS_Subset
<1> HIDE DEF S
<1>5. ASSUME at # {}
      PROVE  view[Min(at)] = Min(S)
  <2> DEFINE m == Min(at)
  <2>1. m \in at /\ \A k \in at : m <= k
    <3> HIDE DEF at
    <3> QED
      BY <1>4, <1>5, MinIsIn
  <2> HIDE DEF m
  <2>2. ASSUME NEW k \in at
        PROVE  view[m] <= view[k]
    <3>1. m = k \/ m < k
      BY <1>1, <2>1
    <3> QED
      BY <1>1, <2>1, <3>1
  <2>3. view[m] \in S /\ S \subseteq Nat /\ \A x \in S : view[m] <= x
    BY <1>1, <1>2, <2>1, <2>2
  <2>4. Min(S) \in S /\ \A x \in S : Min(S) <= x
    BY <2>3 DEF Min
  <2>5. Min(S) = view[m]
    <3>1. Min(S) <= view[m] /\ view[m] <= Min(S) /\ Min(S) \in Nat /\ view[m] \in Nat
      BY <2>3, <2>4
    <3> QED
      BY <3>1
  <2> QED
    BY <2>5 DEF m
<1>6. at = {} <=> S = {}
  BY <1>2
<1> QED
  BY <1>3, <1>5, <1>6 DEF S

LEMMA RequestsSeeWhatLookupsSee == DeploymentInv => LookupsAndRequestsAgree
<1> SUFFICES ASSUME DeploymentInv, stage = "up"
             PROVE  LookupsAndRequestsAgree
  BY DEF LookupsAndRequestsAgree
<1> DEFINE n == Len(spaces)
<1>1. /\ spaces \in Seq(Tiers \X Devices) /\ n \in Nat /\ DOMAIN spaces = 1 .. n
      /\ \A i \in 1 .. n : spaces[i] \in Tiers \X Devices
      /\ all = [i \in 1 .. n |-> i] /\ \A tier \in Tiers : TierLists(tier, n)
  BY DEF DeploymentInv, ViewsInv
<1> HIDE DEF n
<1>2. /\ all \in Seq(Nat) /\ DOMAIN all = 1 .. n /\ ToSet(all) = 1 .. n
      /\ \A j, k \in DOMAIN all : j < k => all[j] < all[k]
  BY <1>1 DEF ToSet
<1>3. ASSUME NEW tier \in Tiers
      PROVE  /\ tiers[tier] \in Seq(Nat) /\ ToSet(tiers[tier]) = InTiers({tier})
             /\ \A j, k \in DOMAIN tiers[tier] : j < k => tiers[tier][j] < tiers[tier][k]
  <2>1. tiers[tier] \in Seq(1 .. n)
    BY <1>1 DEF TierLists
  <2> QED
    BY <1>1, <2>1 DEF TierLists, InTiers
<1>4. ASSUME NEW tier \in Tiers, NEW d \in 0 .. MaxGpus
      PROVE  /\ GetMemorySpace(tier, d) = FirstAsked(WithId(<<tier, d>>))
             /\ GetMemorySpace(tier, d) = FirstAsked(Preferred(tier, d))
  <2> DEFINE found == InTiers({tier}) \cap {i \in DOMAIN spaces : spaces[i][2] = d}
  <2>1. GetMemorySpace(tier, d) = IF found = {} THEN 0 ELSE Min(found)
    BY <1>3, FirstIsLeast DEF GetMemorySpace
  <2>2. FirstAsked(WithId(<<tier, d>>)) =
          IF ToSet(all) \cap WithId(<<tier, d>>) = {} THEN 0
          ELSE Min(ToSet(all) \cap WithId(<<tier, d>>))
    BY <1>2, FirstIsLeast DEF FirstAsked
  <2>3. FirstAsked(Preferred(tier, d)) =
          IF ToSet(all) \cap Preferred(tier, d) = {} THEN 0
          ELSE Min(ToSet(all) \cap Preferred(tier, d))
    BY <1>2, FirstIsLeast DEF FirstAsked
  <2>4. ToSet(all) \cap WithId(<<tier, d>>) = found
    BY <1>1, <1>2 DEF WithId, InTiers
  <2>5. ToSet(all) \cap Preferred(tier, d) = found
    <3>1. ~(d < 0)
      BY TopologyAssumption
    <3> QED
      BY <1>1, <1>2, <3>1 DEF Preferred, InTiers
  <2> HIDE DEF found
  <2> QED
    BY <2>1, <2>2, <2>3, <2>4, <2>5
<1>5. \A tier \in Tiers : ToSet(tiers[tier]) = ToSet(all) \cap InTiers({tier})
  BY <1>1, <1>2, <1>3 DEF InTiers
<1>6. ToSet(tiers["GPU"]) = ToSet(all) \ ToUpgrade /\ ToSet(tiers["GPU"]) = ToSet(all) \cap ToDowngrade
  BY <1>1, <1>2, <1>3 DEF InTiers, ToUpgrade, ToDowngrade, Tiers
<1> QED
  BY <1>4, <1>5, <1>6 DEF LookupsAndRequestsAgree

LEMMA ViewsPointToSpaces == DeploymentInv => NoDanglingView
<1> SUFFICES ASSUME ViewsInv PROVE NoDanglingView
  BY DEF DeploymentInv
<1> DEFINE n == Len(spaces)
<1>1. spaces \in Seq(Tiers \X Devices) /\ n \in Nat /\ DOMAIN spaces = 1 .. n
      /\ \A i \in 1 .. n : spaces[i][1] \in Tiers
  <2>1. spaces \in Seq(Tiers \X Devices)
    BY DEF ViewsInv
  <2>2. n \in Nat /\ DOMAIN spaces = 1 .. n /\ \A i \in 1 .. n : spaces[i] \in Tiers \X Devices
    BY <2>1
  <2> QED
    BY <2>1, <2>2
<1>2. ToSet(<<>>) = {}
  BY DEF ToSet
<1>3. /\ ToSet(all) \subseteq 1 .. n
      /\ stage = "up" => ToSet(all) = 1 .. n
  <2>1. CASE stage \in {"filing", "up"}
    <3>1. Len(all) \in 0 .. n /\ all = [i \in 1 .. Len(all) |-> i] /\ (stage = "up" => Len(all) = n)
      BY <2>1 DEF ViewsInv
    <3> DEFINE l == Len(all)
    <3> HIDE DEF l
    <3>2. l \in 0 .. n /\ all = [i \in 1 .. l |-> i] /\ (stage = "up" => l = n)
      BY <3>1 DEF l
    <3>3. ToSet(all) = 1 .. l
      BY <3>2 DEF ToSet
    <3> HIDE DEF n
    <3> QED
      BY <1>1, <3>2, <3>3
  <2>2. CASE stage \notin {"filing", "up"}
    BY <1>2, <2>2 DEF ViewsInv
  <2> QED
    BY <2>1, <2>2
<1>4. ASSUME NEW tier \in Tiers
      PROVE  /\ ToSet(tiers[tier]) \subseteq 1 .. n
             /\ stage = "up" => ToSet(tiers[tier]) = {i \in 1 .. n : spaces[i][1] = tier}
  <2>1. CASE stage \in {"filing", "up", "all cleared"}
    <3>1. \E l \in 0 .. n : TierLists(tier, l) /\ (stage = "up" => l = n)
      <4>1. CASE stage \in {"filing", "up"}
        <5>1. Len(all) \in 0 .. n /\ TierLists(tier, Len(all)) /\ (stage = "up" => Len(all) = n)
          BY <4>1 DEF ViewsInv
        <5> QED
          BY <5>1
      <4>2. CASE stage = "all cleared"
        <5>1. TierLists(tier, n)
          BY <4>2 DEF ViewsInv
        <5> HIDE DEF n
        <5>2. n \in 0 .. n
          BY <1>1
        <5>3. stage # "up"
          BY <4>2
        <5> QED
          BY <5>1, <5>2, <5>3
      <4> QED
        BY <2>1, <4>1, <4>2
    <3>2. PICK l \in 0 .. n : TierLists(tier, l) /\ (stage = "up" => l = n)
      BY <3>1
    <3> HIDE DEF n
    <3> QED
      BY <1>1, <3>2 DEF TierLists
  <2>2. CASE stage \notin {"filing", "up", "all cleared"}
    BY <1>2, <2>2 DEF ViewsInv
  <2> QED
    BY <2>1, <2>2
<1>5. stage = "up" => UNION {ToSet(tiers[tier]) : tier \in Tiers} = 1 .. n
  <2> HIDE DEF n
  <2> QED
    BY <1>1, <1>4
<1> QED
  BY <1>1, <1>3, <1>4, <1>5 DEF NoDanglingView

-----------------------------------------------------------------------------

LEMMA DeploymentInvariance == DeploymentSpec => []DeploymentInv
<1>1. DeploymentInit => DeploymentInv
  BY DeploymentStarts
<1>2. DeploymentInv /\ [DeploymentNext]_deploymentVars => DeploymentInv'
  BY DeploymentPreserved
<1> QED
  BY <1>1, <1>2, PTL DEF DeploymentSpec

\* A GPU is given the NUMA node and the CPUs of its own board or none, whatever
\* the order in which HIP and drm number devices and whichever files are missing.
THEOREM NodesAreOwn == DeploymentSpec => []NumaIsItsOwn
<1>1. DeploymentInv => NumaIsItsOwn
  BY NodesAreTheirOwn DEF DeploymentInv
<1> QED
  BY <1>1, DeploymentInvariance, PTL

\* Two GPUs agree about the link between them, and XGMI is said only on one node.
THEOREM LinksAgree == DeploymentSpec => []LinksAreMutual
<1>1. DeploymentInv => LinksAreMutual
  BY LinksGoBothWays DEF DeploymentInv
<1> QED
  BY <1>1, DeploymentInvariance, PTL

\* The manager has a GPU space for each device that the settings name or, when they
\* name none, that discovery had found in the topology build was given, and for no
\* other; a host space if it has a capacity (configurator 50-88, manager 81-96).
THEOREM SpacesAreAsAsked == DeploymentSpec => []GpuAndHostSpacesAreTheRequested
<1>1. DeploymentInv => GpuAndHostSpacesAreTheRequested
  BY RequestedAreTheSpaces
<1> QED
  BY <1>1, DeploymentInvariance, PTL

\* The space that a lookup finds in the view of its tier is the first that a request
\* for its id comes to in the view of all, however many spaces have that id, and the
\* views are filled from the same spaces (lines 35-73, 97-112, 138-166).
THEOREM LookupsMatchRequests == DeploymentSpec => []LookupsAndRequestsAgree
<1>1. DeploymentInv => LookupsAndRequestsAgree
  BY RequestsSeeWhatLookupsSee
<1> QED
  BY <1>1, DeploymentInvariance, PTL

\* At no step of the constructor or of shutdown does a view hold a pointer to a space
\* that is gone, and between them none is missing (lines 97-102, 189-194).
THEOREM ViewsNeverDangle == DeploymentSpec => []NoDanglingView
<1>1. DeploymentInv => NoDanglingView
  BY ViewsPointToSpaces
<1> QED
  BY <1>1, DeploymentInvariance, PTL
=============================================================================
