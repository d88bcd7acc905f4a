---------------------------- MODULE TransferProofs ----------------------------
(***************************************************************************)
(* Theorems about the two things a transfer to disk borrows: StreamPool,   *)
(* for every set of wrappers and every initial size of the pool, and       *)
(* DiskLimiter, for every finite set of users and every limit, whose two   *)
(* loops lose no slot and invent none.                                     *)
(***************************************************************************)
EXTENDS StreamPool, DiskLimiter, FiniteSetTheorems, TLAPS

-----------------------------------------------------------------------------
(* The vectors *)

\* Appending adds one entry at the end and keeps the others.
LEMMA Appended ==
  ASSUME NEW s \in Seq(BOOLEAN), NEW b \in BOOLEAN
  PROVE  /\ Append(s, b) \in Seq(BOOLEAN)
         /\ Len(s) \in Nat
         /\ Len(Append(s, b)) = Len(s) + 1
         /\ DOMAIN s = 1 .. Len(s)
         /\ DOMAIN Append(s, b) = 1 .. Len(s) + 1
         /\ \A i \in 1 .. Len(s) : Append(s, b)[i] = s[i]
         /\ Append(s, b)[Len(s) + 1] = b
  OBVIOUS

\* Marking a stream keeps the length and the other entries.
LEMMA Marked ==
  ASSUME NEW s \in Seq(BOOLEAN), NEW i \in 1 .. Len(s), NEW b \in BOOLEAN
  PROVE  /\ [s EXCEPT ![i] = b] \in Seq(BOOLEAN)
         /\ Len([s EXCEPT ![i] = b]) = Len(s)
         /\ DOMAIN [s EXCEPT ![i] = b] = 1 .. Len(s)
         /\ \A j \in 1 .. Len(s) :
              [s EXCEPT ![i] = b][j] = IF j = i THEN b ELSE s[j]
  OBVIOUS

\* Giving back an index of the pool marks that stream free.
LEMMA GivenBack ==
  ASSUME TypeOK, NEW w \in Wrappers, holds[w] # Nothing
  PROVE  /\ holds[w] \in 1 .. Len(free)
         /\ Returned(holds[w]) = [free EXCEPT ![holds[w]] = TRUE]
<1>1. holds[w] \in 1 .. Len(free)
  BY DEF TypeOK, Nothing
<1>2. DOMAIN free = 1 .. Len(free)
  BY DEF TypeOK
<1> QED
  BY <1>1, <1>2 DEF Returned

-----------------------------------------------------------------------------
(* The invariant: each of its three parts needs the others to be kept.     *)

LendingInv == TypeOK /\ LentOnce /\ BusyIsHeld

LEMMA LendingInit == Init => LendingInv
<1> SUFFICES ASSUME Init PROVE LendingInv
  OBVIOUS
<1>1. /\ <<>> \in Seq(BOOLEAN)
      /\ Len(<<>>) = 0
      /\ DOMAIN <<>> = {}
  OBVIOUS
<1> QED
  BY <1>1, StreamPoolAssumption
     DEF Init, LendingInv, TypeOK, LentOnce, BusyIsHeld, Nothing

LEMMA LendingStep == LendingInv /\ [Next]_vars => LendingInv'
<1> SUFFICES ASSUME LendingInv, [Next]_vars
             PROVE  LendingInv'
  OBVIOUS
<1> USE StreamPoolAssumption DEF LendingInv, Nothing
<1>0. /\ free \in Seq(BOOLEAN) /\ streams \in Seq(BOOLEAN)
      /\ Len(free) = Len(streams) /\ Len(free) \in Nat
      /\ DOMAIN free = 1 .. Len(free)
      /\ holds \in [Wrappers -> 0 .. Len(free)]
      /\ tried \in 0 .. PoolSize
  BY DEF TypeOK
<1>1. CASE UNCHANGED vars
  BY <1>1 DEF vars, TypeOK, LentOnce, BusyIsHeld
<1>2. CASE Create
  <2>1. HighPriority(tried) \in BOOLEAN
    BY DEF HighPriority
  <2>2. TypeOK'
    BY <1>0, <1>2, <2>1, Appended DEF Create, Ready, TypeOK
  <2>3. LentOnce'
    BY <1>2 DEF Create, LentOnce
  <2>4. BusyIsHeld'
    <3> SUFFICES ASSUME NEW i \in 1 .. Len(free) + 1
                 PROVE  ~Append(free, TRUE)[i] <=> \E w \in Wrappers : holds[w] = i
      BY <1>0, <1>2, Appended DEF Create, BusyIsHeld
    <3>1. CASE i \in 1 .. Len(free)
      BY <1>0, <3>1, Appended DEF BusyIsHeld
    <3>2. CASE i = Len(free) + 1
      BY <1>0, <3>2, Appended
    <3> QED
      BY <1>0, <3>1, <3>2
  <2> QED
    BY <2>2, <2>3, <2>4
<1>3. CASE CreateFails
  BY <1>0, <1>3 DEF CreateFails, Ready, TypeOK, LentOnce, BusyIsHeld
<1>4. ASSUME NEW w \in Wrappers, Borrow(w)
      PROVE  LendingInv'
  <2>1. PICK i \in FreeStreams : /\ free' = [free EXCEPT ![i] = FALSE]
                                 /\ holds' = [holds EXCEPT ![w] = i]
    BY <1>4 DEF Borrow
  <2>2. i \in 1 .. Len(free) /\ free[i]
    BY <1>0, <2>1 DEF FreeStreams
  <2>3. \A v \in Wrappers : holds[v] # i
    BY <1>0, <2>2 DEF BusyIsHeld
  <2>4. TypeOK'
    BY <1>0, <1>4, <2>1, <2>2, Marked DEF Borrow, TypeOK
  <2>5. LentOnce'
    BY <1>0, <2>1, <2>3 DEF LentOnce
  <2>6. BusyIsHeld'
    <3> SUFFICES ASSUME NEW j \in 1 .. Len(free)
                 PROVE  ~free'[j] <=> \E v \in Wrappers : holds'[v] = j
      BY <1>0, <2>1, <2>2, Marked DEF BusyIsHeld
    <3>1. free'[j] = IF j = i THEN FALSE ELSE free[j]
      BY <1>0, <2>1, <2>2, Marked
    <3>2. holds[w] = 0
      BY <1>4 DEF Borrow
    <3>3. ~free[j] <=> \E v \in Wrappers : holds[v] = j
      BY <1>0 DEF BusyIsHeld
    <3> QED
      BY <1>0, <2>1, <2>2, <2>3, <3>1, <3>2, <3>3
  <2> QED
    BY <2>4, <2>5, <2>6
<1>5. ASSUME NEW w \in Wrappers, Grow(w)
      PROVE  LendingInv'
  <2>1. HighPriority(Len(streams)) \in BOOLEAN
    BY DEF HighPriority
  <2>2. TypeOK'
    BY <1>0, <1>5, <2>1, Appended DEF Grow, TypeOK
  <2>3. LentOnce'
    BY <1>0, <1>5 DEF Grow, LentOnce
  <2>4. BusyIsHeld'
    <3> SUFFICES ASSUME NEW j \in 1 .. Len(free) + 1
                 PROVE  ~Append(free, FALSE)[j] <=> \E v \in Wrappers : holds'[v] = j
      BY <1>0, <1>5, Appended DEF Grow, BusyIsHeld
    <3>0. /\ holds' = [holds EXCEPT ![w] = Len(free) + 1]
          /\ holds[w] = 0
      BY <1>0, <1>5 DEF Grow
    <3>1. CASE j \in 1 .. Len(free)
      <4>1. Append(free, FALSE)[j] = free[j]
        BY <1>0, <3>1, Appended
      <4>2. ~free[j] <=> \E v \in Wrappers : holds[v] = j
        BY <1>0, <3>1 DEF BusyIsHeld
      <4> QED
        BY <1>0, <3>0, <3>1, <4>1, <4>2
    <3>2. CASE j = Len(free) + 1
      BY <1>0, <3>0, <3>2, Appended
    <3> QED
      BY <1>0, <3>1, <3>2
  <2> QED
    BY <2>2, <2>3, <2>4
<1>6. ASSUME NEW w \in Wrappers, Release(w)
      PROVE  LendingInv'
  <2>1. /\ holds[w] \in 1 .. Len(free)
        /\ free' = [free EXCEPT ![holds[w]] = TRUE]
        /\ holds' = [holds EXCEPT ![w] = 0]
    BY <1>6, GivenBack DEF Release
  <2>2. TypeOK'
    BY <1>0, <1>6, <2>1, Marked DEF Release, TypeOK
  <2>3. LentOnce'
    BY <1>0, <2>1 DEF LentOnce
  <2>4. BusyIsHeld'
    <3> SUFFICES ASSUME NEW j \in 1 .. Len(free)
                 PROVE  ~free'[j] <=> \E v \in Wrappers : holds'[v] = j
      BY <1>0, <2>1, Marked DEF BusyIsHeld
    <3>1. free'[j] = IF j = holds[w] THEN TRUE ELSE free[j]
      BY <1>0, <2>1, Marked
    <3>2. ~free[j] <=> \E v \in Wrappers : holds[v] = j
      BY <1>0 DEF BusyIsHeld
    <3> QED
      BY <1>0, <2>1, <3>1, <3>2 DEF LentOnce
  <2> QED
    BY <2>2, <2>3, <2>4
<1>7. ASSUME NEW w \in Wrappers, NEW v \in Wrappers, Move(w, v)
      PROVE  LendingInv'
  <2>1. /\ holds[w] = 0 /\ w # v
        /\ holds' = [holds EXCEPT ![w] = holds[v], ![v] = 0]
        /\ UNCHANGED <<tried, streams, free>>
    BY <1>7 DEF Move
  <2>2. \A u \in Wrappers :
          holds'[u] = IF u = v THEN 0 ELSE IF u = w THEN holds[v] ELSE holds[u]
    BY <1>0, <2>1
  <2> QED
    BY <1>0, <2>1, <2>2 DEF TypeOK, LentOnce, BusyIsHeld
<1>8. ASSUME NEW w \in Wrappers, NEW v \in Wrappers, Assign(w, v)
      PROVE  LendingInv'
  <2>1. /\ w # v /\ holds[w] # 0
        /\ holds[w] \in 1 .. Len(free)
        /\ free' = [free EXCEPT ![holds[w]] = TRUE]
        /\ holds' = [holds EXCEPT ![w] = holds[v], ![v] = 0]
        /\ UNCHANGED <<tried, streams>>
    BY <1>8, GivenBack DEF Assign
  <2>2. \A u \in Wrappers :
          holds'[u] = IF u = v THEN 0 ELSE IF u = w THEN holds[v] ELSE holds[u]
    BY <1>0, <2>1
  <2>3. TypeOK'
    BY <1>0, <2>1, Marked DEF TypeOK
  <2>4. LentOnce'
    BY <1>0, <2>1, <2>2 DEF LentOnce
  <2>5. BusyIsHeld'
    <3> SUFFICES ASSUME NEW j \in 1 .. Len(free)
                 PROVE  ~free'[j] <=> \E u \in Wrappers : holds'[u] = j
      BY <1>0, <2>1, Marked DEF BusyIsHeld
    <3>1. free'[j] = IF j = holds[w] THEN TRUE ELSE free[j]
      BY <1>0, <2>1, Marked
    <3>2. ~free[j] <=> \E u \in Wrappers : holds[u] = j
      BY <1>0 DEF BusyIsHeld
    <3> QED
      BY <1>0, <2>1, <2>2, <3>1, <3>2 DEF LentOnce
  <2> QED
    BY <2>3, <2>4, <2>5
<1> QED
  BY <1>1, <1>2, <1>3, <1>4, <1>5, <1>6, <1>7, <1>8 DEF Next

LEMMA Lending == Spec => []LendingInv
  BY LendingInit, LendingStep, PTL DEF Spec

\* The two vectors stay parallel and every index held is one of the pool's.
THEOREM TypeCorrect == Spec => []TypeOK
<1>1. LendingInv => TypeOK
  BY DEF LendingInv
<1> QED
  BY Lending, <1>1, PTL

\* A stream is never lent to two wrappers (borrowed_stream's moves).
THEOREM NeverLentTwice == Spec => []LentOnce
<1>1. LendingInv => LentOnce
  BY DEF LendingInv
<1> QED
  BY Lending, <1>1, PTL

\* A stream is marked busy exactly while it is held: none is lost.
THEOREM BusyMeansHeld == Spec => []BusyIsHeld
<1>1. LendingInv => BusyIsHeld
  BY DEF LendingInv
<1> QED
  BY Lending, <1>1, PTL

-----------------------------------------------------------------------------
(* Growth.  While the constructor runs it has created at most one stream a *)
(* try; afterwards a stream is added only when every stream is held, and   *)
(* the wrapper it is for held none.                                        *)

GrowthInv ==
  /\ ~Ready => Len(streams) <= tried
  /\ GrowsOnDemandOnly

\* When every stream is busy there are as many wrappers as streams.
LEMMA AllBusyBound ==
  ASSUME LendingInv, FreeStreams = {}
  PROVE  Len(streams) <= Cardinality(Wrappers)
<1> DEFINE holder == [i \in 1 .. Len(streams) |-> CHOOSE w \in Wrappers : holds[w] = i]
<1>1. /\ Len(streams) \in Nat
      /\ DOMAIN free = 1 .. Len(streams)
  BY DEF LendingInv, TypeOK
<1>2. \A i \in 1 .. Len(streams) : \E w \in Wrappers : holds[w] = i
  BY <1>1 DEF LendingInv, BusyIsHeld, FreeStreams
<1>3. \A i \in 1 .. Len(streams) : holder[i] \in Wrappers /\ holds[holder[i]] = i
  BY <1>2
<1>4. holder \in Injection(1 .. Len(streams), Wrappers)
  BY <1>3 DEF Injection, IsInjective
<1>5. Cardinality(1 .. Len(streams)) <= Cardinality(Wrappers)
  BY <1>4, FS_Injection, StreamPoolAssumption
<1>6. Cardinality(1 .. Len(streams)) = Len(streams)
  BY <1>1, FS_Interval
<1> QED
  BY <1>5, <1>6

\* A stream grown is held at once, so every stream is still busy after it.
LEMMA GrownIsBusy ==
  ASSUME LendingInv, NEW w \in Wrappers, Grow(w)
  PROVE  FreeStreams' = {}
<1>1. free \in Seq(BOOLEAN)
  BY DEF LendingInv, TypeOK
<1>2. \A i \in 1 .. Len(free) : ~free[i]
  BY <1>1, Appended DEF Grow, FreeStreams
<1> QED
  BY <1>1, <1>2, Appended DEF Grow, FreeStreams

LEMMA GrowthInit == Init => GrowthInv
<1>1. Len(<<>>) = 0
  OBVIOUS
<1> QED
  BY <1>1, StreamPoolAssumption DEF Init, GrowthInv, GrowsOnDemandOnly

LEMMA AllBusyBoundNext ==
  (LendingInv /\ FreeStreams = {})' => (Len(streams) <= Cardinality(Wrappers))'
<1>1. LendingInv /\ FreeStreams = {} => Len(streams) <= Cardinality(Wrappers)
  BY AllBusyBound
<1> QED
  BY <1>1, PTL

LEMMA GrowthStep == LendingInv /\ LendingInv' /\ GrowthInv /\ [Next]_vars => GrowthInv'
<1> SUFFICES ASSUME LendingInv, LendingInv', GrowthInv, [Next]_vars
             PROVE  GrowthInv'
  OBVIOUS
<1> USE StreamPoolAssumption DEF GrowthInv, GrowsOnDemandOnly, Ready
<1>0. /\ free \in Seq(BOOLEAN) /\ streams \in Seq(BOOLEAN)
      /\ Len(streams) \in Nat
      /\ tried \in 0 .. PoolSize
  BY DEF LendingInv, TypeOK
<1>1. CASE UNCHANGED vars
  BY <1>1 DEF vars
<1>2. CASE Create
  <2>1. HighPriority(tried) \in BOOLEAN
    BY DEF HighPriority
  <2> QED
    BY <1>0, <1>2, <2>1, Appended DEF Create
<1>3. CASE CreateFails
  BY <1>0, <1>3 DEF CreateFails
<1>4. ASSUME NEW w \in Wrappers, Borrow(w) \/ Release(w)
      PROVE  GrowthInv'
  BY <1>4 DEF Borrow, Release
<1>5. ASSUME NEW w \in Wrappers, Grow(w)
      PROVE  GrowthInv'
  <2>1. (Len(streams) <= Cardinality(Wrappers))'
    BY <1>5, GrownIsBusy, AllBusyBoundNext
  <2> QED
    BY <1>5, <2>1 DEF Grow
<1>6. ASSUME NEW w \in Wrappers, NEW v \in Wrappers, Move(w, v) \/ Assign(w, v)
      PROVE  GrowthInv'
  BY <1>6 DEF Move, Assign
<1> QED
  BY <1>1, <1>2, <1>3, <1>4, <1>5, <1>6 DEF Next

\* The pool grows on demand only: beyond its first streams it never has more
\* than there are wrappers to hold them.
THEOREM GrowthBounded == Spec => []GrowsOnDemandOnly
<1>1. GrowthInv => GrowsOnDemandOnly
  BY DEF GrowthInv
<1> QED
  BY Lending, GrowthInit, GrowthStep, <1>1, PTL DEF Spec


-----------------------------------------------------------------------------
(* The disk access limiter: its invariant *)

\* Users whose slot the counter may still stand for.
Busy == slots \cup Leaving

\* Those of them that will take one off the counter: a release that has loaded
\* zero takes nothing off.
Sure == {u \in Busy : at[u] = "release" => saw[u] > 0}

\* The counter covers at most the users that will take theirs off again.  It is
\* this that keeps an honest release from finding a zero that is not its own.
Covered == current <= Cardinality(Sure)

\* CountIsSlots in terms of Busy: what the counter lacks, stray releases took off,
\* and those of them that are still on their way have not yet.
Missing == Cardinality(Busy) + Cardinality(stray) <= current + strays

LimiterInv == LimiterTypeOK /\ Covered /\ Missing

\* The sets are finite, and their sizes are numbers.
LEMMA FiniteBusy ==
  ASSUME LimiterTypeOK
  PROVE  /\ IsFiniteSet(Busy) /\ Cardinality(Busy) \in Nat
         /\ IsFiniteSet(Sure) /\ Cardinality(Sure) \in Nat
         /\ Cardinality(Sure) <= Cardinality(Busy)
         /\ Cardinality(Sure) = Cardinality(Busy) => Sure = Busy
         /\ IsFiniteSet(stray) /\ Cardinality(stray) \in Nat
         /\ current \in Nat /\ strays \in Nat
<1>1. Busy \in SUBSET Users /\ Sure \in SUBSET Busy /\ IsFiniteSet(Users)
  BY DiskLimiterAssumption DEF LimiterTypeOK, Busy, Sure, Leaving
<1>2. IsFiniteSet(Busy)
  BY <1>1, FS_Subset
<1>3. /\ IsFiniteSet(Sure)
      /\ Cardinality(Sure) <= Cardinality(Busy)
      /\ Cardinality(Busy) = Cardinality(Sure) => Busy = Sure
  BY <1>1, <1>2, FS_Subset
<1>4. Cardinality(Busy) \in Nat /\ Cardinality(Sure) \in Nat
  BY <1>2, <1>3, FS_CardinalityType
<1>5. current \in Nat /\ strays \in Nat
  BY DiskLimiterAssumption DEF LimiterTypeOK
<1>6. IsFiniteSet(stray) /\ Cardinality(stray) \in Nat
  <2>1. stray \in SUBSET Users /\ IsFiniteSet(Users)
    BY DiskLimiterAssumption DEF LimiterTypeOK
  <2>2. IsFiniteSet(stray)
    BY <2>1, FS_Subset
  <2> QED
    BY <2>2, FS_CardinalityType
<1> QED
  BY <1>2, <1>3, <1>4, <1>5, <1>6

\* Who has a slot is in no loop, so the two kinds of busy users are distinct.
LEMMA BusyIsTheSum ==
  ASSUME LimiterTypeOK
  PROVE  Cardinality(Busy) = Cardinality(slots) + Cardinality(Leaving)
<1>1. /\ slots \in SUBSET Users /\ Leaving \in SUBSET Users /\ IsFiniteSet(Users)
      /\ slots \cap Leaving = {}
  BY DiskLimiterAssumption DEF LimiterTypeOK, Leaving
<1>2. IsFiniteSet(slots) /\ IsFiniteSet(Leaving)
  BY <1>1, FS_Subset
<1>3. Cardinality(slots \cup Leaving)
        = Cardinality(slots) + Cardinality(Leaving) - Cardinality(slots \cap Leaving)
  BY <1>2, FS_Union
<1>4. Cardinality(slots \cap Leaving) = 0
  BY <1>1, FS_EmptySet
<1>5. Cardinality(slots) \in Nat /\ Cardinality(Leaving) \in Nat
  BY <1>2, FS_CardinalityType
<1> QED
  BY <1>3, <1>4, <1>5 DEF Busy

LEMMA LimiterInvInit == LimiterInit => LimiterInv
<1> SUFFICES ASSUME LimiterInit PROVE LimiterInv
  OBVIOUS
<1>1. LimiterTypeOK
  <2>1. 0 \in 0 .. MaxConcurrent /\ 0 \in 0 .. MaxStrays
    BY DiskLimiterAssumption
  <2>2. saw \in [Users -> 0 .. MaxConcurrent]
    BY <2>1 DEF LimiterInit
  <2>3. at \in [Users -> {"away", "acquire", "release"}]
    BY DEF LimiterInit
  <2> QED
    BY <2>1, <2>2, <2>3 DEF LimiterInit, LimiterTypeOK
<1>2. Busy = {} /\ Sure = {} /\ stray = {}
  BY DEF LimiterInit, Busy, Sure, Leaving
<1>3. Cardinality(Busy) = 0 /\ Cardinality(Sure) = 0 /\ Cardinality(stray) = 0
  BY <1>2, FS_EmptySet
<1> QED
  BY <1>1, <1>3 DEF LimiterInit, LimiterInv, Covered, Missing

-----------------------------------------------------------------------------
(* The steps *)

\* A step that changes none of the sets, and the counter neither.
LEMMA NothingMoves ==
  ASSUME LimiterInv, UNCHANGED <<current, stray, strays>>, LimiterTypeOK',
         Busy' = Busy, Sure' = Sure
  PROVE  LimiterInv'
  BY DEF LimiterInv, Covered, Missing

\* Every step keeps the types.
LEMMA LimiterTypeStep ==
  ASSUME LimiterTypeOK, LimiterNext
  PROVE  LimiterTypeOK'
<1>1. PICK u \in Users : StartAcquire(u) \/ StartRelease(u) \/ LimiterStep(u)
  BY DEF LimiterNext
<1>2. MaxConcurrent \in Nat /\ MaxStrays \in Nat
  BY DiskLimiterAssumption
<1>3. CASE StartAcquire(u)
  BY <1>2, <1>3 DEF LimiterTypeOK, StartAcquire, Load
<1>4. CASE StartRelease(u)
  BY <1>2, <1>4 DEF LimiterTypeOK, StartRelease, Load
<1>5. CASE TurnAway(u)
  BY <1>2, <1>5 DEF LimiterTypeOK, TurnAway, Done
<1>6. CASE Take(u)
  BY <1>2, <1>6 DEF LimiterTypeOK, Take, Done
<1>7. CASE TakeRetry(u) \/ GiveBackRetry(u)
  BY <1>2, <1>7 DEF LimiterTypeOK, TakeRetry, GiveBackRetry, LoseRace
<1>8. CASE GiveBack(u)
  BY <1>2, <1>8 DEF LimiterTypeOK, GiveBack, Done
<1>9. CASE GiveBackNothing(u)
  BY <1>2, <1>9 DEF LimiterTypeOK, GiveBackNothing, Done
<1> QED
  BY <1>1, <1>3, <1>4, <1>5, <1>6, <1>7, <1>8, <1>9 DEF LimiterStep

\* try_acquire: the load, the refusal and a lost race leave all as it was.
LEMMA AcquireWaits ==
  ASSUME LimiterInv, LimiterTypeOK', NEW u \in Users,
         StartAcquire(u) \/ TurnAway(u) \/ TakeRetry(u)
  PROVE  LimiterInv'
<1>1. /\ UNCHANGED <<current, slots, stray, strays>>
      /\ \A v \in Users : at'[v] = "release" <=> at[v] = "release"
      /\ \A v \in Users : at[v] = "release" => saw'[v] = saw[v]
  BY DEF LimiterInv, LimiterTypeOK, StartAcquire, TurnAway, TakeRetry, LoseRace,
         Load, Done
<1>2. Leaving' = Leaving /\ slots \subseteq Users
  BY <1>1 DEF Leaving, LimiterInv, LimiterTypeOK
<1>3. Busy' = Busy /\ Busy \subseteq Users
  BY <1>1, <1>2 DEF Busy, Leaving
<1>4. Sure' = Sure
  BY <1>1, <1>3 DEF Sure
<1> QED
  BY <1>1, <1>3, <1>4, NothingMoves

\* The compare-and-swap of try_acquire adds one to the counter and one user.
LEMMA TakeKeepsInv ==
  ASSUME LimiterInv, LimiterTypeOK', NEW u \in Users, Take(u)
  PROVE  LimiterInv'
<1>1. /\ at[u] = "acquire" /\ current' = current + 1 /\ slots' = slots \cup {u}
      /\ at' = [at EXCEPT ![u] = "away"] /\ UNCHANGED <<saw, stray, strays>>
  BY DEF Take, Done
<1>2. u \notin Busy
  BY <1>1 DEF LimiterInv, LimiterTypeOK, Busy, Leaving
<1>3. Leaving' = Leaving
  BY <1>1 DEF Leaving, LimiterInv, LimiterTypeOK
<1>4. Busy' = Busy \cup {u} /\ Busy \subseteq Users
  BY <1>1, <1>3 DEF Busy, Leaving, LimiterInv, LimiterTypeOK
<1>5. Sure' = Sure \cup {u} /\ u \notin Sure
  <2>1. \A v \in Users : v # u => at'[v] = at[v] /\ saw'[v] = saw[v]
    BY <1>1 DEF LimiterInv, LimiterTypeOK
  <2>2. at'[u] = "away"
    BY <1>1 DEF LimiterInv, LimiterTypeOK
  <2> QED
    BY <1>2, <1>4, <2>1, <2>2 DEF Sure
<1>6. /\ IsFiniteSet(Busy) /\ Cardinality(Busy) \in Nat
      /\ IsFiniteSet(Sure) /\ Cardinality(Sure) \in Nat
      /\ IsFiniteSet(stray) /\ Cardinality(stray) \in Nat
      /\ current \in Nat /\ strays \in Nat
  BY FiniteBusy DEF LimiterInv
<1>7. Cardinality(Busy') = Cardinality(Busy) + 1
  BY <1>2, <1>4, <1>6, FS_AddElement
<1>8. Cardinality(Sure') = Cardinality(Sure) + 1
  BY <1>5, <1>6, FS_AddElement
<1>9. Covered' /\ Missing'
  BY <1>1, <1>6, <1>7, <1>8 DEF LimiterInv, Covered, Missing
<1> QED
  BY <1>9 DEF LimiterInv

\* A release that loads a count above zero leaves the sets as they were; one
\* that loads zero finds a counter that every set covers.
LEMMA ReleaseLoads ==
  ASSUME LimiterInv, LimiterTypeOK', NEW u \in Users,
         StartRelease(u) \/ GiveBackRetry(u)
  PROVE  LimiterInv'
<1>1. /\ UNCHANGED current
      /\ saw' = [saw EXCEPT ![u] = current]
      /\ \A v \in Users : v # u => at'[v] = at[v] /\ saw'[v] = saw[v]
      /\ at'[u] = "release" /\ saw'[u] = current
  BY DEF LimiterInv, LimiterTypeOK, StartRelease, GiveBackRetry, LoseRace, Load
<1>2. /\ current \in Nat /\ Cardinality(Sure) \in Nat
      /\ Cardinality(Busy) \in Nat /\ Cardinality(Sure') \in Nat
  <2>1. LimiterTypeOK
    BY DEF LimiterInv
  <2>2. Cardinality(Sure') \in Nat
    <3>1. Busy' \in SUBSET Users /\ Sure' \in SUBSET Users /\ IsFiniteSet(Users)
      BY DiskLimiterAssumption DEF LimiterTypeOK, Busy, Sure, Leaving
    <3>2. IsFiniteSet(Sure')
      BY <3>1, FS_Subset
    <3> QED
      BY <3>2, FS_CardinalityType
  <2> QED
    BY <2>1, <2>2, FiniteBusy
<1>3. Busy' = Busy /\ Busy \subseteq Users
  <2>1. CASE GiveBackRetry(u)
    BY <2>1 DEF GiveBackRetry, LoseRace, Busy, Leaving, LimiterInv, LimiterTypeOK
  <2>2. CASE StartRelease(u) /\ u \in slots
    BY <2>2 DEF StartRelease, Load, Busy, Leaving, LimiterInv, LimiterTypeOK
  <2>3. CASE StartRelease(u) /\ u \notin slots
    BY <2>3 DEF StartRelease, Load, Busy, Leaving, LimiterInv, LimiterTypeOK
  <2> QED
    BY <2>1, <2>2, <2>3
<1>4. Covered'
  <2>1. CASE current = 0
    BY <1>1, <1>2, <2>1 DEF Covered
  <2>2. CASE current > 0
    <3>1. at[u] = "release" => saw[u] > 0
      BY <2>2 DEF StartRelease, GiveBackRetry, Load
    <3>2. Sure' = Sure
      BY <1>1, <1>3, <2>2, <3>1 DEF Sure
    <3> QED
      BY <1>1, <3>2 DEF LimiterInv, Covered
  <2> QED
    BY <1>2, <2>1, <2>2
<1>5. Missing'
  <2>1. CASE GiveBackRetry(u) \/ (StartRelease(u) /\ u \in slots)
    <3>1. UNCHANGED <<stray, strays>>
      BY <2>1 DEF StartRelease, GiveBackRetry, LoseRace
    <3> QED
      BY <1>1, <1>3, <3>1 DEF LimiterInv, Missing
  <2>2. CASE StartRelease(u) /\ u \notin slots
    <3>1. strays' = strays + 1 /\ stray' = stray \cup {u} /\ u \notin stray
      BY <2>2 DEF StartRelease, Load, LimiterInv, LimiterTypeOK
    <3>2. IsFiniteSet(stray) /\ Cardinality(stray) \in Nat /\ strays \in Nat
      BY FiniteBusy DEF LimiterInv
    <3>3. Cardinality(stray') = Cardinality(stray) + 1
      BY <3>1, <3>2, FS_AddElement
    <3> QED
      BY <1>1, <1>2, <1>3, <3>1, <3>2, <3>3 DEF LimiterInv, Missing
  <2> QED
    BY <2>1, <2>2
<1> QED
  BY <1>4, <1>5 DEF LimiterInv

\* A user that leaves release is off one of the two lists.
LEMMA OneReleaseLess ==
  ASSUME LimiterInv, NEW u \in Users, at[u] = "release",
         Busy' = Busy \ {u}, stray' = stray \ {u}
  PROVE  /\ Cardinality(Busy') + Cardinality(stray') = Cardinality(Busy) + Cardinality(stray) - 1
         /\ Cardinality(Busy') \in Int /\ Cardinality(stray') \in Int
<1>1. /\ IsFiniteSet(Busy) /\ Cardinality(Busy) \in Nat
      /\ IsFiniteSet(stray) /\ Cardinality(stray) \in Nat
  BY FiniteBusy DEF LimiterInv
<1>2. u \in Busy <=> u \notin stray
  BY DEF Busy, Leaving, LimiterInv, LimiterTypeOK
<1>3. Cardinality(Busy') = IF u \in Busy THEN Cardinality(Busy) - 1 ELSE Cardinality(Busy)
  BY <1>1, FS_RemoveElement
<1>4. Cardinality(stray') = IF u \in stray THEN Cardinality(stray) - 1 ELSE Cardinality(stray)
  BY <1>1, FS_RemoveElement
<1> QED
  BY <1>1, <1>2, <1>3, <1>4

\* The compare-and-swap of release takes one off and, if the release is of a
\* slot the user had, the user with it.
LEMMA GiveBackKeepsInv ==
  ASSUME LimiterInv, LimiterTypeOK', NEW u \in Users, GiveBack(u)
  PROVE  LimiterInv'
<1>1. /\ at[u] = "release" /\ saw[u] > 0 /\ saw[u] = current
      /\ current' = current - 1
      /\ at' = [at EXCEPT ![u] = "away"] /\ stray' = stray \ {u}
      /\ UNCHANGED <<saw, slots, strays>>
  BY DEF GiveBack, Done
<1>2. u \notin slots /\ slots \subseteq Users
  BY <1>1 DEF LimiterInv, LimiterTypeOK
<1>3. Busy' = Busy \ {u} /\ Busy \subseteq Users
  BY <1>1, <1>2 DEF Busy, Leaving, LimiterInv, LimiterTypeOK
<1>4. Sure' = Sure \ {u}
  <2>1. \A v \in Users : v # u => at'[v] = at[v] /\ saw'[v] = saw[v]
    BY <1>1 DEF LimiterInv, LimiterTypeOK
  <2> QED
    BY <1>3, <2>1 DEF Sure
<1>5. /\ IsFiniteSet(Busy) /\ Cardinality(Busy) \in Nat
      /\ IsFiniteSet(Sure) /\ Cardinality(Sure) \in Nat
      /\ IsFiniteSet(stray) /\ Cardinality(stray) \in Nat
      /\ current \in Nat /\ strays \in Nat
  BY FiniteBusy DEF LimiterInv
<1>6. Cardinality(Sure') =
        IF u \in Sure THEN Cardinality(Sure) - 1 ELSE Cardinality(Sure)
  BY <1>4, <1>5, FS_RemoveElement
<1>7. Covered'
  BY <1>1, <1>5, <1>6 DEF LimiterInv, Covered
<1>8. Missing'
  <2>1. /\ Cardinality(Busy') + Cardinality(stray') = Cardinality(Busy) + Cardinality(stray) - 1
        /\ Cardinality(Busy') \in Int /\ Cardinality(stray') \in Int
    BY <1>1, <1>3, OneReleaseLess
  <2> QED
    BY <1>1, <1>5, <2>1 DEF LimiterInv, Missing
<1> QED
  BY <1>7, <1>8 DEF LimiterInv

\* The guard of release: the counter stays, with one user less to be counted.
LEMMA GuardKeepsInv ==
  ASSUME LimiterInv, LimiterTypeOK', NEW u \in Users, GiveBackNothing(u)
  PROVE  LimiterInv'
<1>1. /\ at[u] = "release" /\ saw[u] = 0
      /\ at' = [at EXCEPT ![u] = "away"] /\ stray' = stray \ {u}
      /\ UNCHANGED <<current, saw, slots, strays>>
  BY DEF GiveBackNothing, Done
<1>2. u \notin slots /\ slots \subseteq Users
  BY <1>1 DEF LimiterInv, LimiterTypeOK
<1>3. Busy' = Busy \ {u} /\ Busy \subseteq Users
  BY <1>1, <1>2 DEF Busy, Leaving, LimiterInv, LimiterTypeOK
<1>4. Sure' = Sure /\ u \notin Sure
  <2>1. \A v \in Users : v # u => at'[v] = at[v] /\ saw'[v] = saw[v]
    BY <1>1 DEF LimiterInv, LimiterTypeOK
  <2> QED
    BY <1>1, <1>3, <2>1 DEF Sure
<1>5. Covered'
  BY <1>1, <1>4 DEF LimiterInv, Covered
<1>6. Missing'
  <2>1. /\ Cardinality(Busy) \in Nat /\ Cardinality(stray) \in Nat
        /\ current \in Nat /\ strays \in Nat
    BY FiniteBusy DEF LimiterInv
  <2>2. /\ Cardinality(Busy') + Cardinality(stray') = Cardinality(Busy) + Cardinality(stray) - 1
        /\ Cardinality(Busy') \in Int /\ Cardinality(stray') \in Int
    BY <1>1, <1>3, OneReleaseLess
  <2> QED
    BY <1>1, <2>1, <2>2 DEF LimiterInv, Missing
<1> QED
  BY <1>5, <1>6 DEF LimiterInv

LEMMA LimiterInvStep == LimiterInv /\ [LimiterNext]_limiterVars => LimiterInv'
<1> SUFFICES ASSUME LimiterInv, [LimiterNext]_limiterVars PROVE LimiterInv'
  OBVIOUS
<1>1. CASE UNCHANGED limiterVars
  <2>1. /\ UNCHANGED <<current, at, saw, slots, stray, strays>>
    BY <1>1 DEF limiterVars
  <2>2. Busy' = Busy /\ Sure' = Sure
    BY <2>1 DEF Busy, Sure, Leaving
  <2>3. LimiterTypeOK'
    BY <2>1 DEF LimiterInv, LimiterTypeOK
  <2> QED
    BY <2>1, <2>2, <2>3, NothingMoves
<1>2. CASE LimiterNext
  <2>1. LimiterTypeOK'
    BY <1>2, LimiterTypeStep DEF LimiterInv
  <2>2. PICK u \in Users : StartAcquire(u) \/ StartRelease(u) \/ LimiterStep(u)
    BY <1>2 DEF LimiterNext
  <2>3. CASE StartAcquire(u) \/ TurnAway(u) \/ TakeRetry(u)
    BY <2>1, <2>3, AcquireWaits
  <2>4. CASE Take(u)
    BY <2>1, <2>4, TakeKeepsInv
  <2>5. CASE StartRelease(u) \/ GiveBackRetry(u)
    BY <2>1, <2>5, ReleaseLoads
  <2>6. CASE GiveBack(u)
    BY <2>1, <2>6, GiveBackKeepsInv
  <2>7. CASE GiveBackNothing(u)
    BY <2>1, <2>7, GuardKeepsInv
  <2> QED
    BY <2>2, <2>3, <2>4, <2>5, <2>6, <2>7 DEF LimiterStep
<1> QED
  BY <1>1, <1>2

-----------------------------------------------------------------------------
(* The theorems *)

\* The invariant holds in every state of the limiter.
THEOREM LimiterInvariant == LimiterSpec => []LimiterInv
<1> QED
  BY LimiterInvInit, LimiterInvStep, PTL DEF LimiterSpec

\* current_ never exceeds max_ and never wraps, and a user that has a slot is in
\* neither loop (disk_access_limiter.hpp, try_acquire and release).
THEOREM LimiterTypeCorrect == LimiterSpec => []LimiterTypeOK
<1>1. LimiterInv => LimiterTypeOK
  BY DEF LimiterInv
<1> QED
  BY <1>1, LimiterInvariant, PTL

\* For any number of users and stray releases: no slot in use goes uncounted but
\* for a stray release that gave it back, whatever the races of the two loops.
THEOREM CountIsSlotsAlways == LimiterSpec => []CountIsSlots
<1>1. LimiterInv => CountIsSlots
  <2> SUFFICES ASSUME LimiterInv PROVE CountIsSlots
    OBVIOUS
  <2>1. current <= MaxConcurrent
    BY DiskLimiterAssumption DEF LimiterInv, LimiterTypeOK
  <2> QED
    BY <2>1, BusyIsTheSum DEF LimiterInv, Missing, CountIsSlots
<1> QED
  BY <1>1, LimiterInvariant, PTL

\* For any number of users and stray releases: the count never says more than
\* the slots in use, so that an idle disk can always be had.
THEOREM NeverLocksUpAlways == LimiterSpec => []NeverLocksUp
<1>1. LimiterInv => NeverLocksUp
  <2> SUFFICES ASSUME LimiterInv PROVE NeverLocksUp
    OBVIOUS
  <2>1. current <= Cardinality(Sure) /\ LimiterTypeOK
    BY DEF LimiterInv, Covered
  <2>2. /\ Cardinality(Sure) \in Nat /\ Cardinality(Busy) \in Nat /\ current \in Nat
        /\ Cardinality(Sure) <= Cardinality(Busy)
    BY <2>1, FiniteBusy
  <2>3. Cardinality(Busy) = Cardinality(slots) + Cardinality(Leaving)
    BY <2>1, BusyIsTheSum
  <2> QED
    BY <2>1, <2>2, <2>3 DEF NeverLocksUp
<1> QED
  BY <1>1, LimiterInvariant, PTL
=============================================================================
