---------------------------- MODULE StaticSetProofs ----------------------------
(***************************************************************************)
(* Theorems about StaticSet, for every set of threads, every capacity and  *)
(* every hash function.                                                    *)
(***************************************************************************)
EXTENDS StaticSet, TLAPS

-----------------------------------------------------------------------------
(* Arithmetic                                                              *)

\* Whatever the hash, a probe asks for a slot of the table.
LEMMA SlotInTable ==
  ASSUME NEW k \in Keys, NEW p \in Nat
  PROVE  Slot(k, p) \in Positions
<1>1. Hash[k] \in Nat /\ Word \in Nat \ {0} /\ Capacity \in Nat \ {0}
  <2>1. Half * Half \in Nat
    BY StaticSetAssumption
  <2>2. Hash[k] \in 0 .. Word - 1
    BY StaticSetAssumption
  <2> QED
    BY <2>1, <2>2, StaticSetAssumption
<1>2. Hash[k] \div Half \in Nat
  BY <1>1, StaticSetAssumption
<1>3. Stride(k) \in Nat
  BY <1>2 DEF Stride
<1>4. p * Stride(k) \in Nat
  BY <1>3
<1>5. (Hash[k] + p * Stride(k)) % Word \in Nat
  BY <1>1, <1>4
<1> QED
  BY <1>1, <1>5 DEF Slot, Positions

-----------------------------------------------------------------------------
(* The invariant                                                           *)

\* Every key of a table lies behind slots that hold other keys.
Chained(table) ==
  \A i \in Positions :
    table[i] # Empty =>
      \E p \in Positions :
        /\ Slot(table[i], p) = i
        /\ \A q \in 0 .. p - 1 :
             table[Slot(table[i], q)] \notin {Empty, table[i]}

\* What an inserter has passed is taken by other keys.
InsertInv ==
  \A t \in Inserters :
    /\ pc[t] = "kept" => key[t] \in Keys /\ Holds(slots, key[t])
    /\ pc[t] \in {"insert", "dropped"} =>
         /\ key[t] \in Keys
         /\ \A q \in 0 .. probe[t] - 1 :
              slots[Slot(key[t], q)] \notin {Empty, key[t]}
    /\ pc[t] = "dropped" => probe[t] = Capacity

\* The table a prober was launched on is a past of the table, and does not hold
\* the key in what the prober has passed.
ProbeInv ==
  \A t \in Probers :
    /\ Chained(launched[t])
    /\ \A i \in Positions : launched[t][i] # Empty => slots[i] = launched[t][i]
    /\ pc[t] = "probe" =>
         /\ key[t] \in Keys
         /\ \A q \in 0 .. probe[t] - 1 : launched[t][Slot(key[t], q)] # key[t]
    /\ pc[t] = "absent" => ~Holds(launched[t], key[t])

SetInv == TypeOK /\ Chained(slots) /\ InsertInv /\ ProbeInv

\* In a chained table no key lies in two slots: the later one would be behind
\* the earlier one.
LEMMA ChainedIsInjective ==
  ASSUME NEW table \in Tables, Chained(table),
         NEW i \in Positions, NEW j \in Positions,
         table[i] = table[j], table[i] # Empty
  PROVE  i = j
<1>1. PICK p \in Positions :
        /\ Slot(table[i], p) = i
        /\ \A q \in 0 .. p - 1 : table[Slot(table[i], q)] \notin {Empty, table[i]}
  BY DEF Chained
<1>2. PICK r \in Positions :
        /\ Slot(table[i], r) = j
        /\ \A q \in 0 .. r - 1 : table[Slot(table[i], q)] \notin {Empty, table[i]}
  BY DEF Chained
<1>3. p \in Nat /\ r \in Nat
  BY StaticSetAssumption DEF Positions
<1>4. CASE p < r
  BY <1>1, <1>2, <1>3, <1>4
<1>5. CASE r < p
  BY <1>1, <1>2, <1>3, <1>5
<1> QED
  BY <1>1, <1>2, <1>3, <1>4, <1>5

\* In a chained table a key is not behind an empty slot of its own sequence.
LEMMA NotBehindEmpty ==
  ASSUME NEW table \in Tables, Chained(table), NEW k \in Keys,
         NEW n \in 0 .. Capacity,
         \A q \in 0 .. n - 1 : table[Slot(k, q)] # k,
         n < Capacity => table[Slot(k, n)] = Empty
  PROVE  ~Holds(table, k)
<1> SUFFICES ASSUME NEW i \in Positions, table[i] = k
             PROVE  FALSE
  BY DEF Holds
<1>1. k # Empty
  BY StaticSetAssumption
<1>2. PICK p \in Positions :
        /\ Slot(k, p) = i
        /\ \A q \in 0 .. p - 1 : table[Slot(k, q)] \notin {Empty, k}
  BY <1>1 DEF Chained
<1>3. p \in Nat /\ p < Capacity /\ n \in Nat
  BY StaticSetAssumption DEF Positions
<1>4. CASE p < n
  BY <1>2, <1>3, <1>4
<1>5. CASE n <= p
  <2>1. table[Slot(k, n)] = Empty
    BY <1>3, <1>5, StaticSetAssumption
  <2>2. CASE n = p
    BY <1>1, <1>2, <2>1, <2>2
  <2>3. CASE n < p
    BY <1>2, <1>3, <2>1, <2>3
  <2> QED
    BY <1>3, <1>5, <2>2, <2>3
<1> QED
  BY <1>3, <1>4, <1>5

\* Claiming an empty slot behind taken ones keeps a table chained.
LEMMA ClaimKeepsChain ==
  ASSUME NEW table \in Tables, Chained(table), NEW k \in Keys, NEW n \in Positions,
         \A q \in 0 .. n - 1 : table[Slot(k, q)] \notin {Empty, k},
         table[Slot(k, n)] = Empty
  PROVE  Chained([table EXCEPT ![Slot(k, n)] = k])
<1> DEFINE s   == Slot(k, n)
           new == [table EXCEPT ![s] = k]
<1>1. k # Empty /\ n \in Nat /\ s \in Positions
  BY StaticSetAssumption, SlotInTable DEF Positions
<1>2. /\ new[s] = k
      /\ \A j \in Positions \ {s} : new[j] = table[j]
  BY <1>1 DEF Tables
<1> HIDE DEF new, s
<1> SUFFICES ASSUME NEW i \in Positions, new[i] # Empty
             PROVE  \E p \in Positions :
                      /\ Slot(new[i], p) = i
                      /\ \A q \in 0 .. p - 1 :
                           new[Slot(new[i], q)] \notin {Empty, new[i]}
  BY DEF Chained, new, s
<1>3. CASE i = s
  <2>1. \A q \in 0 .. n - 1 : Slot(k, q) \in Positions
    BY <1>1, SlotInTable
  <2>2. \A q \in 0 .. n - 1 : new[Slot(k, q)] \notin {Empty, k}
    BY <1>2, <2>1 DEF s
  <2> QED
    BY <1>2, <1>3, <2>2 DEF s
<1>4. CASE i # s
  <2>1. new[i] = table[i] /\ table[i] # Empty /\ table[i] \in Keys
    BY <1>2, <1>4 DEF Tables
  <2>2. PICK p \in Positions :
          /\ Slot(table[i], p) = i
          /\ \A q \in 0 .. p - 1 : table[Slot(table[i], q)] \notin {Empty, table[i]}
    BY <2>1 DEF Chained
  <2>3. \A q \in 0 .. p - 1 : Slot(table[i], q) \in Positions
    BY <2>1, SlotInTable DEF Positions
  <2>4. \A q \in 0 .. p - 1 : new[Slot(table[i], q)] = table[Slot(table[i], q)]
    BY <1>2, <2>2, <2>3 DEF s
  <2> QED
    BY <2>1, <2>2, <2>4
<1> QED
  BY <1>3, <1>4

-----------------------------------------------------------------------------
(* Initial states                                                          *)

LEMMA SetInit == Init => SetInv
<1> SUFFICES ASSUME Init PROVE SetInv
  OBVIOUS
<1>1. Blank \in Tables /\ \A i \in Positions : Blank[i] = Empty
  BY DEF Blank, Tables
<1>2. Chained(Blank)
  BY <1>1 DEF Chained
<1>3. TypeOK
  BY <1>1, StaticSetAssumption DEF Init, TypeOK
<1>4. InsertInv
  BY DEF Init, InsertInv, Threads
<1>5. ProbeInv
  BY <1>1, <1>2 DEF Init, ProbeInv, Threads
<1> QED
  BY <1>2, <1>3, <1>4, <1>5 DEF Init, SetInv

-----------------------------------------------------------------------------
(* Steps                                                                   *)

\* Only Claim writes a slot, and every other step moves one thread.
LEMMA SetStep == SetInv /\ [Next]_vars => SetInv'
<1> SUFFICES ASSUME SetInv, [Next]_vars
             PROVE  SetInv'
  OBVIOUS
<1> USE StaticSetAssumption DEF SetInv, Threads
<1>0. /\ slots \in Tables
      /\ pc \in [Threads -> {"idle", "insert", "kept", "dropped", "probe", "found", "absent"}]
      /\ key \in [Threads -> Keys \cup {Empty}]
      /\ probe \in [Threads -> 0 .. Capacity]
      /\ launched \in [Probers -> Tables]
  BY DEF TypeOK
<1>1. CASE UNCHANGED vars
  BY <1>1 DEF vars, TypeOK, InsertInv, ProbeInv, Chained, Holds
<1>2. ASSUME NEW t \in Inserters, NEW k \in Keys, Insert(t, k)
      PROVE  SetInv'
  <2>1. TypeOK'
    BY <1>0, <1>2 DEF Insert, TypeOK
  <2>2. Chained(slots)'
    BY <1>2 DEF Insert, Chained
  <2>3. InsertInv'
    BY <1>0, <1>2 DEF Insert, InsertInv, Holds
  <2>4. ProbeInv'
    BY <1>0, <1>2 DEF Insert, ProbeInv, Chained, Holds
  <2> QED
    BY <2>1, <2>2, <2>3, <2>4
<1>3. ASSUME NEW t \in Inserters, Claim(t)
      PROVE  SetInv'
  <2> DEFINE k == key[t]
             n == probe[t]
             s == Slot(k, n)
  <2>1. /\ k \in Keys /\ n \in Positions
        /\ \A q \in 0 .. n - 1 : slots[Slot(k, q)] \notin {Empty, k}
    BY <1>0, <1>3 DEF Claim, InsertInv, Positions
  <2>2. s \in Positions /\ k # Empty
    BY <2>1, SlotInTable DEF Positions
  <2>3. /\ slots' = [slots EXCEPT ![s] = k]
        /\ slots[s] \in {Empty, k}
        /\ pc' = [pc EXCEPT ![t] = "kept"]
        /\ UNCHANGED <<key, probe, launched>>
    BY <1>3 DEF Claim, Answer
  <2> HIDE DEF k, n, s
  <2>4. /\ slots' \in Tables
        /\ slots'[s] = k
        /\ \A i \in Positions : slots[i] # Empty => slots'[i] = slots[i]
        /\ \A i \in Positions : slots'[i] # slots[i] => slots'[i] = k /\ i = s
    BY <1>0, <2>1, <2>2, <2>3 DEF Tables
  <2>5. TypeOK'
    BY <1>0, <2>3, <2>4 DEF TypeOK
  <2>6. Chained(slots')
    <3>1. CASE slots[s] = Empty
      BY <1>0, <2>1, <2>3, <3>1, ClaimKeepsChain DEF s
    <3>2. CASE slots[s] = k
      <4>1. slots' = slots
        BY <1>0, <2>2, <2>3, <3>2 DEF Tables
      <4> QED
        BY <4>1
    <3> QED
      BY <2>3, <3>1, <3>2
  <2>7. InsertInv'
    <3> SUFFICES ASSUME NEW u \in Inserters
                 PROVE  /\ pc'[u] = "kept" => key[u] \in Keys /\ Holds(slots', key[u])
                        /\ pc'[u] \in {"insert", "dropped"} =>
                             /\ key[u] \in Keys
                             /\ \A q \in 0 .. probe[u] - 1 :
                                  slots'[Slot(key[u], q)] \notin {Empty, key[u]}
                        /\ pc'[u] = "dropped" => probe[u] = Capacity
      BY <2>3 DEF InsertInv
    <3>1. CASE u = t
      BY <1>0, <2>2, <2>3, <2>4, <3>1 DEF Holds, k
    <3>2. CASE u # t
      <4>1. pc'[u] = pc[u]
        BY <1>0, <2>3, <3>2
      <4>2. ASSUME pc[u] = "kept"
            PROVE  key[u] \in Keys /\ Holds(slots', key[u])
        <5>1. PICK i \in Positions : slots[i] = key[u] /\ key[u] \in Keys
          BY <4>2 DEF InsertInv, Holds
        <5> QED
          BY <2>4, <5>1 DEF Holds
      <4>3. ASSUME pc[u] \in {"insert", "dropped"}
            PROVE  /\ key[u] \in Keys
                   /\ \A q \in 0 .. probe[u] - 1 :
                        slots'[Slot(key[u], q)] \notin {Empty, key[u]}
        <5>1. /\ key[u] \in Keys
              /\ \A q \in 0 .. probe[u] - 1 :
                   slots[Slot(key[u], q)] \notin {Empty, key[u]}
          BY <4>3 DEF InsertInv
        <5>2. \A q \in 0 .. probe[u] - 1 : Slot(key[u], q) \in Positions
          BY <1>0, <5>1, SlotInTable
        <5> QED
          BY <2>4, <5>1, <5>2
      <4> QED
        BY <4>1, <4>2, <4>3 DEF InsertInv
    <3> QED
      BY <3>1, <3>2
  <2>8. ProbeInv'
    <3>1. \A u \in Probers : pc'[u] = pc[u]
      BY <1>0, <2>3
    <3>2. \A u \in Probers : \A i \in Positions :
            launched[u][i] # Empty => slots'[i] = launched[u][i]
      BY <2>4 DEF ProbeInv
    <3> QED
      BY <2>3, <3>1, <3>2 DEF ProbeInv, Chained, Holds
  <2> QED
    BY <2>5, <2>6, <2>7, <2>8
<1>4. ASSUME NEW t \in Inserters, Collide(t)
      PROVE  SetInv'
  <2>1. probe[t] \in Nat /\ probe[t] < Capacity
    BY <1>0, <1>4 DEF Collide
  <2>2. /\ probe' = [probe EXCEPT ![t] = probe[t] + 1]
        /\ UNCHANGED <<slots, pc, key, launched>>
    BY <1>4 DEF Collide, Advance
  <2>3. TypeOK'
    BY <1>0, <2>1, <2>2 DEF TypeOK
  <2>4. InsertInv'
    <3> SUFFICES ASSUME NEW u \in Inserters
                 PROVE  /\ pc[u] = "kept" => key[u] \in Keys /\ Holds(slots, key[u])
                        /\ pc[u] \in {"insert", "dropped"} =>
                             /\ key[u] \in Keys
                             /\ \A q \in 0 .. probe'[u] - 1 :
                                  slots[Slot(key[u], q)] \notin {Empty, key[u]}
                        /\ pc[u] = "dropped" => probe'[u] = Capacity
      BY <2>2 DEF InsertInv, Holds
    <3>1. CASE u = t
      <4>1. slots[Slot(key[t], probe[t])] \notin {Empty, key[t]} /\ pc[t] = "insert"
        BY <1>4 DEF Collide
      <4>2. probe'[t] = probe[t] + 1
        BY <1>0, <2>2
      <4>3. \A q \in 0 .. probe'[t] - 1 : q \in 0 .. probe[t] - 1 \/ q = probe[t]
        BY <2>1, <4>2
      <4> QED
        BY <3>1, <4>1, <4>3 DEF InsertInv
    <3>2. CASE u # t
      <4>1. probe'[u] = probe[u]
        BY <1>0, <2>2, <3>2
      <4> QED
        BY <4>1 DEF InsertInv
    <3> QED
      BY <3>1, <3>2
  <2>5. ProbeInv' /\ Chained(slots)'
    <3>1. \A u \in Probers : probe'[u] = probe[u]
      BY <1>0, <2>2
    <3> QED
      BY <2>2, <3>1 DEF ProbeInv, Chained, Holds
  <2> QED
    BY <2>3, <2>4, <2>5
<1>5. ASSUME NEW t \in Inserters, Drop(t)
      PROVE  SetInv'
  <2>1. TypeOK'
    BY <1>0, <1>5 DEF Drop, Answer, TypeOK
  <2>2. Chained(slots)'
    BY <1>5 DEF Drop, Chained
  <2>3. InsertInv'
    BY <1>0, <1>5 DEF Drop, Answer, InsertInv, Holds
  <2>4. ProbeInv'
    BY <1>0, <1>5 DEF Drop, Answer, ProbeInv, Chained, Holds
  <2> QED
    BY <2>1, <2>2, <2>3, <2>4
<1>6. ASSUME NEW t \in Probers, NEW k \in Keys, Probe(t, k)
      PROVE  SetInv'
  <2>1. TypeOK'
    BY <1>0, <1>6 DEF Probe, TypeOK
  <2>2. Chained(slots)'
    BY <1>6 DEF Probe, Chained
  <2>3. InsertInv'
    BY <1>0, <1>6 DEF Probe, InsertInv, Holds
  <2>4. ProbeInv'
    <3> SUFFICES ASSUME NEW u \in Probers
                 PROVE  /\ Chained(launched'[u])
                        /\ \A i \in Positions :
                             launched'[u][i] # Empty => slots[i] = launched'[u][i]
                        /\ pc'[u] = "probe" =>
                             /\ key'[u] \in Keys
                             /\ \A q \in 0 .. probe'[u] - 1 :
                                  launched'[u][Slot(key'[u], q)] # key'[u]
                        /\ pc'[u] = "absent" => ~Holds(launched'[u], key'[u])
      BY <1>6 DEF Probe, ProbeInv, Chained, Holds
    <3>1. CASE u = t
      BY <1>0, <1>6, <3>1 DEF Probe
    <3>2. CASE u # t
      BY <1>0, <1>6, <3>2 DEF Probe, ProbeInv
    <3> QED
      BY <3>1, <3>2
  <2> QED
    BY <2>1, <2>2, <2>3, <2>4
<1>7. ASSUME NEW t \in Probers, Find(t)
      PROVE  SetInv'
  <2>1. TypeOK'
    BY <1>0, <1>7 DEF Find, Answer, TypeOK
  <2>2. Chained(slots)'
    BY <1>7 DEF Find, Chained
  <2>3. InsertInv'
    BY <1>0, <1>7 DEF Find, Answer, InsertInv, Holds
  <2>4. ProbeInv'
    BY <1>0, <1>7 DEF Find, Answer, ProbeInv, Chained, Holds
  <2> QED
    BY <2>1, <2>2, <2>3, <2>4
<1>8. ASSUME NEW t \in Probers, Miss(t)
      PROVE  SetInv'
  <2>1. TypeOK'
    BY <1>0, <1>8 DEF Miss, Answer, TypeOK
  <2>2. Chained(slots)'
    BY <1>8 DEF Miss, Chained
  <2>3. InsertInv'
    BY <1>0, <1>8 DEF Miss, Answer, InsertInv, Holds
  <2>4. ~Holds(launched[t], key[t])
    <3>1. /\ launched[t] \in Tables /\ Chained(launched[t])
          /\ key[t] \in Keys /\ probe[t] \in 0 .. Capacity
          /\ \A q \in 0 .. probe[t] - 1 : launched[t][Slot(key[t], q)] # key[t]
      BY <1>0, <1>8 DEF Miss, ProbeInv
    <3>2. ASSUME probe[t] < Capacity
          PROVE  launched[t][Slot(key[t], probe[t])] = Empty
      <4>1. Slot(key[t], probe[t]) \in Positions
        BY <3>1, SlotInTable
      <4>2. Empty \in {launched[t][Slot(key[t], probe[t])],
                       slots[Slot(key[t], probe[t])]}
        BY <1>8, <3>2 DEF Miss, Seen
      <4> QED
        BY <4>1, <4>2 DEF ProbeInv
    <3> QED
      BY <3>1, <3>2, NotBehindEmpty
  <2>5. ProbeInv'
    BY <1>0, <1>8, <2>4 DEF Miss, Answer, ProbeInv, Chained, Holds
  <2> QED
    BY <2>1, <2>2, <2>3, <2>5
<1>9. ASSUME NEW t \in Probers, PassOver(t)
      PROVE  SetInv'
  <2>1. probe[t] \in Nat /\ probe[t] < Capacity /\ pc[t] = "probe" /\ key[t] \in Keys
    BY <1>0, <1>9 DEF PassOver, ProbeInv
  <2>2. /\ probe' = [probe EXCEPT ![t] = probe[t] + 1]
        /\ UNCHANGED <<slots, pc, key, launched>>
    BY <1>9 DEF PassOver, Advance
  <2>3. TypeOK'
    BY <1>0, <2>1, <2>2 DEF TypeOK
  <2>4. InsertInv' /\ Chained(slots)'
    <3>1. \A u \in Inserters : probe'[u] = probe[u]
      BY <1>0, <2>2
    <3> QED
      BY <2>2, <3>1 DEF InsertInv, Chained, Holds
  <2>5. launched[t][Slot(key[t], probe[t])] # key[t]
    <3>1. Slot(key[t], probe[t]) \in Positions
      BY <2>1, SlotInTable
    <3>2. PICK seen \in {launched[t][Slot(key[t], probe[t])],
                         slots[Slot(key[t], probe[t])]} : seen \notin {Empty, key[t]}
      BY <1>9 DEF PassOver, Seen
    <3> QED
      BY <2>1, <3>1, <3>2 DEF ProbeInv
  <2>6. ProbeInv'
    <3> SUFFICES ASSUME NEW u \in Probers, pc[u] = "probe"
                 PROVE  \A q \in 0 .. probe'[u] - 1 :
                          launched[u][Slot(key[u], q)] # key[u]
      BY <2>2 DEF ProbeInv, Chained, Holds
    <3>1. CASE u = t
      <4>1. \A q \in 0 .. probe'[t] - 1 : q \in 0 .. probe[t] - 1 \/ q = probe[t]
        BY <1>0, <2>1, <2>2
      <4> QED
        BY <2>1, <2>5, <3>1, <4>1 DEF ProbeInv
    <3>2. CASE u # t
      BY <1>0, <2>2, <3>2 DEF ProbeInv
    <3> QED
      BY <3>1, <3>2
  <2> QED
    BY <2>3, <2>4, <2>6
<1> QED
  BY <1>1, <1>2, <1>3, <1>4, <1>5, <1>6, <1>7, <1>8, <1>9 DEF Next

LEMMA SetInvariance == Spec => []SetInv
<1>1. Init => SetInv
  BY SetInit
<1>2. SetInv /\ [Next]_vars => SetInv'
  BY SetStep
<1> QED
  BY <1>1, <1>2, PTL DEF Spec

-----------------------------------------------------------------------------
(* Theorems                                                                *)

\* Tables, keys and probe counters keep their types: the kernels index no slot
\* past the capacity (lines 65-67, 81-83).
THEOREM TypeCorrect == Spec => []TypeOK
<1>1. SetInv => TypeOK
  BY DEF SetInv
<1> QED
  BY <1>1, SetInvariance, PTL

\* However many threads insert a key at once, and wherever probe sequences
\* cross, the table holds it once (lines 65-69).
THEOREM KeysAreUnique == Spec => []NoDuplicates
<1>1. SetInv => NoDuplicates
  BY ChainedIsInjective DEF SetInv, TypeOK, NoDuplicates
<1> QED
  BY <1>1, SetInvariance, PTL

\* A probe that answers "absent" is right about every moment before its launch,
\* with insertions under way and stale loads (lines 81-86, 101-107).
THEOREM AbsenceIsReal == Spec => []AbsentWasAbsent
<1>1. SetInv => AbsentWasAbsent
  BY DEF SetInv, ProbeInv, AbsentWasAbsent
<1> QED
  BY <1>1, SetInvariance, PTL

\* An insertion ends with its key in the table, or with every slot it may use
\* taken by other keys for good (lines 65-69).
THEOREM InsertionsLast == Spec => []KeptOrCrowdedOut
<1>1. SetInv => KeptOrCrowdedOut
  BY StaticSetAssumption DEF SetInv, InsertInv, KeptOrCrowdedOut, Positions
<1> QED
  BY <1>1, SetInvariance, PTL
=============================================================================
