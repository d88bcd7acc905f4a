------------------------------- MODULE StaticSet -------------------------------
(***************************************************************************)
(* The open-addressing hash set of cuco/static_set.cuh while its kernels   *)
(* run: threads of set_insert_kernel claim slots with atomicCAS, threads   *)
(* of set_probe_kernel (or of a kernel that calls set_ref::operator())     *)
(* read them, one step per access to a slot.                               *)
(*                                                                         *)
(* The table starts as fill_empty_key_kernel leaves it: the kernels below  *)
(* are launched on a stream that is ordered after the constructor's.       *)
(***************************************************************************)
EXTENDS Integers

CONSTANTS
  Inserters,   \* threads of insert kernels
  Probers,     \* threads of probe kernels
  Keys,        \* the keys, without the sentinel
  Empty,       \* empty_key_
  Capacity,    \* capacity_
  Hash,        \* xxh64 of each key
  Half,        \* 2^32
  Word         \* 2^64, for std::uint64_t

ASSUME StaticSetAssumption ==
  /\ Inserters \cap Probers = {}
  /\ Empty \notin Keys
  /\ Capacity \in Nat \ {0}
  /\ Half \in Nat \ {0} /\ Word = Half * Half
  /\ Hash \in [Keys -> 0 .. Word - 1]

VARIABLES
  slots,      \* the table
  pc,
  key,        \* the key of each thread
  probe,      \* how many slots each thread has passed
  launched    \* the table when the kernel of each prober was launched

vars == <<slots, pc, key, probe, launched>>

Threads   == Inserters \cup Probers
Positions == 0 .. Capacity - 1
Blank     == [i \in Positions |-> Empty]

\* double_hashing: an odd stride from the upper half of the hash.
Stride(k) == LET upper == Hash[k] \div Half IN (upper + 1) - (upper % 2)

\* The slot a key asks for at a probe, in wrapping 64-bit arithmetic.
Slot(k, p) == ((Hash[k] + p * Stride(k)) % Word) % Capacity

Init ==
  /\ slots = Blank
  /\ pc = [t \in Threads |-> "idle"]
  /\ key = [t \in Threads |-> Empty]
  /\ probe = [t \in Threads |-> 0]
  /\ launched = [t \in Probers |-> Blank]

Running(t) == pc[t] \in {"insert", "probe"}

Answer(t, outcome) == pc' = [pc EXCEPT ![t] = outcome]

Advance(t) == probe' = [probe EXCEPT ![t] = @ + 1]

-----------------------------------------------------------------------------
(* set_insert_kernel *)

\* A thread of an insert kernel takes its key.
Insert(t, k) ==
  /\ ~Running(t)
  /\ pc' = [pc EXCEPT ![t] = "insert"]
  /\ key' = [key EXCEPT ![t] = k]
  /\ probe' = [probe EXCEPT ![t] = 0]
  /\ UNCHANGED <<slots, launched>>

\* Mutation: the slot is written without a compare.
ClaimWithoutCompare(t) ==
  LET s == Slot(key[t], probe[t]) IN
  /\ pc[t] = "insert"
  /\ probe[t] < Capacity
  /\ slots' = [slots EXCEPT ![s] = key[t]]
  /\ Answer(t, "kept")
  /\ UNCHANGED <<key, probe, launched>>

\* atomicCAS finds the slot empty and takes it, or finds the key there.
Claim(t) ==
  LET s == Slot(key[t], probe[t]) IN
  /\ pc[t] = "insert"
  /\ probe[t] < Capacity
  /\ slots[s] \in {Empty, key[t]}
  /\ slots' = [slots EXCEPT ![s] = key[t]]
  /\ Answer(t, "kept")
  /\ UNCHANGED <<key, probe, launched>>

\* Mutation: a slot that holds the key is passed like any other.
CollideWithItself(t) ==
  /\ pc[t] = "insert"
  /\ probe[t] < Capacity
  /\ slots[Slot(key[t], probe[t])] # Empty
  /\ Advance(t)
  /\ UNCHANGED <<slots, pc, key, launched>>

\* atomicCAS finds another key.
Collide(t) ==
  /\ pc[t] = "insert"
  /\ probe[t] < Capacity
  /\ slots[Slot(key[t], probe[t])] \notin {Empty, key[t]}
  /\ Advance(t)
  /\ UNCHANGED <<slots, pc, key, launched>>

\* After `capacity` probes the kernel returns without a word.
Drop(t) ==
  /\ pc[t] = "insert"
  /\ probe[t] = Capacity
  /\ Answer(t, "dropped")
  /\ UNCHANGED <<slots, key, probe, launched>>

-----------------------------------------------------------------------------
(* set_probe_kernel and set_ref::operator()                                *)

\* A probe kernel sees whatever was in the table when it was launched.
Probe(t, k) ==
  /\ ~Running(t)
  /\ pc' = [pc EXCEPT ![t] = "probe"]
  /\ key' = [key EXCEPT ![t] = k]
  /\ probe' = [probe EXCEPT ![t] = 0]
  /\ launched' = [launched EXCEPT ![t] = slots]
  /\ UNCHANGED slots

\* A plain load races with the atomics of other kernels: it returns what the
\* slot holds or, from a cache filled since the launch, what it held then.  (A
\* slot changes once, so nothing lies in between.)
Seen(t) == LET s == Slot(key[t], probe[t]) IN {launched[t][s], slots[s]}

Find(t) ==
  /\ pc[t] = "probe"
  /\ probe[t] < Capacity
  /\ key[t] \in Seen(t)
  /\ Answer(t, "found")
  /\ UNCHANGED <<slots, key, probe, launched>>

\* Mutation: the first slot with another key ends the search.
MissOnCollision(t) ==
  /\ pc[t] = "probe"
  /\ \E seen \in Seen(t) : seen # key[t]
  /\ Answer(t, "absent")
  /\ UNCHANGED <<slots, key, probe, launched>>

\* An empty slot ends the search, and so do `capacity` probes.
Miss(t) ==
  /\ pc[t] = "probe"
  /\ probe[t] < Capacity => Empty \in Seen(t)
  /\ Answer(t, "absent")
  /\ UNCHANGED <<slots, key, probe, launched>>

PassOver(t) ==
  /\ pc[t] = "probe"
  /\ probe[t] < Capacity
  /\ \E seen \in Seen(t) : seen \notin {Empty, key[t]}
  /\ Advance(t)
  /\ UNCHANGED <<slots, pc, key, launched>>

-----------------------------------------------------------------------------

Next ==
  \/ \E t \in Inserters :
       \/ \E k \in Keys : Insert(t, k)
       \/ Claim(t) \/ Collide(t) \/ Drop(t)
  \/ \E t \in Probers :
       \/ \E k \in Keys : Probe(t, k)
       \/ Find(t) \/ Miss(t) \/ PassOver(t)

Spec == Init /\ [][Next]_vars

-----------------------------------------------------------------------------
(* Properties *)

Tables == [Positions -> Keys \cup {Empty}]

\* Type invariant; the probe counter ends at the capacity.
TypeOK ==
  /\ slots \in Tables
  /\ pc \in [Threads -> {"idle", "insert", "kept", "dropped", "probe", "found", "absent"}]
  /\ key \in [Threads -> Keys \cup {Empty}]
  /\ probe \in [Threads -> 0 .. Capacity]
  /\ launched \in [Probers -> Tables]

Holds(table, k) == \E i \in Positions : table[i] = k

\* Two threads that insert the same key at the same time leave one copy of it
\* (line 67: one atomicCAS decides, and a slot is never given up).
NoDuplicates ==
  \A i, j \in Positions : slots[i] = slots[j] /\ slots[i] # Empty => i = j

\* A key that was in the table when a probe was launched is found, whatever
\* other kernels insert meanwhile and however stale the loads are: the slots
\* before a key never empty again (lines 82-86, 101-107).
AbsentWasAbsent ==
  \A t \in Probers : pc[t] = "absent" => ~Holds(launched[t], key[t])

\* A key whose insertion ended is there for good, unless all the slots it
\* probes hold other keys: no concurrent insertion overwrites it (lines 65-69).
KeptOrCrowdedOut ==
  \A t \in Inserters :
    /\ pc[t] = "kept" => Holds(slots, key[t])
    /\ pc[t] = "dropped" =>
         \A p \in Positions : slots[Slot(key[t], p)] \notin {Empty, key[t]}
=============================================================================
