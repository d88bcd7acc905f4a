---------------------------- MODULE DataRepository ----------------------------
(***************************************************************************)
(* data_repository and data_repository_manager (cucascade/data/): batches  *)
(* waiting at the ports of operators, each repository a vector of          *)
(* partitions, each partition a vector of batches.                         *)
(*                                                                         *)
(* The actions below are what the calls do to the repositories; who makes  *)
(* the calls and what becomes of the batches is in DataBatch.              *)
(* Neither class has a lock: callers serialise their calls, so each is one *)
(* step.                                                                   *)
(***************************************************************************)
EXTENDS Integers, Sequences, FiniteSets, SequencesExt, FiniteSetsExt

CONSTANTS
  Batches,        \* data_batch objects
  Ports,          \* operator_port_key values
  Partitions,     \* partition indices that callers use
  NoRepository,
  MaxArrivals     \* bound: batches that arrive between two clears

ASSUME RepositoryAssumption ==
  /\ Partitions \subseteq Nat
  /\ MaxArrivals \in Nat
  /\ NoRepository \notin Seq(Seq(Batches \X Nat))

VARIABLES
  repos,     \* repos_: the partitions_ of each port, or NoRepository
  leaked,    \* what clear_all_repositories has just returned: entries per port
  arrivals,  \* history: batches that have arrived, which numbers the next
  served     \* history: number of the last batch pop_next took, by partition

repositoryVars == <<repos, leaked, arrivals, served>>

\* An entry is the batch and, as a history, the number of its arrival.
Entry(b) == <<b, arrivals + 1>>

Exists(p) == repos[p] # NoRepository

NoLeak == [p \in Ports |-> 0]

NoneServed == [i \in Partitions |-> 0]

RepositoryInit ==
  /\ repos = [p \in Ports |-> NoRepository]
  /\ leaked = NoLeak
  /\ arrivals = 0
  /\ served = [p \in Ports |-> NoneServed]

\* Partition i (from 0) of a port; nothing when the vector is shorter.
Partition(p, i) == IF i < Len(repos[p]) THEN repos[p][i + 1] ELSE <<>>

EntriesOf(p) ==
  IF Exists(p) THEN UNION {ToSet(repos[p][i]) : i \in DOMAIN repos[p]} ELSE {}

\* The batches that some repository points to.
Stored == {e[1] : e \in UNION {EntriesOf(p) : p \in Ports}}

-----------------------------------------------------------------------------
(* data_repository *)

\* The vector grown to hold partition i.
Resized(parts, i) ==
  [j \in 1 .. (IF i < Len(parts) THEN Len(parts) ELSE i + 1) |->
     IF j <= Len(parts) THEN parts[j] ELSE <<>>]

Added(parts, i, e) == [Resized(parts, i) EXCEPT ![i + 1] = Append(@, e)]

\* add_data_batch of one repository.
Put(p, i, b) ==
  /\ Exists(p)
  /\ arrivals < MaxArrivals
  /\ repos' = [repos EXCEPT ![p] = Added(@, i, Entry(b))]
  /\ arrivals' = arrivals + 1
  /\ leaked' = NoLeak
  /\ UNCHANGED served

\* pop_next_data_batch gives b, the front.
TakeNext(p, i, b) ==
  /\ Exists(p)
  /\ Partition(p, i) # <<>>
  /\ b = Head(Partition(p, i))[1]
  /\ served' = [served EXCEPT ![p][i] = Head(Partition(p, i))[2]]
  /\ repos' = [repos EXCEPT ![p][i + 1] = Tail(@)]
  /\ leaked' = NoLeak
  /\ UNCHANGED arrivals

\* The first place in a partition that holds the batch with this id.
Places(p, i, b) == {j \in DOMAIN Partition(p, i) : Partition(p, i)[j][1] = b}

\* Mutation: the gap is filled with the last entry.
WithoutSwapped(s, j) == SubSeq([s EXCEPT ![j] = s[Len(s)]], 1, Len(s) - 1)

\* A vector after erase of place j.
Without(s, j) == RemoveAt(s, j)

\* pop_data_batch_by_id.
TakeById(p, i, b) ==
  /\ Exists(p)
  /\ Places(p, i, b) # {}
  /\ repos' = [repos EXCEPT ![p][i + 1] = Without(@, Min(Places(p, i, b)))]
  /\ leaked' = NoLeak
  /\ UNCHANGED <<arrivals, served>>

\* get_data_batch_by_id.
Look(p, i, b) ==
  /\ Exists(p)
  /\ Places(p, i, b) # {}
  /\ UNCHANGED repositoryVars

-----------------------------------------------------------------------------
(* data_repository_manager *)

\* add_new_repository; a repository that is there already is destroyed.
NewRepository(p) ==
  /\ repos' = [repos EXCEPT ![p] = <<>>]
  /\ served' = [served EXCEPT ![p] = NoneServed]
  /\ leaked' = NoLeak
  /\ UNCHANGED arrivals

\* add_data_batch: every target that exists gets the batch, the others nothing.
PutAll(targets, b) ==
  /\ arrivals < MaxArrivals
  /\ repos' = [p \in Ports |-> IF p \in targets /\ Exists(p)
                                 THEN Added(repos[p], 0, Entry(b)) ELSE repos[p]]
  /\ arrivals' = arrivals + 1
  /\ leaked' = NoLeak
  /\ UNCHANGED served

\* Mutation: only the first partition is counted.
FirstSize(p) == IF Exists(p) THEN Len(Partition(p, 0)) ELSE 0

\* total_size; a port is reported unless all its partitions are empty.
TotalSize(p) ==
  IF Exists(p)
    THEN MapThenSumSet(LAMBDA i : Len(repos[p][i]), DOMAIN repos[p])
    ELSE 0

\* clear_all_repositories.
ClearAll ==
  /\ leaked' = [p \in Ports |-> TotalSize(p)]
  /\ repos' = [p \in Ports |-> NoRepository]
  /\ served' = [p \in Ports |-> NoneServed]
  /\ arrivals' = 0

-----------------------------------------------------------------------------
(* The repositories by themselves: callers may hold any batch. *)

RepositoryStep ==
  \/ ClearAll
  \/ \E p \in Ports : NewRepository(p)
  \/ \E b \in Batches :
       \/ \E targets \in SUBSET Ports : PutAll(targets, b)
       \/ \E p \in Ports, i \in Partitions :
            Put(p, i, b) \/ TakeNext(p, i, b) \/ TakeById(p, i, b)

RepositorySpec == RepositoryInit /\ [][RepositoryStep]_repositoryVars

-----------------------------------------------------------------------------
(* Properties *)

\* What stays in a partition stays in the order of arrival, and pop_next never
\* takes a batch that came after one it leaves: batches taken by id, new
\* partitions and broadcasts do not reorder it (data_repository.hpp:22-44).
ServedInOrder ==
  \A p \in Ports : Exists(p) =>
    \A i \in Partitions :
      LET s == Partition(p, i) IN
      /\ \A j \in DOMAIN s : s[j][2] > served[p][i]
      /\ \A j, k \in DOMAIN s : j < k => s[j][2] < s[k][2]

\* A batch that leaves a port without being handed to a caller goes with its
\* repository: with a replaced one unreported, with a cleared one counted in
\* the leak report, partition by partition (data_repository_manager.hpp:66-75).
LossIsReported ==
  [][\A p \in Ports : Exists(p) =>
       /\ repos'[p] = NoRepository => leaked'[p] = Cardinality(EntriesOf(p))
       /\ repos'[p] \notin {NoRepository, <<>>} =>
            Cardinality(EntriesOf(p)') >= Cardinality(EntriesOf(p)) - 1]_repositoryVars
=============================================================================
