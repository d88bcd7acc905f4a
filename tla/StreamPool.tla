------------------------------ MODULE StreamPool ------------------------------
(***************************************************************************)
(* The exclusive stream pool (cucascade/memory/stream_pool.hpp): a vector  *)
(* of HIP streams, a parallel vector of free flags, and the move-only      *)
(* borrowed_stream objects that lend a stream by its index.                *)
(*                                                                         *)
(* acquire_stream and return_stream run under pool_mutex_, and the fields  *)
(* of a borrowed_stream belong to the thread that uses it, so each call is *)
(* one step; the calls of different threads interleave.                    *)
(***************************************************************************)
EXTENDS Integers, Sequences, FiniteSets

CONSTANTS
  Wrappers,           \* borrowed_stream objects
  PoolSize,           \* streams the constructor tries to create
  PrioritySupported   \* the device has more than one stream priority

ASSUME StreamPoolAssumption ==
  /\ PoolSize \in Nat
  /\ PrioritySupported \in BOOLEAN
  /\ IsFiniteSet(Wrappers)

VARIABLES
  tried,      \* streams the constructor has tried to create
  streams,    \* streams_: TRUE for a stream created with high priority
  free,       \* free_
  holds       \* index_ of each wrapper; 0 when pool_ is null (the code's -1)

vars == <<tried, streams, free, holds>>

\* What a wrapper holds that lends nothing: moved from, released, or wrapping
\* the per-thread default stream, which no pool owns.
Nothing == 0

\* The priority a stream created for a 0-based index gets.
HighPriority(index) == PrioritySupported /\ index % 2 = 0

Init ==
  /\ tried = 0
  /\ streams = <<>> /\ free = <<>>
  /\ holds = [w \in Wrappers |-> Nothing]

Ready == tried = PoolSize

-----------------------------------------------------------------------------
(* The constructor: one stream after the other; one that cannot be created *)
(* is left out.                                                            *)

Create ==
  /\ ~Ready
  /\ tried' = tried + 1
  /\ streams' = Append(streams, HighPriority(tried))
  /\ free' = Append(free, TRUE)
  /\ UNCHANGED holds

CreateFails ==
  /\ ~Ready
  /\ tried' = tried + 1
  /\ UNCHANGED <<streams, free, holds>>

-----------------------------------------------------------------------------
(* acquire_stream; the wrapper it returns takes the place of an empty one. *)

FreeStreams == {i \in DOMAIN free : free[i]}

\* The first free stream.
Borrow(w) ==
  /\ Ready /\ holds[w] = Nothing
  /\ \E i \in FreeStreams :
       /\ \A j \in FreeStreams : i <= j
       /\ free' = [free EXCEPT ![i] = FALSE]
       /\ holds' = [holds EXCEPT ![w] = i]
  /\ UNCHANGED <<tried, streams>>

\* Policy GROW with no stream free.  A stream that cannot be created, and
\* policy BLOCK, give the per-thread default stream and change nothing.
Grow(w) ==
  /\ Ready /\ holds[w] = Nothing
  /\ FreeStreams = {}
  /\ streams' = Append(streams, HighPriority(Len(streams)))
  /\ free' = Append(free, FALSE)
  /\ holds' = [holds EXCEPT ![w] = Len(streams) + 1]
  /\ UNCHANGED tried

-----------------------------------------------------------------------------
(* borrowed_stream *)

\* Mutation: the last stream of the vector is never given back.
ReturnedShort(i) == IF i < Len(free) THEN [free EXCEPT ![i] = TRUE] ELSE free

\* return_stream; nothing happens for an index out of range.
Returned(i) == IF i \in DOMAIN free THEN [free EXCEPT ![i] = TRUE] ELSE free

\* release(), also the destructor.
Release(w) ==
  /\ holds[w] # Nothing
  /\ free' = Returned(holds[w])
  /\ holds' = [holds EXCEPT ![w] = Nothing]
  /\ UNCHANGED <<tried, streams>>

\* Mutation: the defaulted move constructor copies the members.
MoveByCopy(w, v) ==
  /\ holds[w] = Nothing /\ holds[v] # Nothing
  /\ holds' = [holds EXCEPT ![w] = holds[v]]
  /\ UNCHANGED <<tried, streams, free>>

\* The move constructor.
Move(w, v) ==
  /\ holds[w] = Nothing /\ holds[v] # Nothing
  /\ holds' = [holds EXCEPT ![w] = holds[v], ![v] = Nothing]
  /\ UNCHANGED <<tried, streams, free>>

\* Mutation: the wrapper assigned to forgets to give its own stream back.
AssignOver(w, v) ==
  /\ w # v
  /\ holds[w] # Nothing
  /\ holds' = [holds EXCEPT ![w] = holds[v], ![v] = Nothing]
  /\ UNCHANGED <<tried, streams, free>>

\* Move assignment to a wrapper that holds a stream.  Other threads may get in
\* between its release and its move: that is Release, then Move.
Assign(w, v) ==
  /\ w # v
  /\ holds[w] # Nothing
  /\ free' = Returned(holds[w])
  /\ holds' = [holds EXCEPT ![w] = holds[v], ![v] = Nothing]
  /\ UNCHANGED <<tried, streams>>

-----------------------------------------------------------------------------

Next ==
  \/ Create \/ CreateFails
  \/ \E w \in Wrappers : Borrow(w) \/ Grow(w) \/ Release(w)
  \/ \E w, v \in Wrappers : Move(w, v) \/ Assign(w, v)

Spec == Init /\ [][Next]_vars

-----------------------------------------------------------------------------
(* Properties *)

\* Type invariant: the two vectors are parallel, and what wrappers hold are
\* indices into them.
TypeOK ==
  /\ tried \in 0 .. PoolSize
  /\ streams \in Seq(BOOLEAN)
  /\ free \in Seq(BOOLEAN)
  /\ Len(free) = Len(streams)
  /\ holds \in [Wrappers -> 0 .. Len(streams)]

\* No stream is lent to two wrappers, whatever is moved, assigned and released
\* in whatever order (lines 35-38: "both destructors would call release()").
LentOnce ==
  \A w, v \in Wrappers : holds[w] = holds[v] => w = v \/ holds[w] = Nothing

\* A stream is marked busy exactly while a wrapper holds it: none is lost to
\* the pool, and none is lent while it is in use.
BusyIsHeld ==
  \A i \in DOMAIN free : ~free[i] <=> \E w \in Wrappers : holds[w] = i

\* The pool grows on demand only (line 73): past its first streams it never has
\* more than there are wrappers to hold them.
GrowsOnDemandOnly ==
  \/ Len(streams) <= PoolSize
  \/ Len(streams) <= Cardinality(Wrappers)
=============================================================================
