------------------------------ MODULE DataBatch ------------------------------
(***************************************************************************)
(* Data batches, their views and their conversions (cucascade/data/        *)
(* data_batch.hpp, representation_converter.hpp), handed on through the    *)
(* repositories.                                                           *)
(*                                                                         *)
(* Representations and batches are objects that live as long as something  *)
(* points to them: unique_ptrs of callers, batches, views; pointers of     *)
(* threads and entries of repositories.  state_ is a plain field: that a   *)
(* call of to_read_only or to_mutable checks it and that it stores it are  *)
(* two steps, and two threads that share a batch may come in between.      *)
(***************************************************************************)
EXTENDS DataRepository

CONSTANTS
  Threads,
  Reprs,     \* idata_representation objects
  Kinds,     \* their dynamic types
  Pairs,     \* pairs of types the application has a converter for
  Views,     \* read_only_data_batch and mutable_data_batch objects
  Null

ASSUME BatchAssumption ==
  /\ Null \notin Batches \cup Reprs \cup Kinds
  /\ Null \notin {"idle", "read_only", "mutable_locked"}
  /\ Pairs \subseteq Kinds \X Kinds

VARIABLES
  kind,        \* the type of each representation; Null: there is none
  owned,       \* representations in a unique_ptr of a caller
  state,       \* state_ of each batch; Null: there is no such batch
  data,        \* data_ of each batch
  view,        \* of each view its mode, its data_ and the batch of its id
  holds,       \* the batch a thread has a shared_ptr to
  turning,     \* the state a thread has found it may set
  converters   \* the registry: pairs of types

batchVars == <<kind, owned, state, data, view, holds, turning>>
vars      == <<batchVars, converters, repositoryVars>>

NoView == [mode |-> "none", data |-> Null, of |-> Null]

View(mode, r, b) == [mode |-> mode, data |-> r, of |-> b]

Init ==
  /\ RepositoryInit
  /\ kind = [r \in Reprs |-> Null] /\ owned = {}
  /\ state = [b \in Batches |-> Null] /\ data = [b \in Batches |-> Null]
  /\ view = [v \in Views |-> NoView]
  /\ holds = [t \in Threads |-> Null]
  /\ turning = [t \in Threads |-> Null]
  /\ converters = {}

-----------------------------------------------------------------------------
(* Ownership *)

Pointed == Stored \cup {holds[t] : t \in Threads}

Referenced ==
  owned \cup {data[b] : b \in Batches} \cup {view[v].data : v \in Views}

\* The end of every step: an object whose last pointer is gone is destroyed, a
\* batch with the representation that only it pointed to.
Settle(newState, newData, newKind) ==
  /\ state' = [b \in Batches |-> IF b \in Pointed' THEN newState[b] ELSE Null]
  /\ data' = [b \in Batches |-> IF b \in Pointed' THEN newData[b] ELSE Null]
  /\ kind' = [r \in Reprs |-> IF r \in Referenced' THEN newKind[r] ELSE Null]

NoRepr(r) == kind[r] = Null

\* Batch ids come from get_next_data_batch_id: none is given twice, so a name is
\* free for a new batch when no view remembers it either.
NoBatch(b) == state[b] = Null /\ \A v \in Views : view[v].of # b

Free(t) == holds[t] = Null

\* Bound: callers own one representation at a time.
Spare(r) == NoRepr(r) /\ owned = {}

\* A caller builds a representation, or gives one up.
Build(r, k) ==
  /\ Spare(r)
  /\ owned' = owned \cup {r}
  /\ UNCHANGED <<view, holds, turning, converters, repositoryVars>>
  /\ Settle(state, data, [kind EXCEPT ![r] = k])

Discard(r) ==
  /\ r \in owned
  /\ owned' = owned \ {r}
  /\ UNCHANGED <<view, holds, turning, converters, repositoryVars>>
  /\ Settle(state, data, kind)

\* data_batch::make of representation r, a pointer to which is left with t.
MakeFrom(t, b, r, k) ==
  /\ Free(t) /\ NoBatch(b)
  /\ holds' = [holds EXCEPT ![t] = b]
  /\ UNCHANGED <<view, turning, converters, repositoryVars>>
  /\ Settle([state EXCEPT ![b] = "idle"], [data EXCEPT ![b] = r],
            [kind EXCEPT ![r] = k])

Make(t, b, r) ==
  /\ r \in owned
  /\ owned' = owned \ {r}
  /\ MakeFrom(t, b, r, kind[r])

\* A thread lets go of its pointer.
Drop(t) ==
  /\ ~Free(t) /\ turning[t] = Null
  /\ holds' = [holds EXCEPT ![t] = Null]
  /\ UNCHANGED <<owned, view, turning, converters, repositoryVars>>
  /\ Settle(state, data, kind)

-----------------------------------------------------------------------------
(* Transitions and views *)

Mode(target) == IF target = "read_only" THEN "ro" ELSE "mut"

\* to_read_only and try_to_read_only are refused from read_only, to_mutable and
\* try_to_mutable from mutable_locked.
CheckState(t, target) ==
  /\ ~Free(t) /\ turning[t] = Null
  /\ state[holds[t]] # target
  /\ turning' = [turning EXCEPT ![t] = target]
  /\ UNCHANGED <<kind, owned, state, data, view, holds, converters, repositoryVars>>

\* The store; to_read_only and to_mutable return a view, the others do not.
SetState(t, newView) ==
  /\ turning[t] # Null
  /\ turning' = [turning EXCEPT ![t] = Null]
  /\ view' = newView
  /\ UNCHANGED <<owned, holds, converters, repositoryVars>>
  /\ Settle([state EXCEPT ![holds[t]] = turning[t]], data, kind)

Turn(t, v) ==
  /\ view[v] = NoView
  /\ SetState(t, [view EXCEPT ![v] = View(Mode(turning[t]), data[holds[t]], holds[t])])

TryTurn(t) == SetState(t, view)

\* What follows changes the views only.
ViewStep(newView, newOwned) ==
  /\ view' = newView /\ owned' = newOwned
  /\ UNCHANGED <<holds, turning, converters, repositoryVars>>
  /\ Settle(state, data, kind)

\* A read-only view is copied; readonly_to_mutable and mutable_to_readonly also
\* copy the pointer of the view they are given, which keeps its own.
Derive(v, w, mode) ==
  /\ view[v].mode # "none" /\ view[w] = NoView
  /\ view[v].mode = "mut" => mode = "ro"
  /\ ViewStep([view EXCEPT ![w] = View(mode, view[v].data, view[v].of)], owned)

DropView(v) ==
  /\ view[v] # NoView
  /\ ViewStep([view EXCEPT ![v] = NoView], owned)

\* Mutation: the new representation is set and stays the caller's.
SetDataKept(v, r) ==
  /\ view[v].mode = "mut" /\ r \in owned
  /\ ViewStep([view EXCEPT ![v].data = r], owned)

\* set_data: this view gets another representation, the batch does not.
SetData(v, r) ==
  /\ view[v].mode = "mut" /\ r \in owned \cup {Null}
  /\ ViewStep([view EXCEPT ![v].data = r], owned \ {r})

-----------------------------------------------------------------------------
(* Conversion *)

\* register_converter, unregister_converter, clear.
SetConverters(registry) ==
  /\ converters' = registry
  /\ UNCHANGED <<batchVars, repositoryVars>>

Register(pair)   == SetConverters(converters \cup {pair})
Unregister(pair) == SetConverters(converters \ {pair})
ClearConverters  == SetConverters({})

\* convert from the type of a view's data: without a converter it throws, and
\* so it does, after destroying the result, when the converter (which is the
\* application's) made nothing or something of another type.
Converts(v, to) ==
  /\ view[v].data # Null
  /\ <<kind[view[v].data], to>> \in converters

\* convert_to: the caller owns the result.
ConvertTo(v, r, to) ==
  /\ view[v].mode = "mut" /\ Converts(v, to) /\ Spare(r)
  /\ owned' = owned \cup {r}
  /\ UNCHANGED <<view, holds, turning, converters, repositoryVars>>
  /\ Settle(state, data, [kind EXCEPT ![r] = to])

\* clone_to: a new batch owns it.
CloneTo(t, v, b, r, to) ==
  /\ Converts(v, to) /\ NoRepr(r)
  /\ UNCHANGED owned
  /\ MakeFrom(t, b, r, to)

\* clone: a copy of the same type, when the representation can be copied.
Clone(t, v, b, r) ==
  /\ view[v].mode = "ro" /\ view[v].data # Null /\ NoRepr(r)
  /\ UNCHANGED owned
  /\ MakeFrom(t, b, r, kind[view[v].data])

-----------------------------------------------------------------------------
(* Batches on their way through the repositories *)

\* The thread's pointer goes into the repositories.
Send(t) ==
  /\ ~Free(t) /\ turning[t] = Null
  /\ holds' = [holds EXCEPT ![t] = Null]
  /\ UNCHANGED <<owned, view, turning, converters>>
  /\ Settle(state, data, kind)

AddDataBatch(t, p, i) == ~Free(t) /\ Put(p, i, holds[t]) /\ Send(t)

\* A batch none of whose targets exists is destroyed.
Broadcast(t, targets) == ~Free(t) /\ PutAll(targets, holds[t]) /\ Send(t)

\* A pointer from the repositories reaches the thread.
Receive(t, b) ==
  /\ Free(t)
  /\ holds' = [holds EXCEPT ![t] = b]
  /\ UNCHANGED <<owned, view, turning, converters>>
  /\ Settle(state, data, kind)

PopNext(t, p, i, b) == TakeNext(p, i, b) /\ Receive(t, b)
PopById(t, p, i, b) == TakeById(p, i, b) /\ Receive(t, b)
GetById(t, p, i, b) == Look(p, i, b) /\ Receive(t, b)

\* The manager drops repositories with what is in them.
ManagerStep ==
  /\ UNCHANGED <<owned, view, holds, turning, converters>>
  /\ Settle(state, data, kind)

AddNewRepository(p) == NewRepository(p) /\ ManagerStep
ClearAllRepositories == ClearAll /\ ManagerStep

-----------------------------------------------------------------------------

OwnerNext ==
  \/ \E r \in Reprs : Discard(r) \/ \E k \in Kinds : Build(r, k)
  \/ \E t \in Threads :
       \/ Drop(t) \/ TryTurn(t)
       \/ \E b \in Batches, r \in Reprs : Make(t, b, r)
       \/ \E target \in {"read_only", "mutable_locked"} : CheckState(t, target)
       \/ \E v \in Views : Turn(t, v)

ViewNext ==
  \E v \in Views :
    \/ DropView(v)
    \/ \E w \in Views, mode \in {"ro", "mut"} : Derive(v, w, mode)
    \/ \E r \in Reprs \cup {Null} : SetData(v, r)
    \/ \E r \in Reprs, to \in Kinds : ConvertTo(v, r, to)
    \/ \E t \in Threads, b \in Batches, r \in Reprs :
         Clone(t, v, b, r) \/ \E to \in Kinds : CloneTo(t, v, b, r, to)

RegistryNext ==
  \/ ClearConverters
  \/ \E pair \in Pairs : Register(pair) \/ Unregister(pair)

RepositoryNext ==
  \/ ClearAllRepositories
  \/ \E p \in Ports : AddNewRepository(p)
  \/ \E t \in Threads :
       \/ \E targets \in SUBSET Ports : Broadcast(t, targets)
       \/ \E p \in Ports, i \in Partitions :
            \/ AddDataBatch(t, p, i)
            \/ \E b \in Batches : PopNext(t, p, i, b) \/ PopById(t, p, i, b) \/ GetById(t, p, i, b)

Next == OwnerNext \/ ViewNext \/ RegistryNext \/ RepositoryNext

Spec == Init /\ [][Next]_vars

-----------------------------------------------------------------------------
(* Properties *)

\* No representation has two owners: what a caller owns nothing else points to,
\* and what belongs to a batch or to a view of it no other batch or view of
\* another batch reaches, so "mutations to one don't affect the other"
\* (data_batch.hpp:68-73), whatever is cloned, converted, replaced and derived.
OneOwner ==
  /\ owned \cap ({data[b] : b \in Batches} \cup {view[v].data : v \in Views}) = {}
  /\ \A b, c \in Batches : data[b] = data[c] => b = c \/ data[b] = Null
  /\ \A v, w \in Views :
       view[v].data = view[w].data => view[v].of = view[w].of \/ view[v].data = Null
  /\ \A v \in Views, b \in Batches :
       view[v].data = data[b] => view[v].of = b \/ data[b] = Null

\* The claim of line 84: a mutable view "holds exclusive access", so that no other
\* view can change the same data.
MutableIsExclusive ==
  \A v \in Views, w \in Views :
    v # w /\ view[v].mode = "mut" /\ view[w].mode = "mut" =>
      view[v].data # view[w].data \/ view[v].data = Null
=============================================================================
