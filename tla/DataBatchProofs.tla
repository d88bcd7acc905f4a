---------------------------- MODULE DataBatchProofs ----------------------------
(***************************************************************************)
(* Theorems about DataBatch and DataRepository, for every number of        *)
(* batches, representations, views, threads, ports and partitions.         *)
(***************************************************************************)
EXTENDS DataBatch, Sums, SequenceTheorems

-----------------------------------------------------------------------------
(* What the parts of a batch may be *)

Modes == {"none", "ro", "mut"}
Opened == {"read_only", "mutable_locked"}

ViewType == [mode : Modes, data : Reprs \cup {Null}, of : Batches \cup {Null}]

PartsOK ==
  /\ kind \in [Reprs -> Kinds \cup {Null}]
  /\ owned \subseteq Reprs
  /\ data \in [Batches -> Reprs \cup {Null}]
  /\ view \in [Views -> ViewType]

\* What something points to exists.
RefersToLiving == \A r \in Reprs : r \in Referenced => kind[r] # Null

OwnerInv == PartsOK /\ RefersToLiving /\ OneOwner

\* The owners, for the views pv, the callers' po, the batches' pd and kinds pk.
OwnersApart(pv, po, pd, pk) ==
  /\ pv \in [Views -> ViewType] /\ po \in SUBSET Reprs
  /\ pd \in [Batches -> Reprs \cup {Null}] /\ pk \in [Reprs -> Kinds \cup {Null}]
  /\ \A r \in Reprs :
       r \in po \/ (\E b \in Batches : pd[b] = r) \/ (\E v \in Views : pv[v].data = r)
         => pk[r] # Null
  /\ po \cap ({pd[b] : b \in Batches} \cup {pv[v].data : v \in Views}) = {}
  /\ \A b, c \in Batches : pd[b] = pd[c] => b = c \/ pd[b] = Null
  /\ \A v, w \in Views :
       pv[v].data = pv[w].data => pv[v].of = pv[w].of \/ pv[v].data = Null
  /\ \A v \in Views, b \in Batches :
       pv[v].data = pd[b] => pv[v].of = b \/ pd[b] = Null

LEMMA OwnersAreApart == OwnerInv => OwnersApart(view, owned, data, kind)
  BY DEF OwnerInv, OneOwner, PartsOK, RefersToLiving, Referenced, OwnersApart

\* Every step ends with Settle: it is enough to look at the owners as they are
\* before objects are destroyed.
LEMMA SettledOwners ==
  ASSUME NEW ps, NEW pd, NEW pk, Settle(ps, pd, pk), OwnersApart(view', owned', pd, pk)
  PROVE  OwnerInv'
<1> DEFINE pv == view'
           po == owned'
<1>0. /\ pv \in [Views -> ViewType] /\ po \in SUBSET Reprs
      /\ pd \in [Batches -> Reprs \cup {Null}] /\ pk \in [Reprs -> Kinds \cup {Null}]
      /\ \A r \in Reprs :
           r \in po \/ (\E b \in Batches : pd[b] = r) \/ (\E v \in Views : pv[v].data = r)
             => pk[r] # Null
      /\ po \cap ({pd[b] : b \in Batches} \cup {pv[v].data : v \in Views}) = {}
      /\ \A b, c \in Batches : pd[b] = pd[c] => b = c \/ pd[b] = Null
      /\ \A v, w \in Views :
           pv[v].data = pv[w].data => pv[v].of = pv[w].of \/ pv[v].data = Null
      /\ \A v \in Views, b \in Batches :
           pv[v].data = pd[b] => pv[v].of = b \/ pd[b] = Null
  BY DEF OwnersApart
<1>1. /\ \A b \in Batches : data'[b] \in {pd[b], Null}
      /\ data' \in [Batches -> Reprs \cup {Null}]
  BY <1>0 DEF Settle
<1>2. kind' = [r \in Reprs |-> IF r \in Referenced' THEN pk[r] ELSE Null]
  BY DEF Settle
<1>3. PartsOK'
  BY <1>0, <1>1, <1>2 DEF PartsOK
<1>4. RefersToLiving'
  <2> SUFFICES ASSUME NEW r \in Reprs, r \in Referenced'
               PROVE  kind'[r] # Null
    BY DEF RefersToLiving
  <2>1. r # Null
    BY BatchAssumption
  <2>2. r \in po \/ (\E b \in Batches : pd[b] = r) \/ (\E v \in Views : pv[v].data = r)
    BY <1>0, <1>1, <2>1 DEF Referenced
  <2> QED
    BY <1>0, <1>2, <2>2
<1>5. OneOwner'
  <2>1. Null \notin po
    BY <1>0, BatchAssumption
  <2>2. owned' \cap ({data'[b] : b \in Batches} \cup {view'[v].data : v \in Views}) = {}
    BY <1>0, <1>1, <2>1
  <2>3. \A b, c \in Batches : data'[b] = data'[c] => b = c \/ data'[b] = Null
    BY <1>0, <1>1
  <2>4. \A v \in Views, b \in Batches :
          view'[v].data = data'[b] => view'[v].of = b \/ data'[b] = Null
    BY <1>0, <1>1
  <2> QED
    BY <1>0, <2>2, <2>3, <2>4 DEF OneOwner
<1> QED
  BY <1>3, <1>4, <1>5 DEF OwnerInv

-----------------------------------------------------------------------------
(* One owner *)

LEMMA OwnersStart == Init => OwnerInv
<1> SUFFICES ASSUME Init PROVE OwnerInv
  OBVIOUS
<1>1. PartsOK
  BY DEF Init, PartsOK, ViewType, Modes, NoView
<1>2. RefersToLiving
  BY BatchAssumption DEF Init, RefersToLiving, Referenced, NoView
<1>3. OneOwner
  BY DEF Init, OneOwner, NoView
<1> QED
  BY <1>1, <1>2, <1>3 DEF OwnerInv

LEMMA NewBatchOwners ==
  ASSUME OwnerInv, NEW t \in Threads, NEW b \in Batches, NEW r \in Reprs, NEW k \in Kinds,
         MakeFrom(t, b, r, k), owned' \subseteq owned, r \notin owned',
         r \in owned \/ NoRepr(r)
  PROVE  OwnerInv'
<1> DEFINE pd == [data EXCEPT ![b] = r]
           pk == [kind EXCEPT ![r] = k]
<1>1. OwnersApart(view, owned, data, kind) /\ RefersToLiving
  BY OwnersAreApart DEF OwnerInv
<1>2. view' = view /\ NoBatch(b) /\ Settle([state EXCEPT ![b] = "idle"], pd, pk)
  BY DEF MakeFrom
<1>3. /\ \A c \in Batches : data[c] # r
      /\ \A v \in Views : view[v].data # r /\ view[v].of # b
      /\ Null \notin Reprs /\ Null \notin Kinds
  BY <1>1, <1>2, BatchAssumption DEF OwnersApart, NoRepr, RefersToLiving, Referenced, NoBatch
<1>4. OwnersApart(view', owned', pd, pk)
  BY <1>1, <1>2, <1>3 DEF OwnersApart
<1> HIDE DEF pd, pk
<1> QED
  BY <1>2, <1>4, SettledOwners

\* What a thread points to and is about to set.
PlaceInv ==
  /\ holds \in [Threads -> Batches \cup {Null}]
  /\ turning \in [Threads -> Opened \cup {Null}]
  /\ \A t \in Threads : turning[t] # Null => holds[t] # Null
  /\ state \in [Batches -> Opened \cup {"idle", Null}]

LEMMA PlacesStart == Init => PlaceInv
  BY DEF Init, PlaceInv

\* The states that Settle leaves.
LEMMA SettledStates ==
  ASSUME NEW ps, NEW pd, NEW pk, Settle(ps, pd, pk)
  PROVE  /\ \A b \in Batches : state'[b] \in {ps[b], Null}
         /\ ps \in [Batches -> Opened \cup {"idle", Null}] =>
              state' \in [Batches -> Opened \cup {"idle", Null}]
BY DEF Settle

LEMMA PlacesStep == PlaceInv /\ [Next]_vars => PlaceInv'
<1> SUFFICES ASSUME PlaceInv, [Next]_vars
             PROVE  PlaceInv'
  OBVIOUS
<1> USE DEF PlaceInv
<1>1. CASE UNCHANGED vars
  BY <1>1 DEF vars, batchVars
<1>2. ASSUME NEW r \in Reprs, Discard(r) \/ \E k \in Kinds : Build(r, k)
      PROVE  PlaceInv'
  BY <1>2, SettledStates DEF Discard, Build
<1>3. ASSUME NEW t \in Threads, NEW b \in Batches, NEW r \in Reprs, NEW k, MakeFrom(t, b, r, k)
      PROVE  PlaceInv'
  <2>1. [state EXCEPT ![b] = "idle"] \in [Batches -> Opened \cup {"idle", Null}]
    OBVIOUS
  <2> QED
    BY <1>3, <2>1, SettledStates DEF MakeFrom, Free
<1>4. ASSUME NEW t \in Threads, Drop(t) \/ Send(t)
      PROVE  PlaceInv'
  BY <1>4, SettledStates DEF Drop, Send
<1>5. ASSUME NEW t \in Threads, NEW target \in Opened, CheckState(t, target)
      PROVE  PlaceInv'
  BY <1>5 DEF CheckState, Free
<1>6. ASSUME NEW t \in Threads, NEW pv, SetState(t, pv)
      PROVE  PlaceInv'
  <2>1. [state EXCEPT ![holds[t]] = turning[t]] \in [Batches -> Opened \cup {"idle", Null}]
    BY <1>6 DEF SetState
  <2> QED
    BY <1>6, <2>1, SettledStates DEF SetState
<1>7. ASSUME NEW pv, NEW po, ViewStep(pv, po)
      PROVE  PlaceInv'
  BY <1>7, SettledStates DEF ViewStep
<1>8. ASSUME NEW v \in Views, NEW r \in Reprs, NEW to \in Kinds, ConvertTo(v, r, to)
      PROVE  PlaceInv'
  BY <1>8, SettledStates DEF ConvertTo
<1>9. ASSUME NEW registry, SetConverters(registry)
      PROVE  PlaceInv'
  BY <1>9 DEF SetConverters, batchVars
<1>10. ASSUME NEW t \in Threads, NEW b \in Batches, Receive(t, b)
       PROVE  PlaceInv'
  BY <1>10, SettledStates DEF Receive, Free
<1>11. CASE ManagerStep
  BY <1>11, SettledStates DEF ManagerStep
<1>12. CASE OwnerNext
  <2>1. ASSUME NEW t \in Threads, NEW target \in {"read_only", "mutable_locked"},
               CheckState(t, target)
        PROVE  PlaceInv'
    BY <1>5, <2>1 DEF Opened
  <2>2. ASSUME NEW t \in Threads, NEW b \in Batches, NEW r \in Reprs, Make(t, b, r)
        PROVE  PlaceInv'
    BY <1>3, <2>2 DEF Make
  <2>3. ASSUME NEW t \in Threads, TryTurn(t) \/ \E v \in Views : Turn(t, v)
        PROVE  PlaceInv'
    BY <1>6, <2>3 DEF Turn, TryTurn
  <2> QED
    BY <1>2, <1>4, <1>12, <2>1, <2>2, <2>3 DEF OwnerNext
<1>13. CASE ViewNext
  BY <1>3, <1>7, <1>8, <1>13 DEF ViewNext, DropView, Derive, SetData, CloneTo, Clone
<1>14. CASE RegistryNext
  BY <1>9, <1>14 DEF RegistryNext, Register, Unregister, ClearConverters
<1>15. CASE RepositoryNext
  BY <1>4, <1>10, <1>11, <1>15
     DEF RepositoryNext, AddDataBatch, Broadcast, PopNext, PopById, GetById, AddNewRepository,
         ClearAllRepositories
<1> QED
  BY <1>1, <1>12, <1>13, <1>14, <1>15 DEF Next

\* Steps that leave the pointers to representations alone.
LEMMA SameOwners ==
  ASSUME OwnerInv, NEW ps, Settle(ps, data, kind), UNCHANGED <<owned, view>>
  PROVE  OwnerInv'
BY OwnersAreApart, SettledOwners

LEMMA OwnersStep == PlaceInv /\ OwnerInv /\ [Next]_vars => OwnerInv'
<1> SUFFICES ASSUME PlaceInv, OwnerInv, [Next]_vars
             PROVE  OwnerInv'
  OBVIOUS
<1>0. OwnersApart(view, owned, data, kind) /\ RefersToLiving
  BY OwnersAreApart DEF OwnerInv
<1>1. CASE UNCHANGED vars
  BY <1>1
     DEF vars, batchVars, OwnerInv, PartsOK, RefersToLiving, Referenced, OneOwner
<1>2. ASSUME NEW r \in Reprs, Discard(r)
      PROVE  OwnerInv'
  <2>1. OwnersApart(view', owned', data, kind)
    BY <1>0, <1>2 DEF Discard, OwnersApart
  <2> QED
    BY <1>2, <2>1, SettledOwners DEF Discard
<1>3. ASSUME NEW r \in Reprs, NEW k \in Kinds,
             view' = view, owned' = owned \cup {r}, NoRepr(r),
             Settle(state, data, [kind EXCEPT ![r] = k])
      PROVE  OwnerInv'
  <2>1. /\ \A c \in Batches : data[c] # r
        /\ \A v \in Views : view[v].data # r
        /\ Null \notin Reprs /\ Null \notin Kinds
    BY <1>0, <1>3, BatchAssumption DEF NoRepr, RefersToLiving, Referenced
  <2>2. OwnersApart(view', owned', data, [kind EXCEPT ![r] = k])
    BY <1>0, <1>3, <2>1 DEF OwnersApart
  <2> QED
    BY <1>3, <2>2, SettledOwners
<1>4. ASSUME NEW r \in Reprs, NEW k \in Kinds, Build(r, k)
      PROVE  OwnerInv'
  BY <1>3, <1>4 DEF Build, Spare
<1>5. ASSUME NEW t \in Threads, NEW b \in Batches, NEW r \in Reprs, Make(t, b, r)
      PROVE  OwnerInv'
  <2>1. kind[r] \in Kinds
    <3>1. kind[r] # Null
      BY <1>0, <1>5 DEF Make, RefersToLiving, Referenced
    <3> QED
      BY <1>0, <3>1 DEF OwnersApart
  <2> QED
    BY <1>5, <2>1, NewBatchOwners DEF Make
<1>6. ASSUME NEW t \in Threads, NEW v \in Views, Turn(t, v)
      PROVE  OwnerInv'
  <2>1. /\ holds[t] \in Batches
        /\ view' = [view EXCEPT ![v] = View(Mode(turning[t]), data[holds[t]], holds[t])]
        /\ owned' = owned
    BY <1>6 DEF Turn, SetState, PlaceInv
  <2>2. View(Mode(turning[t]), data[holds[t]], holds[t]) \in ViewType
    BY <1>0, <2>1 DEF View, ViewType, Modes, Mode, OwnersApart
  <2>3. OwnersApart(view', owned', data, kind)
    BY <1>0, <2>1, <2>2 DEF OwnersApart, View
  <2> QED
    BY <1>6, <2>3, SettledOwners DEF Turn, SetState
<1>7. ASSUME NEW t \in Threads, TryTurn(t) \/ Drop(t) \/ Send(t)
      PROVE  OwnerInv'
  BY <1>7, SameOwners DEF TryTurn, SetState, Drop, Send
<1>8. ASSUME NEW t \in Threads, NEW target, CheckState(t, target)
      PROVE  OwnerInv'
  BY <1>8 DEF CheckState, OwnerInv, PartsOK, RefersToLiving, Referenced, OneOwner
<1>9. ASSUME NEW v \in Views, DropView(v)
      PROVE  OwnerInv'
  <2>1. NoView \in ViewType /\ NoView.data = Null /\ Null \notin Reprs
    BY BatchAssumption DEF NoView, ViewType, Modes
  <2>2. view' = [view EXCEPT ![v] = NoView] /\ owned' = owned /\ Settle(state, data, kind)
    BY <1>9 DEF DropView, ViewStep
  <2>3. OwnersApart(view', owned', data, kind)
    BY <1>0, <2>1, <2>2 DEF OwnersApart
  <2> QED
    BY <2>2, <2>3, SettledOwners
<1>10. ASSUME NEW v \in Views, NEW w \in Views, NEW mode \in {"ro", "mut"}, Derive(v, w, mode)
       PROVE  OwnerInv'
  <2>1. /\ View(mode, view[v].data, view[v].of) \in ViewType
        /\ View(mode, view[v].data, view[v].of).data = view[v].data
        /\ View(mode, view[v].data, view[v].of).of = view[v].of
    BY <1>0 DEF View, ViewType, Modes, OwnersApart
  <2>2. /\ view' = [view EXCEPT ![w] = View(mode, view[v].data, view[v].of)]
        /\ owned' = owned /\ Settle(state, data, kind)
    BY <1>10 DEF Derive, ViewStep
  <2>3. OwnersApart(view', owned', data, kind)
    BY <1>0, <2>1, <2>2 DEF OwnersApart
  <2> QED
    BY <2>2, <2>3, SettledOwners
<1>11. ASSUME NEW v \in Views, NEW r \in Reprs \cup {Null}, SetData(v, r)
       PROVE  OwnerInv'
  <2>1. /\ view' = [view EXCEPT ![v].data = r] /\ owned' = owned \ {r}
        /\ r \in owned \cup {Null} /\ Settle(state, data, kind) /\ Null \notin Reprs
    BY <1>11, BatchAssumption DEF SetData, ViewStep
  <2>2. /\ [view[v] EXCEPT !.data = r] \in ViewType
        /\ [view[v] EXCEPT !.data = r].data = r
        /\ [view[v] EXCEPT !.data = r].of = view[v].of
    BY <1>0, <2>1 DEF ViewType, OwnersApart
  <2>3. view' = [view EXCEPT ![v] = [view[v] EXCEPT !.data = r]]
    BY <2>1
  <2>4. OwnersApart(view', owned', data, kind)
    BY <1>0, <2>1, <2>2, <2>3 DEF OwnersApart
  <2> QED
    BY <2>1, <2>4, SettledOwners
<1>12. ASSUME NEW v \in Views, NEW r \in Reprs, NEW to \in Kinds, ConvertTo(v, r, to)
       PROVE  OwnerInv'
  BY <1>3, <1>12 DEF ConvertTo, Spare
<1>13. ASSUME NEW v \in Views, NEW t \in Threads, NEW b \in Batches, NEW r \in Reprs,
              NEW to \in Kinds, CloneTo(t, v, b, r, to)
       PROVE  OwnerInv'
  <2>1. r \notin owned
    BY <1>0, <1>13 DEF CloneTo, NoRepr, RefersToLiving, Referenced
  <2> QED
    BY <1>13, <2>1, NewBatchOwners DEF CloneTo
<1>14. ASSUME NEW v \in Views, NEW t \in Threads, NEW b \in Batches, NEW r \in Reprs,
              Clone(t, v, b, r)
       PROVE  OwnerInv'
  <2>1. r \notin owned
    BY <1>0, <1>14 DEF Clone, NoRepr, RefersToLiving, Referenced
  <2>2. view[v].data \in Reprs /\ view[v].data \in Referenced
    BY <1>0, <1>14 DEF Clone, Referenced, OwnersApart, ViewType
  <2>3. kind[view[v].data] \in Kinds
    BY <1>0, <2>2 DEF RefersToLiving, OwnersApart
  <2> QED
    BY <1>14, <2>1, <2>3, NewBatchOwners DEF Clone
<1>15. ASSUME NEW registry, SetConverters(registry)
       PROVE  OwnerInv'
  BY <1>15
     DEF SetConverters, batchVars, OwnerInv, PartsOK, RefersToLiving, Referenced, OneOwner
<1>16. ASSUME NEW t \in Threads, NEW b \in Batches, Receive(t, b)
       PROVE  OwnerInv'
  BY <1>16, SameOwners DEF Receive
<1>17. CASE ManagerStep
  BY <1>17, SameOwners DEF ManagerStep
<1>18. CASE OwnerNext
  BY <1>2, <1>4, <1>5, <1>6, <1>7, <1>8, <1>18 DEF OwnerNext
<1>19. CASE ViewNext
  BY <1>9, <1>10, <1>11, <1>12, <1>13, <1>14, <1>19 DEF ViewNext
<1>20. CASE RegistryNext
  BY <1>15, <1>20 DEF RegistryNext, Register, Unregister, ClearConverters
<1>21. CASE RepositoryNext
  BY <1>7, <1>16, <1>17, <1>21
     DEF RepositoryNext, AddDataBatch, Broadcast, PopNext, PopById, GetById, AddNewRepository,
         ClearAllRepositories
<1> QED
  BY <1>1, <1>18, <1>19, <1>20, <1>21 DEF Next

\* No representation has two owners, whatever is cloned, converted, replaced
\* and derived.
THEOREM OwnersStayApart == Spec => []OneOwner
<1>1. OwnerInv => OneOwner
  BY DEF OwnerInv
<1> QED
  BY <1>1, OwnersStart, OwnersStep, PlacesStart, PlacesStep, PTL DEF Spec

-----------------------------------------------------------------------------
(* Partitions stay in the order of arrival *)

Entries == Batches \X Nat

\* Arrival numbers that rise, from above low up to high.
Rising(s, low, high) ==
  /\ \A j \in 1 .. Len(s) : low < s[j][2] /\ s[j][2] <= high
  /\ \A j, k \in 1 .. Len(s) : j < k => s[j][2] < s[k][2]

\* Partition i of a vector of partitions.
At(parts, i) == IF i < Len(parts) THEN parts[i + 1] ELSE <<>>

LEMMA EntryNumbers == ASSUME NEW s \in Seq(Entries) PROVE \A j \in 1 .. Len(s) : s[j][2] \in Nat
  BY DEF Entries

LEMMA AppendRises ==
  ASSUME NEW s \in Seq(Entries), NEW low \in Nat, NEW high \in Nat, low <= high,
         Rising(s, low, high), NEW e \in Entries, e[2] = high + 1
  PROVE  Append(s, e) \in Seq(Entries) /\ Rising(Append(s, e), low, high + 1)
<1>1. /\ Append(s, e) \in Seq(Entries) /\ Len(s) \in Nat /\ Len(Append(s, e)) = Len(s) + 1
      /\ \A j \in 1 .. Len(s) : Append(s, e)[j] = s[j]
      /\ Append(s, e)[Len(s) + 1] = e
  OBVIOUS
<1>2. \A j \in 1 .. Len(s) : s[j][2] \in Nat
  BY EntryNumbers
<1> DEFINE a == Append(s, e)
<1> HIDE DEF a
<1>3. ASSUME NEW j \in 1 .. Len(s) + 1
      PROVE  low < a[j][2] /\ a[j][2] <= high + 1
  BY <1>1, <1>2 DEF Rising, a
<1>4. ASSUME NEW j \in 1 .. Len(s) + 1, NEW k \in 1 .. Len(s) + 1, j < k
      PROVE  a[j][2] < a[k][2]
  <2>1. CASE k <= Len(s)
    BY <1>1, <2>1, <1>4 DEF Rising, a
  <2>2. CASE k = Len(s) + 1
    <3>1. j \in 1 .. Len(s)
      BY <1>1, <1>4, <2>2
    <3> QED
      BY <1>1, <1>2, <2>2, <3>1 DEF Rising, a
  <2> QED
    BY <1>1, <2>1, <2>2
<1> QED
  BY <1>1, <1>3, <1>4 DEF Rising, a

LEMMA TailRises ==
  ASSUME NEW s \in Seq(Entries), s # <<>>, NEW low, NEW high, Rising(s, low, high)
  PROVE  /\ Tail(s) \in Seq(Entries) /\ Head(s)[2] \in Nat /\ Head(s)[2] <= high
         /\ Rising(Tail(s), Head(s)[2], high)
<1>1. /\ Tail(s) \in Seq(Entries) /\ Len(s) \in Nat /\ Len(s) >= 1 /\ Len(Tail(s)) = Len(s) - 1
      /\ \A j \in 1 .. Len(s) - 1 : Tail(s)[j] = s[j + 1]
      /\ Head(s) = s[1]
  OBVIOUS
<1>2. s[1][2] \in Nat
  BY <1>1, EntryNumbers
<1>3. \A j \in 1 .. Len(s) - 1 : j + 1 \in 1 .. Len(s) /\ 1 < j + 1
  BY <1>1
<1> QED
  BY <1>1, <1>2, <1>3 DEF Rising

LEMMA WithoutIs ==
  ASSUME NEW s \in Seq(Entries), NEW j \in 1 .. Len(s)
  PROVE  /\ Len(s) \in Nat /\ Without(s, j) \in Seq(Entries)
         /\ Len(Without(s, j)) = Len(s) - 1
         /\ \A k \in 1 .. Len(s) - 1 :
              Without(s, j)[k] = IF k < j THEN s[k] ELSE s[k + 1]
<1> DEFINE w == Without(s, j)
           a == SubSeq(s, 1, j - 1)
           b == SubSeq(s, j + 1, Len(s))
<1>1. /\ Len(s) \in Nat /\ a \in Seq(Entries) /\ Len(a) = j - 1
      /\ \A k \in 1 .. j - 1 : a[k] = s[k]
  OBVIOUS
<1>2. /\ b \in Seq(Entries) /\ Len(b) = Len(s) - j
      /\ \A k \in 1 .. Len(s) - j : b[k] = s[j + k]
  OBVIOUS
<1>3. w = a \o b
  BY DEF Without, RemoveAt
<1> HIDE DEF a, b, w
<1>4. /\ w \in Seq(Entries) /\ Len(w) = Len(a) + Len(b)
      /\ \A k \in 1 .. Len(a) + Len(b) : w[k] = IF k <= Len(a) THEN a[k] ELSE b[k - Len(a)]
  BY <1>1, <1>2, <1>3, ConcatProperties
<1>5. ASSUME NEW k \in 1 .. Len(s) - 1
      PROVE  w[k] = IF k < j THEN s[k] ELSE s[k + 1]
  <2>1. CASE k < j
    <3>1. k \in 1 .. Len(a) + Len(b) /\ k <= Len(a) /\ k \in 1 .. j - 1
      BY <1>1, <1>2, <2>1
    <3> QED
      BY <1>1, <1>4, <2>1, <3>1
  <2>2. CASE ~(k < j)
    <3>1. /\ k - Len(a) \in 1 .. Len(s) - j /\ j + (k - Len(a)) = k + 1
          /\ k \in 1 .. Len(a) + Len(b) /\ ~(k <= Len(a))
      BY <1>1, <1>2, <2>2
    <3>2. w[k] = b[k - Len(a)]
      BY <1>4, <3>1
    <3>3. b[k - Len(a)] = s[j + (k - Len(a))]
      BY <1>2, <3>1
    <3> QED
      BY <2>2, <3>1, <3>2, <3>3
  <2> QED
    BY <2>1, <2>2
<1> QED
  BY <1>1, <1>2, <1>4, <1>5 DEF w

LEMMA WithoutRises ==
  ASSUME NEW s \in Seq(Entries), NEW j \in 1 .. Len(s), NEW low, NEW high, Rising(s, low, high)
  PROVE  Without(s, j) \in Seq(Entries) /\ Rising(Without(s, j), low, high)
<1> DEFINE w == Without(s, j)
<1>1. /\ Len(s) \in Nat /\ w \in Seq(Entries) /\ Len(w) = Len(s) - 1
      /\ \A k \in 1 .. Len(s) - 1 : w[k] = IF k < j THEN s[k] ELSE s[k + 1]
  BY WithoutIs
<1> HIDE DEF w
<1>2. \A k \in 1 .. Len(s) - 1 : k \in 1 .. Len(s) /\ k + 1 \in 1 .. Len(s)
  BY <1>1
<1>3. \A k \in 1 .. Len(w) : low < w[k][2] /\ w[k][2] <= high
  BY <1>1, <1>2 DEF Rising
<1>4. ASSUME NEW k \in 1 .. Len(w), NEW l \in 1 .. Len(w), k < l
      PROVE  w[k][2] < w[l][2]
  <2> DEFINE x == IF k < j THEN k ELSE k + 1
             y == IF l < j THEN l ELSE l + 1
  <2>1. x \in 1 .. Len(s) /\ y \in 1 .. Len(s) /\ x < y
    BY <1>1, <1>4
  <2>2. w[k] = s[x] /\ w[l] = s[y]
    BY <1>1
  <2> HIDE DEF x, y
  <2> QED
    BY <2>1, <2>2 DEF Rising
<1> QED
  BY <1>1, <1>3, <1>4 DEF Rising, w

LEMMA AddedAt ==
  ASSUME NEW parts \in Seq(Seq(Entries)), NEW i \in Nat, NEW e \in Entries
  PROVE  /\ Added(parts, i, e) \in Seq(Seq(Entries))
         /\ At(Added(parts, i, e), i) = Append(At(parts, i), e)
         /\ \A k \in Nat \ {i} : At(Added(parts, i, e), k) = At(parts, k)
<1> DEFINE n == IF i < Len(parts) THEN Len(parts) ELSE i + 1
           r == Resized(parts, i)
<1>1. /\ Len(parts) \in Nat /\ n \in Nat /\ i + 1 \in 1 .. n /\ Len(parts) <= n
      /\ \A k \in 1 .. Len(parts) : parts[k] \in Seq(Entries)
  OBVIOUS
<1>2. r = [j \in 1 .. n |-> IF j <= Len(parts) THEN parts[j] ELSE <<>>]
  BY DEF Resized
<1>3. r \in [1 .. n -> Seq(Entries)] /\ r[i + 1] = At(parts, i)
  BY <1>1, <1>2 DEF At
<1>4. Added(parts, i, e) = [r EXCEPT ![i + 1] = Append(At(parts, i), e)]
  BY <1>3 DEF Added
<1> HIDE DEF n, r
<1>5. /\ Added(parts, i, e) \in [1 .. n -> Seq(Entries)]
      /\ Added(parts, i, e)[i + 1] = Append(At(parts, i), e)
      /\ \A k \in 1 .. n : k # i + 1 => Added(parts, i, e)[k] = r[k]
  <2>1. At(parts, i) \in Seq(Entries)
    BY <1>1 DEF At
  <2> QED
    BY <1>1, <1>3, <1>4, <2>1
<1>6. Added(parts, i, e) \in Seq(Seq(Entries)) /\ Len(Added(parts, i, e)) = n
  BY <1>1, <1>5
<1>7. At(Added(parts, i, e), i) = Append(At(parts, i), e)
  BY <1>1, <1>5, <1>6 DEF At
<1>8. ASSUME NEW k \in Nat \ {i}
      PROVE  At(Added(parts, i, e), k) = At(parts, k)
  <2>1. CASE k < n
    <3>1. k + 1 \in 1 .. n /\ k + 1 # i + 1
      BY <1>1, <2>1
    <3>2. Added(parts, i, e)[k + 1] = IF k + 1 <= Len(parts) THEN parts[k + 1] ELSE <<>>
      BY <1>2, <1>5, <3>1
    <3> QED
      BY <1>1, <1>6, <2>1, <3>2 DEF At
  <2>2. CASE ~(k < n)
    BY <1>1, <1>6, <2>2 DEF At
  <2> QED
    BY <2>1, <2>2
<1> QED
  BY <1>6, <1>7, <1>8

\* Entries of one partition are not entries of another.
Apart(parts) ==
  \A i, k \in Nat : i # k =>
    \A j \in 1 .. Len(At(parts, i)) : \A l \in 1 .. Len(At(parts, k)) :
      At(parts, i)[j] # At(parts, k)[l]

Low(p, i) == IF i \in Partitions THEN served[p][i] ELSE 0

\* What holds of a repository that is there.
PortInv(p) ==
  /\ Apart(repos[p])
  /\ \A i \in Nat : Rising(At(repos[p], i), Low(p, i), arrivals)

RepositoryTypes ==
  /\ arrivals \in Nat
  /\ repos \in [Ports -> Seq(Seq(Entries)) \cup {NoRepository}]
  /\ served \in [Ports -> [Partitions -> Nat]]

OrderInv ==
  /\ RepositoryTypes
  /\ \A p \in Ports : \A i \in Partitions : served[p][i] <= arrivals
  /\ \A p \in Ports : Exists(p) => PortInv(p)

LEMMA AtIsSeq ==
  ASSUME NEW parts \in Seq(Seq(Entries)), NEW i \in Nat
  PROVE  At(parts, i) \in Seq(Entries)
BY i < Len(parts) => i + 1 \in 1 .. Len(parts) DEF At

LEMMA RisesFurther ==
  ASSUME NEW s \in Seq(Entries), NEW low, NEW high \in Nat, Rising(s, low, high)
  PROVE  Rising(s, low, high + 1)
<1>1. \A j \in 1 .. Len(s) : s[j][2] \in Nat
  BY EntryNumbers
<1> QED
  BY <1>1 DEF Rising

LEMMA EmptyRises == ASSUME NEW low, NEW high PROVE Rising(<<>>, low, high)
  BY DEF Rising

LEMMA LowIsNat ==
  ASSUME OrderInv, NEW p \in Ports, NEW i \in Nat
  PROVE  Low(p, i) \in Nat /\ Low(p, i) <= arrivals
BY DEF OrderInv, RepositoryTypes, Low

\* A batch that arrives at a partition comes after all that are there.
LEMMA AddedKeeps ==
  ASSUME OrderInv, NEW p \in Ports, Exists(p), NEW i \in Nat, NEW b \in Batches
  PROVE  LET parts == Added(repos[p], i, Entry(b)) IN
         /\ parts \in Seq(Seq(Entries)) /\ Apart(parts)
         /\ \A k \in Nat : Rising(At(parts, k), Low(p, k), arrivals + 1)
<1> DEFINE e == Entry(b)
           parts == Added(repos[p], i, e)
<1>1. /\ repos[p] \in Seq(Seq(Entries)) /\ arrivals \in Nat
      /\ e \in Entries /\ e[2] = arrivals + 1
      /\ PortInv(p)
  BY DEF OrderInv, RepositoryTypes, Exists, Entry, Entries
<1> HIDE DEF e
<1>2. /\ parts \in Seq(Seq(Entries))
      /\ At(parts, i) = Append(At(repos[p], i), e)
      /\ \A k \in Nat \ {i} : At(parts, k) = At(repos[p], k)
  BY <1>1, AddedAt
<1> HIDE DEF parts
<1>3. ASSUME NEW k \in Nat
      PROVE  Rising(At(parts, k), Low(p, k), arrivals + 1)
  <2>1. At(repos[p], k) \in Seq(Entries) /\ Rising(At(repos[p], k), Low(p, k), arrivals)
    BY <1>1, AtIsSeq DEF PortInv
  <2>2. Low(p, k) \in Nat /\ Low(p, k) <= arrivals
    BY LowIsNat
  <2>3. CASE k = i
    BY <1>1, <1>2, <2>1, <2>2, <2>3, AppendRises
  <2>4. CASE k # i
    BY <1>1, <1>2, <2>1, <2>4, RisesFurther
  <2> QED
    BY <2>3, <2>4
<1>4. ASSUME NEW k \in Nat, k # i, NEW j \in 1 .. Len(At(parts, i)), NEW l \in 1 .. Len(At(parts, k))
      PROVE  At(parts, i)[j] # At(parts, k)[l]
  <2> DEFINE s == At(repos[p], i)
             u == At(repos[p], k)
  <2>1. /\ s \in Seq(Entries) /\ u \in Seq(Entries) /\ Rising(u, Low(p, k), arrivals)
        /\ At(parts, i) = Append(s, e) /\ At(parts, k) = u
        /\ \A x \in 1 .. Len(s) : \A y \in 1 .. Len(u) : s[x] # u[y]
    BY <1>1, <1>2, <1>4, AtIsSeq DEF PortInv, Apart
  <2> HIDE DEF s, u
  <2>2. CASE j \in 1 .. Len(s)
    BY <1>4, <2>1, <2>2
  <2>3. CASE j = Len(s) + 1
    <3>1. u[l][2] <= arrivals /\ u[l][2] \in Nat
      BY <1>4, <2>1, EntryNumbers DEF Rising
    <3>2. At(parts, i)[j] = e
      BY <1>1, <2>1, <2>3
    <3> QED
      BY <1>1, <2>1, <3>1, <3>2
  <2>4. j \in 1 .. Len(s) \/ j = Len(s) + 1
    <3>1. Len(s) \in Nat /\ Len(Append(s, e)) = Len(s) + 1
      BY <1>1, <2>1
    <3>2. j \in 1 .. Len(s) + 1
      BY <2>1, <3>1
    <3> QED
      BY <3>1, <3>2
  <2> QED
    BY <2>2, <2>3, <2>4
<1>5. Apart(parts)
  <2> SUFFICES ASSUME NEW k \in Nat, NEW m \in Nat, k # m,
                      NEW j \in 1 .. Len(At(parts, k)), NEW l \in 1 .. Len(At(parts, m))
               PROVE  At(parts, k)[j] # At(parts, m)[l]
    BY DEF Apart
  <2>1. CASE k = i
    BY <1>4, <2>1
  <2>2. CASE m = i
    BY <1>4, <2>2
  <2>3. CASE k # i /\ m # i
    BY <1>1, <1>2, <2>3 DEF PortInv, Apart
  <2> QED
    BY <2>1, <2>2, <2>3
<1> QED
  BY <1>2, <1>3, <1>5 DEF parts, e

\* The partitions of a port when one of them is replaced.
Thinned(p, i, s) == [repos[p] EXCEPT ![i + 1] = s]

\* A partition from which a batch is taken keeps the others.
LEMMA ThinnedKeeps ==
  ASSUME OrderInv, NEW p \in Ports, Exists(p), NEW i \in Nat, i < Len(repos[p]),
         NEW s \in Seq(Entries),
         \A x \in 1 .. Len(s) : \E y \in 1 .. Len(At(repos[p], i)) : s[x] = At(repos[p], i)[y]
  PROVE  /\ Thinned(p, i, s) \in Seq(Seq(Entries)) /\ Apart(Thinned(p, i, s))
         /\ At(Thinned(p, i, s), i) = s
         /\ \A k \in Nat \ {i} : At(Thinned(p, i, s), k) = At(repos[p], k)
<1> DEFINE parts == Thinned(p, i, s)
<1>1. repos[p] \in Seq(Seq(Entries)) /\ PortInv(p)
  BY DEF OrderInv, RepositoryTypes, Exists
<1>2. parts \in Seq(Seq(Entries)) /\ Len(parts) = Len(repos[p])
  BY <1>1 DEF Thinned
<1>3. At(parts, i) = s
  BY <1>1, <1>2 DEF At, Thinned
<1>4. ASSUME NEW k \in Nat \ {i}
      PROVE  At(parts, k) = At(repos[p], k)
  BY <1>1, <1>2 DEF At, Thinned
<1> HIDE DEF parts
<1>5. Apart(parts)
  <2> SUFFICES ASSUME NEW k \in Nat, NEW m \in Nat, k # m,
                      NEW j \in 1 .. Len(At(parts, k)), NEW l \in 1 .. Len(At(parts, m))
               PROVE  At(parts, k)[j] # At(parts, m)[l]
    BY DEF Apart
  <2>1. PICK x \in 1 .. Len(At(repos[p], k)) : At(parts, k)[j] = At(repos[p], k)[x]
    BY <1>3, <1>4
  <2>2. PICK y \in 1 .. Len(At(repos[p], m)) : At(parts, m)[l] = At(repos[p], m)[y]
    BY <1>3, <1>4
  <2>3. At(repos[p], k)[x] # At(repos[p], m)[y]
    BY <1>1 DEF PortInv, Apart
  <2> QED
    BY <2>1, <2>2, <2>3
<1> QED
  BY <1>2, <1>3, <1>4, <1>5 DEF parts

\* A step that leaves some repositories alone and keeps order in the others.
LEMMA PortsStep ==
  ASSUME OrderInv, RepositoryTypes', arrivals <= arrivals',
         \A q \in Ports : \A i \in Partitions : served'[q][i] <= arrivals',
         \A q \in Ports : repos'[q] # NoRepository =>
           \/ repos'[q] = repos[q] /\ served'[q] = served[q]
           \/ /\ Apart(repos'[q])
              /\ \A i \in Nat : Rising(At(repos'[q], i), Low(q, i)', arrivals')
  PROVE  OrderInv'
<1>1. ASSUME NEW q \in Ports, repos'[q] # NoRepository
      PROVE  PortInv(q)'
  <2>1. CASE /\ Apart(repos'[q])
             /\ \A i \in Nat : Rising(At(repos'[q], i), Low(q, i)', arrivals')
    BY <2>1 DEF PortInv
  <2>2. CASE repos'[q] = repos[q] /\ served'[q] = served[q]
    <3>1. /\ PortInv(q) /\ repos[q] \in Seq(Seq(Entries))
          /\ \A i \in Nat : Low(q, i)' = Low(q, i)
      BY <1>1, <2>2 DEF RepositoryTypes, OrderInv, Exists, Low
    <3>2. ASSUME NEW i \in Nat
          PROVE  Rising(At(repos[q], i), Low(q, i), arrivals')
      <4>1. At(repos[q], i) \in Seq(Entries) /\ Rising(At(repos[q], i), Low(q, i), arrivals)
        BY <3>1, AtIsSeq DEF PortInv
      <4>2. \A j \in 1 .. Len(At(repos[q], i)) : At(repos[q], i)[j][2] \in Nat
        BY <4>1, EntryNumbers
      <4>3. arrivals \in Nat /\ arrivals' \in Nat
        BY DEF OrderInv, RepositoryTypes
      <4> QED
        BY <4>1, <4>2, <4>3 DEF Rising
    <3>3. Apart(repos'[q]) /\ \A i \in Nat : Rising(At(repos'[q], i), Low(q, i)', arrivals')
      BY <2>2, <3>1, <3>2 DEF PortInv
    <3> QED
      BY <3>3 DEF PortInv
  <2> QED
    BY <1>1, <2>1, <2>2
<1> QED
  BY <1>1 DEF OrderInv, Exists

LEMMA PutOrder ==
  ASSUME OrderInv, NEW targets \in SUBSET Ports, NEW i \in Nat, NEW b \in Batches,
         repos' = [p \in Ports |-> IF p \in targets /\ Exists(p)
                                     THEN Added(repos[p], i, Entry(b)) ELSE repos[p]],
         arrivals' = arrivals + 1, UNCHANGED served
  PROVE  OrderInv'
<1>0. RepositoryTypes /\ \A q \in Ports : \A k \in Partitions : served[q][k] <= arrivals
  BY DEF OrderInv
<1>1. ASSUME NEW p \in Ports, p \in targets, Exists(p)
      PROVE  /\ repos'[p] \in Seq(Seq(Entries)) /\ Apart(repos'[p])
             /\ \A k \in Nat : Rising(At(repos'[p], k), Low(p, k)', arrivals')
  <2>1. repos'[p] = Added(repos[p], i, Entry(b)) /\ \A k \in Nat : Low(p, k)' = Low(p, k)
    BY <1>1 DEF Low
  <2> QED
    BY <1>1, <2>1, AddedKeeps
<1>2. ASSUME NEW p \in Ports, ~(p \in targets /\ Exists(p))
      PROVE  repos'[p] = repos[p] /\ served'[p] = served[p]
  BY <1>2
<1>3. RepositoryTypes'
  BY <1>0, <1>1, <1>2 DEF RepositoryTypes
<1>4. arrivals <= arrivals' /\ \A q \in Ports : \A k \in Partitions : served'[q][k] <= arrivals'
  BY <1>0 DEF RepositoryTypes
<1> QED
  BY <1>1, <1>2, <1>3, <1>4, PortsStep

LEMMA TakeOrder ==
  ASSUME OrderInv, NEW p \in Ports, NEW i \in Partitions, Exists(p), Partition(p, i) # <<>>,
         NEW s \in Seq(Entries), NEW low \in Nat, low <= arrivals,
         \A x \in 1 .. Len(s) : \E y \in 1 .. Len(Partition(p, i)) : s[x] = Partition(p, i)[y],
         Rising(s, low, arrivals),
         repos' = [repos EXCEPT ![p] = [@ EXCEPT ![i + 1] = s]],
         served' = [served EXCEPT ![p] = [@ EXCEPT ![i] = low]],
         UNCHANGED arrivals
  PROVE  OrderInv'
<1> DEFINE parts == Thinned(p, i, s)
<1>0. /\ RepositoryTypes /\ \A q \in Ports : \A k \in Partitions : served[q][k] <= arrivals
      /\ PortInv(p) /\ Partitions \subseteq Nat /\ repos[p] \in Seq(Seq(Entries))
  BY RepositoryAssumption DEF OrderInv, RepositoryTypes, Exists
<1>1. Partition(p, i) = At(repos[p], i) /\ i < Len(repos[p])
  BY DEF Partition, At
<1>t. \A x \in 1 .. Len(s) : \E y \in 1 .. Len(At(repos[p], i)) : s[x] = At(repos[p], i)[y]
  BY <1>1
<1>2. /\ parts \in Seq(Seq(Entries)) /\ Apart(parts)
      /\ At(parts, i) = s /\ \A k \in Nat \ {i} : At(parts, k) = At(repos[p], k)
  <2>1. i \in Nat /\ i < Len(repos[p])
    BY <1>0, <1>1
  <2> QED
    BY <1>t, <2>1, ThinnedKeeps
<1> HIDE DEF parts
<1>3. repos' = [repos EXCEPT ![p] = parts]
  BY DEF parts, Thinned
<1>4. /\ served'[p][i] = low
      /\ \A k \in Partitions \ {i} : served'[p][k] = served[p][k]
      /\ \A q \in Ports \ {p} : served'[q] = served[q] /\ repos'[q] = repos[q]
      /\ repos'[p] = parts /\ served' \in [Ports -> [Partitions -> Nat]]
  BY <1>0, <1>3 DEF RepositoryTypes
<1>5. RepositoryTypes'
  BY <1>0, <1>2, <1>3, <1>4 DEF RepositoryTypes
<1>6. arrivals <= arrivals' /\ \A q \in Ports : \A k \in Partitions : served'[q][k] <= arrivals'
  <2>1. ASSUME NEW q \in Ports, NEW k \in Partitions
        PROVE  served'[q][k] <= arrivals
    BY <1>0, <1>4, q = p \/ q # p, k = i \/ k # i
  <2> QED
    BY <1>0, <2>1 DEF RepositoryTypes
<1>7. ASSUME NEW k \in Nat
      PROVE  Rising(At(parts, k), Low(p, k)', arrivals')
  <2>1. CASE k = i
    BY <1>2, <1>4, <2>1 DEF Low
  <2>2. CASE k # i
    <3>1. Low(p, k)' = Low(p, k)
      BY <1>4, <2>2 DEF Low
    <3> QED
      BY <1>0, <1>2, <2>2, <3>1 DEF PortInv
  <2> QED
    BY <2>1, <2>2
<1> QED
  BY <1>2, <1>4, <1>5, <1>6, <1>7, PortsStep

LEMMA TailsAreThinner ==
  ASSUME NEW s \in Seq(Entries), s # <<>>
  PROVE  \A x \in 1 .. Len(Tail(s)) : \E y \in 1 .. Len(s) : Tail(s)[x] = s[y]
<1>1. Len(s) \in Nat /\ Len(s) >= 1 /\ Len(Tail(s)) = Len(s) - 1
  OBVIOUS
<1>2. ASSUME NEW x \in 1 .. Len(Tail(s))
      PROVE  x + 1 \in 1 .. Len(s) /\ Tail(s)[x] = s[x + 1]
  BY <1>1
<1> QED
  BY <1>2

LEMMA WithoutIsThinner ==
  ASSUME NEW s \in Seq(Entries), NEW j \in 1 .. Len(s)
  PROVE  \A x \in 1 .. Len(Without(s, j)) : \E y \in 1 .. Len(s) : Without(s, j)[x] = s[y]
<1>1. /\ Len(s) \in Nat /\ Len(Without(s, j)) = Len(s) - 1
      /\ \A k \in 1 .. Len(s) - 1 : Without(s, j)[k] = IF k < j THEN s[k] ELSE s[k + 1]
  BY WithoutIs
<1>2. \A k \in 1 .. Len(s) - 1 : k \in 1 .. Len(s) /\ k + 1 \in 1 .. Len(s)
  BY <1>1
<1> QED
  BY <1>1, <1>2

LEMMA PlacesLeast ==
  ASSUME NEW p \in Ports, NEW i \in Partitions, NEW b \in Batches, Places(p, i, b) # {},
         Partition(p, i) \in Seq(Entries)
  PROVE  Min(Places(p, i, b)) \in 1 .. Len(Partition(p, i)) /\ Partition(p, i) # <<>>
<1>1. Places(p, i, b) \subseteq 1 .. Len(Partition(p, i)) /\ Len(Partition(p, i)) \in Nat
  BY DEF Places
<1>2. IsFiniteSet(1 .. Len(Partition(p, i)))
  BY <1>1, FS_Interval
<1>3. IsFiniteSet(Places(p, i, b))
  BY <1>1, <1>2, FS_Subset
<1>4. Places(p, i, b) \subseteq Int
  BY <1>1
<1> QED
  BY <1>1, <1>3, <1>4, MinIsIn

LEMMA OrderStep ==
  ASSUME OrderInv, RepositoryStep
  PROVE  OrderInv'
<1>0. /\ RepositoryTypes /\ \A q \in Ports : \A k \in Partitions : served[q][k] <= arrivals
      /\ Partitions \subseteq Nat
  BY RepositoryAssumption DEF OrderInv
<1>1. CASE ClearAll
  <2>1. RepositoryTypes' /\ \A q \in Ports : repos'[q] = NoRepository
    BY <1>1 DEF ClearAll, NoneServed, RepositoryTypes
  <2>2. \A q \in Ports : \A k \in Partitions : served'[q][k] <= arrivals'
    BY <1>1 DEF ClearAll, NoneServed
  <2> QED
    BY <2>1, <2>2 DEF OrderInv, Exists
<1>2. ASSUME NEW p \in Ports, NewRepository(p)
      PROVE  OrderInv'
  <2>1. /\ \A q \in Ports \ {p} : repos'[q] = repos[q] /\ served'[q] = served[q]
        /\ repos'[p] = <<>> /\ served'[p] = NoneServed /\ arrivals' = arrivals
        /\ arrivals \in Nat
    BY <1>0, <1>2 DEF NewRepository, RepositoryTypes
  <2>2. RepositoryTypes'
    BY <1>0, <1>2 DEF NewRepository, RepositoryTypes, NoneServed
  <2>3. \A q \in Ports : \A k \in Partitions : served'[q][k] <= arrivals'
    <3>1. ASSUME NEW q \in Ports, NEW k \in Partitions
          PROVE  served'[q][k] <= arrivals
      BY <1>0, <2>1, q = p \/ q # p DEF NoneServed
    <3> QED
      BY <2>1, <3>1
  <2>4. Apart(repos'[p]) /\ \A i \in Nat : Rising(At(repos'[p], i), Low(p, i)', arrivals')
    BY <2>1, EmptyRises DEF Apart, At
  <2> QED
    BY <2>1, <2>2, <2>3, <2>4, PortsStep
<1>3. ASSUME NEW b \in Batches, NEW targets \in SUBSET Ports, PutAll(targets, b)
      PROVE  OrderInv'
  BY <1>3, PutOrder, 0 \in Nat DEF PutAll
<1>4. ASSUME NEW b \in Batches, NEW p \in Ports, NEW i \in Partitions, Put(p, i, b)
      PROVE  OrderInv'
  <2>1. repos' = [q \in Ports |-> IF q \in {p} /\ Exists(q)
                                    THEN Added(repos[q], i, Entry(b)) ELSE repos[q]]
    BY <1>0, <1>4 DEF Put, RepositoryTypes
  <2>2. {p} \in SUBSET Ports /\ i \in Nat /\ arrivals' = arrivals + 1 /\ UNCHANGED served
    BY <1>0, <1>4 DEF Put
  <2> QED
    BY <2>1, <2>2, PutOrder
<1>5. ASSUME NEW p \in Ports, NEW i \in Partitions, Exists(p)
      PROVE  /\ Partition(p, i) \in Seq(Entries) /\ served[p][i] \in Nat
             /\ served[p][i] <= arrivals /\ Rising(Partition(p, i), served[p][i], arrivals)
  <2>1. PortInv(p) /\ repos[p] \in Seq(Seq(Entries)) /\ Partition(p, i) = At(repos[p], i)
    BY <1>0, <1>5 DEF OrderInv, RepositoryTypes, Exists, Partition, At
  <2>2. i \in Nat /\ Low(p, i) = served[p][i]
    BY <1>0 DEF Low
  <2> QED
    BY <1>0, <2>1, <2>2, AtIsSeq DEF PortInv, RepositoryTypes
<1>6. ASSUME NEW b \in Batches, NEW p \in Ports, NEW i \in Partitions, TakeNext(p, i, b)
      PROVE  OrderInv'
  <2> DEFINE s == Tail(Partition(p, i))
             low == Head(Partition(p, i))[2]
  <2>1. Exists(p) /\ Partition(p, i) # <<>>
    BY <1>6 DEF TakeNext
  <2>2. /\ s \in Seq(Entries) /\ low \in Nat /\ low <= arrivals /\ Rising(s, low, arrivals)
        /\ \A x \in 1 .. Len(s) : \E y \in 1 .. Len(Partition(p, i)) : s[x] = Partition(p, i)[y]
    BY <1>5, <2>1, TailRises, TailsAreThinner
  <2>3. repos' = [repos EXCEPT ![p] = [@ EXCEPT ![i + 1] = s]]
    BY <1>0, <1>6, <2>1 DEF TakeNext, Partition, RepositoryTypes
  <2>4. served' = [served EXCEPT ![p] = [@ EXCEPT ![i] = low]] /\ UNCHANGED arrivals
    BY <1>6 DEF TakeNext
  <2> HIDE DEF s, low
  <2> QED
    BY <2>1, <2>2, <2>3, <2>4, TakeOrder
<1>7. ASSUME NEW b \in Batches, NEW p \in Ports, NEW i \in Partitions, TakeById(p, i, b)
      PROVE  OrderInv'
  <2> DEFINE j == Min(Places(p, i, b))
             s == Without(Partition(p, i), j)
             low == served[p][i]
  <2>1. Exists(p) /\ Places(p, i, b) # {} /\ Partition(p, i) \in Seq(Entries)
    BY <1>5, <1>7 DEF TakeById
  <2>2. j \in 1 .. Len(Partition(p, i)) /\ Partition(p, i) # <<>>
    BY <2>1, PlacesLeast
  <2>3. /\ s \in Seq(Entries) /\ low \in Nat /\ low <= arrivals /\ Rising(s, low, arrivals)
        /\ \A x \in 1 .. Len(s) : \E y \in 1 .. Len(Partition(p, i)) : s[x] = Partition(p, i)[y]
    BY <1>5, <2>1, <2>2, WithoutRises, WithoutIsThinner
  <2>4. repos' = [repos EXCEPT ![p] = [@ EXCEPT ![i + 1] = s]]
    BY <1>0, <1>7, <2>1, <2>2 DEF TakeById, Partition, RepositoryTypes
  <2>5. served' = [served EXCEPT ![p] = [@ EXCEPT ![i] = low]] /\ UNCHANGED arrivals
    BY <1>0, <1>7 DEF TakeById, RepositoryTypes
  <2> HIDE DEF s, low, j
  <2> QED
    BY <2>1, <2>2, <2>3, <2>4, <2>5, TakeOrder
<1> QED
  BY <1>1, <1>2, <1>3, <1>4, <1>6, <1>7 DEF RepositoryStep

LEMMA OrderStutter ==
  ASSUME OrderInv, UNCHANGED repositoryVars
  PROVE  OrderInv'
<1>1. repos' = repos /\ arrivals' = arrivals /\ served' = served
  BY DEF repositoryVars
<1>2. ASSUME NEW p \in Ports, Exists(p)
      PROVE  PortInv(p)'
  <2>1. PortInv(p)
    BY <1>2 DEF OrderInv
  <2>2. \A i \in Nat : Low(p, i)' = Low(p, i)
    BY <1>1 DEF Low
  <2> QED
    BY <1>1, <2>1, <2>2 DEF PortInv, Apart
<1> QED
  BY <1>1, <1>2 DEF OrderInv, RepositoryTypes, Exists

LEMMA OrderAlways == RepositorySpec => []OrderInv
<1>1. RepositoryInit => OrderInv
  <2> SUFFICES ASSUME RepositoryInit PROVE OrderInv
    OBVIOUS
  <2>1. RepositoryTypes
    BY DEF RepositoryInit, RepositoryTypes, NoneServed
  <2>2. \A p \in Ports : \A i \in Partitions : served[p][i] <= arrivals
    BY DEF RepositoryInit, NoneServed
  <2> QED
    BY <2>1, <2>2 DEF RepositoryInit, OrderInv, Exists
<1>2. OrderInv /\ [RepositoryStep]_repositoryVars => OrderInv'
  BY OrderStep, OrderStutter
<1> QED
  BY <1>1, <1>2, PTL DEF RepositorySpec

LEMMA OrderIsServed ==
  ASSUME OrderInv
  PROVE  ServedInOrder
<1> SUFFICES ASSUME NEW p \in Ports, Exists(p), NEW i \in Partitions
             PROVE  /\ \A j \in DOMAIN Partition(p, i) : Partition(p, i)[j][2] > served[p][i]
                    /\ \A j, k \in DOMAIN Partition(p, i) :
                         j < k => Partition(p, i)[j][2] < Partition(p, i)[k][2]
  BY DEF ServedInOrder
<1>1. i \in Nat /\ repos[p] \in Seq(Seq(Entries)) /\ served[p][i] \in Nat
  BY RepositoryAssumption DEF OrderInv, RepositoryTypes, Exists
<1>2. Partition(p, i) = At(repos[p], i) /\ Low(p, i) = served[p][i]
  BY <1>1 DEF Partition, At, Low
<1>3. Partition(p, i) \in Seq(Entries) /\ Rising(Partition(p, i), served[p][i], arrivals)
  BY <1>1, <1>2, AtIsSeq DEF OrderInv, PortInv
<1>4. DOMAIN Partition(p, i) = 1 .. Len(Partition(p, i))
  BY <1>3
<1> HIDE DEF Partition
<1> QED
  BY <1>1, <1>3, <1>4 DEF Rising, Entries

\* What stays in a partition stays in the order of arrival, and pop_next never
\* takes a batch that came after one it leaves, whatever the calls of
\* data_repository and its manager (data_repository.hpp:22-44).
THEOREM ArrivalOrderIsKept == RepositorySpec => []ServedInOrder
BY OrderAlways, OrderIsServed, PTL

-----------------------------------------------------------------------------
(* The batches on their way: DataBatch implements the repositories alone *)

\* Whatever threads do to batches and views, the repositories see only calls of
\* their own operations, so what is proved of them holds of the whole.
THEOREM BatchesUseRepositories == Spec => RepositorySpec
<1>1. Init => PlaceInv /\ RepositoryInit
  BY PlacesStart DEF Init
<1>2. PlaceInv /\ [Next]_vars => PlaceInv'
  BY PlacesStep
<1>3. ASSUME PlaceInv, Next
      PROVE  RepositoryStep \/ UNCHANGED repositoryVars
  <2>1. CASE OwnerNext
    BY <2>1 DEF OwnerNext, Discard, Build, Drop, TryTurn, Make, MakeFrom, CheckState, Turn, SetState
  <2>2. CASE ViewNext
    <3>1. PICK v \in Views :
            \/ DropView(v)
            \/ \E w \in Views, mode \in {"ro", "mut"} : Derive(v, w, mode)
            \/ \E r \in Reprs \cup {Null} : SetData(v, r)
            \/ \E r \in Reprs, to \in Kinds : ConvertTo(v, r, to)
            \/ \E t \in Threads, b \in Batches, r \in Reprs :
                 Clone(t, v, b, r) \/ \E to \in Kinds : CloneTo(t, v, b, r, to)
      BY <2>2 DEF ViewNext
    <3>2. \A w \in Views, mode \in {"ro", "mut"} : Derive(v, w, mode) => UNCHANGED repositoryVars
      BY DEF Derive, ViewStep
    <3>3. \A r \in Reprs \cup {Null} : SetData(v, r) => UNCHANGED repositoryVars
      BY DEF SetData, ViewStep
    <3>4. \A r \in Reprs, to \in Kinds : ConvertTo(v, r, to) => UNCHANGED repositoryVars
      BY DEF ConvertTo
    <3>5. \A t \in Threads, b \in Batches, r \in Reprs : Clone(t, v, b, r) => UNCHANGED repositoryVars
      BY DEF Clone, MakeFrom
    <3>6. \A t \in Threads, b \in Batches, r \in Reprs, to \in Kinds :
            CloneTo(t, v, b, r, to) => UNCHANGED repositoryVars
      BY DEF CloneTo, MakeFrom
    <3>7. DropView(v) => UNCHANGED repositoryVars
      BY DEF DropView, ViewStep
    <3> QED
      BY <3>1, <3>2, <3>3, <3>4, <3>5, <3>6, <3>7
  <2>3. CASE RegistryNext
    BY <2>3 DEF RegistryNext, ClearConverters, Register, Unregister, SetConverters
  <2>4. CASE RepositoryNext
    <3>1. ASSUME NEW t \in Threads, ~Free(t)
          PROVE  holds[t] \in Batches
      BY <1>3, <3>1 DEF PlaceInv, Free
    <3>2. CASE ClearAllRepositories
      BY <3>2 DEF ClearAllRepositories, RepositoryStep
    <3>3. CASE \E p \in Ports : AddNewRepository(p)
      BY <3>3 DEF AddNewRepository, RepositoryStep
    <3>4. ASSUME NEW t \in Threads, NEW targets \in SUBSET Ports, Broadcast(t, targets)
          PROVE  RepositoryStep
      BY <3>1, <3>4 DEF Broadcast, RepositoryStep
    <3>5. ASSUME NEW t \in Threads, NEW p \in Ports, NEW i \in Partitions, AddDataBatch(t, p, i)
          PROVE  RepositoryStep
      BY <3>1, <3>5 DEF AddDataBatch, RepositoryStep
    <3>6. ASSUME NEW t \in Threads, NEW p \in Ports, NEW i \in Partitions, NEW b \in Batches,
                 PopNext(t, p, i, b) \/ PopById(t, p, i, b) \/ GetById(t, p, i, b)
          PROVE  RepositoryStep \/ UNCHANGED repositoryVars
      BY <3>6 DEF PopNext, PopById, GetById, Look, RepositoryStep
    <3> QED
      BY <2>4, <3>2, <3>3, <3>4, <3>5, <3>6 DEF RepositoryNext
  <2> QED
    BY <1>3, <2>1, <2>2, <2>3, <2>4 DEF Next
<1>4. UNCHANGED vars => UNCHANGED repositoryVars
  BY DEF vars
<1>5. RepositoryStep \/ UNCHANGED repositoryVars => [RepositoryStep]_repositoryVars
  OBVIOUS
<1> QED
  BY <1>1, <1>2, <1>3, <1>4, <1>5, PTL DEF Spec, RepositorySpec

-----------------------------------------------------------------------------
(* What leaves a port *)

Union(parts, I) == UNION {ToSet(parts[i]) : i \in I}
EntriesIn(parts) == Union(parts, DOMAIN parts)
Lengths(parts) == [i \in DOMAIN parts |-> Len(parts[i])]

\* No entry is twice in a partition.
Distinct(s) == \A j, k \in 1 .. Len(s) : s[j] = s[k] => j = k

LEMMA AsManyAsLong ==
  ASSUME NEW s \in Seq(Entries), Distinct(s)
  PROVE  IsFiniteSet(ToSet(s)) /\ Cardinality(ToSet(s)) = Len(s)
<1>1. Len(s) \in Nat /\ DOMAIN s = 1 .. Len(s) /\ s \in [1 .. Len(s) -> ToSet(s)]
  BY DEF ToSet
<1>2. s \in Bijection(1 .. Len(s), ToSet(s))
  <2>1. s \in Injection(1 .. Len(s), ToSet(s))
    BY <1>1 DEF Distinct, Injection, IsInjective
  <2>2. s \in Surjection(1 .. Len(s), ToSet(s))
    BY <1>1 DEF ToSet, Surjection
  <2> QED
    BY <2>1, <2>2 DEF Bijection
<1>3. ExistsBijection(1 .. Len(s), ToSet(s))
  BY <1>2 DEF ExistsBijection
<1>4. IsFiniteSet(1 .. Len(s)) /\ Cardinality(1 .. Len(s)) = Len(s)
  BY <1>1, FS_Interval
<1> QED
  BY <1>3, <1>4, FS_Bijection

LEMMA DisjointAdd ==
  ASSUME NEW A, NEW B, IsFiniteSet(A), IsFiniteSet(B), A \cap B = {}
  PROVE  IsFiniteSet(A \cup B) /\ Cardinality(A \cup B) = Cardinality(A) + Cardinality(B)
<1>1. /\ IsFiniteSet(A \cup B)
      /\ Cardinality(A \cup B) = Cardinality(A) + Cardinality(B) - Cardinality(A \cap B)
  BY FS_Union, Zenon
<1>2. Cardinality(A \cap B) = 0 /\ Cardinality(A) \in Nat /\ Cardinality(B) \in Nat
  BY FS_EmptySet, FS_CardinalityType
<1> QED
  BY <1>1, <1>2

\* The sizes of the partitions add up to the entries that are there.
LEMMA AsManyAsEntries ==
  ASSUME NEW parts \in Seq(Seq(Entries)), Apart(parts),
         \A i \in DOMAIN parts : Distinct(parts[i])
  PROVE  /\ IsFiniteSet(EntriesIn(parts))
         /\ Cardinality(EntriesIn(parts)) = Sum(Lengths(parts), DOMAIN parts)
<1> DEFINE D == DOMAIN parts
           G == {I \in SUBSET D : /\ IsFiniteSet(Union(parts, I))
                                  /\ Cardinality(Union(parts, I)) = Sum(Lengths(parts), I)}
<1>1. /\ Len(parts) \in Nat /\ D = 1 .. Len(parts) /\ IsFiniteSet(D)
      /\ \A i \in D : parts[i] \in Seq(Entries) /\ Lengths(parts)[i] = Len(parts[i])
                      /\ Lengths(parts)[i] \in Int
  BY FS_Interval DEF Lengths
<1>2. ASSUME NEW I \in SUBSET D, \A J \in SUBSET I : J # I => J \in G
      PROVE  I \in G
  <2>1. CASE I = {}
    BY <2>1, SumEmpty, FS_EmptySet DEF Union
  <2>2. CASE I # {}
    <3>1. PICK k \in I : TRUE
      BY <2>2
    <3> DEFINE J == I \ {k}
               A == Union(parts, J)
               B == ToSet(parts[k])
    <3>2. /\ IsFiniteSet(A) /\ Cardinality(A) = Sum(Lengths(parts), J)
      BY <1>2, J \in SUBSET I, J # I
    <3>3. IsFiniteSet(B) /\ Cardinality(B) = Len(parts[k])
      BY <1>1, AsManyAsLong
    <3>4. A \cap B = {}
      <4> SUFFICES ASSUME NEW x, x \in A, x \in B PROVE FALSE
        OBVIOUS
      <4>1. PICK i \in J : x \in ToSet(parts[i])
        BY DEF Union
      <4>2. /\ DOMAIN parts[i] = 1 .. Len(parts[i]) /\ DOMAIN parts[k] = 1 .. Len(parts[k])
        BY <1>1
      <4>3. PICK j \in 1 .. Len(parts[i]), l \in 1 .. Len(parts[k]) :
              x = parts[i][j] /\ x = parts[k][l]
        BY <4>1, <4>2 DEF ToSet
      <4>4. /\ i - 1 \in Nat /\ k - 1 \in Nat /\ i - 1 # k - 1
            /\ At(parts, i - 1) = parts[i] /\ At(parts, k - 1) = parts[k]
        BY <1>1 DEF At
      <4> QED
        BY <4>3, <4>4 DEF Apart
    <3>5. Union(parts, I) = A \cup B
      BY DEF Union
    <3>6. IsFiniteSet(A \cup B) /\ Cardinality(A \cup B) = Cardinality(A) + Cardinality(B)
      <4> HIDE DEF A, B
      <4> QED
        BY <3>2, <3>3, <3>4, DisjointAdd
    <3>7. Sum(Lengths(parts), I) = Lengths(parts)[k] + Sum(Lengths(parts), J)
      <4>1. IsFiniteSet(I) /\ \A i \in I : Lengths(parts)[i] \in Int
        BY <1>1, FS_Subset
      <4> QED
        BY <4>1, SumSplit
    <3>8. Lengths(parts)[k] = Len(parts[k]) /\ Sum(Lengths(parts), J) \in Int /\ Len(parts[k]) \in Int
      <4>1. IsFiniteSet(J) /\ \A i \in J : Lengths(parts)[i] \in Int
        BY <1>1, FS_Subset, J \subseteq D
      <4> QED
        BY <1>1, <4>1, SumInt
    <3>9. Cardinality(A \cup B) = Sum(Lengths(parts), I)
      <4>1. PICK m \in Int, n \in Int : m = Sum(Lengths(parts), J) /\ n = Len(parts[k])
        BY <3>8
      <4> HIDE DEF A, B, J
      <4> QED
        BY <3>2, <3>3, <3>6, <3>7, <3>8, <4>1
    <3> HIDE DEF A, B, J
    <3> QED
      BY <3>5, <3>6, <3>9
  <2> QED
    BY <2>1, <2>2
<1>3. D \in G
  <2>1. IsFiniteSet(D)
    BY <1>1
  <2>2. \A I \in SUBSET D : (\A J \in SUBSET I : J # I => J \in G) => I \in G
    BY <1>2
  <2> HIDE DEF G, D
  <2>3. \A I \in SUBSET D : I \in G
    BY <2>1, <2>2, SetInduction
  <2> QED
    BY <2>3
<1> QED
  BY <1>3 DEF EntriesIn

LEMMA TotalIsSum ==
  ASSUME NEW p \in Ports, Exists(p), repos[p] \in Seq(Seq(Entries))
  PROVE  TotalSize(p) = Sum(Lengths(repos[p]), DOMAIN repos[p])
<1> DEFINE T == DOMAIN repos[p]
           f == Lengths(repos[p])
           M == MapThenSumSet(LAMBDA i : Len(repos[p][i]), T)
           U(g) == g = [r \in SUBSET T |-> IF r = {} THEN 0
                          ELSE Len(repos[p][First(r)]) + g[r \ {First(r)}]]
<1>1. M = (CHOOSE g : U(g))[T]
  BY DEF MapThenSumSet, MapThenFoldSet, First
<1>2. \A r \in SUBSET T : r # {} => Len(repos[p][First(r)]) = f[First(r)]
  BY FirstIsIn DEF Lengths
<1>3. \A g : U(g) <=> Unfolded(g, f, T)
  BY <1>2 DEF Unfolded
<1>4. IsFiniteSet(T)
  <2>1. T = 1 .. Len(repos[p]) /\ Len(repos[p]) \in Nat
    OBVIOUS
  <2> QED
    BY <2>1, FS_Interval
<1>5. \E g : U(g)
  BY <1>3, <1>4, UnfoldedExists
<1> DEFINE h == CHOOSE g : U(g)
<1>6. U(h)
  BY <1>5
<1>7. Unfolded(h, f, T)
  BY <1>3, <1>6
<1>8. TotalSize(p) = M
  BY DEF TotalSize
<1>9. M = h[T]
  BY <1>1
<1> HIDE DEF h, U, f, T, M
<1>10. h[T] = Sum(f, T)
  BY <1>4, <1>7, SumIsUnfolded
<1> QED
  BY <1>8, <1>9, <1>10 DEF f, T

\* The entries of a repository are those of its partitions.
LEMMA EntriesAreAt ==
  ASSUME NEW parts \in Seq(Seq(Entries)), NEW x
  PROVE  x \in EntriesIn(parts) <=>
           \E i \in Nat : \E j \in 1 .. Len(At(parts, i)) : x = At(parts, i)[j]
<1>1. /\ Len(parts) \in Nat /\ DOMAIN parts = 1 .. Len(parts)
      /\ \A k \in 1 .. Len(parts) : DOMAIN parts[k] = 1 .. Len(parts[k])
  OBVIOUS
<1>2. ASSUME NEW k \in DOMAIN parts, x \in ToSet(parts[k])
      PROVE  \E i \in Nat : \E j \in 1 .. Len(At(parts, i)) : x = At(parts, i)[j]
  <2>1. k - 1 \in Nat /\ At(parts, k - 1) = parts[k]
    BY <1>1 DEF At
  <2>2. \E j \in 1 .. Len(parts[k]) : x = parts[k][j]
    BY <1>1, <1>2 DEF ToSet
  <2> QED
    BY <2>1, <2>2
<1>3. ASSUME NEW i \in Nat, NEW j \in 1 .. Len(At(parts, i)), x = At(parts, i)[j]
      PROVE  x \in EntriesIn(parts)
  <2>1. i + 1 \in DOMAIN parts /\ At(parts, i) = parts[i + 1]
    BY <1>1, <1>3 DEF At
  <2>2. x \in ToSet(parts[i + 1])
    BY <1>1, <1>3, <2>1 DEF ToSet
  <2> QED
    BY <2>1, <2>2 DEF EntriesIn, Union
<1> QED
  BY <1>2, <1>3 DEF EntriesIn, Union

LEMMA RisesDistinct ==
  ASSUME NEW s \in Seq(Entries), NEW low, NEW high, Rising(s, low, high)
  PROVE  Distinct(s)
<1>1. ASSUME NEW j \in 1 .. Len(s), NEW k \in 1 .. Len(s), j < k, s[j] = s[k]
      PROVE  FALSE
  BY <1>1, EntryNumbers DEF Rising
<1> QED
  BY <1>1, LenProperties, \A j, k \in 1 .. Len(s) : j = k \/ j < k \/ k < j DEF Distinct

LEMMA OrderedEntries ==
  ASSUME NEW parts \in Seq(Seq(Entries)), Apart(parts),
         \A i \in Nat : \E low, high : Rising(At(parts, i), low, high)
  PROVE  /\ IsFiniteSet(EntriesIn(parts))
         /\ Cardinality(EntriesIn(parts)) = Sum(Lengths(parts), DOMAIN parts)
<1>1. ASSUME NEW i \in DOMAIN parts
      PROVE  Distinct(parts[i])
  <2>1. i - 1 \in Nat /\ At(parts, i - 1) = parts[i] /\ parts[i] \in Seq(Entries)
    BY DEF At
  <2> QED
    BY <2>1, RisesDistinct
<1> QED
  BY <1>1, AsManyAsEntries

\* What the invariant says of the entries of one port.
LEMMA PortEntries ==
  ASSUME OrderInv, NEW p \in Ports, Exists(p)
  PROVE  /\ repos[p] \in Seq(Seq(Entries)) /\ EntriesOf(p) = EntriesIn(repos[p])
         /\ IsFiniteSet(EntriesIn(repos[p]))
         /\ TotalSize(p) = Cardinality(EntriesOf(p))
<1>1. repos[p] \in Seq(Seq(Entries)) /\ PortInv(p)
  BY DEF OrderInv, RepositoryTypes, Exists
<1>2. Apart(repos[p]) /\ \A i \in Nat : \E low, high : Rising(At(repos[p], i), low, high)
  BY <1>1 DEF PortInv
<1>3. EntriesOf(p) = EntriesIn(repos[p])
  BY DEF EntriesOf, EntriesIn, Union
<1> QED
  BY <1>1, <1>2, <1>3, OrderedEntries, TotalIsSum

\* All entries but one at most are still there.
Nearly(old, new) == \E e : EntriesIn(old) \ {e} \subseteq EntriesIn(new)

LEMMA PutKeeps ==
  ASSUME NEW parts \in Seq(Seq(Entries)), NEW i \in Nat, NEW e \in Entries
  PROVE  Added(parts, i, e) \in Seq(Seq(Entries)) /\ Nearly(parts, Added(parts, i, e))
<1> DEFINE new == Added(parts, i, e)
<1>1. /\ new \in Seq(Seq(Entries)) /\ At(new, i) = Append(At(parts, i), e)
      /\ \A k \in Nat \ {i} : At(new, k) = At(parts, k)
  BY AddedAt
<1> HIDE DEF new
<1>2. ASSUME NEW x, x \in EntriesIn(parts)
      PROVE  x \in EntriesIn(new)
  <2>1. PICK k \in Nat : \E j \in 1 .. Len(At(parts, k)) : x = At(parts, k)[j]
    BY <1>2, EntriesAreAt
  <2>2. PICK j \in 1 .. Len(At(parts, k)) : x = At(parts, k)[j]
    BY <2>1
  <2>3. At(parts, k) \in Seq(Entries)
    BY AtIsSeq
  <2>4. j \in 1 .. Len(At(new, k)) /\ x = At(new, k)[j]
    <3>1. CASE k # i
      BY <1>1, <2>2, <3>1
    <3>2. CASE k = i
      <4> DEFINE old == At(parts, i)
      <4>1. old \in Seq(Entries) /\ j \in 1 .. Len(old) /\ x = old[j] /\ At(new, k) = Append(old, e)
        BY <1>1, <2>2, <2>3, <3>2
      <4> HIDE DEF old
      <4>2. /\ Len(old) \in Nat /\ Len(Append(old, e)) = Len(old) + 1
            /\ Append(old, e)[j] = old[j]
        BY <4>1
      <4> QED
        BY <4>1, <4>2
    <3> QED
      BY <3>1, <3>2
  <2> QED
    BY <1>1, <2>4, EntriesAreAt
<1> QED
  BY <1>1, <1>2 DEF Nearly, new

\* Every entry of s but the one in place j is in t.
AllBut(s, j, t) ==
  \A k \in 1 .. Len(s) : k # j => \E l \in 1 .. Len(t) : s[k] = t[l]

\* A partition that loses the entry in place j.
LEMMA TakeKeeps ==
  ASSUME NEW parts \in Seq(Seq(Entries)), NEW i \in Nat, i < Len(parts), NEW s \in Seq(Entries),
         NEW j, AllBut(At(parts, i), j, s)
  PROVE  /\ [parts EXCEPT ![i + 1] = s] \in Seq(Seq(Entries))
         /\ Nearly(parts, [parts EXCEPT ![i + 1] = s])
<1> DEFINE new == [parts EXCEPT ![i + 1] = s]
<1>1. new \in Seq(Seq(Entries)) /\ Len(new) = Len(parts)
  OBVIOUS
<1>2. At(new, i) = s /\ \A k \in Nat \ {i} : At(new, k) = At(parts, k)
  BY <1>1 DEF At
<1> HIDE DEF new
<1>3. ASSUME NEW x, x \in EntriesIn(parts), x # At(parts, i)[j]
      PROVE  x \in EntriesIn(new)
  <2>1. PICK k \in Nat : \E l \in 1 .. Len(At(parts, k)) : x = At(parts, k)[l]
    BY <1>3, EntriesAreAt
  <2>2. PICK l \in 1 .. Len(At(parts, k)) : x = At(parts, k)[l]
    BY <2>1
  <2>3. \E m \in 1 .. Len(At(new, k)) : x = At(new, k)[m]
    <3>1. CASE k # i
      BY <1>2, <2>2, <3>1
    <3>2. CASE k = i
      <4>1. l \in 1 .. Len(At(parts, i)) /\ l # j /\ x = At(parts, i)[l]
        BY <1>3, <2>2, <3>2
      <4>2. \E m \in 1 .. Len(s) : At(parts, i)[l] = s[m]
        BY <4>1 DEF AllBut
      <4> QED
        BY <1>2, <3>2, <4>1, <4>2
    <3> QED
      BY <3>1, <3>2
  <2> QED
    BY <1>1, <2>3, EntriesAreAt
<1>4. EntriesIn(parts) \ {At(parts, i)[j]} \subseteq EntriesIn(new)
  BY <1>3
<1> QED
  BY <1>1, <1>4 DEF Nearly, new

LEMMA TailKeeps ==
  ASSUME NEW s \in Seq(Entries), s # <<>>
  PROVE  Tail(s) \in Seq(Entries) /\ AllBut(s, 1, Tail(s))
<1>1. /\ Tail(s) \in Seq(Entries) /\ Len(s) \in Nat /\ Len(s) >= 1 /\ Len(Tail(s)) = Len(s) - 1
      /\ \A j \in 1 .. Len(s) - 1 : Tail(s)[j] = s[j + 1]
  OBVIOUS
<1>2. ASSUME NEW k \in 1 .. Len(s), k # 1
      PROVE  k - 1 \in 1 .. Len(Tail(s)) /\ s[k] = Tail(s)[k - 1]
  <2>1. k - 1 \in 1 .. Len(s) - 1 /\ (k - 1) + 1 = k
    BY <1>1, <1>2
  <2> QED
    BY <1>1, <2>1
<1> QED
  BY <1>1, <1>2 DEF AllBut

LEMMA WithoutKeeps ==
  ASSUME NEW s \in Seq(Entries), NEW j \in 1 .. Len(s)
  PROVE  Without(s, j) \in Seq(Entries) /\ AllBut(s, j, Without(s, j))
<1> DEFINE w == Without(s, j)
<1>1. /\ Len(s) \in Nat /\ w \in Seq(Entries) /\ Len(w) = Len(s) - 1
      /\ \A k \in 1 .. Len(s) - 1 : w[k] = IF k < j THEN s[k] ELSE s[k + 1]
  BY WithoutIs
<1> HIDE DEF w
<1>2. ASSUME NEW k \in 1 .. Len(s), k # j
      PROVE  \E l \in 1 .. Len(w) : s[k] = w[l]
  <2>1. CASE k < j
    <3>1. k \in 1 .. Len(s) - 1
      BY <1>1, <2>1
    <3> QED
      BY <1>1, <2>1, <3>1
  <2>2. CASE ~(k < j)
    <3>1. k - 1 \in 1 .. Len(s) - 1 /\ ~(k - 1 < j) /\ (k - 1) + 1 = k
      BY <1>1, <1>2, <2>2
    <3>2. w[k - 1] = s[k]
      BY <1>1, <3>1
    <3> QED
      BY <1>1, <3>1, <3>2
  <2> QED
    BY <2>1, <2>2
<1> QED
  BY <1>1, <1>2 DEF w, AllBut

\* What a step may do to one repository.
LEMMA StepKeeps ==
  ASSUME OrderInv, RepositoryStep, NEW p \in Ports, Exists(p)
  PROVE  \/ ClearAll
         \/ repos'[p] = <<>>
         \/ repos'[p] \in Seq(Seq(Entries)) /\ Nearly(repos[p], repos'[p])
<1>1. /\ repos[p] \in Seq(Seq(Entries)) /\ Partitions \subseteq Nat
      /\ repos \in [Ports -> Seq(Seq(Entries)) \cup {NoRepository}]
  BY RepositoryAssumption DEF OrderInv, RepositoryTypes, Exists
<1>2. Nearly(repos[p], repos[p])
  BY DEF Nearly
<1>3. ASSUME NEW q \in Ports, NewRepository(q)
      PROVE  repos'[p] = <<>> \/ repos'[p] = repos[p]
  BY <1>1, <1>3 DEF NewRepository
<1>4. ASSUME NEW i \in Nat, NEW b \in Batches
      PROVE  /\ Added(repos[p], i, Entry(b)) \in Seq(Seq(Entries))
             /\ Nearly(repos[p], Added(repos[p], i, Entry(b)))
  <2>1. Entry(b) \in Entries
    BY DEF Entry, Entries, OrderInv, RepositoryTypes
  <2> QED
    BY <1>1, <2>1, PutKeeps
<1>5. ASSUME NEW b \in Batches, NEW targets \in SUBSET Ports, PutAll(targets, b)
      PROVE  repos'[p] = Added(repos[p], 0, Entry(b)) \/ repos'[p] = repos[p]
  BY <1>5 DEF PutAll
<1>6. ASSUME NEW b \in Batches, NEW q \in Ports, NEW i \in Partitions, Put(q, i, b)
      PROVE  repos'[p] = Added(repos[p], i, Entry(b)) \/ repos'[p] = repos[p]
  BY <1>1, <1>6 DEF Put
<1>7. ASSUME NEW i \in Partitions, NEW s \in Seq(Entries), NEW j, Partition(p, i) # <<>>,
             AllBut(Partition(p, i), j, s), repos'[p] = [repos[p] EXCEPT ![i + 1] = s]
      PROVE  repos'[p] \in Seq(Seq(Entries)) /\ Nearly(repos[p], repos'[p])
  <2>1. i \in Nat /\ i < Len(repos[p]) /\ Partition(p, i) = At(repos[p], i)
    BY <1>1, <1>7 DEF Partition, At
  <2>2. AllBut(At(repos[p], i), j, s)
    BY <1>7, <2>1
  <2> QED
    BY <1>1, <1>7, <2>1, <2>2, TakeKeeps
<1>8. ASSUME NEW i \in Partitions
      PROVE  Partition(p, i) \in Seq(Entries)
  <2>1. Partition(p, i) = At(repos[p], i) /\ i \in Nat
    BY <1>1 DEF Partition, At
  <2> QED
    BY <1>1, <2>1, AtIsSeq
<1>9. ASSUME NEW b \in Batches, NEW q \in Ports, NEW i \in Partitions, TakeNext(q, i, b)
      PROVE  \/ repos'[p] = repos[p]
             \/ repos'[p] \in Seq(Seq(Entries)) /\ Nearly(repos[p], repos'[p])
  <2>1. CASE q # p
    BY <1>1, <1>9, <2>1 DEF TakeNext
  <2>2. CASE q = p
    <3>1. Partition(p, i) # <<>>
      BY <1>9, <2>2 DEF TakeNext
    <3>2. repos'[p] = [repos[p] EXCEPT ![i + 1] = Tail(Partition(p, i))]
      BY <1>1, <1>9, <2>2, <3>1 DEF TakeNext, Partition
    <3> QED
      BY <1>7, <1>8, <3>1, <3>2, TailKeeps
  <2> QED
    BY <2>1, <2>2
<1>10. ASSUME NEW b \in Batches, NEW q \in Ports, NEW i \in Partitions, TakeById(q, i, b)
       PROVE  \/ repos'[p] = repos[p]
              \/ repos'[p] \in Seq(Seq(Entries)) /\ Nearly(repos[p], repos'[p])
  <2>1. CASE q # p
    BY <1>1, <1>10, <2>1 DEF TakeById
  <2>2. CASE q = p
    <3> DEFINE j == Min(Places(p, i, b))
               s == Without(Partition(p, i), j)
    <3>1. j \in 1 .. Len(Partition(p, i)) /\ Partition(p, i) # <<>>
      BY <1>8, <1>10, <2>2, PlacesLeast DEF TakeById
    <3>2. repos'[p] = [repos[p] EXCEPT ![i + 1] = s]
      BY <1>1, <1>10, <2>2, <3>1 DEF TakeById, Partition
    <3>3. s \in Seq(Entries) /\ AllBut(Partition(p, i), j, s)
      BY <1>8, <3>1, WithoutKeeps
    <3> HIDE DEF j, s
    <3> QED
      BY <1>7, <3>1, <3>2, <3>3
  <2> QED
    BY <2>1, <2>2
<1> QED
  BY <1>1, <1>2, <1>3, <1>4, <1>5, <1>6, <1>9, <1>10, 0 \in Nat DEF RepositoryStep

\* A batch that leaves a port without being handed to a caller goes with its
\* repository, and a repository that clear_all_repositories drops has all its
\* entries in the leak report (data_repository_manager.hpp:66-75).
THEOREM LossesAreReported == RepositorySpec => LossIsReported
<1> DEFINE Reported ==
      \A p \in Ports : Exists(p) =>
        /\ repos'[p] = NoRepository => leaked'[p] = Cardinality(EntriesOf(p))
        /\ repos'[p] \notin {NoRepository, <<>>} =>
             Cardinality(EntriesOf(p)') >= Cardinality(EntriesOf(p)) - 1
<1>1. ASSUME OrderInv, OrderInv', RepositoryStep
      PROVE  Reported
  <2> SUFFICES ASSUME NEW p \in Ports, Exists(p)
               PROVE  /\ repos'[p] = NoRepository => leaked'[p] = Cardinality(EntriesOf(p))
                      /\ repos'[p] \notin {NoRepository, <<>>} =>
                           Cardinality(EntriesOf(p)') >= Cardinality(EntriesOf(p)) - 1
    OBVIOUS
  <2>1. /\ EntriesOf(p) = EntriesIn(repos[p]) /\ IsFiniteSet(EntriesIn(repos[p]))
        /\ TotalSize(p) = Cardinality(EntriesOf(p))
    BY <1>1, PortEntries
  <2>2. CASE ClearAll
    BY <2>1, <2>2 DEF ClearAll
  <2>3. CASE repos'[p] = <<>>
    <3>1. <<>> \in Seq(Seq(Entries))
      OBVIOUS
    <3> QED
      BY <2>3, <3>1, RepositoryAssumption DEF Entries
  <2>4. CASE repos'[p] \in Seq(Seq(Entries)) /\ Nearly(repos[p], repos'[p])
    <3>1. repos'[p] # NoRepository
      BY <2>4, RepositoryAssumption DEF Entries
    <3>2. EntriesOf(p)' = EntriesIn(repos'[p]) /\ IsFiniteSet(EntriesIn(repos'[p]))
      <4>1. Exists(p)'
        BY <3>1 DEF Exists
      <4>2. EntriesOf(p)' = EntriesIn(repos'[p])
        BY <4>1 DEF EntriesOf, EntriesIn, Union
      <4>3. /\ Apart(repos'[p])
            /\ \A i \in Nat : \E low, high : Rising(At(repos'[p], i), low, high)
        BY <1>1, <4>1 DEF OrderInv, PortInv
      <4> QED
        BY <2>4, <4>2, <4>3, OrderedEntries
    <3>3. PICK e : EntriesIn(repos[p]) \ {e} \subseteq EntriesIn(repos'[p])
      BY <2>4 DEF Nearly
    <3>4. /\ IsFiniteSet(EntriesIn(repos[p]) \ {e})
          /\ Cardinality(EntriesIn(repos[p]) \ {e}) >= Cardinality(EntriesIn(repos[p])) - 1
      <4>1. Cardinality(EntriesIn(repos[p])) \in Nat
        BY <2>1, FS_CardinalityType
      <4>2. /\ IsFiniteSet(EntriesIn(repos[p]) \ {e})
            /\ Cardinality(EntriesIn(repos[p]) \ {e}) =
                 IF e \in EntriesIn(repos[p]) THEN Cardinality(EntriesIn(repos[p])) - 1
                                              ELSE Cardinality(EntriesIn(repos[p]))
        BY <2>1, FS_RemoveElement, Zenon
      <4> QED
        BY <4>1, <4>2
    <3>5. Cardinality(EntriesIn(repos[p]) \ {e}) <= Cardinality(EntriesIn(repos'[p]))
      BY <3>2, <3>3, FS_Subset
    <3>6. /\ Cardinality(EntriesIn(repos[p]) \ {e}) \in Nat /\ Cardinality(EntriesIn(repos[p])) \in Nat
          /\ Cardinality(EntriesIn(repos'[p])) \in Nat
      BY <2>1, <3>2, <3>4, FS_CardinalityType
    <3> QED
      BY <2>1, <3>1, <3>2, <3>4, <3>5, <3>6
  <2> QED
    BY <1>1, <2>2, <2>3, <2>4, StepKeeps
<1> QED
  BY <1>1, OrderAlways, PTL DEF RepositorySpec, LossIsReported
=============================================================================
