----------------------------- MODULE MemorySpace -----------------------------
(***************************************************************************)
(* Admission to memory spaces (cucascade/memory/memory_space.hpp): how     *)
(* make_reservation, make_reservation_or_null and make_reservation_upto    *)
(* charge reserved_memory_ against max_memory_, and how the release        *)
(* callback of a reservation pays it back.  There is no lock: a step is    *)
(* one access to an atomic, with the thread-local work that follows it.    *)
(***************************************************************************)
EXTENDS Integers, FiniteSets, FiniteSetsExt

CONSTANTS
  Threads,
  Spaces,
  Handles,        \* names of reservation handles
  NoSpace,
  InitialLimit,   \* max_memory_ of each space as the application set it up
  NewLimits,      \* what set_max_memory may store while others reserve
  Requests,       \* byte counts asked of make_reservation and _or_null
  UptoRequests    \* byte counts asked of make_reservation_upto

ASSUME SpaceAssumption ==
  /\ IsFiniteSet(Threads) /\ IsFiniteSet(Handles)
  /\ NoSpace \notin Spaces
  /\ InitialLimit \in [Spaces -> Nat]
  /\ NewLimits \subseteq Nat
  /\ Requests \subseteq Nat
  /\ UptoRequests \subseteq Nat

VARIABLES
  reserved,   \* reserved_memory_ of each space
  limit,      \* max_memory_ of each space
  home,       \* the space of each reservation handle; NoSpace: no such handle
  bytes,      \* the bytes its release callback pays back
  counted,    \* handles whose callback belongs to the manager
  pc,
  call        \* the arguments and locals of each thread's call

ledger    == <<reserved, limit>>
handles   == <<home, bytes, counted>>
spaceVars == <<ledger, handles, pc, call>>

-----------------------------------------------------------------------------
(* Calls *)

Call(op, s, n, managed) ==
  [op |-> op, space |-> s, bytes |-> n, managed |-> managed,
   seen |-> 0, grant |-> 0]

NoCall == Call("none", NoSpace, 0, FALSE)

Goto(t, label) == pc' = [pc EXCEPT ![t] = label]
Enter(t, c)    == call' = [call EXCEPT ![t] = c]
Return(t)      == Goto(t, "idle") /\ Enter(t, NoCall)

Held == {h \in Handles : home[h] # NoSpace}

SpaceInit ==
  /\ reserved = [s \in Spaces |-> 0]
  /\ limit = InitialLimit
  /\ home = [h \in Handles |-> NoSpace]
  /\ bytes = [h \in Handles |-> 0]
  /\ counted = {}
  /\ pc = [t \in Threads |-> "idle"]
  /\ call = [t \in Threads |-> NoCall]

-----------------------------------------------------------------------------
(* The admission loops *)

\* Bound: a reservation is only asked for while a handle name is left for it.
HandleLeft ==
  Cardinality(Held)
    + Cardinality({t \in Threads : call[t].op \notin {"none", "release"}})
      < Cardinality(Handles)

Make(t, op, s, n) ==
  /\ pc[t] = "idle"
  /\ HandleLeft
  /\ Enter(t, Call(op, s, n, FALSE))
  /\ Goto(t, "load")
  /\ UNCHANGED <<ledger, handles>>

LoadReserved(t) ==
  /\ pc[t] = "load"
  /\ Enter(t, [call[t] EXCEPT !.seen = reserved[call[t].space]])
  /\ Goto(t, "check")
  /\ UNCHANGED <<ledger, handles>>

\* Mutation: a limit below the counter leaves less than nothing.
RoomUnclamped(s, cur) == limit[s] - cur

\* Mutation: an exact fit counts as too big.
RoomShort(s, cur) == IF limit[s] > cur + 1 THEN limit[s] - cur - 1 ELSE 0

\* What is left of a space whose counter showed cur.
Room(s, cur) == IF limit[s] > cur THEN limit[s] - cur ELSE 0

\* What the call asks for, once it knows what is left.
Share(c, room) ==
  IF c.op = "upto" /\ c.bytes > room THEN room ELSE c.bytes

Fits(c, room) ==
  /\ Share(c, room) <= room
  /\ c.op = "upto" => Share(c, room) # 0

Check(t) ==
  LET room == Room(call[t].space, call[t].seen) IN
  /\ pc[t] = "check"
  /\ Fits(call[t], room)
  /\ Enter(t, [call[t] EXCEPT !.grant = Share(call[t], room)])
  /\ Goto(t, "cas")
  /\ UNCHANGED <<ledger, handles>>

\* make_reservation throws, the others return null.
Refuse(t) ==
  /\ pc[t] = "check"
  /\ ~Fits(call[t], Room(call[t].space, call[t].seen))
  /\ IF call[t].managed
       THEN Goto(t, "refused") /\ UNCHANGED call
       ELSE Return(t)
  /\ UNCHANGED <<ledger, handles>>

\* Mutation: the check of a loaded counter, then a fetch_add.
AdmitWithoutCompare(t) ==
  LET c == call[t] IN
  /\ pc[t] = "cas"
  /\ reserved' = [reserved EXCEPT ![c.space] = @ + c.grant]
  /\ Goto(t, IF c.managed THEN "countUp" ELSE "made")
  /\ UNCHANGED <<limit, handles, call>>

\* The compare-and-swap finds the counter as it was read.
Admit(t) ==
  LET c == call[t] IN
  /\ pc[t] = "cas"
  /\ c.seen = reserved[c.space]
  /\ reserved' = [reserved EXCEPT ![c.space] = @ + c.grant]
  /\ Goto(t, IF c.managed THEN "countUp" ELSE "made")
  /\ UNCHANGED <<limit, handles, call>>

\* Mutation: a failed compare-and-swap does not reload the counter.
AdmitRetryStale(t) ==
  /\ pc[t] = "cas"
  /\ call[t].seen # reserved[call[t].space]
  /\ Goto(t, "check")
  /\ UNCHANGED <<ledger, handles, call>>

\* It fails, reloads the counter, and max_memory_ is read again.
AdmitRetry(t) ==
  /\ pc[t] = "cas"
  /\ call[t].seen # reserved[call[t].space]
  /\ Enter(t, [call[t] EXCEPT !.seen = reserved[call[t].space]])
  /\ Goto(t, "check")
  /\ UNCHANGED <<ledger, handles>>

\* The handle reaches the caller.
Deliver(t, h) ==
  LET c == call[t] IN
  /\ pc[t] = "made"
  /\ home[h] = NoSpace
  /\ home' = [home EXCEPT ![h] = c.space]
  /\ bytes' = [bytes EXCEPT ![h] = c.grant]
  /\ counted' = IF c.managed THEN counted \cup {h} ELSE counted
  /\ Return(t)
  /\ UNCHANGED ledger

-----------------------------------------------------------------------------
(* ~reservation: release_reservation, then the manager's callback if any *)

Release(t, h) ==
  /\ pc[t] = "idle"
  /\ home[h] # NoSpace
  /\ Enter(t, Call("release", home[h], bytes[h], h \in counted))
  /\ Goto(t, "releaseLoad")
  /\ home' = [home EXCEPT ![h] = NoSpace]
  /\ bytes' = [bytes EXCEPT ![h] = 0]
  /\ counted' = counted \ {h}
  /\ UNCHANGED ledger

ReleaseLoad(t) ==
  /\ pc[t] = "releaseLoad"
  /\ Enter(t, [call[t] EXCEPT !.seen = reserved[call[t].space]])
  /\ Goto(t, "releaseCas")
  /\ UNCHANGED <<ledger, handles>>

\* The space is done with the call.
Released(t) ==
  IF call[t].managed THEN Goto(t, "callback") /\ UNCHANGED call ELSE Return(t)

\* Mutation: the difference is stored over whatever the counter holds by now.
UnchargeStore(t) ==
  LET c == call[t] IN
  /\ pc[t] = "releaseCas"
  /\ c.seen >= c.bytes
  /\ reserved' = [reserved EXCEPT ![c.space] = c.seen - c.bytes]
  /\ Released(t)
  /\ UNCHANGED <<limit, handles>>

\* The underflow guard subtracts nothing from a counter that is too low.
Uncharge(t) ==
  LET c == call[t] IN
  /\ pc[t] = "releaseCas"
  /\ c.seen < c.bytes \/ c.seen = reserved[c.space]
  /\ reserved' = IF c.seen < c.bytes THEN reserved
                 ELSE [reserved EXCEPT ![c.space] = @ - c.bytes]
  /\ Released(t)
  /\ UNCHANGED <<limit, handles>>

UnchargeRetry(t) ==
  /\ pc[t] = "releaseCas"
  /\ call[t].seen >= call[t].bytes
  /\ call[t].seen # reserved[call[t].space]
  /\ Enter(t, [call[t] EXCEPT !.seen = reserved[call[t].space]])
  /\ UNCHANGED <<ledger, handles, pc>>

-----------------------------------------------------------------------------

SetMaxMemory(t, s, m) ==
  /\ pc[t] = "idle"
  /\ limit' = [limit EXCEPT ![s] = m]
  /\ UNCHANGED <<reserved, handles, pc, call>>

SpaceStep(t) ==
  \/ LoadReserved(t) \/ Check(t) \/ Refuse(t) \/ Admit(t) \/ AdmitRetry(t)
  \/ \E h \in Handles : Deliver(t, h)
  \/ ReleaseLoad(t) \/ Uncharge(t) \/ UnchargeRetry(t)

SpaceStart(t) ==
  \/ \E s \in Spaces, n \in Requests, op \in {"make", "orNull"} : Make(t, op, s, n)
  \/ \E s \in Spaces, n \in UptoRequests : Make(t, "upto", s, n)
  \/ \E s \in Spaces, m \in NewLimits : SetMaxMemory(t, s, m)
  \/ \E h \in Handles : Release(t, h)

SpaceNext == \E t \in Threads : SpaceStep(t) \/ SpaceStart(t)

SpaceSpec == SpaceInit /\ [][SpaceNext]_spaceVars

\* Every thread inside a call keeps being scheduled; none has to start one.
FairSpaceSpec == SpaceSpec /\ \A t \in Threads : WF_spaceVars(SpaceStep(t))

-----------------------------------------------------------------------------
(* Properties *)

Labels == {"idle", "load", "check", "cas", "made", "refused", "releaseLoad",
           "releaseCas", "scan", "hint", "countUp", "callback", "countDown",
           "clear", "zero"}

CallType ==
  [op : {"none", "make", "orNull", "upto", "release", "scan", "shutdown"},
   space : Spaces \cup {NoSpace}, bytes : Nat, managed : BOOLEAN,
   seen : Nat, grant : Nat]

\* Type invariant: the counters stay size_t values.  The last labels and
\* operations are those of the reservation manager.
TypeOK ==
  /\ reserved \in [Spaces -> Nat]
  /\ limit \in [Spaces -> Nat]
  /\ home \in [Handles -> Spaces \cup {NoSpace}]
  /\ bytes \in [Handles -> Nat]
  /\ counted \subseteq Handles
  /\ pc \in [Threads -> Labels]
  /\ call \in [Threads -> CallType]

\* What an unfinished call stands for in the counter of its space.
InFlight(t) ==
  CASE pc[t] \in {"countUp", "made"} -> call[t].grant
    [] pc[t] \in {"releaseLoad", "releaseCas"} -> call[t].bytes
    [] OTHER -> 0

\* reserved_memory_ is what the handles hold plus what calls are moving: no
\* charge and no release is ever lost to another (lines 112-126, 183-190).
ReservedIsHeld ==
  \A s \in Spaces :
    reserved[s] =
        MapThenSumSet(LAMBDA h : bytes[h], {h \in Handles : home[h] = s})
      + MapThenSumSet(InFlight, {t \in Threads : call[t].space = s})

\* A space never promises more than the largest limit it was given, however
\* charges race with each other and with set_max_memory (lines 112-115).
NeverPastAnyLimit ==
  \A s \in Spaces :
    \E m \in {InitialLimit[s]} \cup NewLimits : reserved[s] <= m

\* make_reservation_upto grants less than it is asked for only if that brings
\* the space to a limit it was given: never less than fits (lines 161-173).
UptoTakesWhatFits ==
  [][\A t \in Threads :
       pc[t] = "cas" /\ pc'[t] \in {"made", "countUp"} /\ call[t].op = "upto" =>
         LET s == call[t].space IN
         \/ reserved'[s] - reserved[s] = call[t].bytes
         \/ reserved'[s] \in {InitialLimit[s]} \cup NewLimits]_spaceVars

\* The call as an atomic ledger of one space sees it.
LedgerKind(t) ==
  CASE pc[t] \in {"load", "cas"} -> "ask"
    [] pc[t] = "check" ->
         IF Fits(call[t], Room(call[t].space, call[t].seen)) THEN "ask" ELSE "refused"
    [] pc[t] \in {"releaseLoad", "releaseCas"} -> "owe"
    [] OTHER -> "none"

LedgerRequest(s, t) ==
  IF call[t].space = s /\ LedgerKind(t) # "none"
    THEN [kind |-> LedgerKind(t), n |-> call[t].bytes]
    ELSE [kind |-> "none", n |-> 0]

Ledger(s) ==
  INSTANCE CapacityLedger
    WITH Callers <- Threads, Limit <- InitialLimit[s], Amounts <- Requests,
         committed <- reserved[s],
         request <- [t \in Threads |-> LedgerRequest(s, t)]

\* Each space admits like an atomic ledger as long as its limit is not changed
\* (run without set_max_memory and without the partial requests).
EachSpaceIsALedger ==
  /\ \A s \in Spaces : Ledger(s)!LedgerInit
  /\ [][\A s \in Spaces :
           Ledger(s)!LedgerNext \/ UNCHANGED Ledger(s)!ledgerVars]_spaceVars

\* A loop that never ends is starved by a thread that completes calls for ever.
LoopsStarveOnlyBehindOthers ==
  \A t \in Threads :
    \/ []<>(pc[t] = "idle")
    \/ \E u \in Threads \ {t} : []<>(pc[u] = "idle") /\ []<>(pc[u] # "idle")
=============================================================================
