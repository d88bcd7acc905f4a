-------------------------- MODULE ReservationManager --------------------------
(***************************************************************************)
(* The reservation manager                                                 *)
(* cucascade/memory/memory_reservation_manager.hpp over its memory spaces. *)
(*                                                                         *)
(* request_reservation walks the spaces in the order of their              *)
(* configuration: a first pass asks the first matching space that seems to *)
(* have room and gives up when the room is lost to another thread, then a  *)
(* second pass asks the first matching space only.  The count of active    *)
(* reservations goes up in request_reservation and down in the release     *)
(* callback, unless shutdown has raised the flag the callback looks at.    *)
(***************************************************************************)
EXTENDS MemorySpace, Sequences, SequencesExt

CONSTANTS
  Order,        \* all_spaces_: the spaces in the order of their configuration
  Strategies,   \* the sets of spaces that request strategies match
  CountMax      \* SIZE_MAX, for active_reservations_

ASSUME ManagerAssumption ==
  /\ Order \in Seq(Spaces) /\ IsInjective(Order)
  /\ Strategies \subseteq SUBSET Spaces
  /\ CountMax \in Nat

VARIABLES
  active,    \* active_reservations_
  flag,      \* *shutdown_flag_
  standing,  \* the spaces exist: shutdown has not cleared spaces_
  request    \* strategy, size and position of each thread's request

managerVars == <<active, flag, standing, request>>
allVars     == <<spaceVars, managerVars>>

NoRequest == [matches |-> {}, bytes |-> 0, at |-> 0]

\* The first position from i on whose space matches; 0 if there is none.
NextMatch(matches, i) ==
  LET found == {k \in i .. Len(Order) : Order[k] \in matches}
  IN  IF found = {} THEN 0 ELSE Min(found)

ManagerInit ==
  /\ SpaceInit
  /\ active = 0
  /\ flag = FALSE
  /\ standing = TRUE
  /\ request = [t \in Threads |-> NoRequest]

\* Threads inside request_reservation.
Requesting == {t \in Threads : request[t] # NoRequest}

-----------------------------------------------------------------------------
(* request_reservation *)

Asks(t, op, s) == call' = [call EXCEPT ![t] = Call(op, s, request[t].bytes, TRUE)]

\* A request no space matches throws at once and changes nothing.
Request(t, matches, n) ==
  /\ pc[t] = "idle"
  /\ HandleLeft
  /\ NextMatch(matches, 1) # 0
  /\ request' = [request EXCEPT ![t] =
       [matches |-> matches, bytes |-> n, at |-> NextMatch(matches, 1)]]
  /\ Enter(t, Call("scan", NoSpace, n, TRUE))
  /\ Goto(t, "scan")
  /\ UNCHANGED <<ledger, handles, active, flag, standing>>

\* First pass: get_available_memory() of the next matching space, a load of
\* its counter and one of its limit.
ScanLoad(t) ==
  /\ pc[t] = "scan"
  /\ request[t].at # 0
  /\ Enter(t, [call[t] EXCEPT !.seen = reserved[Order[request[t].at]]])
  /\ Goto(t, "hint")
  /\ UNCHANGED <<ledger, handles, managerVars>>

ScanHint(t) ==
  LET s == Order[request[t].at] IN
  /\ pc[t] = "hint"
  /\ \/ /\ Room(s, call[t].seen) >= request[t].bytes
        /\ Asks(t, "make", s)
        /\ Goto(t, "load")
        /\ UNCHANGED request
     \/ /\ Room(s, call[t].seen) < request[t].bytes
        /\ request' = [request EXCEPT ![t].at = NextMatch(request[t].matches, @ + 1)]
        /\ Goto(t, "scan")
        /\ UNCHANGED call
  /\ UNCHANGED <<ledger, handles, active, flag, standing>>

\* Second pass: make_reservation_or_null on the first matching space.  It
\* follows a first pass without a hint, or whose make_reservation threw.
SecondPass(t) ==
  /\ \/ pc[t] = "scan" /\ request[t].at = 0
     \/ pc[t] = "refused" /\ call[t].op = "make"
  /\ Asks(t, "orNull", Order[NextMatch(request[t].matches, 1)])
  /\ Goto(t, "load")
  /\ UNCHANGED <<ledger, handles, managerVars>>

AnswerNull(t) ==
  /\ pc[t] = "refused"
  /\ call[t].op = "orNull"
  /\ Return(t)
  /\ request' = [request EXCEPT ![t] = NoRequest]
  /\ UNCHANGED <<ledger, handles, active, flag, standing>>

\* fetch_add of active_reservations_, before the handle is returned.
CountUp(t) ==
  /\ pc[t] = "countUp"
  /\ active' = (active + 1) % (CountMax + 1)
  /\ Goto(t, "made")
  /\ UNCHANGED <<ledger, handles, call, flag, standing, request>>

-----------------------------------------------------------------------------
(* The release callback *)

\* Mutation: the callback does not look at the flag.
CallbackUnflagged(t) ==
  /\ pc[t] = "callback"
  /\ Goto(t, "countDown")
  /\ UNCHANGED <<ledger, handles, call, managerVars>>

Callback(t) ==
  /\ pc[t] = "callback"
  /\ IF flag THEN Return(t) ELSE Goto(t, "countDown") /\ UNCHANGED call
  /\ UNCHANGED <<ledger, handles, managerVars>>

\* Mutation: the count is not touched by the callback.
CountDownForgotten(t) ==
  /\ pc[t] = "countDown"
  /\ Return(t)
  /\ UNCHANGED <<ledger, handles, managerVars>>

CountDown(t) ==
  /\ pc[t] = "countDown"
  /\ active' = (active - 1) % (CountMax + 1)
  /\ Return(t)
  /\ UNCHANGED <<ledger, handles, flag, standing, request>>

-----------------------------------------------------------------------------
(* shutdown *)

\* Shutting down while another thread walks the spaces is outside the contract
\* (the vectors are not locked); releases may be under way.
ShutdownFlag(t) ==
  /\ pc[t] = "idle"
  /\ ~flag
  /\ \A u \in Threads : call[u].op \in {"none", "release"}
  /\ flag' = TRUE
  /\ Enter(t, Call("shutdown", NoSpace, 0, FALSE))
  /\ Goto(t, "clear")
  /\ UNCHANGED <<ledger, handles, active, standing, request>>

\* The views and the spaces are cleared.
ShutdownClear(t) ==
  /\ pc[t] = "clear"
  /\ standing' = FALSE
  /\ Goto(t, "zero")
  /\ UNCHANGED <<ledger, handles, call, active, flag, request>>

ShutdownZero(t) ==
  /\ pc[t] = "zero"
  /\ active' = 0
  /\ Return(t)
  /\ UNCHANGED <<ledger, handles, flag, standing, request>>

\* release_reservation of a space that is gone: whatever it reads and writes
\* there is nobody's state any more.
ReleaseIntoNowhere(t) ==
  /\ pc[t] \in {"releaseLoad", "releaseCas"}
  /\ ~standing
  /\ Released(t)
  /\ UNCHANGED <<ledger, handles, managerVars>>

-----------------------------------------------------------------------------

\* A handle is delivered by a call of the space, or ends a request.
SpaceStepWithin(t) ==
  /\ standing
  /\ SpaceStep(t)
  /\ request' = IF pc[t] = "made" THEN [request EXCEPT ![t] = NoRequest] ELSE request
  /\ UNCHANGED <<active, flag, standing>>

\* Once the flag is up, the spaces are about to go: only releases start.
SpaceStartWithin(t) ==
  /\ \/ ~flag /\ SpaceStart(t)
     \/ flag /\ \E h \in Handles : Release(t, h)
  /\ UNCHANGED managerVars

ManagerStep(t) ==
  \/ ScanLoad(t) \/ ScanHint(t) \/ SecondPass(t) \/ AnswerNull(t)
  \/ CountUp(t) \/ Callback(t) \/ CountDown(t)
  \/ ShutdownClear(t) \/ ShutdownZero(t) \/ ReleaseIntoNowhere(t)
  \/ SpaceStepWithin(t)

ManagerStart(t) ==
  \/ \E matches \in Strategies, n \in Requests : ~flag /\ Request(t, matches, n)
  \/ ShutdownFlag(t)
  \/ SpaceStartWithin(t)

ManagerNext == \E t \in Threads : ManagerStep(t) \/ ManagerStart(t)

ManagerSpec == ManagerInit /\ [][ManagerNext]_allVars

-----------------------------------------------------------------------------
(* Properties *)

\* Reservations made through the manager that are on their way in or out.
Moving ==
  {t \in Threads : call[t].managed /\
     pc[t] \in {"made", "releaseLoad", "releaseCas", "callback", "countDown"}}

\* Until shutdown, active_reservations_ is the number of reservations made by
\* the manager that have not run their callback (lines 209-211).
CountIsExact == ~flag => active = Cardinality(counted) + Cardinality(Moving)

\* Callbacks that have read the flag before shutdown raised it.
Passed == {t \in Threads : pc[t] = "countDown"}
=============================================================================
