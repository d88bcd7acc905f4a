---------------------------- MODULE RequestHistory ----------------------------
(***************************************************************************)
(* ReservationManager with what claims about the course of a call need:    *)
(* for each request and space, the most that was reserved and the smallest *)
(* limit that was in force at any moment since the request began; and the  *)
(* release callbacks that shutdown overtook.                               *)
(***************************************************************************)
EXTENDS ReservationManager

VARIABLES
  most,       \* the most each space had reserved while a thread was requesting
  least,      \* the smallest limit each space had meanwhile
  overtaken   \* threads between the flag and the count when shutdown zeroed it

history == <<most, least, overtaken>>

\* The extremes of threads that request nothing are not kept.
Unwatched == [s \in Spaces |-> 0]

HistoryInit ==
  /\ ManagerInit
  /\ most = [t \in Threads |-> Unwatched]
  /\ least = [t \in Threads |-> Unwatched]
  /\ overtaken = {}

Watch(t) ==
  CASE request'[t] = NoRequest -> <<Unwatched, Unwatched>>
    [] request'[t] # NoRequest /\ request[t] = NoRequest -> <<reserved', limit'>>
    [] OTHER -> << [s \in Spaces |-> Max({most[t][s], reserved'[s]})],
                   [s \in Spaces |-> Min({least[t][s], limit'[s]})] >>

HistoryNext ==
  /\ ManagerNext
  /\ most' = [t \in Threads |-> Watch(t)[1]]
  /\ least' = [t \in Threads |-> Watch(t)[2]]
  /\ overtaken' = IF \E t \in Threads : pc[t] = "zero" /\ pc'[t] = "idle"
                    THEN Passed ELSE overtaken

HistorySpec == HistoryInit /\ [][HistoryNext]_<<allVars, history>>

-----------------------------------------------------------------------------
(* Properties *)

AboutToAnswerNull(t) == pc[t] = "refused" /\ call[t].op = "orNull"

\* Spaces that match the request of a thread and had room for it throughout:
\* the largest charge and the smallest limit of that time leave enough.
RoomThroughout(t) ==
  {s \in request[t].matches : most[t][s] + request[t].bytes <= least[t][s]}

\* A null answer means that the first matching space was short of room, by a
\* charge and a limit it had during the request: a stale first pass alone never
\* refuses (lines 128-137, 155-166).  The two need not be of one moment: the loop
\* compares a counter it has loaded with a limit it loads later.
NullMeansFirstWasFull ==
  \A t \in Threads :
    AboutToAnswerNull(t) =>
      Order[NextMatch(request[t].matches, 1)] \notin RoomThroughout(t)

\* The claim of lines 131-137: the second pass "tries every matching space", so
\* that null means that every matching space was short of room.
NullMeansAllWereFull ==
  \A t \in Threads : AboutToAnswerNull(t) => RoomThroughout(t) = {}

ShuttingDown == \E t \in Threads : pc[t] \in {"clear", "zero"}

\* After shutdown the count is 0 but for the callbacks that had read the flag
\* before it was raised and had not subtracted when the count was zeroed: each of
\* them takes one from nothing, in size_t, and no other callback touches the
\* count any more (lines 143-144, 185-200, 212-214).
OnlyOvertakenSpoil ==
  flag /\ ~ShuttingDown =>
    /\ Passed \subseteq overtaken
    /\ active = (0 - Cardinality(overtaken \ Passed)) % (CountMax + 1)

\* The claim of lines 196-200 and 212-214: the count is "reset here so the counter
\* doesn't outlive the spaces", and "late callbacks become no-ops".
ShutdownLeavesNothingCounted == flag /\ ~ShuttingDown => active = 0
=============================================================================
