----------------------------- MODULE DiskLimiter -----------------------------
(***************************************************************************)
(* The disk access limiter (cucascade/memory/disk_access_limiter.hpp): an  *)
(* atomic count of the slots in use, taken by try_acquire and given back   *)
(* by release, each a compare-and-swap loop.  A step is one access to the  *)
(* atomic.  Nothing ties a release to an acquisition: a user may release   *)
(* a slot it never had, which the loop of release has to survive.          *)
(***************************************************************************)
EXTENDS Integers, FiniteSets

CONSTANTS
  Users,           \* threads that access the disk
  MaxConcurrent,   \* max_
  MaxStrays        \* bound: the releases of slots their callers do not have

ASSUME DiskLimiterAssumption ==
  /\ IsFiniteSet(Users)
  /\ MaxConcurrent \in Nat /\ MaxStrays \in Nat

VARIABLES
  current,   \* current_
  at,        \* where each user is
  saw,       \* `expected` of try_acquire, `cur` of release
  slots,     \* users whose last try_acquire returned true
  stray,     \* users inside a release of a slot they do not have
  strays     \* history: how many stray releases there were

limiterVars == <<current, at, saw, slots, stray, strays>>

LimiterInit ==
  /\ current = 0
  /\ at = [u \in Users |-> "away"]
  /\ saw = [u \in Users |-> 0]
  /\ slots = {}
  /\ stray = {}
  /\ strays = 0

\* The first load of either loop.
Load(u, loop) ==
  /\ at[u] = "away"
  /\ at' = [at EXCEPT ![u] = loop]
  /\ saw' = [saw EXCEPT ![u] = current]

Done(u) == at' = [at EXCEPT ![u] = "away"]

\* A compare-and-swap that fails loads the count again.
LoseRace(u, loop) ==
  /\ at[u] = loop
  /\ saw[u] # current
  /\ saw' = [saw EXCEPT ![u] = current]
  /\ UNCHANGED <<current, at, slots, stray, strays>>

-----------------------------------------------------------------------------
(* try_acquire *)

StartAcquire(u) ==
  /\ u \notin slots
  /\ Load(u, "acquire")
  /\ UNCHANGED <<current, slots, stray, strays>>

TurnAway(u) ==
  /\ at[u] = "acquire"
  /\ saw[u] >= MaxConcurrent
  /\ Done(u)
  /\ UNCHANGED <<current, saw, slots, stray, strays>>

Take(u) ==
  /\ at[u] = "acquire"
  /\ saw[u] < MaxConcurrent
  /\ saw[u] = current
  /\ current' = current + 1
  /\ slots' = slots \cup {u}
  /\ Done(u)
  /\ UNCHANGED <<saw, stray, strays>>

\* The loop looks at the limit before it looks at the count again.
TakeRetry(u) == saw[u] < MaxConcurrent /\ LoseRace(u, "acquire")

-----------------------------------------------------------------------------
(* release *)

\* The slot is the caller's until it calls.
StartRelease(u) ==
  /\ Load(u, "release")
  /\ slots' = slots \ {u}
  /\ stray' = IF u \in slots THEN stray ELSE stray \cup {u}
  /\ strays' = IF u \in slots THEN strays ELSE strays + 1
  /\ strays' <= MaxStrays
  /\ UNCHANGED current

\* Mutation: the difference is stored over whatever is there by now.
GiveBackStale(u) ==
  /\ at[u] = "release"
  /\ saw[u] > 0
  /\ current' = saw[u] - 1
  /\ stray' = stray \ {u}
  /\ Done(u)
  /\ UNCHANGED <<saw, slots, strays>>

GiveBack(u) ==
  /\ at[u] = "release"
  /\ saw[u] > 0
  /\ saw[u] = current
  /\ current' = current - 1
  /\ stray' = stray \ {u}
  /\ Done(u)
  /\ UNCHANGED <<saw, slots, strays>>

\* Mutation: no guard, one is subtracted from zero.
GiveBackNothingWraps(u) ==
  /\ at[u] = "release"
  /\ saw[u] = 0
  /\ current' = IF current = 0 THEN MaxConcurrent + 1 ELSE current - 1
  /\ stray' = stray \ {u}
  /\ Done(u)
  /\ UNCHANGED <<saw, slots, strays>>

\* The guard: a count of zero stays.
GiveBackNothing(u) ==
  /\ at[u] = "release"
  /\ saw[u] = 0
  /\ stray' = stray \ {u}
  /\ Done(u)
  /\ UNCHANGED <<current, saw, slots, strays>>

GiveBackRetry(u) == saw[u] > 0 /\ LoseRace(u, "release")

-----------------------------------------------------------------------------

LimiterStep(u) ==
  \/ TurnAway(u) \/ Take(u) \/ TakeRetry(u)
  \/ GiveBack(u) \/ GiveBackNothing(u) \/ GiveBackRetry(u)

LimiterNext ==
  \E u \in Users : StartAcquire(u) \/ StartRelease(u) \/ LimiterStep(u)

LimiterSpec == LimiterInit /\ [][LimiterNext]_limiterVars

-----------------------------------------------------------------------------
(* Properties *)

\* Users that have called release for the slot they had and not yet given it up.
Leaving == {u \in Users : at[u] = "release"} \ stray

\* Type invariant: the count has not wrapped, and who has a slot is in no loop.
LimiterTypeOK ==
  /\ current \in 0 .. MaxConcurrent
  /\ at \in [Users -> {"away", "acquire", "release"}]
  /\ saw \in [Users -> 0 .. MaxConcurrent]
  /\ slots \subseteq {u \in Users : at[u] = "away"}
  /\ stray \subseteq {u \in Users : at[u] = "release"}
  /\ strays \in 0 .. MaxStrays

\* At most max_ slots are counted, and no acquisition and no release is lost in
\* the races of the two loops: a slot in use goes uncounted only for a stray release
\* that has given it back, so that each of those lets at most one user too many to
\* the disk, and a user that finds nothing to give back makes up for one (lines 18-41).
CountIsSlots ==
  /\ current <= MaxConcurrent
  /\ Cardinality(slots) + Cardinality(Leaving) + Cardinality(stray) <= current + strays

\* However often somebody releases what it never had, the count never says more
\* than the slots in use: with nobody at the disk, one can be had (the comment,
\* lines 31-35: "try_acquire() would never succeed again").
NeverLocksUp == current <= Cardinality(slots) + Cardinality(Leaving)
=============================================================================
