--------------------------- MODULE CapacityLedger ---------------------------
(***************************************************************************)
(* What do_reserve and do_release promise to their callers, whichever      *)
(* compare-and-swap loops implement them: a request is granted or refused  *)
(* in one atomic step, it is refused only at a moment when it does not     *)
(* fit, and what is paid back had been committed.                          *)
(***************************************************************************)
EXTENDS Integers

CONSTANTS
  Callers,
  Limit,     \* capacity
  Amounts    \* what can be asked for or owed

VARIABLES
  committed,   \* bytes granted and not paid back
  request      \* what each caller is asking for, or owes

ledgerVars == <<committed, request>>

None      == [kind |-> "none", n |-> 0]
Ask(n)    == [kind |-> "ask", n |-> n]
Refused(n) == [kind |-> "refused", n |-> n]
Owe(n)    == [kind |-> "owe", n |-> n]

Becomes(c, r) == request' = [request EXCEPT ![c] = r]

LedgerInit == committed = 0 /\ request = [c \in Callers |-> None]

\* A caller asks for capacity, or finds it has some to pay back.
Submit(c) ==
  /\ request[c] = None
  /\ \E n \in Amounts : Becomes(c, Ask(n)) \/ Becomes(c, Owe(n))
  /\ UNCHANGED committed

Fits(n) == committed + n <= Limit

Grant(c) ==
  /\ request[c].kind = "ask"
  /\ Fits(request[c].n)
  /\ committed' = committed + request[c].n
  /\ Becomes(c, None)

\* The refusal is decided now; the caller may learn of it later.
Refuse(c) ==
  /\ request[c].kind = "ask"
  /\ ~Fits(request[c].n)
  /\ Becomes(c, Refused(request[c].n)) \/ Becomes(c, None)
  /\ UNCHANGED committed

Learn(c) ==
  /\ request[c].kind = "refused"
  /\ Becomes(c, None)
  /\ UNCHANGED committed

Pay(c) ==
  /\ request[c].kind = "owe"
  /\ request[c].n <= committed
  /\ committed' = committed - request[c].n
  /\ Becomes(c, None)

LedgerNext ==
  \E c \in Callers : Submit(c) \/ Grant(c) \/ Refuse(c) \/ Learn(c) \/ Pay(c)

LedgerSpec == LedgerInit /\ [][LedgerNext]_ledgerVars
=============================================================================
