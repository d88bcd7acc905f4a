--------------------------- MODULE MCRequestHistory ---------------------------
(* Instances of RequestHistory for TLC. *)
EXTENDS RequestHistory

CONSTANTS t1, t2, t3, s1, s2, h1, h2

FirstThenSecond == <<s1, s2>>
Tighter         == s1 :> 2 @@ s2 :> 1
Single          == s1 :> 1 @@ s2 :> 1
AnySpace        == {{s1, s2}}

Interchangeable == Permutations(Threads) \cup Permutations(Handles)
=============================================================================
