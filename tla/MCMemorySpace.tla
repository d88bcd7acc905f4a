---------------------------- MODULE MCMemorySpace ----------------------------
(* Instances of MemorySpace for TLC. *)
EXTENDS MemorySpace, TLC

CONSTANTS t1, t2, t3, s1, s2, h1, h2, h3

OneSpace  == s1 :> 3

\* Threads and handle names are interchangeable; spaces have different limits.
Interchangeable == Permutations(Threads) \cup Permutations(Handles)
=============================================================================
