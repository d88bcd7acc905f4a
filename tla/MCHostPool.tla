---------------------------- MODULE MCHostPool ------------------------------
(* Instances of HostPool for TLC. *)
EXTENDS HostPool, TLC

CONSTANTS t1, t2, t3, a1, a2, b1, b2, b3

\* Threads, addresses and block names are interchangeable.
Interchangeable ==
  Permutations(Threads) \cup Permutations(Arenas) \cup Permutations(Blocks)
=============================================================================
