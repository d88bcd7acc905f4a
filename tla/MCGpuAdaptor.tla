----------------------------- MODULE MCGpuAdaptor -----------------------------
(* Instances of GpuAdaptor for TLC. *)
EXTENDS GpuAdaptor, TLC

CONSTANTS t1, t2, t3, s1, s2, a1, a2, a3

\* Threads and addresses are interchangeable; streams differ in who resets them.
Interchangeable ==
  Permutations(Threads) \cup Permutations(Addresses)
=============================================================================
