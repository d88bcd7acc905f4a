----------------------------- MODULE MCDataBatch -----------------------------
(* Instances of DataBatch for TLC. *)
EXTENDS DataBatch, TLC

CONSTANTS b1, b2, p1, p2, t1, t2, r1, r2, v1, v2

Spilling == {<<"gpu", "host">>}

Interchangeable ==
  UNION {Permutations(S) : S \in {Batches, Ports, Threads, Reprs, Views}}
=============================================================================
