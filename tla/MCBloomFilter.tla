----------------------------- MODULE MCBloomFilter -----------------------------
(* Instances of BloomFilter for TLC: keys that share bits or blocks, ranges   *)
(* that leave a thread block partly idle, extents whose size wraps.           *)
EXTENDS BloomFilter, TLC

CONSTANTS f1, f2, k1, k2, k3, c1, c2

Hashes == k1 :> 3 @@ k2 :> 9 @@ k3 :> 14

Ranges == {<<>>, <<k1>>, <<k2, k1, k3>>}

Interchangeable == Permutations(Kernels)
=============================================================================
