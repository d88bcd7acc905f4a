------------------------------ MODULE MCStaticSet ------------------------------
(* Instances of StaticSet for TLC: keys whose probe sequences over three      *)
(* slots meet in different orders, wrap around the word, and stay in place.   *)
EXTENDS StaticSet, TLC

CONSTANTS k1, k2, k3, k4, p1, i1, i2

Hashes == k1 :> 0 @@ k2 :> 4 @@ k3 :> 12 @@ k4 :> 15

Interchangeable == Permutations(Inserters)
=============================================================================
