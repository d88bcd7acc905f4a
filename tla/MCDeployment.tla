----------------------------- MODULE MCDeployment -----------------------------
(* Machines with up to three GPUs on two boards, two GPUs of one board being  *)
(* functions of it; drm devices in every order, some without a slot, some     *)
(* with files missing or unreadable.                                          *)
EXTENDS Deployment, TLC

CONSTANTS A, B

Slot(board, f) == [board |-> board, function |-> f]

GpuLayouts ==
  {<<>>, 0 :> Slot(A, 0) @@ 1 :> None,
   0 :> Slot(B, 0) @@ 1 :> Slot(A, 0) @@ 2 :> Slot(A, 1)}

PeerLayouts == {{<<0, 1>>}, {<<0, 1>>, <<1, 0>>, <<1, 2>>, <<2, 1>>, <<2, 0>>}}

NumaLayouts == {A :> 0 @@ B :> 1, A :> 1 @@ B :> 1, A :> 0 @@ B :> -1}

\* What drm may show of a board: its device, with files that may be missing.
Shown(numa, board) ==
  {[slot |-> Slot(board, 0), numa |-> n, cpus |-> IF n = None THEN None ELSE board] :
     n \in {numa[board], None, Garbage}}

Hidden == [slot |-> None, numa |-> 0, cpus |-> None]

Pairs(first, second, P) == {P[1] :> x @@ P[2] :> y : x \in first, y \in second}

RenderLayouts(numa) ==
  UNION {Pairs(Shown(numa, A), Shown(numa, B), <<128, 129>>),
         Pairs(Shown(numa, B), Shown(numa, A), <<128, 129>>),
         Pairs({Hidden}, Shown(numa, A), <<128, 129>>)}

CardLayouts(numa) ==
  {f \in Pairs(Shown(numa, A), Shown(numa, B), <<0, 1>>)
        \cup Pairs(Shown(numa, B), Shown(numa, A), <<0, 1>>) :
     Garbage \notin {f[0].numa, f[1].numa}}

AllMachines ==
  UNION {{[gpus |-> g, peers |-> p, render |-> r, card |-> c, numa |-> n] :
            g \in GpuLayouts, p \in PeerLayouts,
            r \in RenderLayouts(n), c \in CardLayouts(n)} : n \in NumaLayouts}

\* The defaults, a count, ids out of order with a gap and one twice; host and disk.
AllSetups ==
  {[ids |-> x[1], count |-> x[2], totalHost |-> x[3], perHost |-> x[4], disk |-> x[5]] :
     x \in {<< <<>>, 0, 0, 2, 1>>, << <<>>, 2, 1, 2, 0>>,
            << <<2, 0, 2>>, 1, 0, 0, 0>>, << <<2, 0, 2>>, 0, 1, 0, 1>>}}
=============================================================================
