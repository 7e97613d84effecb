----------------------------- MODULE MCFountain -----------------------------
(* Fountain with small cuts: a message of three fragments and the same in a  *)
(* mode that needs two; every generator for the first, one for the second.  *)
EXTENDS Fountain, TLC

CONSTANTS v3, v6

Lengths == (v3 :> 3) @@ (v6 :> 2)
Mixed   == (SUBSET (1..3)) \ {{}}
SmallFountains ==
    {(v3 :> [n \in 1..Wrap |-> IF n <= 3 THEN {n} ELSE f[n]]) @@
     (v6 :> [n \in 1..Wrap |-> IF n <= 2 THEN {n} ELSE {1, 2}]) :
        f \in [4..Wrap -> Mixed]}
=============================================================================
