-------------------------------- MODULE MCDepth --------------------------------
(***************************************************************************)
(* Pools for Depth: every smooth curve of three points over small sizes,   *)
(* dry from every size on; every rough price function over the first few   *)
(* sizes, whatever its shape; and for three points, every one over the     *)
(* sizes a bracket of the smallest pool can ask for.                       *)
(***************************************************************************)
EXTENDS Depth

CONSTANTS Balances, Top, RoughTop

From(t) == {x \in 0..Top : x >= t}

Rising == {x \in (0..Top) \X (0..Top) \X (0..Top) : x[1] <= x[2] /\ x[2] <= x[3]}

Smooth == {[balance |-> b, below |-> <<From(x[1]), From(x[2]), From(x[3])>>, drained |-> From(d)] :
             b \in Balances, x \in Rising, d \in {4, 9, Top + 1}}

Rough == {[balance |-> 1, below |-> <<B>>, drained |-> D] :
            B \in SUBSET (0..RoughTop), D \in {From(t) : t \in {0, 1, 3, Top + 1}} \cup {{2, 5}, {4}, {0, 8}}}

\* bounds[x]: how many of the three bounds the price at x is below.
Asked == {0, 2, 4, 6, 8}
Under(bounds, k) == {x \in Asked : bounds[x] >= k}
Uneven == {[balance |-> 1, drained |-> D,
            below |-> <<Under(bounds, 1), Under(bounds, 2), Under(bounds, 3)>>] :
               bounds \in [Asked -> 0..3], D \in SUBSET {4, 8}}

MCSolvable == Smooth \cup Rough \cup Uneven
===============================================================================
