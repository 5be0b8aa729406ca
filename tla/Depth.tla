--------------------------------- MODULE Depth ---------------------------------
(***************************************************************************)
(* pool_depth of depth.py, asked for one pool at each point of the curve   *)
(* build_exit_depth draws: how much of the token sells before the marginal *)
(* price falls below 1 - s.  The solver doubles a bracket until its edge   *)
(* is below the bound, then bisects; when the pool runs out of the other   *)
(* coin first, it bisects on what can still be delivered.                  *)
(*                                                                         *)
(* The pricing function is an input: at each point, the sizes whose price  *)
(* is below the bound (any size get_dy refuses among them), and the sizes  *)
(* the pool cannot deliver.  Nothing says that either set is an interval:  *)
(* the price is a finite difference of integer arithmetic.  One price is   *)
(* compared with every bound, so a wider bound is met at fewer sizes.      *)
(***************************************************************************)
EXTENDS Integers, Sequences

CONSTANTS Solvable,      \* what the solver may be given
          Tol,           \* BISECT_TOL
          MaxIter,       \* BISECT_MAX_ITER
          MaxDoublings   \* BRACKET_DOUBLINGS

ASSUME DepthAssumption ==
    /\ Tol \in Nat /\ MaxIter \in Nat /\ MaxDoublings \in Nat
    /\ \A p \in Solvable : /\ p.balance \in Nat
                           /\ p.below \in Seq(SUBSET Nat)
                           /\ p.drained \in SUBSET Nat
                           /\ \A k \in 1..(Len(p.below) - 1) : p.below[k + 1] \subseteq p.below[k]

VARIABLES pool,       \* the pool being asked
          curve,      \* the depths found, one per point of s
          lo, hi,     \* the bracket
          doublings,
          spent,      \* iterations of the bisection
          phase       \* "widen", "floor", "bisect", "cap", "done" or "raised"

bracket == <<lo, hi, doublings, spent>>
solver == <<pool, curve, bracket, phase>>

\* _below_bound at the point being solved.
Below == pool.below[Len(curve) + 1]

DepthRecords == [kind : {"zero", "bound", "cap"}, depth : Nat, cut : BOOLEAN]

-------------------------------------------------------------------------------
\* Mutant: a call starts from the bracket the last one closed.
Warm == lo' = 0 /\ hi' = hi /\ doublings' = 0 /\ spent' = 0

\* The bracket a call starts from.
Opened == /\ lo' = 0 /\ hi' = 2 * pool.balance
          /\ doublings' = 0 /\ spent' = 0

\* pool_depth returns; the next point of s is a new call.
Answer(kind, size) ==
    /\ curve' = Append(curve, [kind |-> kind, depth |-> size,
                               cut |-> spent = MaxIter])
    /\ phase' = IF Len(curve') = Len(pool.below) THEN "done" ELSE "widen"
    /\ Opened
    /\ UNCHANGED pool

Goto(next) == phase' = next /\ UNCHANGED <<pool, curve>>

Widen ==
    /\ phase = "widen" /\ hi \notin Below /\ hi \notin pool.drained
    /\ hi' = 2 * hi /\ doublings' = doublings + 1
    /\ UNCHANGED <<lo, spent>>
    /\ Goto(IF doublings' > MaxDoublings THEN "raised" ELSE "widen")

\* The pool runs dry before the price bound is met.
RunDry ==
    /\ phase = "widen" /\ hi \notin Below /\ hi \in pool.drained
    /\ Goto("cap") /\ UNCHANGED bracket

Bracketed ==
    /\ phase = "widen" /\ hi \in Below
    /\ Goto("floor") /\ UNCHANGED bracket

NothingSells == phase = "floor" /\ lo \in Below /\ Answer("zero", 0)

Bisect ==
    /\ phase = "floor" /\ lo \notin Below
    /\ Goto("bisect") /\ UNCHANGED bracket

-------------------------------------------------------------------------------
Mid == (lo + hi) \div 2

Close == hi - lo <= Tol \/ spent = MaxIter

\* One iteration: the half that still holds the edge of `out` is kept.
Halve(out) ==
    /\ ~Close
    /\ spent' = spent + 1
    /\ IF Mid \in out THEN hi' = Mid /\ lo' = lo ELSE lo' = Mid /\ hi' = hi
    /\ UNCHANGED <<doublings, pool, curve, phase>>

\* Mutant: the far side of the bracket.
Outer == hi

\* The size that is returned: the side of the bracket that still sells.
Inner == lo

HalvePrice == phase = "bisect" /\ Halve(Below)
HalveCap == phase = "cap" /\ Halve(pool.drained)
MeetBound == phase = "bisect" /\ Close /\ Answer("bound", Inner)
MeetCap == phase = "cap" /\ Close /\ Answer("cap", Inner)

Stopped == phase \in {"done", "raised"} /\ UNCHANGED solver

-------------------------------------------------------------------------------
SolverInit ==
    /\ pool \in Solvable
    /\ curve = <<>>
    /\ lo = 0 /\ hi = 2 * pool.balance
    /\ doublings = 0 /\ spent = 0
    /\ phase = IF pool.below = <<>> THEN "done" ELSE "widen"

SolverNext ==
    \/ Widen \/ RunDry \/ Bracketed \/ NothingSells \/ Bisect
    \/ HalvePrice \/ HalveCap \/ MeetBound \/ MeetCap \/ Stopped

SolverSpec == SolverInit /\ [][SolverNext]_solver
-------------------------------------------------------------------------------
\* Within the tolerance above `size` lies one of `out`, unless the
\* iterations ran out first.
EdgeNear(d, out) ==
    \E z \in out : d.depth <= z /\ (d.cut \/ z - d.depth <= Tol)

\* A depth means what the report says of it, whatever the pricing function
\* does: a size that still sells at the bound (or can still be delivered),
\* with a size that does not within the tolerance above; zero only where
\* nothing sells; never the edge of a bracket that was not closed (depth.py
\* 302-332).
DepthBracketed ==
    \A k \in DOMAIN curve :
        LET d == curve[k]
            below == pool.below[k]
        IN  /\ d.kind = "zero" => d.depth = 0 /\ 0 \in below
            /\ d.kind = "bound" => d.depth \notin below /\ EdgeNear(d, below)
            /\ d.kind = "cap" => /\ d.depth = 0 \/ d.depth \notin pool.drained
                                 /\ EdgeNear(d, pool.drained)

\* Whatever the pricing function does, the depths never fall from one s to the
\* next, which DET-31 (harness.py 1714) and DET-43 compare exactly although each
\* is only known to the tolerance, from a bracket of its own.  A depth that the
\* pool's balance caps is left out: see the README.
CurveRises ==
    \A k \in 1..(Len(curve) - 1) :
        curve[k + 1].kind # "cap" => curve[k].depth <= curve[k + 1].depth
===============================================================================
