--------------------------------- MODULE Totals ---------------------------------
(* The sum of a function's values over a finite set, as Python's sum().         *)
EXTENDS FiniteSetsExt

Total(f, S) == MapThenSumSet(LAMBDA x : f[x], S)
================================================================================
