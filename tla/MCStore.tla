-------------------------------- MODULE MCStore --------------------------------
(* A small instance of Store: two linkable tokens, of which TLC checks one order. *)
EXTENDS Store, TLC

CONSTANTS crvUSD, GHO

Pair == {crvUSD, GHO}
Alike == Permutations(Pair)
===============================================================================
