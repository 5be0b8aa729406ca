-------------------------------- MODULE MCSite --------------------------------
(* A small instance of Site: two tokens, a few answers of each kind. *)
EXTENDS Site

TwoTokens == <<"crvUSD", "GHO">>

Body(series, liquidity) == [series |-> series, liquidity |-> liquidity]

\* With and without the liquidity card, and a body that does not validate.
GoodDepegs == {Body(TRUE, TRUE), Body(TRUE, FALSE), Bad}

\* What an edit of the wording meets: the pages of one fetch, and builds after it.
EditsAlone == Edits > 0 => fetches <= 1
===============================================================================
